---------------------------- MODULE PrefillSurfaces ----------------------------
(***************************************************************************)
(* The index surfaces of a prefill forward (attention/deepseek_v4.py): a   *)
(* batch of requests is flattened to one row per token, each row gets the  *)
(* page tables of its request, the sliding window is looked up in a table  *)
(* of SWA pages instead of token by token, and the compressed entries of   *)
(* the groups that end in the batch are published together.  The layers of *)
(* the model follow one another, each storing its tokens and entries       *)
(* before it attends (models/deepseek_v4.py).  Between building and using  *)
(* the surfaces the pool may move pages.                                   *)
(*                                                                         *)
(* A prefill batch is never padded, so it has no dummy request.  The rows  *)
(* a compressor returns are one per token (Compressor); its form with one  *)
(* row per ended group has no caller left.  SWA tables are only built for  *)
(* prefill, hence never cached.                                            *)
(***************************************************************************)
EXTENDS EagerSurfaces, FiniteSets

CONSTANTS
  Batches,    \* prefill batches (LegalBatch)
  Mappings,   \* what the pool may map full pages to (LegalMapping)
  Layers,     \* how many layers the model has
  Ratios      \* compress_ratio of each layer

Caches == {"c4", "c128", "indexer"}
Ratio(cache) == IF cache = "c128" THEN 128 ELSE 4
CachesOf(ratio) == {cache \in Caches : Ratio(cache) = ratio}
ComponentSize(cache) == IF cache = "c128" THEN C128PageSize ELSE C4PageSize

(* A request with the row of the context's page table it was given, the     *)
(* tokens it has in cache and after this forward, and the pages that its    *)
(* cache handle lists, of each kind.                                        *)
LegalRequest(r, maxLen) ==
  /\ r.len \in 1 .. maxLen /\ r.cached \in 0 .. r.len - 1
  /\ r.ctx \in [Cells(MaxSeqLen) -> Int]
  /\ r.pages \in Nat
  /\ r.handle \in [Caches \cup {"swa"} -> [Cells(r.pages) -> Int]]

LegalMapping(m) == m \in [Caches \cup {"swa"} -> [Cells(NumPages) -> Int]]

(* maxLen is max_seqlen_k.                                                   *)
LegalBatch(b) ==
  /\ b.maxLen \in 1 .. MaxSeqLen
  /\ \E n \in Nat \ {0} : DOMAIN b.reqs = Cells(n)
  /\ \A k \in DOMAIN b.reqs : LegalRequest(b.reqs[k], b.maxLen)
  /\ \E k \in DOMAIN b.reqs : b.reqs[k].len = b.maxLen

NoBatch == [reqs |-> << >>, maxLen |-> 0]

PrefillSensible ==
  /\ Configured
  /\ Layers \in Nat /\ Ratios \in [Cells(Layers) -> {0, 4, 128}]
  /\ \A b \in Batches : LegalBatch(b)
  /\ \A m \in Mappings : LegalMapping(m)

-------------------------------------------------------------------------------
(* Flattening: a row is a request and the number of its token in the batch.  *)
Rows(b) ==
  {x \in (DOMAIN b.reqs) \X Cells(MaxSeqLen) : x[2] < b.reqs[x[1]].len - b.reqs[x[1]].cached}

Before(x, y) == x[1] < y[1] \/ (x[1] = y[1] /\ x[2] < y[2])

\* _make_positions
Pos(b, x) == b.reqs[x[1]].cached + x[2]

\* _make_input_tuple, and page_table[input_mapping]
OutLoc(b, x) == b.reqs[x[1]].ctx[Pos(b, x)]

(* What the pool maps a page to, from where it starts.                       *)
PageFrom(mapped, start) ==
  IF start >= 0 /\ start \div PageSize < NumPages THEN mapped[start \div PageSize] ELSE -1
SwaPageFrom(mapped, start) ==
  IF start = DummyToken THEN DummyPage ELSE PageFrom(mapped, start)

(* A row of a page table: the pages of the handle first, then those that     *)
(* are mapped, up to the last page of the request, where none is listed.     *)
Filling(r, listed, width, active) ==
  [i \in Cells(width) |->
     IF i < r.pages /\ listed[i] >= 0 THEN listed[i]
     ELSE IF i < DivCeil(r.len, PageSize) THEN active[i]
     ELSE -1]

\* _build_component_page_table_row
ComponentTable(r, cache, m, width) ==
  Filling(r, r.handle[cache], width,
          [i \in Cells(width) |-> PageFrom(m[cache], r.ctx[i * PageSize])])

\* _build_swa_page_table_row
SwaTable(r, m, width) ==
  Filling(r, r.handle["swa"], width,
          [i \in Cells(width) |-> SwaPageFrom(m["swa"], r.ctx[i * PageSize])])

\* "missing active page mapping"
Missing(r, m, width) ==
  \E i \in Greatest(r.len - Window, 0) \div PageSize .. DivCeil(r.len, PageSize) - 1 :
    SwaTable(r, m, width)[i] < 0

RowOf(b, m, x) ==
  LET r == b.reqs[x[1]]
      width == TableLen(b.maxLen)
  IN  [pos |-> Pos(b, x), outLoc |-> OutLoc(b, x), ctx |-> r.ctx, maxLen |-> b.maxLen,
       swa |-> m["swa"], swaTable |-> SwaTable(r, m, width),
       c4 |-> ComponentTable(r, "c4", m, width),
       c128 |-> ComponentTable(r, "c128", m, width),
       indexer |-> ComponentTable(r, "indexer", m, width)]

\* _make_swa_indices_from_page_table
PagedWindow(s) ==
  [j \in Cells(Window) |-> ComponentLoc(s.swaTable, TableLen(s.maxLen), PageSize, s.pos - j)]

\* _build_metadata, where a prefill batch differs from a decode batch
PrefillSurface(s) == [Eager(s) EXCEPT !.swa = PagedWindow(s)]

\* _make_all_compressed_indices: the entries of a row where there is no GPU,
\* with the longest length of the batch.
ReferenceC128(s, longest) ==
  [j \in Cells(Aligned(Greatest(longest, 1))) |->
     ComponentLoc(s.c128, TableLen(s.maxLen), C128PageSize,
                  IF j < (s.pos + 1) \div 128 THEN j ELSE -1)]

-------------------------------------------------------------------------------
VARIABLES
  mapping,   \* _full_to_swa_page and those of the components
  version,   \* swa_ownership_version
  batch,     \* the batch that is running, or NoBatch
  core,      \* its DSV4CoreAttentionMetadata: rows, surfaces, version
  layer,     \* how many of its layers have attended
  stage,     \* what the next one does next
  stored     \* what it has stored of the batch, in the window and in each cache

prefillVars == <<mapping, version, batch, core, layer, stage, stored>>

NothingStored == [c \in Caches \cup {"swa"} |-> {}]

PrefillInit ==
  /\ mapping \in Mappings /\ version = 0
  /\ batch = NoBatch /\ core = "none" /\ layer = 0
  /\ stage = "swa" /\ stored = NothingStored

(* Pages are allocated or released: a change of SWA pages counts as one of    *)
(* ownership; some releases that change nothing do too.                       *)
Remap(m) ==
  /\ mapping' = m
  /\ \/ version' = version + 1
     \/ version' = version /\ m["swa"] = mapping["swa"]
  /\ UNCHANGED <<batch, core, layer, stage, stored>>

(* prepare_metadata; it raises when a page of a live window is missing.       *)
Prepare(b) ==
  /\ \A k \in DOMAIN b.reqs : ~Missing(b.reqs[k], mapping, TableLen(b.maxLen))
  /\ batch' = b /\ layer' = 0 /\ stage' = "swa"
  /\ core' = [version |-> version,
              row |-> [x \in Rows(b) |-> RowOf(b, mapping, x)],
              surface |-> [x \in Rows(b) |-> PrefillSurface(RowOf(b, mapping, x))]]
  /\ stored' = NothingStored
  /\ UNCHANGED <<mapping, version>>

(* DSV4Attention.forward: the order of a layer's stores before it attends.    *)
Following(ratio, done) ==
  IF done = "swa" /\ ratio = 4 THEN "indexer"
  ELSE IF done = "swa" /\ ratio = 128 THEN "c128"
  ELSE IF done = "indexer" THEN "c4"
  ELSE "attend"

(* Each row's own token goes to its location in the window, if it has one.    *)
StoreTokens ==
  /\ batch # NoBatch /\ layer < Layers /\ stage = "swa"
  /\ stage' = Following(Ratios[layer], "swa")
  /\ stored' = [stored EXCEPT !["swa"] =
       {[entry |-> x, pos |-> core.row[x].pos, loc |-> core.surface[x].swaOut] :
          x \in {y \in DOMAIN core.row : core.surface[y].swaOut >= 0}}]
  /\ UNCHANGED <<mapping, version, batch, core, layer>>

\* _ensure_swa_metadata_current
IsCurrent == core.version = version

(* The attention of a layer; the next one begins, with caches of its own.     *)
Attend ==
  /\ batch # NoBatch /\ layer < Layers /\ stage = "attend"
  /\ IsCurrent
  /\ layer' = layer + 1 /\ stage' = "swa"
  /\ stored' = NothingStored
  /\ UNCHANGED <<mapping, version, batch, core>>

(* A tensor of some rows, in the order of the batch.                          *)
Place(S, x) == Cardinality({y \in S : Before(y, x)})
Listed(S) == [i \in Cells(Cardinality(S)) |-> CHOOSE x \in S : Place(S, x) = i]

\* (positions + 1) % ratio == 0
Boundary(cache) == {x \in DOMAIN core.row : (core.row[x].pos + 1) % Ratio(cache) = 0}

WriteLocs(cache) ==
  LET ends == Listed(Boundary(cache))
      surface == core.surface
  IN  [i \in DOMAIN ends |->
         IF cache = "c4" THEN surface[ends[i]].c4Out
         ELSE IF cache = "c128" THEN surface[ends[i]].c128Out
         ELSE surface[ends[i]].indexerOut]

(* The rows of kv to be stored, of one for each token.  When there are as many *)
(* locations as tokens they are taken to be one for each, else the rows that   *)
(* end a group are picked.                                                     *)
Picked(cache, locs) ==
  IF Cardinality(DOMAIN locs) = Cardinality(DOMAIN core.row)
  THEN Listed(DOMAIN core.row) ELSE Listed(Boundary(cache))

(* compress_norm_rope_store: row, position and location go together, and a    *)
(* location of -1 is dropped.                                                 *)
Stored(cache, rows, locs, n) ==
  {[entry |-> rows[i], pos |-> core.row[rows[i]].pos + 1 - Ratio(cache), loc |-> locs[i]] :
     i \in {k \in Cells(n) : locs[k] >= 0}}

\* store_compressed and store_indexer
Publish(cache) ==
  /\ batch # NoBatch /\ layer < Layers /\ stage = cache
  /\ stage' = Following(Ratios[layer], cache)
  /\ LET locs == WriteLocs(cache)
         rows == Picked(cache, locs)
         n == Least(Cardinality(DOMAIN locs), Cardinality(DOMAIN rows))
     IN  stored' = [stored EXCEPT ![cache] = Stored(cache, rows, locs, n)]
  /\ UNCHANGED <<mapping, version, batch, core, layer>>

PrefillNext ==
  \/ \E m \in Mappings : Remap(m)
  \/ \E b \in Batches : Prepare(b)
  \/ StoreTokens
  \/ Attend
  \/ \E cache \in Caches : Publish(cache)

PrefillSpec == PrefillInit /\ [][PrefillNext]_prefillVars

-------------------------------------------------------------------------------
(* The tokens of a request lie in whole pages of the pool, and a page that    *)
(* its handle lists is the one that is mapped (the invariants of the cache    *)
(* manager, see DecodeTables).                                                *)
Settled(r, m) ==
  /\ \A p \in Cells(r.len) :
       LET start == r.ctx[(p \div PageSize) * PageSize]
       IN  /\ start \in Cells(NumPages * PageSize) /\ start % PageSize = 0
           /\ r.ctx[p] = start + (p % PageSize)
           /\ r.ctx[p] # DummyToken /\ start # DummyToken
  /\ \A i \in Cells(DivCeil(r.len, PageSize)) :
       i < r.pages /\ r.handle["swa"][i] >= 0 =>
         r.handle["swa"][i] = m["swa"][r.ctx[i * PageSize] \div PageSize]

(* Whenever the attention of a prefill runs, whatever the pool has moved since *)
(* its surfaces were built, each row of each request finds its window where a  *)
(* decode of the same token would find it now, and its own token where it is   *)
(* stored.                                                                     *)
WindowsAreCurrent ==
  [][Attend =>
       \A x \in Rows(batch) :
         Settled(batch.reqs[x[1]], mapping) =>
           LET now == Eager(RowOf(batch, mapping, x))
               seen == core.surface[x]
           IN  /\ seen.swaLen = now.swaLen
               /\ \A j \in Cells(now.swaLen) : seen.swa[j] = now.swa[j]
               /\ seen.swaOut = now.swaOut /\ seen.swa[0] = seen.swaOut]_prefillVars

(* A prefill that is not refused has no hole in the window of the last token   *)
(* of a request, the one whose logits are used.                                *)
LastWindowsAreWhole ==
  batch # NoBatch =>
    \A k \in DOMAIN batch.reqs :
      LET r == batch.reqs[k]
          last == <<k, r.len - r.cached - 1>>
      IN  \A j \in Cells(Least(r.len, Window)) : core.surface[last].swa[j] >= 0

\* The location a row's table has for the entry its token ends.
OwnLoc(x, cache) ==
  LET s == core.row[x]
      table == IF cache = "c4" THEN s.c4 ELSE IF cache = "c128" THEN s.c128 ELSE s.indexer
  IN  WriteLoc(table, TableLen(s.maxLen), ComponentSize(cache), Ratio(cache), s.pos)

EntriesOf(cache) ==
  {[entry |-> x, pos |-> core.row[x].pos + 1 - Ratio(cache), loc |-> OwnLoc(x, cache)] :
     x \in {y \in Boundary(cache) : OwnLoc(y, cache) >= 0}}

(* When a layer attends, each cache it reads has been given the entry of every *)
(* group that ends in the batch, of every request, with the position its group *)
(* began at, at the location its own request's pages have for it, and nothing  *)
(* else: the compact locations and the one row per token line up, also when    *)
(* every token ends a group.                                                   *)
EntriesArePublished ==
  [][Attend => \A cache \in CachesOf(Ratios[layer]) : stored[cache] = EntriesOf(cache)]_prefillVars

(* When a layer attends, the tokens of the batch that are in the window of a   *)
(* row have been stored, each where the row looks for it.                      *)
TokensAreStored ==
  [][Attend =>
       \A x \in Rows(batch) :
         Settled(batch.reqs[x[1]], mapping) =>
           \A j \in Cells(Least(x[2] + 1, Window)) :
             core.surface[x].swa[j] >= 0 =>
               [entry |-> <<x[1], x[2] - j>>, pos |-> Pos(batch, x) - j,
                loc |-> core.surface[x].swa[j]] \in stored["swa"]]_prefillVars

(* A row of a prefill looks up each long-range entry where the token that      *)
(* ended its group is stored, on the GPU as in the reference.                  *)
PrefillEntriesAreWhereWritten ==
  batch # NoBatch =>
    \A x \in Rows(batch) :
      LET s == core.row[x]
          Written(i) == WriteLoc(s.c128, TableLen(s.maxLen), C128PageSize, 128, i * 128 + 127)
          longest == s.maxLen \div 128
      IN  \A i \in Cells((s.pos + 1) \div 128) :
            core.surface[x].c128[i] = Written(i) /\ ReferenceC128(s, longest)[i] = Written(i)
===============================================================================

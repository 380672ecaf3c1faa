---------------------------- MODULE DecodeTables ----------------------------
(***************************************************************************)
(* Which physical page a decode reads and writes.  The pages that the      *)
(* CacheManager module counts have names here: the page table of the       *)
(* scheduler holds full pages, the pool maps them to SWA and component     *)
(* pages, the nodes of the prefix cache keep handles, and the attention    *)
(* backend keeps, per row of the request table, the component pages it     *)
(* found last, under a signature of the request.  A decode is prepared     *)
(* from that cache and launched, as a captured graph where there is one,   *)
(* before the previous forward is processed.                               *)
(*                                                                         *)
(* Prompts are read in one forward, and swa_evicted_seqlen is left out: it *)
(* only skips pages that have been released (CacheManager has both).       *)
(***************************************************************************)
EXTENDS RadixTree, PagePool
LOCAL INSTANCE SequencesExt
LOCAL Sets == INSTANCE FiniteSetsExt
LOCAL INSTANCE Functions

CONSTANTS
  Requests,
  Workloads,     \* functions from Requests to [text : page contents, input, output]
  PageSize,
  Window,
  Slots,         \* rows of the request table
  Buckets,       \* batch sizes with captured graphs
  ShortWidth,    \* context width of the "short" graphs
  MaxSeqLen      \* and of the "wide" ones

ASSUME TablesAssumption ==
  /\ IsFiniteSet(Requests) /\ IsFiniteSet(Slots)
  /\ PageSize \in Nat \ {0} /\ Window \in Nat \ {0}
  /\ Buckets \subseteq Nat \ {0} /\ IsFiniteSet(Buckets)
  /\ ShortWidth \in Nat /\ MaxSeqLen \in Nat /\ ShortWidth <= MaxSeqLen
  /\ \A w \in Workloads : \A u \in Requests :
       /\ w[u].input \in Nat \ {0} /\ w[u].output \in Nat \ {0}
       /\ w[u].input + w[u].output <= PageSize * Len(w[u].text)
       /\ w[u].input + w[u].output <= MaxSeqLen

VARIABLES
  pc,         \* "schedule", "allocate", "launch", "process" or "raised"
  pool,       \* the KV pool
  freeFull,   \* CacheManager.free_slots
  tree,       \* the prefix cache
  names,      \* the pages each of its pages stands for
  kind, stage, cached, host, handle,   \* requests, as in CacheManager
  slot,       \* Req.table_idx
  row,        \* the page-table row: full pages, -1 where the tree has none
  batch,      \* the forward being prepared: request -> new length
  flight,     \* the forwards issued and not processed: request -> "prompt", "decode"
  tableCache, \* per slot: [sign, pages], the cached component pages
  table,      \* the component pages of the decode being prepared, by request
  content     \* history: the page of text that a component page was written with

treeVars == <<tree, names>>
reqVars == <<kind, stage, cached, host, handle, slot, row>>
vars == <<pc, pool, freeFull, treeVars, reqVars, batch, flight, tableCache, table, content>>

-------------------------------------------------------------------------------
DivCeil(a, b) == (a + b - 1) \div b
Least(a, b) == IF a <= b THEN a ELSE b
Greatest(a, b) == IF a >= b THEN a ELSE b
Minus(a, b) == IF a >= b THEN a - b ELSE 0

MaxPages == DivCeil(MaxSeqLen, PageSize)
Path(u, n) == Prefix(kind[u].text, n)
HandlePath(u) == Path(u, handle[u])
Resident == {u \in Requests : stage[u] \in {"prefill", "decode", "ended"}}
RemainLen(u) == kind[u].input + kind[u].output - (cached[u] + 1)
Running == {u \in Requests : stage[u] = "decode" /\ RemainLen(u) > 0}
Issued(u) == \E i \in DOMAIN flight : u \in DOMAIN flight[i]
FreeSlots == Slots \ {slot[u] : u \in Resident}
NoTable == <<>>

Entries(u, I) == [i \in 1 .. Len(row[u]) |-> IF i \in I THEN row[u][i] ELSE NoPage]
Valid(entries) == SelectSeq(entries, LAMBDA f : f # NoPage)

\* get_matched_indices: the full pages of a path, -1 where they were released.
MatchedRow(t, ns, path) ==
  [i \in 1 .. Len(path) |-> IF t.page[Prefix(path, i)].full
                            THEN ns[Prefix(path, i)].full ELSE NoPage]

Init ==
  /\ pc = "schedule"
  /\ pool = NewPool
  /\ freeFull = Ascending(FullPages)
  /\ tree = EmptyTree /\ names = [p \in {} |-> 0]
  /\ kind \in Workloads
  /\ stage = [u \in Requests |-> "waiting"]
  /\ cached = [u \in Requests |-> 0] /\ host = [u \in Requests |-> 0]
  /\ handle = [u \in Requests |-> 0]
  /\ slot = [u \in Requests |-> CHOOSE s \in Slots : TRUE]
  /\ row = [u \in Requests |-> <<>>]
  /\ batch = [u \in {} |-> 0] /\ flight = <<>>
  /\ tableCache = [s \in Slots |-> [sign |-> <<>>, pages |-> NoTable]]
  /\ table = [u \in {} |-> NoTable]
  /\ content = [c \in CompPages |-> <<>>]

-------------------------------------------------------------------------------
(* Building a batch. *)

AvailableSize(t) ==
  PageSize * Least(Len(freeFull) + Cardinality(FullPagesIn(t, EvictablePages(t))),
                   Len(pool.freeComp) + Cardinality(EvictablePages(t)))
ReservedSize ==
  Sets!MapThenSumSet(LAMBDA u : RemainLen(u) + PageSize - 1, Running)
  + Sets!MapThenSumSet(LAMBDA u : kind[u].input - cached[u] + kind[u].output,
                       {u \in Requests : stage[u] = "prefill"})

(* A pending request gets a row, locks the prefix it was matched with, and   *)
(* its indices are copied into the row.                                      *)
Admit(u) ==
  LET key    == Path(u, (kind[u].input - 1) \div PageSize)
      walked == TreeWalk(tree, key)
      have   == MatchPrefix(tree, key)
      locked == LockHandle(walked, Path(u, have))
      hit    == have * PageSize
      fits   == kind[u].input - hit + kind[u].output + ReservedSize <= AvailableSize(locked)
  IN
  /\ pc = "schedule" /\ stage[u] = "waiting" /\ FreeSlots # {} /\ fits
  /\ tree' = locked
  /\ \E s \in FreeSlots : slot' = [slot EXCEPT ![u] = s]
  /\ stage' = [stage EXCEPT ![u] = "prefill"]
  /\ cached' = [cached EXCEPT ![u] = hit]
  /\ handle' = [handle EXCEPT ![u] = have]
  /\ row' = [row EXCEPT ![u] = MatchedRow(locked, names, Path(u, have))]
  /\ batch' = [v \in DOMAIN batch \cup {u} |-> IF v = u THEN kind[u].input ELSE batch[v]]
  /\ UNCHANGED <<pc, pool, freeFull, names, kind, host, flight, tableCache, table, content>>

BeginPrefill ==
  /\ pc = "schedule" /\ DOMAIN batch # {}
  /\ pc' = "allocate"
  /\ UNCHANGED <<pool, freeFull, treeVars, reqVars, batch, flight, tableCache, table, content>>

BeginDecode ==
  /\ pc = "schedule" /\ DOMAIN batch = {} /\ Running # {}
  /\ batch' = [u \in Running |-> cached[u] + 1]
  /\ pc' = "allocate"
  /\ UNCHANGED <<pool, freeFull, treeVars, reqVars, flight, tableCache, table, content>>

-------------------------------------------------------------------------------
(* allocate_paged *)

IsDecode == \A u \in DOMAIN batch : stage[u] = "decode"
NewPages(u) == (DivCeil(cached[u], PageSize) + 1) .. DivCeil(batch[u], PageSize)
Needed == Sets!MapThenSumSet(LAMBDA u : Cardinality(NewPages(u)), DOMAIN batch)
Deficit == [full |-> Minus(Needed, Len(freeFull)), comp |-> Minus(Needed, Len(pool.freeComp)),
            swa |-> Minus(Needed, Len(pool.freeSwa))]
Enough == Deficit.full = 0 /\ Deficit.comp = 0 /\ Deficit.swa = 0
OnlySwaIsShort == Deficit.swa > 0 /\ Deficit.full = 0 /\ Deficit.comp = 0
SwaReleasable == \E e \in Leaves(tree) : SwaPagesIn(tree, NodePages(tree, e)) # {}
RoundSize == Greatest(Greatest(Deficit.full, Deficit.comp), Greatest(Deficit.swa, 1))

SwaNames(ps) == {names[p].swa : p \in ps}
CompNames(ps) == {names[p].comp : p \in ps}
FullNames(ps) == {names[p].full : p \in ps}

ReleaseEvictableSwa ==
  /\ pc = "allocate" /\ OnlySwaIsShort /\ SwaReleasable
  /\ \E L \in SwaReleaseSets(tree, Deficit.swa) :
       LET given == SwaPagesIn(tree, PagesOf(tree, L))
       IN  /\ tree' = ReleaseLeafSwa(tree, L)
           /\ pool' = ReleaseSwa(pool, SwaNames(given))
           /\ names' = [p \in DOMAIN names |-> IF p \in given
                         THEN [names[p] EXCEPT !.swa = NoPage] ELSE names[p]]
  /\ UNCHANGED <<pc, freeFull, reqVars, batch, flight, tableCache, table, content>>

(* evict calls back for the handles of a node; then its full pages are freed  *)
(* without them.                                                              *)
EvictNodes ==
  /\ pc = "allocate" /\ ~Enough /\ ~(OnlySwaIsShort /\ SwaReleasable)
  /\ RoundSize <= tree.evictable
  /\ \E E \in EvictableSets(tree, RoundSize) :
       LET gone == PagesOf(tree, E)
           full == FullNames(FullPagesIn(tree, gone))
           released == ReleaseSwa(ReleaseComp(pool, CompNames(gone)),
                                  SwaNames(SwaPagesIn(tree, gone)))
       IN  /\ tree' = Evict(tree, E)
           /\ names' = Restrict(names, DOMAIN names \ gone)
           /\ pool' = OnFreed(released, full, FALSE)
           /\ freeFull' = freeFull \o Ascending(full)
  /\ UNCHANGED <<pc, reqVars, batch, flight, tableCache, table, content>>

AllocationFails ==
  /\ pc = "allocate" /\ ~Enough /\ ~(OnlySwaIsShort /\ SwaReleasable)
  /\ RoundSize > tree.evictable
  /\ pc' = "raised"
  /\ UNCHANGED <<pool, freeFull, treeVars, reqVars, batch, flight, tableCache, table, content>>

-------------------------------------------------------------------------------
(* prepare_metadata of a decode *)

(* _build_component_page_table_row: the pages of the handle, and where it has *)
(* none those that the pool maps the row's full pages to.                     *)
ComponentRow(u, r, p, length) ==
  [i \in 1 .. DivCeil(length, PageSize) |->
     IF i <= handle[u] THEN names[Path(u, i)].comp ELSE Mapped(p.compOf, r[i])]

\* Mutant: the signature does not name the request.
SignatureOfRow(u, length) == <<handle[u], DivCeil(length, PageSize)>>

(* _component_page_table_cache_signature.  A request stands for id(req) and   *)
(* the uid, which no two requests of a server share; the node of a handle is  *)
(* the request's own choice as long as the handle is.                         *)
Signature(u, length) == <<u, handle[u], DivCeil(length, PageSize)>>

\* _refresh_component_page_table_cache_row
Refreshed(u, r, p, length) ==
  IF tableCache[slot[u]].sign = Signature(u, length) THEN tableCache[slot[u]]
  ELSE [sign |-> Signature(u, length), pages |-> ComponentRow(u, r, p, length)]

(* _prepare_batch: the new pages enter the rows and, for a decode, the tables *)
(* are taken from the cache; the ownership version is read.                   *)
Prepare ==
  LET upto(u) == Sets!MapThenSumSet(LAMBDA v : IF v < u THEN Cardinality(NewPages(v)) ELSE 0,
                                    DOMAIN batch)
      fresh  == SubSeq(freeFull, 1, Needed)
      grown  == [u \in Requests |-> IF u \notin DOMAIN batch THEN row[u]
                   ELSE row[u] \o SubSeq(fresh, upto(u) + 1, upto(u) + Cardinality(NewPages(u)))]
      p      == OnPagesAllocated(pool, fresh)
      now    == [u \in DOMAIN batch |-> Refreshed(u, grown[u], p, batch[u])]
  IN
  /\ pc = "allocate" /\ Enough
  /\ freeFull' = SubSeq(freeFull, Needed + 1, Len(freeFull))
  /\ row' = grown
  /\ pool' = [p EXCEPT !.bumped = FALSE]
  /\ IF IsDecode
       THEN /\ table' = [u \in DOMAIN batch |-> now[u].pages]
            /\ tableCache' = [s \in Slots |->
                 IF \E u \in DOMAIN batch : slot[u] = s
                 THEN now[CHOOSE u \in DOMAIN batch : slot[u] = s] ELSE tableCache[s]]
       ELSE UNCHANGED <<table, tableCache>>
  /\ content' = [c \in CompPages |->
                   IF c \in Range(SubSeq(pool.freeComp, 1, Needed)) THEN <<>> ELSE content[c]]
  /\ pc' = "launch"
  /\ UNCHANGED <<treeVars, kind, stage, cached, host, handle, slot, batch, flight>>
-------------------------------------------------------------------------------
(* engine.forward_batch *)

\* The component pages a row of the batch reads and writes: a prefill's tables
\* are built on the spot.
Reads(u) == IF IsDecode THEN table[u] ELSE ComponentRow(u, row[u], pool, batch[u])
Written(u) == {i \in 1 .. DivCeil(batch[u], PageSize) : i > cached[u] \div PageSize}

BatchSize == Cardinality(DOMAIN batch)
Width == Sets!Max({batch[u] : u \in DOMAIN batch})

\* can_use_cuda_graph for a decode, and the context class of pad_batch.
CanUseGraph(n, width) == (\E b \in Buckets : n <= b) /\ width <= MaxSeqLen
ContextWidth(width) == IF width <= ShortWidth THEN ShortWidth ELSE MaxSeqLen

(* A replay raises when its tables are wider than the graph's or the SWA      *)
(* ownership has changed since they were built; eager attention raises in the  *)
(* second case only.                                                           *)
Launches ==
  IsDecode => /\ ~pool.bumped
              /\ CanUseGraph(BatchSize, Width) => Width <= ContextWidth(Width)

(* The forward is on its way, and complete_one advances its requests.  A       *)
(* forward that follows another one in flight is launched before that one is    *)
(* processed.                                                                   *)
Launch ==
  /\ pc = "launch"
  /\ IF Launches
       THEN /\ flight' = Append(flight, [u \in DOMAIN batch |->
                                          IF IsDecode THEN "decode" ELSE "prompt"])
            /\ cached' = [u \in Requests |-> IF u \in DOMAIN batch THEN batch[u] ELSE cached[u]]
            /\ host' = [u \in Requests |-> IF u \in DOMAIN batch /\ ~IsDecode
                                            THEN batch[u] ELSE host[u]]
            /\ stage' = [u \in Requests |-> IF u \in DOMAIN batch THEN "decode" ELSE stage[u]]
            /\ content' = [c \in CompPages |->
                 IF \E u \in DOMAIN batch : \E i \in Written(u) : Reads(u)[i] = c
                 THEN CHOOSE text \in {Path(u, i) : u \in DOMAIN batch, i \in 1 .. MaxPages} :
                        \E u \in DOMAIN batch : \E i \in Written(u) :
                          Reads(u)[i] = c /\ text = Path(u, i)
                 ELSE content[c]]
            /\ pc' = IF flight = <<>> THEN "schedule" ELSE "process"
            /\ UNCHANGED pool
       ELSE /\ pc' = "raised" /\ pool' = Raise(pool)
            /\ UNCHANGED <<flight, cached, host, stage, content>>
  /\ batch' = [u \in {} |-> 0]
  /\ table' = [u \in {} |-> NoTable]
  /\ UNCHANGED <<freeFull, treeVars, kind, handle, slot, row, tableCache>>

-------------------------------------------------------------------------------
(* cache_req *)

SwaTail == DivCeil(Window, PageSize) + 1

\* Mutant: the tail is freed from the old handle on, whatever the tree has taken.
LeftoverFromHandle(u, inserted) == (handle[u] + 1) .. Len(row[u])
Leftover(u, inserted) == (inserted + 1) .. Len(row[u])

(* The pages of the request that the tree lacks become a node, whose handles  *)
(* are read from the pool's mappings; duplicates, and the tail of a finished  *)
(* request, are freed with their handles; then the head of the path loses its *)
(* SWA pages and all but its last full page.                                  *)
CacheReq(u, length, finished) ==
  LET n        == Least(cached[u], length) \div PageSize
      path     == Path(u, n)
      have     == MatchLen(tree, path)
      full(i)  == row[u][i]
      inserted == InsertPrefix(tree, path, {i \in 1 .. n : Mapped(pool.swaOf, full(i)) # NoPage})
      unlocked == UnlockHandle(inserted, HandlePath(u))
      moved    == IF finished THEN unlocked ELSE LockHandle(unlocked, path)
      windowed == ReleaseSwaHead(moved, path, Minus(n, SwaTail))
      final    == ReleaseFullHead(windowed, path, Minus(n, 1))
      known    == [p \in DOMAIN inserted.page |->
                     IF p \in DOMAIN names THEN names[p]
                     ELSE [full |-> full(Len(p)), comp |-> Mapped(pool.compOf, full(Len(p))),
                           swa |-> Mapped(pool.swaOf, full(Len(p)))]]
      dups     == Valid(Entries(u, (handle[u] + 1) .. have))
      rest     == IF finished THEN Valid(Entries(u, Leftover(u, n))) ELSE <<>>
      swaHead  == {known[p].swa : p \in SwaPagesIn(moved, PagesOn(Path(u, Minus(n, SwaTail))))}
      fullHead == {known[p].full : p \in FullPagesIn(moved, PagesOn(Path(u, Minus(n, 1))))}
      p1 == IF LacksComponents(pool, {full(i) : i \in (have + 1) .. n}) THEN Raise(pool) ELSE pool
      p2 == OnFreed(OnFreed(p1, Range(dups), TRUE), Range(rest), TRUE)
  IN  [tree |-> final, path |-> path,
       names |-> [p \in DOMAIN known |->
                    [full |-> IF final.page[p].full THEN known[p].full ELSE NoPage,
                     comp |-> known[p].comp,
                     swa  |-> IF final.page[p].swa THEN known[p].swa ELSE NoPage]],
       pool |-> OnFreed(ReleaseSwa(p2, swaHead), fullHead, FALSE),
       free |-> Ascending(fullHead) \o dups \o rest]

\* _free_req_resources.  Neither the row of the page table nor what the backend
\* has cached for it is cleared.
Retire(u, length) ==
  LET result == CacheReq(u, length, TRUE)
  IN  /\ tree' = result.tree /\ names' = result.names
      /\ pool' = result.pool
      /\ freeFull' = freeFull \o result.free
      /\ stage' = [stage EXCEPT ![u] = "gone"]
      /\ row' = [row EXCEPT ![u] = <<>>]
      /\ handle' = [handle EXCEPT ![u] = 0]
      /\ cached' = [cached EXCEPT ![u] = 0]
      /\ host' = [host EXCEPT ![u] = 0]

-------------------------------------------------------------------------------
(* Processing the oldest forward, row by row. *)

Processing == flight # <<>> /\ (pc = "process" \/ (pc = "schedule" /\ DOMAIN batch = {}))
InHead(u) == Processing /\ u \in DOMAIN Head(flight)
OutstandingAfter(u) == \E i \in 2 .. Len(flight) : u \in DOMAIN flight[i]

FlightWithout(u) ==
  LET rest == Restrict(Head(flight), DOMAIN Head(flight) \ {u})
  IN  IF DOMAIN rest = {} THEN Tail(flight) ELSE <<rest>> \o Tail(flight)

RowDone(u) ==
  /\ flight' = FlightWithout(u)
  /\ pc' = IF DOMAIN Head(flight) = {u} THEN "schedule" ELSE "process"
  /\ UNCHANGED <<kind, slot, batch, tableCache, table, content>>

CompleteEnded(u) ==
  /\ InHead(u) /\ stage[u] = "ended"
  /\ RowDone(u)
  /\ IF OutstandingAfter(u)
       THEN UNCHANGED <<pool, freeFull, treeVars, stage, cached, host, handle, row>>
       ELSE Retire(u, host[u])

\* Mutant: the pages of the handle are not spared.
ReleaseBelowHandle(u) == 1 .. (Minus(cached[u] + 1, Window + PageSize) \div PageSize)

\* release_active_dsv4_swa_out_of_window: own pages that have left the window.
ReleaseActive(u) ==
  (handle[u] + 1) .. (Minus(cached[u] + 1, Window + PageSize) \div PageSize)

(* A token is committed and the request goes on: after its prompt it is       *)
(* cached, after a decode its SWA pages out of the window are released.       *)
CommitToken(u) ==
  /\ InHead(u) /\ stage[u] = "decode" /\ host[u] + 1 < kind[u].input + kind[u].output
  /\ host' = [host EXCEPT ![u] = @ + 1]
  /\ RowDone(u)
  /\ IF Head(flight)[u] = "prompt"
       THEN LET result == CacheReq(u, host[u] + 1, FALSE)
                n      == Len(result.path)
            IN  /\ tree' = result.tree /\ names' = result.names
                /\ pool' = result.pool
                /\ freeFull' = freeFull \o result.free
                /\ handle' = [handle EXCEPT ![u] = n]
                /\ row' = [row EXCEPT ![u] = MatchedRow(result.tree, result.names, result.path)
                                             \o SubSeq(row[u], n + 1, Len(row[u]))]
       ELSE /\ pool' = ReleaseSwaForFull(pool, Range(Valid(Entries(u, ReleaseActive(u)))), TRUE)
            /\ UNCHANGED <<freeFull, treeVars, handle, row>>
  /\ UNCHANGED <<stage, cached>>

CommitLastToken(u) ==
  /\ InHead(u) /\ stage[u] = "decode"
  /\ RowDone(u)
  /\ IF OutstandingAfter(u)
       THEN /\ stage' = [stage EXCEPT ![u] = "ended"]
            /\ host' = [host EXCEPT ![u] = @ + 1]
            /\ UNCHANGED <<pool, freeFull, treeVars, cached, handle, row>>
       ELSE Retire(u, host[u] + 1)

Abort(u) ==
  /\ pc = "schedule" /\ DOMAIN batch = {} /\ stage[u] \in {"waiting", "decode"}
  /\ IF stage[u] = "waiting"
       THEN /\ stage' = [stage EXCEPT ![u] = "gone"]
            /\ UNCHANGED <<pool, freeFull, treeVars, cached, host, handle, row>>
     ELSE IF Issued(u)
       THEN /\ stage' = [stage EXCEPT ![u] = "ended"]
            /\ UNCHANGED <<pool, freeFull, treeVars, cached, host, handle, row>>
     ELSE Retire(u, host[u])
  /\ UNCHANGED <<pc, kind, slot, batch, flight, tableCache, table, content>>

Quiescent ==
  /\ pc = "raised" \/ \A u \in Requests : stage[u] = "gone"
  /\ UNCHANGED vars

Next ==
  \/ \E u \in Requests : Admit(u) \/ Abort(u)
  \/ BeginPrefill \/ BeginDecode
  \/ ReleaseEvictableSwa \/ EvictNodes \/ AllocationFails \/ Prepare \/ Launch
  \/ \E u \in Requests : CompleteEnded(u) \/ CommitToken(u) \/ CommitLastToken(u)
  \/ Quiescent

Spec == Init /\ [][Next]_vars

-------------------------------------------------------------------------------
(* Properties. *)

\* The pages a request holds by itself are those beyond its handle.
OwnEntries(u) == (handle[u] + 1) .. Len(row[u])

(* Every page of each of the three pools is in exactly one place: on its free  *)
(* list, with one node of the tree, or with one request.  A page freed by      *)
(* anyone but its holder, handed out twice or lost would break this however    *)
(* prefixes are shared, split, released early and evicted (check_integrity).   *)
InOnePlace(all, free, ps, name(_), map(_)) ==
  LET own(u) == {i \in OwnEntries(u) : map(row[u][i]) # NoPage}
  IN  /\ Cardinality(all) = Len(free) + Cardinality(ps)
                           + Sets!MapThenSumSet(LAMBDA u : Cardinality(own(u)), Resident)
      /\ all = Range(free) \cup {name(p) : p \in ps}
              \cup UNION {{map(row[u][i]) : i \in own(u)} : u \in Resident}

PagesInOnePlace ==
  LET kept == DOMAIN tree.page
  IN  /\ InOnePlace(FullPages, freeFull, FullPagesIn(tree, kept),
                    LAMBDA p : names[p].full, LAMBDA f : f)
      /\ InOnePlace(SwaPages, pool.freeSwa, SwaPagesIn(tree, kept),
                    LAMBDA p : names[p].swa, LAMBDA f : Mapped(pool.swaOf, f))
      /\ InOnePlace(CompPages, pool.freeComp, kept,
                    LAMBDA p : names[p].comp, LAMBDA f : Mapped(pool.compOf, f))

(* While the tree holds a full page, the pool's mappings of it and the handles *)
(* of the tree say the same, although each is changed without the other.       *)
HandlesMatchMappings ==
  \A p \in FullPagesIn(tree, DOMAIN tree.page) :
    /\ pool.compOf[names[p].full] = names[p].comp
    /\ pool.swaOf[names[p].full] = names[p].swa

(* None of the pool's own checks ever fails: no double free, no stale mapping  *)
(* on allocation, no missing component page, no replay with metadata of        *)
(* another SWA ownership version, no mapping to a free page.  (No step of the  *)
(* model moves pages between Prepare and Launch, so the version is never the   *)
(* one that fails: PrefillSurfaces is where pages move under a forward.)       *)
PoolStaysSound == ~pool.raised /\ Sound(pool)

(* Every forward reads, for each page of its context, a component page into    *)
(* which a forward has written that very page of that very text: neither the   *)
(* cached tables nor the handles nor the mappings ever lead to a page that has *)
(* since been given to somebody else.                                          *)
ReadsItsContext ==
  pc = "launch" =>
    \A u \in DOMAIN batch : \A i \in 1 .. DivCeil(cached[u], PageSize) :
      /\ Reads(u)[i] # NoPage
      /\ content[Reads(u)[i]] = Path(u, i)
===============================================================================

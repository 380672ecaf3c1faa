---------------------------- MODULE CacheManager ----------------------------
(***************************************************************************)
(* KV pages: scheduler/cache.py over the prefix tree of                    *)
(* kvcache/radix_cache.py and the pools of kvcache/deepseek_v4_pool.py,    *)
(* driven by the forwards of a scheduler that issues forward N+1 before it *)
(* processes forward N.  A page of a request's context has                 *)
(*   - a full page, the location that the page table holds,                *)
(*   - an SWA page, found through the full page (full_to_swa) or through   *)
(*     the handle of the matched prefix, and                               *)
(*   - component pages (C4, C128, indexer), which always move together.    *)
(*                                                                         *)
(* Free pages are counted, never named: an entry of the page table says    *)
(* where its full page comes from.  "own" was allocated by the request,    *)
(* "tree" was copied from the tree while the tree held it, "none" is -1.   *)
(* Positions are tokens; indices of pages count from 1.                    *)
(***************************************************************************)
EXTENDS RadixTree
LOCAL SetSums == INSTANCE FiniteSetsExt

CONSTANTS
  Requests,
  Workloads,      \* what clients may send: functions from Requests to records
                  \* [text : page contents of prompt and output,
                  \*  input : prompt tokens, output : max_tokens]
  PageSize,
  Window,         \* sliding window, in tokens
  NumPages,       \* full pages, and as many component pages
  PageOverride,   \* whether NumPages was configured (num_page_override)
  MaxRunning,     \* rows of the request table
  MaxForwardLen   \* tokens of a prefill forward

Contents == UNION {{w[u].text[i] : i \in DOMAIN w[u].text} : u \in Requests, w \in Workloads}

ASSUME CacheAssumption ==
  /\ IsFiniteSet(Requests)
  /\ PageSize \in Nat \ {0} /\ Window \in Nat \ {0}
  /\ NumPages \in Nat \ {0} /\ PageOverride \in BOOLEAN
  /\ MaxRunning \in Nat \ {0} /\ MaxForwardLen \in Nat \ {0}
  /\ \A w \in Workloads : \A u \in Requests :
       /\ w[u].text \in Seq(Contents)
       /\ w[u].input \in Nat \ {0} /\ w[u].output \in Nat \ {0}
       /\ w[u].input + w[u].output <= PageSize * (Len(w[u].text) + 1)
       /\ w[u].input + w[u].output <= PageSize * NumPages

VARIABLES
  pc,        \* "schedule", "allocate", "process", or "raised" (process died)
  tree,      \* the prefix cache
  free,      \* free pages: [full, comp, swa]
  kind,      \* what a request asks for
  stage,     \* "waiting", "prefill", "decode", "ended", "gone"
  cached,    \* Req.cached_len; after complete_one, device_len is one more
  host,      \* len(Req.input_ids)
  handle,    \* pages of Req.cache_handle
  evicted,   \* pages below swa_evicted_seqlen of the newest Req object
  row,       \* the page-table row: where each page comes from
  ownSwa,    \* pages of its own for which the request holds an SWA page
  batch,     \* the forward being prepared: request -> new length
  flight     \* the forwards issued and not processed, oldest first

reqVars == <<kind, stage, cached, host, handle, evicted, row, ownSwa>>
vars == <<pc, tree, free, reqVars, batch, flight>>

-------------------------------------------------------------------------------
DivCeil(a, b) == (a + b - 1) \div b
Least(a, b) == IF a <= b THEN a ELSE b
Greatest(a, b) == IF a >= b THEN a ELSE b
Minus(a, b) == IF a >= b THEN a - b ELSE 0

\* _planned_dsv4_swa_independent_pages: SWA pages of a prefill forward, of the
\* tails of the running requests, and a dummy page, which is never free.
PlannedSwaPages ==
  LET tails   == MaxRunning * (DivCeil(Window, PageSize) + 1)
      planned == DivCeil(MaxForwardLen, PageSize) + tails + 1
  IN  IF MaxRunning >= 16 THEN Greatest(planned, 8 * MaxRunning) ELSE planned
NumSwaPages ==
  Least(PlannedSwaPages, IF PageOverride THEN NumPages ELSE NumPages + 1) - 1

Stages == {"waiting", "prefill", "decode", "ended", "gone"}
Sources == {"own", "tree", "none"}
NoPages == [full |-> 0, comp |-> 0, swa |-> 0]
Plus(p, q) == [full |-> p.full + q.full, comp |-> p.comp + q.comp, swa |-> p.swa + q.swa]

\* The path of the first n pages of a request's text.
Path(u, n) == Prefix(kind[u].text, n)
HandlePath(u) == Path(u, handle[u])

Resident == {u \in Requests : stage[u] \in {"prefill", "decode", "ended"}}
RemainLen(u) == kind[u].input + kind[u].output - (cached[u] + 1)
Running == {u \in Requests : stage[u] = "decode" /\ RemainLen(u) > 0}
Issued(u) == \E i \in DOMAIN flight : u \in DOMAIN flight[i]

(* The pages to release for entries of a row: valid entries give up their   *)
(* full page with its component pages, and its SWA page if it still has one.*)
Released(u, entries) ==
  LET valid == {i \in entries : row[u][i] # "none"}
  IN  [full |-> Cardinality(valid), comp |-> Cardinality(valid),
       swa |-> Cardinality(valid \cap ownSwa[u])]

\* The row entries of the first n pages of a path of the tree (get_matched_indices).
MatchedRow(t, path) ==
  [i \in 1..Len(path) |-> IF t.page[Prefix(path, i)].full THEN "tree" ELSE "none"]

Init ==
  /\ pc = "schedule"
  /\ tree = EmptyTree
  /\ free = [full |-> NumPages, comp |-> NumPages, swa |-> NumSwaPages]
  /\ kind \in Workloads
  /\ stage = [u \in Requests |-> "waiting"]
  /\ cached = [u \in Requests |-> 0] /\ host = [u \in Requests |-> 0]
  /\ handle = [u \in Requests |-> 0] /\ evicted = [u \in Requests |-> 0]
  /\ row = [u \in Requests |-> <<>>] /\ ownSwa = [u \in Requests |-> {}]
  /\ batch = [u \in {} |-> 0]
  /\ flight = <<>>

-------------------------------------------------------------------------------
(* Releasing pages that have left the window. *)

\* Mutant: the window before the next token is forgotten.
FrontierTooFar(len) == len \div PageSize

\* active_window_frontier for a request with device_len = len + 1, in pages.
WindowFrontier(len) == Minus(len + 1, Window + PageSize) \div PageSize

\* Whether the SWA page is found through the handle, or through the full page
\* that the row holds.
FoundByHandle(u, i) == i <= handle[u] /\ tree.page[Path(u, i)].swa
FoundByRow(u, i) ==
  \/ row[u][i] = "own" /\ i \in ownSwa[u]
  \/ row[u][i] = "tree" /\ tree.page[Path(u, i)].full /\ tree.page[Path(u, i)].swa

\* Pages of the handle belong to the tree and stay (_dsv4_swa_cache_protected_len).
ReleaseStart(u, from) == Greatest(from, handle[u])

(* release_active_dsv4_swa_out_of_window for a Req object with the given    *)
(* length and frontier: the pages released, and the new frontier.           *)
ActiveRelease(u, len, from) ==
  LET start == ReleaseStart(u, from)
      end   == Greatest(start, WindowFrontier(len))
  IN  [pages |-> {i \in (start + 1)..end : FoundByRow(u, i)},
       frontier |-> IF end > start THEN end ELSE from]

\* Pages at the end of a cached path that keep their SWA page, in
\* _release_dsv4_swa_out_of_window.
SwaTail == DivCeil(Window, PageSize) + 1

-------------------------------------------------------------------------------
(* cache_req *)

\* Mutant: the duplicates are counted from the start of the prompt.
DuplicatesFromStart(u, have) == 1..have

\* Pages the tree already had when the request's own copies are inserted.
Duplicates(u, have) == (handle[u] + 1)..have

\* What a finished request holds beyond the inserted path.
Leftover(u, inserted) == (inserted + 1)..Len(row[u])

(* The outcome of cache_req: the tree, the pages given back, and the        *)
(* inserted path.  The request's text is inserted up to the last full page, *)
(* its duplicates are freed, and the handle moves to the inserted path, or  *)
(* is dropped with the tail when the request is finished.  Then the head of *)
(* the path gives up its SWA pages and all but its last full page.          *)
CacheReq(u, length, finished) ==
  LET n        == Least(cached[u], length) \div PageSize
      path     == Path(u, n)
      have     == MatchLen(tree, path)
      inserted == InsertPrefix(tree, path, ownSwa[u])
      unlocked == UnlockHandle(inserted, HandlePath(u))
      moved    == IF finished THEN unlocked ELSE LockHandle(unlocked, path)
      windowed == ReleaseSwaHead(moved, path, Minus(n, SwaTail))
      headless == ReleaseFullHead(windowed, path, Minus(n, 1))
      swaHead  == SwaPagesIn(moved, PagesOn(Path(u, Minus(n, SwaTail))))
      fullHead == FullPagesIn(moved, PagesOn(Path(u, Minus(n, 1))))
      entries  == Duplicates(u, have) \cup IF finished THEN Leftover(u, n) ELSE {}
  IN  [tree |-> headless, path |-> path,
       freed |-> Plus(Released(u, entries),
                      [full |-> Cardinality(fullHead), comp |-> 0,
                       swa |-> Cardinality(swaHead)])]

\* _free_req_resources: what is left of a request that has ended.
Retire(u, length) ==
  LET result == CacheReq(u, length, TRUE)
  IN  /\ tree' = result.tree
      /\ free' = Plus(free, result.freed)
      /\ stage' = [stage EXCEPT ![u] = "gone"]
      /\ row' = [row EXCEPT ![u] = <<>>]
      /\ ownSwa' = [ownSwa EXCEPT ![u] = {}]
      /\ handle' = [handle EXCEPT ![u] = 0]
      /\ cached' = [cached EXCEPT ![u] = 0]
      /\ host' = [host EXCEPT ![u] = 0]
      /\ evicted' = [evicted EXCEPT ![u] = 0]
-------------------------------------------------------------------------------
(* Building a batch. *)

\* Tokens that may still be allocated without counting SWA pages (available_size).
AvailableSize(t) ==
  PageSize * Least(free.full + Cardinality(FullPagesIn(t, EvictablePages(t))),
                   free.comp + Cardinality(EvictablePages(t)))

\* inflight_tokens of the running requests and what half-read prompts reserve.
ReservedSize ==
  SetSums!MapThenSumSet(LAMBDA u : RemainLen(u) + PageSize - 1, Running)
  + SetSums!MapThenSumSet(LAMBDA u : kind[u].input - cached[u] + kind[u].output,
                          {u \in Requests : stage[u] = "prefill"})

BudgetLeft ==
  MaxForwardLen - SetSums!MapThenSumSet(LAMBDA u : batch[u] - cached[u], DOMAIN batch)

\* Where a chunk that starts at a position may end: at a page or with the prompt.
ChunkEnds(u, from) ==
  {n \in (from + 1)..kind[u].input :
     (n % PageSize = 0 \/ n = kind[u].input) /\ n - from <= BudgetLeft}

(* _try_allocate_one for a pending request, and its first chunk: a row, the *)
(* matched prefix locked, and its indices copied into the row.  The match   *)
(* may split a node of the tree even when there is no room.                 *)
TryAllocateOne(u) ==
  LET key     == Path(u, (kind[u].input - 1) \div PageSize)
      walked  == TreeWalk(tree, key)
      have    == MatchPrefix(tree, key)
      locked  == LockHandle(walked, Path(u, have))
      hit     == have * PageSize
      fits    == kind[u].input - hit + kind[u].output + ReservedSize
                   <= AvailableSize(locked)
  IN
  /\ pc = "schedule" /\ stage[u] = "waiting"
  /\ Cardinality(Resident) < MaxRunning
  /\ IF fits
       THEN \E n \in ChunkEnds(u, hit) :
              /\ tree' = locked
              /\ stage' = [stage EXCEPT ![u] = "prefill"]
              /\ cached' = [cached EXCEPT ![u] = hit]
              /\ handle' = [handle EXCEPT ![u] = have]
              /\ row' = [row EXCEPT ![u] = MatchedRow(locked, Path(u, have))]
              /\ batch' = [v \in DOMAIN batch \cup {u} |-> IF v = u THEN n ELSE batch[v]]
       ELSE /\ tree' = walked
            /\ UNCHANGED <<stage, cached, handle, row, batch>>
  /\ UNCHANGED <<pc, free, kind, host, evicted, ownSwa, flight>>

(* The next chunk of a prompt that is half read; its handle, row and         *)
(* swa_evicted_seqlen are copied from the previous ChunkedReq.               *)
PrepareChunk(u) ==
  /\ pc = "schedule" /\ stage[u] = "prefill" /\ u \notin DOMAIN batch
  /\ \E n \in ChunkEnds(u, cached[u]) :
       batch' = [v \in DOMAIN batch \cup {u} |-> IF v = u THEN n ELSE batch[v]]
  /\ UNCHANGED <<pc, tree, free, reqVars, flight>>

BeginPrefill ==
  /\ pc = "schedule" /\ DOMAIN batch # {}
  /\ pc' = "allocate"
  /\ UNCHANGED <<tree, free, reqVars, batch, flight>>

BeginDecode ==
  /\ pc = "schedule" /\ DOMAIN batch = {} /\ Running # {}
  /\ batch' = [u \in Running |-> cached[u] + 1]
  /\ pc' = "allocate"
  /\ UNCHANGED <<tree, free, reqVars, flight>>

-------------------------------------------------------------------------------
(* allocate_paged *)

NewPages(u) == (DivCeil(cached[u], PageSize) + 1)..DivCeil(batch[u], PageSize)
Needed == Cardinality(UNION {{u} \X NewPages(u) : u \in DOMAIN batch})

Deficit == [full |-> Minus(Needed, free.full), comp |-> Minus(Needed, free.comp),
            swa |-> Minus(Needed, free.swa)]
Enough == Deficit = NoPages
OnlySwaIsShort == Deficit.swa > 0 /\ Deficit.full = 0 /\ Deficit.comp = 0

\* Mutant: a round that releases nothing is tried again.
LeavesRemain == Leaves(tree) # {}

\* Evictable leaves hold SWA pages.
SwaReleasable == \E e \in Leaves(tree) : SwaPagesIn(tree, NodePages(tree, e)) # {}

(* One round of _evict_for_dsv4_component_capacity that only releases SWA   *)
(* pages of unlocked leaves.                                                *)
ReleaseEvictableSwa ==
  /\ pc = "allocate" /\ OnlySwaIsShort /\ SwaReleasable
  /\ \E L \in SwaReleaseSets(tree, Deficit.swa) :
       /\ tree' = ReleaseLeafSwa(tree, L)
       /\ free' = [free EXCEPT !.swa = @ + Cardinality(SwaPagesIn(tree, PagesOf(tree, L)))]
  /\ UNCHANGED <<pc, reqVars, batch, flight>>

RoundSize == Greatest(Greatest(Deficit.full, Deficit.comp), Greatest(Deficit.swa, 1))

\* One round that evicts nodes, with all their pages.
EvictNodes ==
  /\ pc = "allocate" /\ ~Enough /\ ~(OnlySwaIsShort /\ SwaReleasable)
  /\ RoundSize <= tree.evictable
  /\ \E E \in EvictableSets(tree, RoundSize) :
       LET gone == PagesOf(tree, E)
       IN  /\ tree' = Evict(tree, E)
           /\ free' = Plus(free, [full |-> Cardinality(FullPagesIn(tree, gone)),
                                  comp |-> Cardinality(gone),
                                  swa |-> Cardinality(SwaPagesIn(tree, gone))])
  /\ UNCHANGED <<pc, reqVars, batch, flight>>

(* evict asserts that the size is evictable; so do the assertions after the *)
(* loop.  The process ends.                                                 *)
AllocationFails ==
  /\ pc = "allocate" /\ ~Enough /\ ~(OnlySwaIsShort /\ SwaReleasable)
  /\ RoundSize > tree.evictable
  /\ pc' = "raised"
  /\ UNCHANGED <<tree, free, reqVars, batch, flight>>

\* What the processing of a forward needs to know of each of its rows: whether
\* it is a ChunkedReq, a last chunk or a decode, and the length and frontier of
\* its Req object.
IssuedRow(u) ==
  [kind |-> IF stage[u] = "decode" THEN "decode"
            ELSE IF batch[u] < kind[u].input THEN "chunk" ELSE "prompt",
   len |-> batch[u], frontier |-> evicted[u]]

(* The pages are there: they enter the rows, the forward is issued and       *)
(* complete_one advances the lengths.  A forward that follows another one in *)
(* flight is issued before that one is processed.                            *)
Issue ==
  /\ pc = "allocate" /\ Enough
  /\ free' = [full |-> free.full - Needed, comp |-> free.comp - Needed,
              swa |-> free.swa - Needed]
  /\ row' = [u \in Requests |-> IF u \in DOMAIN batch
               THEN row[u] \o [i \in 1..Cardinality(NewPages(u)) |-> "own"] ELSE row[u]]
  /\ ownSwa' = [u \in Requests |-> IF u \in DOMAIN batch
                  THEN ownSwa[u] \cup NewPages(u) ELSE ownSwa[u]]
  /\ cached' = [u \in Requests |-> IF u \in DOMAIN batch THEN batch[u] ELSE cached[u]]
  /\ host' = [u \in Requests |-> IF u \in DOMAIN batch /\ stage[u] = "prefill"
                THEN batch[u] ELSE host[u]]
  /\ stage' = [u \in Requests |-> IF u \in DOMAIN batch /\ batch[u] >= kind[u].input
                 THEN "decode" ELSE stage[u]]
  /\ flight' = Append(flight, [u \in DOMAIN batch |-> IssuedRow(u)])
  /\ batch' = [u \in {} |-> 0]
  /\ pc' = IF flight = <<>> THEN "schedule" ELSE "process"
  /\ UNCHANGED <<tree, kind, handle, evicted>>

-------------------------------------------------------------------------------
(* Processing the oldest forward, row by row. *)

Processing ==
  /\ flight # <<>>
  /\ pc = "process" \/ (pc = "schedule" /\ DOMAIN batch = {})

\* The forwards in flight once the row of u in the oldest has been processed.
FlightWithout(u) ==
  LET rest == [v \in DOMAIN Head(flight) \ {u} |-> Head(flight)[v]]
  IN  IF DOMAIN rest = {} THEN Tail(flight) ELSE <<rest>> \o Tail(flight)

OutstandingAfter(u) == \E i \in 2..Len(flight) : u \in DOMAIN flight[i]

RowDone(u) ==
  /\ flight' = FlightWithout(u)
  /\ pc' = IF DOMAIN Head(flight) = {u} THEN "schedule" ELSE "process"
  /\ UNCHANGED <<kind, batch>>

\* A row of a request that has ended; its last one releases the resources.
CompleteEnded(u) ==
  /\ Processing /\ u \in DOMAIN Head(flight) /\ stage[u] = "ended"
  /\ RowDone(u)
  /\ IF OutstandingAfter(u)
       THEN UNCHANGED <<tree, free, stage, cached, host, handle, evicted, row, ownSwa>>
       ELSE Retire(u, host[u])

(* SWA pages that have left the window of the Req object of a row go back;  *)
(* the frontier is kept in that object, and only the newest one hands it on.*)
ReleaseActive(u, len, from, newest) ==
  LET done == ActiveRelease(u, len, from)
  IN  /\ free' = [free EXCEPT !.swa = @ + Cardinality(done.pages)]
      /\ ownSwa' = [ownSwa EXCEPT ![u] = @ \ done.pages]
      /\ evicted' = [evicted EXCEPT ![u] = IF newest THEN done.frontier ELSE @]

CompleteChunk(u) ==
  LET issued == Head(flight)[u]
  IN
  /\ Processing /\ u \in DOMAIN Head(flight)
  /\ stage[u] # "ended" /\ issued.kind = "chunk"
  /\ RowDone(u)
  /\ ReleaseActive(u, issued.len, issued.frontier, ~OutstandingAfter(u))
  /\ UNCHANGED <<tree, stage, cached, host, handle, row>>

(* A sampled token is committed.  The request goes on: after its prompt it   *)
(* is cached and takes the handle and the indices of the tree, after a       *)
(* decode it releases what has left the window.                              *)
CommitToken(u) ==
  /\ Processing /\ u \in DOMAIN Head(flight)
  /\ stage[u] = "decode" /\ Head(flight)[u].kind # "chunk"
  /\ host[u] + 1 < kind[u].input + kind[u].output
  /\ host' = [host EXCEPT ![u] = @ + 1]
  /\ RowDone(u)
  /\ IF Head(flight)[u].kind = "prompt"
       THEN LET result == CacheReq(u, host[u] + 1, FALSE)
                n      == Len(result.path)
            IN  /\ tree' = result.tree
                /\ free' = Plus(free, result.freed)
                /\ handle' = [handle EXCEPT ![u] = n]
                /\ row' = [row EXCEPT ![u] =
                             MatchedRow(result.tree, result.path) \o
                             SubSeq(row[u], n + 1, Len(row[u]))]
                /\ ownSwa' = [ownSwa EXCEPT ![u] = @ \ 1..n]
                /\ UNCHANGED evicted
       ELSE /\ ReleaseActive(u, cached[u], evicted[u], TRUE)
            /\ UNCHANGED <<tree, handle, row>>
  /\ UNCHANGED <<stage, cached>>

\* The token ends the request (EOS or length); it retires once no forward of it
\* is in flight.
CommitLastToken(u) ==
  /\ Processing /\ u \in DOMAIN Head(flight)
  /\ stage[u] = "decode" /\ Head(flight)[u].kind # "chunk"
  /\ RowDone(u)
  /\ IF OutstandingAfter(u)
       THEN /\ stage' = [stage EXCEPT ![u] = "ended"]
            /\ host' = [host EXCEPT ![u] = @ + 1]
            /\ UNCHANGED <<tree, free, cached, handle, evicted, row, ownSwa>>
       ELSE Retire(u, host[u] + 1)

\* An abort, between two iterations of the loop.
Abort(u) ==
  /\ pc = "schedule" /\ DOMAIN batch = {}
  /\ stage[u] \in {"waiting", "prefill", "decode"}
  /\ IF stage[u] = "waiting"
       THEN /\ stage' = [stage EXCEPT ![u] = "gone"]
            /\ UNCHANGED <<tree, free, cached, host, handle, evicted, row, ownSwa>>
     ELSE IF Issued(u)
       THEN /\ stage' = [stage EXCEPT ![u] = "ended"]
            /\ UNCHANGED <<tree, free, cached, host, handle, evicted, row, ownSwa>>
     ELSE Retire(u, host[u])
  /\ UNCHANGED <<pc, kind, batch, flight>>

\* Everybody is served, or the process has died.
Quiescent ==
  /\ pc = "raised" \/ \A u \in Requests : stage[u] = "gone"
  /\ UNCHANGED vars

Schedule == \/ \E u \in Requests : TryAllocateOne(u) \/ PrepareChunk(u)
            \/ BeginPrefill \/ BeginDecode
Allocate == ReleaseEvictableSwa \/ EvictNodes \/ AllocationFails \/ Issue
Process == \E u \in Requests :
             CompleteEnded(u) \/ CompleteChunk(u) \/ CommitToken(u) \/ CommitLastToken(u)

Next == Schedule \/ Allocate \/ Process \/ (\E u \in Requests : Abort(u)) \/ Quiescent
Spec == Init /\ [][Next]_vars

\* The loop does not stop in the middle of an allocation.
FairSpec == Spec /\ WF_vars(Allocate)
-------------------------------------------------------------------------------
(* Properties. *)

FlightRows == [kind : {"chunk", "prompt", "decode"}, len : Nat, frontier : Nat]

\* Every variable has its type; in particular no counter is ever negative.
TypeOK ==
  /\ pc \in {"schedule", "allocate", "process", "raised"}
  /\ \A p \in DOMAIN tree.page :
       tree.page[p] \in [ref : Nat, full : BOOLEAN, swa : BOOLEAN]
  /\ tree.ends \subseteq DOMAIN tree.page
  /\ tree.evictable \in Nat /\ tree.protected \in Nat
  /\ free \in [full : Nat, comp : Nat, swa : Nat]
  /\ kind \in Workloads /\ stage \in [Requests -> Stages]
  /\ cached \in [Requests -> Nat] /\ host \in [Requests -> Nat]
  /\ handle \in [Requests -> Nat] /\ evicted \in [Requests -> Nat]
  /\ \A u \in Requests : /\ row[u] \in [1..Len(row[u]) -> Sources]
                         /\ ownSwa[u] \subseteq 1..Len(row[u])
  /\ DOMAIN batch \subseteq Requests /\ \A u \in DOMAIN batch : batch[u] \in Nat
  /\ \A i \in DOMAIN flight : /\ DOMAIN flight[i] \subseteq Requests
                              /\ \A u \in DOMAIN flight[i] : flight[i][u] \in FlightRows

(* Every page of each of the three pools is free, held by exactly one row,   *)
(* or in the tree: whatever is shared, split, released early, evicted or     *)
(* inserted twice, no page is freed twice or lost (check_integrity).         *)
OwnPages(u) == {i \in DOMAIN row[u] : row[u][i] = "own"}
Owned == UNION {{u} \X OwnPages(u) : u \in Requests}
OwnedSwa == UNION {{u} \X ownSwa[u] : u \in Requests}
PagesAreAccounted ==
  LET cachedPages == DOMAIN tree.page
  IN  /\ NumPages = free.full + Cardinality(FullPagesIn(tree, cachedPages)) + Cardinality(Owned)
      /\ NumPages = free.comp + Cardinality(cachedPages) + Cardinality(Owned)
      /\ NumSwaPages = free.swa + Cardinality(SwaPagesIn(tree, cachedPages))
                       + Cardinality(OwnedSwa)

(* The reference count of a page of the tree is the number of requests whose *)
(* handle lies at or below it, so what a request was matched with or has     *)
(* inserted stays in the tree, with its component pages, until it retires.   *)
RefsCountHolders ==
  \A p \in DOMAIN tree.page \cup UNION {PagesOn(HandlePath(u)) : u \in Resident} :
    /\ p \in DOMAIN tree.page
    /\ tree.page[p].ref = Cardinality({u \in Resident : IsPrefixOf(p, HandlePath(u))})

(* The tree stays a radix tree under splits, evictions and insertions at     *)
(* every boundary: it is closed under prefixes, every node is locked as a    *)
(* whole, two keys part at the end of a node, and every handle names a node. *)
TreeIsRadix ==
  /\ \A p \in DOMAIN tree.page : InTree(tree, p)
  /\ \A p \in DOMAIN tree.page : \E e \in tree.ends : p \in NodePages(tree, e)
  /\ \A e \in tree.ends : \A p \in NodePages(tree, e) : tree.page[p].ref = tree.page[e].ref
  /\ \A p, q \in DOMAIN tree.page :
       /\ Len(p) = Len(q) /\ p # q /\ Len(p) > 1
       /\ Prefix(p, Len(p) - 1) = Prefix(q, Len(q) - 1)
       => Prefix(p, Len(p) - 1) \in tree.ends
  /\ \A u \in Resident : handle[u] > 0 => HandlePath(u) \in tree.ends

(* The two size counters are those of the tree: what available_size promises *)
(* and what evict asserts is what is there (RadixPrefixCache.check_integrity).*)
SizesAreExact ==
  /\ tree.evictable = Cardinality(EvictablePages(tree))
  /\ tree.protected = Cardinality(DOMAIN tree.page \ EvictablePages(tree))

(* No SWA page below the eviction frontier of a request's newest Req object  *)
(* is still held: cache_req would raise "live pages below request eviction   *)
(* frontier", although chunks hand the frontier on one forward late.         *)
FrontierIsReleased ==
  \A u \in Resident : \A i \in ownSwa[u] : i > evicted[u] \/ i <= handle[u]

(* The cache is consistent in itself: the four invariants together.          *)
CacheIsSound == TypeOK /\ RefsCountHolders /\ TreeIsRadix /\ SizesAreExact /\ FrontierIsReleased

\* The pages that hold the window of a token at a position, itself excluded.
WindowPages(pos) ==
  IF pos = 0 THEN {}
  ELSE (Minus(pos + 1, Window) \div PageSize + 1)..((pos - 1) \div PageSize + 1)

(* When the next chunk of a prompt is prepared, every page of its window is  *)
(* mapped: _build_swa_page_table_row never raises "missing active page       *)
(* mapping", whatever other requests insert, release or evict meanwhile.     *)
PrefillReadsItsWindow ==
  \A u \in Requests : stage[u] = "prefill" =>
    \A i \in WindowPages(cached[u]) : FoundByHandle(u, i) \/ FoundByRow(u, i)

(* A decoding request finds the SWA page of every token in its window, where *)
(* the token lies in a page of its own or nobody else has its prompt's first *)
(* page.                                                                     *)
DecodeFindsItsOwnPages ==
  \A u \in Running : \A i \in WindowPages(cached[u]) :
    \/ FoundByRow(u, i)
    \/ i <= handle[u] /\ \E v \in Requests \ {u} : Path(v, 1) = Path(u, 1)

(* "[0, req.cached_len) ... is valid for attention kernel read/write"        *)
(* (scheduler/cache.py:142): a decoding request finds, through its row, the  *)
(* SWA page of every token in its window.                                    *)
DecodeReadsItsWindow ==
  \A u \in Running : \A i \in WindowPages(cached[u]) : FoundByRow(u, i)

(* An allocation fails only when the pages are not there: the loop of        *)
(* _evict_for_dsv4_component_capacity gives up only if, for some pool, the   *)
(* free pages and those of all unlocked nodes do not suffice.                *)
EvictionIsComplete ==
  [][pc' = "raised" =>
       \/ Needed > free.full + Cardinality(FullPagesIn(tree, EvictablePages(tree)))
       \/ Needed > free.comp + Cardinality(EvictablePages(tree))
       \/ Needed > free.swa + Cardinality(SwaPagesIn(tree, EvictablePages(tree)))]_vars

\* The eviction loop ends: each round makes progress.
AllocationEnds == pc = "allocate" ~> pc # "allocate"
===============================================================================

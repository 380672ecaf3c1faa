------------------------------ MODULE RadixTree ------------------------------
(***************************************************************************)
(* The prefix tree of kvcache/radix_cache.py.  Everything in it happens at  *)
(* page granularity, so a key is a sequence of page contents and a page of  *)
(* the tree is named by the contents up to and including it.  A node is the *)
(* run of pages up to an end: splitting a node adds an end, and the handle  *)
(* of a node, which the code keeps across splits, is the path of its end.   *)
(*                                                                         *)
(* A page of the tree has a reference count (all pages of a node have the   *)
(* same), and says whether its full page and its sliding-window (SWA) page  *)
(* are still held; a released one is the code's -1.  The component pages    *)
(* (C4, C128, indexer) stay with a page as long as it is in the tree, so    *)
(* _dsv4_path_has_state_or_live_tail always holds.  Sizes count pages.      *)
(* Timestamps are left out: any order of unlocked leaves may be evicted.    *)
(***************************************************************************)
EXTENDS Naturals, Sequences, FiniteSets

Longest(lengths) == CHOOSE n \in lengths : \A m \in lengths : m <= n

Prefix(path, n) == SubSeq(path, 1, n)
IsPrefixOf(p, q) == Len(p) <= Len(q) /\ Prefix(q, Len(p)) = p

\* The pages on the way from the root to the end of a path.
PagesOn(path) == {Prefix(path, i) : i \in 1..Len(path)}

EmptyTree == [page |-> [p \in {} |-> 0], ends |-> {}, evictable |-> 0, protected |-> 0]

InTree(t, path) == PagesOn(path) \subseteq DOMAIN t.page

\* Replaces the pages ps of a tree by what f says of them.
WithPages(t, ps, f(_)) ==
  [t EXCEPT !.page = [p \in DOMAIN t.page \cup ps |->
                        IF p \in ps THEN f(p) ELSE t.page[p]]]

-------------------------------------------------------------------------------
\* RadixTreeNode.split_at: the node around the end of a path ends there.
SplitAt(t, path) == IF path = <<>> THEN t ELSE [t EXCEPT !.ends = @ \cup {path}]

\* _tree_walk: how many pages of a key the tree holds, and the tree after the walk.
MatchLen(t, key) == Cardinality(PagesOn(key) \cap DOMAIN t.page)
TreeWalk(t, key) == SplitAt(t, Prefix(key, MatchLen(t, key)))

\* Mutant: every matched node is safe to continue from.
AnyMatchBoundary(t, path) == Len(path)

(* _dsv4_safe_match_boundary: the last node on the way whose last page still *)
(* has its SWA page.                                                        *)
SafeMatchBoundary(t, path) ==
  Longest({0} \cup {i \in 1..Len(path) : /\ Prefix(path, i) \in t.ends
                                         /\ t.page[Prefix(path, i)].swa})

\* match_prefix: the pages of the key that may be used.
MatchPrefix(t, key) == SafeMatchBoundary(TreeWalk(t, key), Prefix(key, MatchLen(t, key)))

\* Mutant: lock_handle locks the node of the handle only.
LockNode(t, path) ==
  IF path = <<>> THEN t ELSE [t EXCEPT !.page[path].ref = @ + 1]

\* lock_handle: every node on the way is locked once more.
LockHandle(t, path) ==
  LET unlocked == {p \in PagesOn(path) : t.page[p].ref = 0}
  IN  [WithPages(t, PagesOn(path), LAMBDA p : [t.page[p] EXCEPT !.ref = @ + 1])
         EXCEPT !.evictable = @ - Cardinality(unlocked),
                !.protected = @ + Cardinality(unlocked)]

\* Mutant: pages that are unlocked stay out of the evictable size.
UnlockKeepsSizes(t, path) ==
  WithPages(t, PagesOn(path), LAMBDA p : [t.page[p] EXCEPT !.ref = @ - 1])

UnlockHandle(t, path) ==
  LET last == {p \in PagesOn(path) : t.page[p].ref = 1}
  IN  [WithPages(t, PagesOn(path), LAMBDA p : [t.page[p] EXCEPT !.ref = @ - 1])
         EXCEPT !.evictable = @ + Cardinality(last),
                !.protected = @ - Cardinality(last)]

(* insert_prefix: the pages of the key that the tree lacks become one new   *)
(* node; liveSwa are the indices whose SWA page goes with them.             *)
InsertPrefix(t, key, liveSwa) ==
  LET have == MatchLen(t, key)
      new  == PagesOn(key) \ DOMAIN t.page
  IN  IF new = {} THEN TreeWalk(t, key)
      ELSE [WithPages(TreeWalk(t, key), new,
                      LAMBDA p : [ref |-> 0, full |-> TRUE, swa |-> Len(p) \in liveSwa])
              EXCEPT !.ends = @ \cup {key}, !.evictable = @ + Len(key) - have]

-------------------------------------------------------------------------------
\* The pages of the node with a given end.
ParentLen(t, end) ==
  Longest({0} \cup {Len(e) : e \in {d \in t.ends : IsPrefixOf(d, end) /\ d # end}})
NodePages(t, end) == {Prefix(end, i) : i \in (ParentLen(t, end) + 1)..Len(end)}
PagesOf(t, ends) == UNION {NodePages(t, e) : e \in ends}

Unlocked(t) == {e \in t.ends : t.page[e].ref = 0}
Leaves(t) == {e \in Unlocked(t) : \A d \in t.ends : IsPrefixOf(e, d) => d = e}

\* Leaves go first, so that a node is evicted only after its children.
ChildrenFirst(t, E) ==
  \A e \in E : \A d \in t.ends : IsPrefixOf(e, d) => d \in E

(* evict: the sets of nodes it may remove for a size in pages.  It stops as *)
(* soon as the size is reached, so the last node removed was still needed.  *)
EvictableSets(t, size) ==
  {E \in SUBSET Unlocked(t) :
     /\ ChildrenFirst(t, E)
     /\ Cardinality(PagesOf(t, E)) >= size
     /\ \E last \in E :
          /\ \A e \in E : IsPrefixOf(e, last) => e = last
          /\ Cardinality(PagesOf(t, E)) - Cardinality(NodePages(t, last)) < size}

Evict(t, E) ==
  LET gone == PagesOf(t, E)
  IN  [t EXCEPT !.page = [p \in DOMAIN t.page \ gone |-> t.page[p]],
                !.ends = @ \ E,
                !.evictable = @ - Cardinality(gone)]

-------------------------------------------------------------------------------
FullPagesIn(t, ps) == {p \in ps : t.page[p].full}
SwaPagesIn(t, ps) == {p \in ps : t.page[p].swa}

\* The pages of the unlocked nodes: dsv4_evictable_component_tokens.
EvictablePages(t) == {p \in DOMAIN t.page : t.page[p].ref = 0}

(* release_dsv4_swa_out_of_window and release_dsv4_full_head: the head of a *)
(* path, up to `until` pages, gives up its SWA pages (a tombstone) or its    *)
(* full pages; the node around the boundary is split there.                 *)
ReleaseSwaHead(t, path, until) ==
  LET head == Prefix(path, until)
  IN  WithPages(SplitAt(t, head), PagesOn(head),
                LAMBDA p : [t.page[p] EXCEPT !.swa = FALSE])

ReleaseFullHead(t, path, until) ==
  LET head == Prefix(path, until)
  IN  WithPages(SplitAt(t, head), PagesOn(head),
                LAMBDA p : [t.page[p] EXCEPT !.full = FALSE])

(* release_dsv4_evictable_swa_pages: the sets of unlocked leaves whose SWA  *)
(* pages it may release for a number of pages.                              *)
SwaReleaseSets(t, size) ==
  LET live(e) == Cardinality(SwaPagesIn(t, NodePages(t, e)))
      holders == {e \in Leaves(t) : live(e) > 0}
      released(L) == Cardinality(SwaPagesIn(t, PagesOf(t, L)))
  IN  {L \in SUBSET holders :
         \/ L = holders /\ released(L) < size
         \/ released(L) >= size /\ \E last \in L : released(L) - live(last) < size}

ReleaseLeafSwa(t, L) ==
  WithPages(t, PagesOf(t, L), LAMBDA p : [t.page[p] EXCEPT !.swa = FALSE])
===============================================================================

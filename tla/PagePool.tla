------------------------------ MODULE PagePool ------------------------------
(* kvcache/deepseek_v4_pool.py by the names of its pages.  A full page is a    *)
(* location of the page table; while it is allocated the pool maps it to an    *)
(* SWA page and to component pages, which always move together and count as    *)
(* one.  A prefix-cache node keeps the mapped pages in handles of its own, so  *)
(* that they outlive the full page.  An operation maps a pool to the pool      *)
(* after it; `raised` says that one of the pool's own checks has failed.       *)
EXTENDS Integers, Sequences, FiniteSets
LOCAL INSTANCE SequencesExt

CONSTANTS NumFull, NumSwa, NumComp   \* pages of each kind, dummies excluded

ASSUME PoolAssumption == NumFull \in Nat /\ NumSwa \in Nat /\ NumComp \in Nat

NoPage == -1
FullPages == 0 .. NumFull - 1
SwaPages == 0 .. NumSwa - 1
CompPages == 0 .. NumComp - 1

Ascending(S) == SetToSortSeq(S, <)
Live(pages) == pages \ {NoPage}

NewPool ==
    [fullRef |-> [f \in FullPages |-> 0],
     swaOf   |-> [f \in FullPages |-> NoPage],   \* _full_to_swa_page
     compOf  |-> [f \in FullPages |-> NoPage],   \* _full_to_c4_page and its like
     freeSwa  |-> Ascending(SwaPages),   swaRef  |-> [s \in SwaPages |-> 0],
     freeComp |-> Ascending(CompPages),  compRef |-> [c \in CompPages |-> 0],
     bumped |-> FALSE,       \* swa_ownership_version has moved since it was read
     raised |-> FALSE]

Raise(p) == [p EXCEPT !.raised = TRUE]
Add(ref, pages, n) == [x \in DOMAIN ref |-> IF x \in pages THEN ref[x] + n ELSE ref[x]]
DoubleFree(ref, pages) == \E x \in pages : ref[x] <= 0
Unmap(map, fulls) == [f \in DOMAIN map |-> IF f \in fulls THEN NoPage ELSE map[f]]

(* on_pages_allocated: the pages at the head of the two free lists are mapped. *)
OnPagesAllocated(p, fulls) ==
    LET n == Len(fulls)
        place(f) == CHOOSE i \in 1 .. n : fulls[i] = f
        fresh == Range(fulls)
    IN  IF \/ \E f \in fresh : p.swaOf[f] # NoPage \/ p.compOf[f] # NoPage
           \/ n > Len(p.freeSwa) \/ n > Len(p.freeComp)
        THEN Raise(p)
        ELSE [p EXCEPT
                !.fullRef = Add(@, fresh, 1),
                !.swaOf = [f \in FullPages |-> IF f \in fresh THEN p.freeSwa[place(f)]
                                                              ELSE @[f]],
                !.compOf = [f \in FullPages |-> IF f \in fresh THEN p.freeComp[place(f)]
                                                               ELSE @[f]],
                !.swaRef = Add(@, {p.freeSwa[i] : i \in 1 .. n}, 1),
                !.compRef = Add(@, {p.freeComp[i] : i \in 1 .. n}, 1),
                !.freeSwa = SubSeq(@, n + 1, Len(@)),
                !.freeComp = SubSeq(@, n + 1, Len(@)),
                !.bumped = @ \/ n > 0]

\* Mutant: freed SWA pages stay mapped.
ReleaseSwaKeepsMapping(p, handles) ==
    LET pages == Live(handles)
        ref == Add(p.swaRef, pages, -1)
        freed == {s \in pages : ref[s] = 0}
    IN  IF pages = {} THEN p
        ELSE IF DoubleFree(p.swaRef, pages) THEN Raise(p)
        ELSE [p EXCEPT !.swaRef = ref, !.freeSwa = @ \o Ascending(freed), !.bumped = TRUE]

(* release_swa_page_handles *)
ReleaseSwa(p, handles) ==
    LET pages == Live(handles)
        ref == Add(p.swaRef, pages, -1)
        freed == {s \in pages : ref[s] = 0}
    IN  IF pages = {} THEN p
        ELSE IF DoubleFree(p.swaRef, pages) THEN Raise(p)
        ELSE [p EXCEPT !.swaRef = ref,
                       !.freeSwa = @ \o Ascending(freed),
                       !.swaOf = Unmap(@, {f \in FullPages : p.swaOf[f] \in freed}),
                       !.bumped = TRUE]

(* release_component_page_handles *)
ReleaseComp(p, handles) ==
    LET pages == Live(handles)
    IN  IF pages = {} THEN p
        ELSE IF DoubleFree(p.compRef, pages) THEN Raise(p)
        ELSE [p EXCEPT !.compRef = Add(@, pages, -1), !.freeComp = @ \o Ascending(pages)]

(* _release_swa_pages_for_full_pages *)
ReleaseSwaForFull(p, fulls, freeSwa) ==
    LET q == IF freeSwa THEN ReleaseSwa(p, {p.swaOf[f] : f \in fulls}) ELSE p
    IN  [q EXCEPT !.swaOf = Unmap(@, fulls),
                  !.bumped = @ \/ \E f \in fulls : q.swaOf[f] # NoPage]

(* _release_component_pages_for_full_pages *)
ReleaseCompForFull(p, fulls, freeComponents) ==
    LET q == IF freeComponents THEN ReleaseComp(p, {p.compOf[f] : f \in fulls}) ELSE p
    IN  [q EXCEPT !.compOf = Unmap(@, fulls)]

(* on_token_indices_freed; free_components and free_swa always go together:    *)
(* FALSE when the prefix cache keeps, or has itself released, its handles.     *)
OnFreed(p, fulls, withHandles) ==
    IF DoubleFree(p.fullRef, fulls) THEN Raise(p)
    ELSE LET q == [p EXCEPT !.fullRef = Add(@, fulls, -1)]
         IN  ReleaseCompForFull(ReleaseSwaForFull(q, fulls, withHandles), fulls, withHandles)

(* make_component_page_handles raises when an allocated page has no mapping.   *)
LacksComponents(p, fulls) == \E f \in Live(fulls) : p.compOf[f] = NoPage

Mapped(map, full) == IF full = NoPage THEN NoPage ELSE map[full]

-------------------------------------------------------------------------------
(* _assert_no_negative_refcounts and the checks it calls: no counter below     *)
(* zero, the free lists hold every page at most once, and a mapping never       *)
(* points to a free page.                                                       *)
IsOnce(list) == Cardinality(Range(list)) = Len(list)
Sound(p) ==
    /\ \A f \in FullPages : p.fullRef[f] >= 0
    /\ \A s \in SwaPages : p.swaRef[s] >= 0
    /\ \A c \in CompPages : p.compRef[c] >= 0
    /\ IsOnce(p.freeSwa) /\ IsOnce(p.freeComp)
    /\ \A f \in FullPages : p.swaOf[f] # NoPage => /\ p.swaRef[p.swaOf[f]] > 0
                                                   /\ p.swaOf[f] \notin Range(p.freeSwa)
===============================================================================

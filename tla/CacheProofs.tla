------------------------------ MODULE CacheProofs ------------------------------
(* No page of the key-value pools is lost or freed twice, the prefix cache     *)
(* stays consistent with the requests that use it, and its eviction gives up   *)
(* only when the pages are not there: for any requests, prompts, sizes of      *)
(* pages, windows and pools.  With windows of at most a page and a token, the  *)
(* pages of a window are always found.  The module has five parts: paths and   *)
(* what each operation of RadixTree does to a sound tree; counting pages; one  *)
(* lemma for each action of CacheManager, which keeps the inductive invariant  *)
(* IInv; the theorems about the pages; and the invariant WindowInv on top of   *)
(* IInv, with the theorems about the windows.                                  *)
EXTENDS CacheManager, SequenceTheorems, FiniteSetTheorems, TLAPS

-------------------------------------------------------------------------------
(* Paths.  Being a prefix of is a partial order on them, and a linear one on  *)
(* the prefixes of one path.                                                  *)

LEMMA PrefixType ==
  ASSUME NEW C, NEW s \in Seq(C), NEW n \in 0..Len(s)
  PROVE  /\ Prefix(s, n) \in Seq(C) /\ Len(Prefix(s, n)) = n
         /\ \A i \in 1..n : Prefix(s, n)[i] = s[i]
<1>1. Len(s) \in Nat
  BY LenProperties
<1>2. CASE n = 0
  <2>1. SubSeq(s, 1, 0) = <<>>
    BY SubSeqEmpty
  <2>2. QED
    BY <1>2, <2>1, EmptySeq DEF Prefix
<1>3. CASE n > 0
  <2>1. \A i \in 1..n : i \in 1..Len(s)
    BY <1>1
  <2>2. /\ SubSeq(s, 1, n) \in Seq(C) /\ Len(SubSeq(s, 1, n)) = n - 1 + 1
        /\ \A i \in 1..(n - 1 + 1) : SubSeq(s, 1, n)[i] = s[1 + i - 1]
    BY <1>1, <1>3, SubSeqProperties
  <2>3. QED
    BY <1>1, <2>2 DEF Prefix
<1>4. QED
  BY <1>1, <1>2, <1>3

LEMMA SamePaths ==
  ASSUME NEW C, NEW s \in Seq(C), NEW r \in Seq(C), Len(s) = Len(r),
         \A i \in 1..Len(s) : s[i] = r[i]
  PROVE  s = r
BY SeqEqual

LEMMA PrefixOfPrefix ==
  ASSUME NEW C, NEW s \in Seq(C), NEW n \in 0..Len(s), NEW m \in 0..n
  PROVE  Prefix(Prefix(s, n), m) = Prefix(s, m)
<1>1. Len(s) \in Nat
  BY LenProperties
<1>2. /\ Prefix(s, n) \in Seq(C) /\ Len(Prefix(s, n)) = n
      /\ \A i \in 1..n : Prefix(s, n)[i] = s[i]
  BY PrefixType
<1>3. m \in 0..Len(s) /\ m \in 0..Len(Prefix(s, n))
  BY <1>1, <1>2
<1>4. /\ Prefix(s, m) \in Seq(C) /\ Len(Prefix(s, m)) = m
      /\ \A i \in 1..m : Prefix(s, m)[i] = s[i]
  BY <1>3, PrefixType
<1>5. /\ Prefix(Prefix(s, n), m) \in Seq(C) /\ Len(Prefix(Prefix(s, n), m)) = m
      /\ \A i \in 1..m : Prefix(Prefix(s, n), m)[i] = Prefix(s, n)[i]
  BY <1>2, <1>3, PrefixType
<1>6. \A i \in 1..m : i \in 1..n
  BY <1>1
<1>7. QED
  BY <1>2, <1>4, <1>5, <1>6, SamePaths

LEMMA WholePrefix ==
  ASSUME NEW C, NEW s \in Seq(C)
  PROVE  Prefix(s, Len(s)) = s /\ Prefix(s, 0) = <<>>
<1>1. Len(s) \in Nat /\ Len(s) \in 0..Len(s)
  BY LenProperties
<1>2. QED
  BY <1>1, PrefixType, SamePaths, SubSeqEmpty DEF Prefix

\* The prefixes of a path, and how they are ordered.
LEMMA PrefixOrder ==
  ASSUME NEW C, NEW p \in Seq(C), NEW q \in Seq(C), IsPrefixOf(p, q)
  PROVE  /\ Len(p) \in Nat /\ Len(q) \in Nat /\ Len(p) <= Len(q)
         /\ p = Prefix(q, Len(p))
         /\ Len(p) = Len(q) => p = q
<1>1. Len(p) \in Nat /\ Len(q) \in Nat
  BY LenProperties
<1>2. QED
  BY <1>1, WholePrefix DEF IsPrefixOf

LEMMA PrefixesAre ==
  ASSUME NEW C, NEW q \in Seq(C), NEW n \in 0..Len(q)
  PROVE  IsPrefixOf(Prefix(q, n), q)
<1>1. Len(q) \in Nat
  BY LenProperties
<1>2. Len(Prefix(q, n)) = n
  BY PrefixType
<1>3. QED
  BY <1>1, <1>2 DEF IsPrefixOf

LEMMA PrefixReflexive ==
  ASSUME NEW C, NEW q \in Seq(C)
  PROVE  IsPrefixOf(q, q) /\ IsPrefixOf(<<>>, q)
<1>1. Len(q) \in Nat /\ Len(q) \in 0..Len(q) /\ 0 \in 0..Len(q)
  BY LenProperties
<1>2. IsPrefixOf(Prefix(q, Len(q)), q) /\ IsPrefixOf(Prefix(q, 0), q)
  BY <1>1, PrefixesAre
<1>3. QED
  BY <1>2, WholePrefix

LEMMA PrefixTransitive ==
  ASSUME NEW C, NEW p \in Seq(C), NEW q \in Seq(C), NEW r \in Seq(C),
         IsPrefixOf(p, q), IsPrefixOf(q, r)
  PROVE  IsPrefixOf(p, r)
<1>1. /\ Len(p) \in Nat /\ Len(q) \in Nat /\ Len(p) <= Len(q)
      /\ p = Prefix(q, Len(p))
  BY PrefixOrder
<1>2. /\ Len(r) \in Nat /\ Len(q) <= Len(r) /\ q = Prefix(r, Len(q))
  BY PrefixOrder
<1>3. Len(p) \in 0..Len(q) /\ Len(q) \in 0..Len(r)
  BY <1>1, <1>2
<1>4. Prefix(Prefix(r, Len(q)), Len(p)) = Prefix(r, Len(p))
  BY <1>3, PrefixOfPrefix
<1>5. Prefix(r, Len(p)) = p
  BY <1>1, <1>2, <1>4, Zenon
<1>6. Len(p) <= Len(r)
  BY <1>1, <1>2
<1>7. QED
  BY <1>5, <1>6 DEF IsPrefixOf

LEMMA PrefixAntisymmetric ==
  ASSUME NEW C, NEW p \in Seq(C), NEW q \in Seq(C), IsPrefixOf(p, q), IsPrefixOf(q, p)
  PROVE  p = q
BY PrefixOrder

LEMMA PrefixLinear ==
  ASSUME NEW C, NEW p \in Seq(C), NEW q \in Seq(C), NEW r \in Seq(C),
         IsPrefixOf(p, r), IsPrefixOf(q, r), Len(p) <= Len(q)
  PROVE  IsPrefixOf(p, q)
<1>1. Len(p) \in Nat /\ Len(q) \in Nat /\ Len(r) \in Nat /\ Len(q) <= Len(r)
      /\ p = Prefix(r, Len(p)) /\ q = Prefix(r, Len(q))
  BY PrefixOrder
<1>2. Len(p) \in 0..Len(q) /\ Len(q) \in 0..Len(r)
  BY <1>1
<1>3. Prefix(Prefix(r, Len(q)), Len(p)) = Prefix(r, Len(p))
  BY <1>2, PrefixOfPrefix
<1>4. QED
  BY <1>1, <1>3 DEF IsPrefixOf

\* The pages of a path are its prefixes that are not empty.
LEMMA PagesAre ==
  ASSUME NEW C, NEW s \in Seq(C), NEW p \in Seq(C)
  PROVE  p \in PagesOn(s) <=> IsPrefixOf(p, s) /\ Len(p) > 0
<1>1. Len(s) \in Nat /\ Len(p) \in Nat
  BY LenProperties
<1>2. ASSUME p \in PagesOn(s) PROVE IsPrefixOf(p, s) /\ Len(p) > 0
  <2>1. PICK i \in 1..Len(s) : p = Prefix(s, i)
    BY <1>2 DEF PagesOn
  <2>2. i \in 0..Len(s)
    BY <1>1
  <2>3. QED
    BY <1>1, <2>1, <2>2, PrefixesAre, PrefixType
<1>3. ASSUME IsPrefixOf(p, s), Len(p) > 0 PROVE p \in PagesOn(s)
  <2>1. p = Prefix(s, Len(p)) /\ Len(p) \in 1..Len(s)
    BY <1>1, <1>3, PrefixOrder
  <2>2. QED
    BY <2>1 DEF PagesOn
<1>4. QED
  BY <1>2, <1>3

LEMMA PagesType ==
  ASSUME NEW C, NEW s \in Seq(C)
  PROVE  \A p \in PagesOn(s) : p \in Seq(C) /\ Len(p) > 0 /\ Len(p) \in Nat /\ IsPrefixOf(p, s)
<1>1. SUFFICES ASSUME NEW p \in PagesOn(s) PROVE p \in Seq(C)
  BY PagesAre, LenProperties
<1>2. Len(s) \in Nat
  BY LenProperties
<1>3. PICK i \in 1..Len(s) : p = Prefix(s, i)
  BY DEF PagesOn
<1>4. i \in 0..Len(s)
  BY <1>2
<1>5. QED
  BY <1>3, <1>4, PrefixType

\* The pages of the first n pages of a path.
LEMMA PagesOfPrefix ==
  ASSUME NEW C, NEW s \in Seq(C), NEW n \in 0..Len(s)
  PROVE  PagesOn(Prefix(s, n)) = {p \in PagesOn(s) : Len(p) <= n}
<1>1. Len(s) \in Nat /\ Prefix(s, n) \in Seq(C) /\ Len(Prefix(s, n)) = n
      /\ IsPrefixOf(Prefix(s, n), s)
  BY LenProperties, PrefixType, PrefixesAre
<1>2. ASSUME NEW p \in PagesOn(Prefix(s, n)) PROVE p \in PagesOn(s) /\ Len(p) <= n
  <2>1. p \in Seq(C) /\ Len(p) > 0 /\ IsPrefixOf(p, Prefix(s, n))
    BY <1>1, PagesType
  <2>2. IsPrefixOf(p, s) /\ Len(p) <= n
    BY <1>1, <2>1, PrefixTransitive, PrefixOrder
  <2>3. QED
    BY <2>1, <2>2, PagesAre
<1>3. ASSUME NEW p \in PagesOn(s), Len(p) <= n PROVE p \in PagesOn(Prefix(s, n))
  <2>1. p \in Seq(C) /\ Len(p) > 0 /\ IsPrefixOf(p, s)
    BY PagesType
  <2>2. IsPrefixOf(p, Prefix(s, n))
    BY <1>1, <1>3, <2>1, PrefixLinear
  <2>3. QED
    BY <1>1, <2>1, <2>2, PagesAre
<1>4. QED
  BY <1>2, <1>3

LEMMA PagesAreFinite ==
  ASSUME NEW C, NEW s \in Seq(C)
  PROVE  /\ IsFiniteSet(PagesOn(s)) /\ Cardinality(PagesOn(s)) = Len(s)
         /\ PagesOn(<<>>) = {}
<1>1. Len(s) \in Nat
  BY LenProperties
<1>2. IsFiniteSet(1..Len(s)) /\ Cardinality(1..Len(s)) = Len(s)
  BY <1>1, FS_Interval
<1> DEFINE f == [i \in 1..Len(s) |-> Prefix(s, i)]
<1>3. f \in Surjection(1..Len(s), PagesOn(s))
  BY DEF PagesOn, Surjection
<1>4. \A i \in 1..Len(s) : Len(f[i]) = i
  <2>1. \A i \in 1..Len(s) : i \in 0..Len(s) /\ f[i] = Prefix(s, i)
    BY <1>1
  <2>2. QED
    BY <2>1, PrefixType
<1>5. f \in Injection(1..Len(s), PagesOn(s))
  <2>1. f \in [1..Len(s) -> PagesOn(s)]
    BY <1>3 DEF Surjection
  <2>2. \A i, j \in 1..Len(s) : f[i] = f[j] => i = j
    BY <1>4
  <2> HIDE DEF f
  <2>3. QED
    BY <2>1, <2>2 DEF Injection, IsInjective
<1> HIDE DEF f
<1>6. IsFiniteSet(PagesOn(s)) /\ Cardinality(PagesOn(s)) = Len(s)
  BY <1>2, <1>3, <1>5, FS_Surjection
<1>7. PagesOn(<<>>) = {}
  <2>1. Len(<<>>) = 0
    BY EmptySeq
  <2>2. QED
    BY <2>1 DEF PagesOn
<1>8. QED
  BY <1>6, <1>7

\* The first n pages of a path are n pages.
LEMMA PrefixesDiffer ==
  ASSUME NEW C, NEW s \in Seq(C), NEW n \in 0..Len(s), NEW m \in 0..Len(s)
  PROVE  /\ Prefix(s, n) = Prefix(s, m) => n = m
         /\ IsPrefixOf(Prefix(s, n), Prefix(s, m)) <=> n <= m
         /\ Prefix(s, n) = <<>> <=> n = 0
<1>1. Len(s) \in Nat
  BY LenProperties
<1>2. /\ Prefix(s, n) \in Seq(C) /\ Len(Prefix(s, n)) = n
      /\ Prefix(s, m) \in Seq(C) /\ Len(Prefix(s, m)) = m
      /\ IsPrefixOf(Prefix(s, n), s) /\ IsPrefixOf(Prefix(s, m), s)
  BY PrefixType, PrefixesAre
<1>3. IsPrefixOf(Prefix(s, n), Prefix(s, m)) <=> n <= m
  BY <1>2, PrefixLinear, PrefixOrder
<1>4. Len(<<>>) = 0
  BY EmptySeq
<1>5. QED
  BY <1>2, <1>3, <1>4, WholePrefix

-------------------------------------------------------------------------------
(* Trees.                                                                     *)

Fields == {"page", "ends", "evictable", "protected"}
PageRecords == [ref : Nat, full : BOOLEAN, swa : BOOLEAN]

(* The shape of a tree: its pages are closed under prefixes, each lies at or  *)
(* above an end, and two keys part at the end of a node.                      *)
Shape(C, t) ==
  /\ DOMAIN t = Fields
  /\ t.page \in [DOMAIN t.page -> PageRecords]
  /\ IsFiniteSet(DOMAIN t.page)
  /\ \A p \in DOMAIN t.page : p \in Seq(C) /\ Len(p) > 0
  /\ \A p \in DOMAIN t.page : PagesOn(p) \subseteq DOMAIN t.page
  /\ t.ends \subseteq DOMAIN t.page
  /\ \A p \in DOMAIN t.page : \E e \in t.ends : IsPrefixOf(p, e)
  /\ \A p, q \in DOMAIN t.page :
       Len(p) = Len(q) /\ p # q /\ Len(p) > 1
       /\ Prefix(p, Len(p) - 1) = Prefix(q, Len(q) - 1)
       => Prefix(p, Len(p) - 1) \in t.ends

\* A path that names a node, or the root.
Names(t, path) == path = <<>> \/ path \in t.ends

(* The locks of a tree: H maps each holder to the path of its handle.  A page *)
(* is locked once for every handle at or below it.                            *)
Above(H, p) == {u \in DOMAIN H : IsPrefixOf(p, H[u])}
Locks(C, t, H) ==
  /\ IsFiniteSet(DOMAIN H)
  /\ \A u \in DOMAIN H : H[u] \in Seq(C) /\ Names(t, H[u])
  /\ \A p \in DOMAIN t.page : t.page[p].ref = Cardinality(Above(H, p))

\* The sizes that the tree keeps.
Sized(t) ==
  /\ t.evictable = Cardinality(EvictablePages(t))
  /\ t.protected = Cardinality(DOMAIN t.page \ EvictablePages(t))

SoundTree(C, t, H) == Shape(C, t) /\ Locks(C, t, H) /\ Sized(t)

LEMMA PageTypes ==
  ASSUME NEW C, NEW t, Shape(C, t), NEW p \in DOMAIN t.page
  PROVE  /\ p \in Seq(C) /\ Len(p) \in Nat /\ Len(p) > 0 /\ p # <<>>
         /\ t.page[p] \in PageRecords /\ t.page[p].ref \in Nat
         /\ t.page[p].full \in BOOLEAN /\ t.page[p].swa \in BOOLEAN
<1>1. p \in Seq(C) /\ Len(p) > 0 /\ t.page[p] \in PageRecords
  BY DEF Shape
<1>2. Len(p) \in Nat /\ Len(<<>>) = 0
  BY <1>1, LenProperties, EmptySeq
<1>3. QED
  BY <1>1, <1>2 DEF PageRecords

\* A tree with the same pages is closed under prefixes as well.
LEMMA PrefixInTree ==
  ASSUME NEW C, NEW t, Shape(C, t), NEW p \in DOMAIN t.page, NEW q \in Seq(C),
         IsPrefixOf(q, p), Len(q) > 0
  PROVE  q \in DOMAIN t.page
<1>1. p \in Seq(C) /\ PagesOn(p) \subseteq DOMAIN t.page
  BY DEF Shape
<1>2. QED
  BY <1>1, PagesAre

LEMMA NamesInTree ==
  ASSUME NEW C, NEW t, Shape(C, t), NEW path \in Seq(C), Names(t, path)
  PROVE  PagesOn(path) \subseteq DOMAIN t.page
<1>1. CASE path = <<>>
  BY <1>1, PagesAreFinite
<1>2. CASE path \in t.ends
  BY <1>2 DEF Shape
<1>3. QED
  BY <1>1, <1>2 DEF Names

LEMMA LeastNumber ==
  ASSUME NEW S, S \subseteq Nat, S # {}
  PROVE  \E m \in S : \A k \in S : m <= k
<1> DEFINE R == OpToRel(<, Nat)
<1>1. IsWellFoundedOn(R, Nat)
  BY NatLessThanWellFounded
<1>2. \A x, y \in Nat : x < y => <<x, y>> \in R
  BY DEF OpToRel
<1> HIDE DEF R
<1>3. PICK m \in S : \A y \in S : ~(<<y, m>> \in R)
  BY <1>1, WFMin, Zenon
<1>4. \A k \in S : k \in Nat /\ m \in Nat /\ ~(k < m)
  BY <1>2, <1>3
<1>5. QED
  BY <1>4

LEMMA LongestIs ==
  ASSUME NEW S \in SUBSET Nat, S # {}, NEW b \in Nat, \A n \in S : n <= b
  PROVE  Longest(S) \in S /\ \A m \in S : m <= Longest(S)
<1> DEFINE T == {b - n : n \in S}
<1>1. T \subseteq Nat /\ T # {}
  <2>1. \A n \in S : b - n \in Nat
    OBVIOUS
  <2>2. QED
    BY <2>1
<1>2. PICK d \in T : \A e \in T : d <= e
  <2> HIDE DEF T
  <2>1. QED
    BY <1>1, LeastNumber
<1>3. PICK n \in S : d = b - n
  BY <1>2
<1>4. \A m \in S : m <= n
  <2>1. \A m \in S : b - m \in T
    OBVIOUS
  <2>2. \A m \in S : d <= b - m
    <3> HIDE DEF T
    <3>1. QED
      BY <1>2, <2>1
  <2>3. \A m \in S : b - n <= b - m /\ m \in Int /\ n \in Int
    BY <1>3, <2>2
  <2>4. QED
    BY <2>3
<1>5. QED
  BY <1>4 DEF Longest

\* The node above an end ends where the longest other end on its path lies.
LEMMA ParentIs ==
  ASSUME NEW C, NEW t, Shape(C, t), NEW e \in t.ends
  PROVE  /\ ParentLen(t, e) \in 0..Len(e)
         /\ ParentLen(t, e) = 0 \/ \E d \in t.ends : /\ IsPrefixOf(d, e) /\ d # e
                                                     /\ Len(d) = ParentLen(t, e)
         /\ \A d \in t.ends : IsPrefixOf(d, e) /\ d # e => Len(d) <= ParentLen(t, e)
<1> DEFINE L == {Len(d) : d \in {d \in t.ends : IsPrefixOf(d, e) /\ d # e}}
           S == {0} \cup L
<1>1. \A d \in t.ends : d \in Seq(C) /\ Len(d) \in Nat
  BY LenProperties DEF Shape
<1>2. \A d \in t.ends : IsPrefixOf(d, e) => Len(d) <= Len(e)
  BY DEF IsPrefixOf
<1>3. \A n \in L : n \in Nat /\ n <= Len(e)
  BY <1>1, <1>2
<1>4. S \in SUBSET Nat /\ S # {} /\ \A n \in S : n <= Len(e)
  <2> HIDE DEF L
  <2>1. QED
    BY <1>1, <1>3
<1>5. ParentLen(t, e) = Longest(S)
  BY DEF ParentLen
<1>6. Longest(S) \in S /\ \A m \in S : m <= Longest(S)
  <2> HIDE DEF S
  <2>1. QED
    BY <1>1, <1>4, LongestIs
<1>7. \A d \in t.ends : IsPrefixOf(d, e) /\ d # e => Len(d) \in S
  OBVIOUS
<1>8. ParentLen(t, e) \in Nat /\ ParentLen(t, e) <= Len(e)
  BY <1>1, <1>4, <1>5, <1>6
<1>9. ParentLen(t, e) = 0 \/ ParentLen(t, e) \in L
  BY <1>5, <1>6
<1>10. ASSUME ParentLen(t, e) \in L
       PROVE  \E d \in t.ends : IsPrefixOf(d, e) /\ d # e /\ Len(d) = ParentLen(t, e)
  BY <1>10
<1>11. ASSUME NEW d \in t.ends, IsPrefixOf(d, e), d # e PROVE Len(d) <= ParentLen(t, e)
  <2>1. Len(d) \in S
    BY <1>7, <1>11
  <2> HIDE DEF S
  <2>2. QED
    BY <1>5, <1>6, <2>1
<1> HIDE DEF L, S
<1>12. ParentLen(t, e) \in 0..Len(e)
  BY <1>1, <1>8
<1>13. QED
  BY <1>9, <1>10, <1>11, <1>12

\* A page belongs to the node of an end when no end lies between the two.
LEMMA NodesAre ==
  ASSUME NEW C, NEW t, Shape(C, t), NEW e \in t.ends, NEW p \in Seq(C)
  PROVE  p \in NodePages(t, e) <=>
           /\ IsPrefixOf(p, e) /\ Len(p) > 0
           /\ \A d \in t.ends : IsPrefixOf(p, d) /\ IsPrefixOf(d, e) => d = e
<1> DEFINE L == ParentLen(t, e)
<1>1. \A d \in t.ends : d \in Seq(C) /\ Len(d) \in Nat /\ Len(d) > 0
  BY LenProperties DEF Shape
<1>2. Len(p) \in Nat
  BY LenProperties
<1>3. /\ L \in 0..Len(e)
      /\ L = 0 \/ \E d \in t.ends : IsPrefixOf(d, e) /\ d # e /\ Len(d) = L
      /\ \A d \in t.ends : IsPrefixOf(d, e) /\ d # e => Len(d) <= L
  BY ParentIs
<1> HIDE DEF L
<1>4. NodePages(t, e) = {Prefix(e, i) : i \in (L + 1)..Len(e)}
  BY DEF NodePages, L
<1>5. p \in NodePages(t, e) <=> IsPrefixOf(p, e) /\ Len(p) > L
  <2>1. ASSUME p \in NodePages(t, e) PROVE IsPrefixOf(p, e) /\ Len(p) > L
    <3>1. PICK i \in (L + 1)..Len(e) : p = Prefix(e, i)
      BY <1>4, <2>1
    <3>2. i \in 0..Len(e) /\ i > L
      BY <1>1, <1>3
    <3>3. QED
      BY <1>1, <3>1, <3>2, PrefixType, PrefixesAre
  <2>2. ASSUME IsPrefixOf(p, e), Len(p) > L PROVE p \in NodePages(t, e)
    <3>1. p = Prefix(e, Len(p)) /\ Len(p) <= Len(e)
      BY <1>1, <2>2, PrefixOrder
    <3>2. Len(p) \in (L + 1)..Len(e)
      BY <1>1, <1>2, <1>3, <2>2, <3>1
    <3>3. QED
      BY <1>4, <3>1, <3>2
  <2>3. QED
    BY <2>1, <2>2
<1>6. ASSUME IsPrefixOf(p, e), Len(p) > L, NEW d \in t.ends, IsPrefixOf(p, d), IsPrefixOf(d, e)
      PROVE  d = e
  <2>1. Len(p) <= Len(d)
    BY <1>6 DEF IsPrefixOf
  <2>2. QED
    BY <1>1, <1>2, <1>3, <1>6, <2>1
<1>7. ASSUME IsPrefixOf(p, e), Len(p) > 0, Len(p) <= L
      PROVE  \E d \in t.ends : IsPrefixOf(p, d) /\ IsPrefixOf(d, e) /\ d # e
  <2>1. PICK d \in t.ends : IsPrefixOf(d, e) /\ d # e /\ Len(d) = L
    BY <1>2, <1>3, <1>7
  <2>2. IsPrefixOf(p, d)
    BY <1>1, <1>7, <2>1, PrefixLinear
  <2>3. QED
    BY <2>1, <2>2
<1>8. L \in Nat
  BY <1>3, <1>1
<1>9. QED
  BY <1>2, <1>5, <1>6, <1>7, <1>8

LEMMA NodePagesType ==
  ASSUME NEW C, NEW t, Shape(C, t), NEW e \in t.ends
  PROVE  /\ e \in NodePages(t, e)
         /\ \A p \in NodePages(t, e) : p \in DOMAIN t.page /\ p \in Seq(C)
                                       /\ IsPrefixOf(p, e) /\ Len(p) > 0
<1>1. e \in Seq(C) /\ Len(e) \in Nat /\ Len(e) > 0 /\ e \in DOMAIN t.page
  BY LenProperties DEF Shape
<1>2. \A d \in t.ends : d \in Seq(C)
  BY DEF Shape
<1>3. e \in NodePages(t, e)
  <2>1. \A d \in t.ends : IsPrefixOf(e, d) /\ IsPrefixOf(d, e) => d = e
    BY <1>1, <1>2, PrefixAntisymmetric
  <2>2. IsPrefixOf(e, e)
    BY <1>1, PrefixReflexive
  <2>3. QED
    BY <1>1, <2>1, <2>2, NodesAre
<1>4. ASSUME NEW p \in NodePages(t, e)
      PROVE  p \in DOMAIN t.page /\ p \in Seq(C) /\ IsPrefixOf(p, e) /\ Len(p) > 0
  <2>1. ParentLen(t, e) \in 0..Len(e)
    BY ParentIs
  <2>2. PICK i \in (ParentLen(t, e) + 1)..Len(e) : p = Prefix(e, i)
    BY DEF NodePages
  <2>3. i \in 0..Len(e) /\ i > 0
    BY <1>1, <2>1
  <2>4. p \in Seq(C) /\ IsPrefixOf(p, e) /\ Len(p) > 0
    BY <1>1, <2>2, <2>3, PrefixType, PrefixesAre
  <2>5. QED
    BY <1>1, <2>4, PrefixInTree
<1>5. QED
  BY <1>3, <1>4

\* Every page belongs to a node.
LEMMA NodeOfPage ==
  ASSUME NEW C, NEW t, Shape(C, t), NEW p \in DOMAIN t.page
  PROVE  \E e \in t.ends : p \in NodePages(t, e)
<1> DEFINE E == {e \in t.ends : IsPrefixOf(p, e)}
           S == {Len(e) : e \in E}
<1>1. \A e \in E : e \in t.ends /\ e \in Seq(C) /\ Len(e) \in Nat
  BY LenProperties DEF Shape
<1>2. E # {}
  BY DEF Shape
<1>3. p \in Seq(C) /\ Len(p) > 0
  BY DEF Shape
<1>4. PICK e \in E : \A d \in E : Len(e) <= Len(d)
  <2> HIDE DEF E
  <2>1. S \subseteq Nat /\ S # {}
    BY <1>1, <1>2
  <2>2. PICK m \in S : \A k \in S : m <= k
    <3> HIDE DEF S
    <3>1. QED
      BY <2>1, LeastNumber
  <2>3. QED
    BY <2>2
<1>5. ASSUME NEW d \in t.ends, IsPrefixOf(p, d), IsPrefixOf(d, e) PROVE d = e
  <2>1. d \in E
    BY <1>5
  <2>2. Len(d) <= Len(e) /\ Len(e) <= Len(d)
    BY <1>4, <1>5, <2>1 DEF IsPrefixOf
  <2> HIDE DEF E
  <2>3. QED
    BY <1>1, <1>4, <1>5, <2>1, <2>2, PrefixOrder
<1>6. e \in t.ends /\ IsPrefixOf(p, e)
  OBVIOUS
<1>7. QED
  BY <1>3, <1>5, <1>6, NodesAre

\* Where two paths part: the last common page.
LEMMA PathsPart ==
  ASSUME NEW C, NEW d \in Seq(C), NEW e \in Seq(C), NEW p \in Seq(C), Len(p) > 0,
         IsPrefixOf(p, d), IsPrefixOf(p, e), ~IsPrefixOf(d, e), ~IsPrefixOf(e, d)
  PROVE  \E n \in Nat : /\ n >= Len(p) /\ n < Len(d) /\ n < Len(e)
                        /\ Prefix(d, n) = Prefix(e, n)
                        /\ Prefix(d, n + 1) # Prefix(e, n + 1)
<1>1. Len(d) \in Nat /\ Len(e) \in Nat /\ Len(p) \in Nat
      /\ Len(p) <= Len(d) /\ Len(p) <= Len(e)
      /\ p = Prefix(d, Len(p)) /\ p = Prefix(e, Len(p))
  BY PrefixOrder
<1> DEFINE S == {n \in Nat : n <= Len(d) /\ n <= Len(e) /\ Prefix(d, n) # Prefix(e, n)}
<1>2. S # {}
  <2>1. CASE Len(d) <= Len(e)
    <3>1. Prefix(e, Len(d)) # d /\ Prefix(d, Len(d)) = d
      BY <2>1, WholePrefix DEF IsPrefixOf
    <3>2. QED
      BY <1>1, <2>1, <3>1
  <2>2. CASE Len(e) <= Len(d)
    <3>1. Prefix(d, Len(e)) # e /\ Prefix(e, Len(e)) = e
      BY <2>2, WholePrefix DEF IsPrefixOf
    <3>2. QED
      BY <1>1, <2>2, <3>1
  <2>3. QED
    BY <1>1, <2>1, <2>2
<1>3. PICK m \in S : \A k \in S : m <= k
  <2>1. S \subseteq Nat
    OBVIOUS
  <2> HIDE DEF S
  <2>2. QED
    BY <1>2, <2>1, LeastNumber
<1>4. m \in Nat /\ m <= Len(d) /\ m <= Len(e) /\ Prefix(d, m) # Prefix(e, m)
  BY <1>3
<1>5. m > Len(p)
  <2>1. SUFFICES ASSUME m <= Len(p) PROVE Prefix(d, m) = Prefix(e, m)
    BY <1>1, <1>4
  <2>2. m \in 0..Len(p) /\ Len(p) \in 0..Len(d) /\ Len(p) \in 0..Len(e)
    BY <1>1, <1>4, <2>1
  <2>3. Prefix(Prefix(d, Len(p)), m) = Prefix(d, m) /\ Prefix(Prefix(e, Len(p)), m) = Prefix(e, m)
    BY <2>2, PrefixOfPrefix
  <2>4. QED
    BY <1>1, <2>3, Zenon
<1>6. m - 1 \in Nat /\ m - 1 >= Len(p) /\ m - 1 < Len(d) /\ m - 1 < Len(e) /\ (m - 1) + 1 = m
  BY <1>1, <1>4, <1>5
<1>7. Prefix(d, m - 1) = Prefix(e, m - 1)
  <2>1. m - 1 \notin S
    <3>1. ~(m <= m - 1)
      BY <1>4
    <3> HIDE DEF S
    <3>2. QED
      BY <1>3, <3>1
  <2>2. QED
    BY <1>1, <1>6, <2>1
<1>8. QED
  BY <1>4, <1>6, <1>7

(* A node is reached as a whole: an end below one of its pages lies below its *)
(* end.                                                                       *)
LEMMA NodeIsWhole ==
  ASSUME NEW C, NEW t, Shape(C, t), NEW e \in t.ends, NEW p \in NodePages(t, e),
         NEW d \in t.ends, IsPrefixOf(p, d)
  PROVE  IsPrefixOf(e, d)
<1>1. e \in Seq(C) /\ d \in Seq(C) /\ e \in DOMAIN t.page /\ d \in DOMAIN t.page
  BY DEF Shape
<1>2. p \in Seq(C) /\ IsPrefixOf(p, e) /\ Len(p) > 0
  BY NodePagesType
<1>3. \A x \in t.ends : IsPrefixOf(p, x) /\ IsPrefixOf(x, e) => x = e
  BY <1>2, NodesAre
<1>4. SUFFICES ASSUME ~IsPrefixOf(e, d) PROVE FALSE
  OBVIOUS
<1>5. ~IsPrefixOf(d, e)
  BY <1>1, <1>3, <1>4, PrefixReflexive
<1>6. PICK n \in Nat : /\ n >= Len(p) /\ n < Len(d) /\ n < Len(e)
                       /\ Prefix(d, n) = Prefix(e, n)
                       /\ Prefix(d, n + 1) # Prefix(e, n + 1)
  BY <1>1, <1>2, <1>4, <1>5, PathsPart
<1> DEFINE a == Prefix(e, n + 1)
           b == Prefix(d, n + 1)
           m == Prefix(e, n)
<1>7. Len(d) \in Nat /\ Len(e) \in Nat /\ Len(p) \in Nat /\ Len(p) > 0
  BY <1>1, <1>2, LenProperties
<1>8. /\ n + 1 \in 0..Len(e) /\ n + 1 \in 0..Len(d) /\ n \in 0..(n + 1)
      /\ n \in 0..Len(e) /\ n + 1 > 1 /\ (n + 1) - 1 = n
  BY <1>6, <1>7
<1>9. /\ a \in Seq(C) /\ Len(a) = n + 1 /\ IsPrefixOf(a, e)
      /\ b \in Seq(C) /\ Len(b) = n + 1 /\ IsPrefixOf(b, d)
      /\ m \in Seq(C) /\ Len(m) = n /\ IsPrefixOf(m, e)
  BY <1>1, <1>8, PrefixType, PrefixesAre
<1>10. Prefix(a, n) = m /\ Prefix(b, n) = m
  <2>1. Prefix(a, n) = Prefix(e, n) /\ Prefix(b, n) = Prefix(d, n)
    BY <1>1, <1>8, PrefixOfPrefix
  <2>2. QED
    BY <1>6, <2>1
<1> HIDE DEF a, b, m
<1>11. a \in DOMAIN t.page /\ b \in DOMAIN t.page
  BY <1>1, <1>8, <1>9, PrefixInTree
<1>12. a # b
  BY <1>6 DEF a, b
<1>13. m \in t.ends
  <2>1. Len(a) = Len(b) /\ Len(a) > 1 /\ Prefix(a, Len(a) - 1) = Prefix(b, Len(b) - 1)
        /\ Prefix(a, Len(a) - 1) = m
    BY <1>8, <1>9, <1>10
  <2>2. QED
    BY <1>11, <1>12, <2>1 DEF Shape
<1>14. IsPrefixOf(p, m)
  BY <1>1, <1>2, <1>6, <1>9, PrefixLinear
<1>15. m = e
  BY <1>3, <1>9, <1>13, <1>14
<1>16. QED
  BY <1>6, <1>7, <1>9, <1>15

-------------------------------------------------------------------------------
(* What an operator must keep.                                                *)

\* Two trees with the same pages, and the same of them released.
SameMarks(s, t) ==
  /\ DOMAIN s.page = DOMAIN t.page
  /\ \A p \in DOMAIN t.page : s.page[p].full = t.page[p].full /\ s.page[p].swa = t.page[p].swa
SameLocks(s, t) ==
  /\ DOMAIN s.page = DOMAIN t.page
  /\ \A p \in DOMAIN t.page : s.page[p].ref = t.page[p].ref

LEMMA ShapeKept ==
  ASSUME NEW C, NEW t, NEW r, Shape(C, t), DOMAIN r = Fields,
         DOMAIN r.page = DOMAIN t.page, r.page \in [DOMAIN t.page -> PageRecords],
         t.ends \subseteq r.ends, r.ends \subseteq DOMAIN t.page
  PROVE  Shape(C, r)
<1>1. \A p \in DOMAIN t.page : \E e \in r.ends : IsPrefixOf(p, e)
  BY DEF Shape
<1>2. \A p, q \in DOMAIN r.page :
        Len(p) = Len(q) /\ p # q /\ Len(p) > 1
        /\ Prefix(p, Len(p) - 1) = Prefix(q, Len(q) - 1)
        => Prefix(p, Len(p) - 1) \in r.ends
  BY DEF Shape
<1>3. QED
  BY <1>1, <1>2 DEF Shape

LEMMA LocksKept ==
  ASSUME NEW C, NEW t, NEW r, NEW H, Locks(C, t, H), SameLocks(r, t), t.ends \subseteq r.ends
  PROVE  Locks(C, r, H)
BY DEF Locks, SameLocks, Names

LEMMA SizesKept ==
  ASSUME NEW t, NEW r, Sized(t), SameLocks(r, t),
         r.evictable = t.evictable, r.protected = t.protected
  PROVE  Sized(r)
<1>1. EvictablePages(r) = EvictablePages(t)
  BY DEF EvictablePages, SameLocks
<1>2. QED
  BY <1>1 DEF Sized, SameLocks

LEMMA EvictableIsFinite ==
  ASSUME NEW C, NEW t, Shape(C, t)
  PROVE  /\ IsFiniteSet(EvictablePages(t)) /\ IsFiniteSet(DOMAIN t.page \ EvictablePages(t))
         /\ EvictablePages(t) \subseteq DOMAIN t.page
<1>1. EvictablePages(t) \in SUBSET DOMAIN t.page
      /\ DOMAIN t.page \ EvictablePages(t) \in SUBSET DOMAIN t.page
  BY DEF EvictablePages
<1>2. QED
  BY <1>1, FS_Subset DEF Shape

LEMMA AboveIsFinite ==
  ASSUME NEW C, NEW t, NEW H, Locks(C, t, H), NEW p
  PROVE  IsFiniteSet(Above(H, p)) /\ Cardinality(Above(H, p)) \in Nat
<1>1. Above(H, p) \in SUBSET DOMAIN H
  BY DEF Above
<1>2. QED
  BY <1>1, FS_Subset, FS_CardinalityType DEF Locks

\* Splitting a node: only an end is new.
LEMMA SplitIsSound ==
  ASSUME NEW C, NEW t, NEW H, SoundTree(C, t, H), NEW path,
         path = <<>> \/ path \in DOMAIN t.page
  PROVE  /\ SoundTree(C, SplitAt(t, path), H)
         /\ SplitAt(t, path).page = t.page
         /\ t.ends \subseteq SplitAt(t, path).ends
         /\ Names(SplitAt(t, path), path)
         /\ \A x : Names(t, x) => Names(SplitAt(t, path), x)
<1> DEFINE r == SplitAt(t, path)
<1>1. Shape(C, t) /\ Locks(C, t, H) /\ Sized(t)
  BY DEF SoundTree
<1>2. CASE path = <<>>
  <2>1. r = t
    BY <1>2 DEF SplitAt
  <2>2. QED
    BY <1>2, <2>1 DEF Names
<1>3. CASE path # <<>>
  <2>1. r = [t EXCEPT !.ends = @ \cup {path}]
    BY <1>3 DEF SplitAt
  <2>2. DOMAIN t = Fields
    BY <1>1 DEF Shape
  <2>3. DOMAIN r = Fields /\ r.page = t.page /\ r.ends = t.ends \cup {path}
        /\ r.evictable = t.evictable /\ r.protected = t.protected
    BY <2>1, <2>2 DEF Fields
  <2> HIDE DEF r
  <2>4. t.ends \subseteq r.ends /\ r.ends \subseteq DOMAIN t.page
        /\ r.page \in [DOMAIN t.page -> PageRecords]
    BY <1>1, <1>3, <2>3 DEF Shape
  <2>5. Shape(C, r)
    BY <1>1, <2>3, <2>4, ShapeKept
  <2>6. SameLocks(r, t)
    BY <2>3 DEF SameLocks
  <2>7. Locks(C, r, H) /\ Sized(r)
    BY <1>1, <2>3, <2>4, <2>6, LocksKept, SizesKept
  <2>8. QED
    BY <2>3, <2>5, <2>7 DEF SoundTree, Names, r
<1>4. QED
  BY <1>2, <1>3

\* How far a key is in the tree.
LEMMA MatchIs ==
  ASSUME NEW C, NEW t, Shape(C, t), NEW key \in Seq(C)
  PROVE  /\ MatchLen(t, key) \in 0..Len(key)
         /\ Prefix(key, MatchLen(t, key)) \in Seq(C)
         /\ PagesOn(key) \cap DOMAIN t.page = PagesOn(Prefix(key, MatchLen(t, key)))
         /\ Prefix(key, MatchLen(t, key)) = <<>> \/ Prefix(key, MatchLen(t, key)) \in DOMAIN t.page
<1>1. Len(key) \in Nat
  BY LenProperties
<1> DEFINE S == {i \in 1..Len(key) : Prefix(key, i) \in DOMAIN t.page}
           T == {0} \cup S
           m == Longest(T)
<1>2. m \in T /\ \A k \in T : k <= m
  <2>1. T \in SUBSET Nat /\ T # {} /\ \A n \in T : n <= Len(key)
    BY <1>1
  <2> HIDE DEF T
  <2>2. QED
    BY <1>1, <2>1, LongestIs
<1>3. m \in 0..Len(key) /\ (m = 0 \/ Prefix(key, m) \in DOMAIN t.page)
      /\ \A k \in 1..Len(key) : Prefix(key, k) \in DOMAIN t.page => k <= m
  <2>1. m = 0 \/ m \in S
    BY <1>2
  <2>2. \A k \in S : k <= m
    BY <1>2
  <2> HIDE DEF m
  <2>3. QED
    BY <1>1, <2>1, <2>2
<1> HIDE DEF m
<1>4. Prefix(key, m) \in Seq(C) /\ Len(Prefix(key, m)) = m
  BY <1>3, PrefixType
<1>5. ASSUME NEW p \in PagesOn(key), p \in DOMAIN t.page PROVE p \in PagesOn(Prefix(key, m))
  <2>1. PICK i \in 1..Len(key) : p = Prefix(key, i)
    BY DEF PagesOn
  <2>2. i <= m /\ i \in 0..Len(key)
    BY <1>1, <1>3, <1>5, <2>1
  <2>3. Len(p) = i
    BY <2>1, <2>2, PrefixType
  <2>4. QED
    BY <1>3, <2>2, <2>3, PagesOfPrefix
<1>6. ASSUME NEW p \in PagesOn(Prefix(key, m)) PROVE p \in PagesOn(key) /\ p \in DOMAIN t.page
  <2>1. p \in PagesOn(key)
    BY <1>3, PagesOfPrefix
  <2>2. m # 0
    BY <1>4, <1>6, PagesAreFinite, WholePrefix
  <2>3. PagesOn(Prefix(key, m)) \subseteq DOMAIN t.page
    BY <1>3, <2>2 DEF Shape
  <2>4. QED
    BY <2>1, <2>3
<1>7. PagesOn(key) \cap DOMAIN t.page = PagesOn(Prefix(key, m))
  BY <1>5, <1>6
<1>8. MatchLen(t, key) = m
  BY <1>4, <1>7, PagesAreFinite DEF MatchLen
<1>9. QED
  BY <1>3, <1>4, <1>7, <1>8, WholePrefix

LEMMA WalkIsSound ==
  ASSUME NEW C, NEW t, NEW H, SoundTree(C, t, H), NEW key \in Seq(C)
  PROVE  /\ SoundTree(C, TreeWalk(t, key), H)
         /\ TreeWalk(t, key).page = t.page
         /\ t.ends \subseteq TreeWalk(t, key).ends
         /\ Names(TreeWalk(t, key), Prefix(key, MatchLen(t, key)))
<1>1. Prefix(key, MatchLen(t, key)) = <<>> \/ Prefix(key, MatchLen(t, key)) \in DOMAIN t.page
  BY MatchIs DEF SoundTree
<1>2. QED
  BY <1>1, SplitIsSound DEF TreeWalk

\* A match ends at a node whose last page has its SWA page, or at the root.
LEMMA BoundaryIs ==
  ASSUME NEW C, NEW t, NEW path \in Seq(C)
  PROVE  /\ SafeMatchBoundary(t, path) \in 0..Len(path)
         /\ \/ SafeMatchBoundary(t, path) = 0
            \/ /\ Prefix(path, SafeMatchBoundary(t, path)) \in t.ends
               /\ t.page[Prefix(path, SafeMatchBoundary(t, path))].swa
<1>1. Len(path) \in Nat
  BY LenProperties
<1> DEFINE S == {i \in 1..Len(path) : Prefix(path, i) \in t.ends /\ t.page[Prefix(path, i)].swa}
           T == {0} \cup S
<1>2. Longest(T) \in T
  <2>1. T \in SUBSET Nat /\ T # {} /\ \A n \in T : n <= Len(path)
    BY <1>1
  <2> HIDE DEF T
  <2>2. QED
    BY <1>1, <2>1, LongestIs
<1>3. SafeMatchBoundary(t, path) = Longest(T)
  BY DEF SafeMatchBoundary
<1>4. SafeMatchBoundary(t, path) = 0 \/ SafeMatchBoundary(t, path) \in S
  BY <1>2, <1>3
<1>5. QED
  BY <1>1, <1>4

LEMMA LockFields ==
  ASSUME NEW C, NEW t, Shape(C, t), NEW path, PagesOn(path) \subseteq DOMAIN t.page
  PROVE  /\ DOMAIN LockHandle(t, path) = Fields
         /\ LockHandle(t, path).page =
              [p \in DOMAIN t.page |->
                 IF p \in PagesOn(path) THEN [t.page[p] EXCEPT !.ref = @ + 1] ELSE t.page[p]]
         /\ LockHandle(t, path).ends = t.ends
         /\ LockHandle(t, path).evictable =
              t.evictable - Cardinality({p \in PagesOn(path) : t.page[p].ref = 0})
         /\ LockHandle(t, path).protected =
              t.protected + Cardinality({p \in PagesOn(path) : t.page[p].ref = 0})
<1> DEFINE pg == [p \in DOMAIN t.page \cup PagesOn(path) |->
                    IF p \in PagesOn(path) THEN [t.page[p] EXCEPT !.ref = @ + 1] ELSE t.page[p]]
           n  == Cardinality({p \in PagesOn(path) : t.page[p].ref = 0})
           r  == LockHandle(t, path)
<1>1. r = [[t EXCEPT !.page = pg] EXCEPT !.evictable = @ - n, !.protected = @ + n]
  BY DEF LockHandle, WithPages
<1>2. DOMAIN t = Fields
  BY DEF Shape
<1>3. DOMAIN t.page \cup PagesOn(path) = DOMAIN t.page
  OBVIOUS
<1> HIDE DEF pg, n, r
<1>4. DOMAIN r = Fields /\ r.page = pg /\ r.ends = t.ends
      /\ r.evictable = t.evictable - n /\ r.protected = t.protected + n
  BY <1>1, <1>2 DEF Fields
<1>5. QED
  BY <1>3, <1>4 DEF pg, n, r

LEMMA UnlockFields ==
  ASSUME NEW C, NEW t, Shape(C, t), NEW path, PagesOn(path) \subseteq DOMAIN t.page
  PROVE  /\ DOMAIN UnlockHandle(t, path) = Fields
         /\ UnlockHandle(t, path).page =
              [p \in DOMAIN t.page |->
                 IF p \in PagesOn(path) THEN [t.page[p] EXCEPT !.ref = @ - 1] ELSE t.page[p]]
         /\ UnlockHandle(t, path).ends = t.ends
         /\ UnlockHandle(t, path).evictable =
              t.evictable + Cardinality({p \in PagesOn(path) : t.page[p].ref = 1})
         /\ UnlockHandle(t, path).protected =
              t.protected - Cardinality({p \in PagesOn(path) : t.page[p].ref = 1})
<1> DEFINE pg == [p \in DOMAIN t.page \cup PagesOn(path) |->
                    IF p \in PagesOn(path) THEN [t.page[p] EXCEPT !.ref = @ - 1] ELSE t.page[p]]
           n  == Cardinality({p \in PagesOn(path) : t.page[p].ref = 1})
           r  == UnlockHandle(t, path)
<1>1. r = [[t EXCEPT !.page = pg] EXCEPT !.evictable = @ + n, !.protected = @ - n]
  BY DEF UnlockHandle, WithPages
<1>2. DOMAIN t = Fields
  BY DEF Shape
<1>3. DOMAIN t.page \cup PagesOn(path) = DOMAIN t.page
  OBVIOUS
<1> HIDE DEF pg, n, r
<1>4. DOMAIN r = Fields /\ r.page = pg /\ r.ends = t.ends
      /\ r.evictable = t.evictable + n /\ r.protected = t.protected - n
  BY <1>1, <1>2 DEF Fields
<1>5. QED
  BY <1>3, <1>4 DEF pg, n, r

\* Two disjoint finite sets.
LEMMA DisjointSum ==
  ASSUME NEW S, NEW T, IsFiniteSet(S), IsFiniteSet(T), S \cap T = {}
  PROVE  /\ IsFiniteSet(S \cup T)
         /\ Cardinality(S \cup T) = Cardinality(S) + Cardinality(T)
         /\ Cardinality(S) \in Nat /\ Cardinality(T) \in Nat
BY FS_Union, FS_EmptySet, FS_CardinalityType

LEMMA SubsetDifference ==
  ASSUME NEW S, NEW T, IsFiniteSet(S), T \subseteq S
  PROVE  /\ IsFiniteSet(S \ T) /\ IsFiniteSet(T)
         /\ Cardinality(S \ T) = Cardinality(S) - Cardinality(T)
         /\ Cardinality(S) \in Nat /\ Cardinality(T) \in Nat
<1>1. S \cap T = T
  OBVIOUS
<1>2. T \in SUBSET S
  OBVIOUS
<1>3. IsFiniteSet(T) /\ IsFiniteSet(S \ T) /\ Cardinality(S \ T) = Cardinality(S) - Cardinality(S \cap T)
  BY <1>2, FS_Subset, FS_Difference
<1>4. QED
  BY <1>1, <1>3, FS_CardinalityType

\* The holders when one more has a handle, and when one gives its handle up.
With(H, G, u, path) ==
  /\ u \notin DOMAIN H /\ DOMAIN G = DOMAIN H \cup {u} /\ G[u] = path
  /\ \A v \in DOMAIN H : G[v] = H[v]
Without(H, G, u) ==
  DOMAIN G = DOMAIN H \ {u} /\ \A v \in DOMAIN G : G[v] = H[v]

\* Locking the path of a handle adds a holder.
LEMMA LockIsSound ==
  ASSUME NEW C, NEW t, NEW H, SoundTree(C, t, H), NEW path \in Seq(C), Names(t, path),
         NEW u, NEW G, With(H, G, u, path)
  PROVE  /\ SoundTree(C, LockHandle(t, path), G)
         /\ SameMarks(LockHandle(t, path), t)
         /\ LockHandle(t, path).ends = t.ends
<1> DEFINE r == LockHandle(t, path)
           n == Cardinality({p \in PagesOn(path) : t.page[p].ref = 0})
<1>0. /\ u \notin DOMAIN H /\ DOMAIN G = DOMAIN H \cup {u} /\ G[u] = path
      /\ \A v \in DOMAIN H : G[v] = H[v]
  BY DEF With
<1>1. Shape(C, t) /\ Locks(C, t, H) /\ Sized(t)
  BY DEF SoundTree
<1>2. PagesOn(path) \subseteq DOMAIN t.page
  BY <1>1, NamesInTree
<1>3. /\ DOMAIN r = Fields
      /\ r.page = [p \in DOMAIN t.page |->
                     IF p \in PagesOn(path) THEN [t.page[p] EXCEPT !.ref = @ + 1] ELSE t.page[p]]
      /\ r.ends = t.ends
      /\ r.evictable = t.evictable - n /\ r.protected = t.protected + n
  BY <1>1, <1>2, LockFields
<1> HIDE DEF r
<1>4. \A p \in DOMAIN t.page : t.page[p] \in PageRecords /\ t.page[p].ref \in Nat
  BY <1>1, PageTypes
<1>5. /\ DOMAIN r.page = DOMAIN t.page
      /\ \A p \in DOMAIN t.page :
           /\ r.page[p] \in PageRecords
           /\ r.page[p].full = t.page[p].full /\ r.page[p].swa = t.page[p].swa
           /\ p \in PagesOn(path) => r.page[p].ref = t.page[p].ref + 1
           /\ p \notin PagesOn(path) => r.page[p].ref = t.page[p].ref
  BY <1>3, <1>4 DEF PageRecords
<1>6. Shape(C, r)
  <2>1. r.page \in [DOMAIN t.page -> PageRecords]
    BY <1>3, <1>5
  <2>2. r.ends \subseteq DOMAIN t.page
    BY <1>1, <1>3 DEF Shape
  <2>3. QED
    BY <1>1, <1>3, <1>5, <2>1, <2>2, ShapeKept
<1>7. Locks(C, r, G)
  <2>1. IsFiniteSet(DOMAIN G)
    BY <1>0, <1>1, FS_AddElement DEF Locks
  <2>2. \A v \in DOMAIN G : G[v] \in Seq(C) /\ Names(r, G[v])
    BY <1>0, <1>1, <1>3 DEF Locks, Names
  <2>3. ASSUME NEW p \in DOMAIN t.page PROVE r.page[p].ref = Cardinality(Above(G, p))
    <3>1. p \in Seq(C) /\ Len(p) > 0
      BY <1>1, PageTypes
    <3>2. p \in PagesOn(path) <=> IsPrefixOf(p, path)
      BY <3>1, PagesAre
    <3>3. IsFiniteSet(Above(H, p)) /\ t.page[p].ref = Cardinality(Above(H, p))
      BY <1>1, AboveIsFinite DEF Locks
    <3>4. CASE p \in PagesOn(path)
      <4>1. Above(G, p) = Above(H, p) \cup {u} /\ u \notin Above(H, p)
        BY <1>0, <3>2, <3>4 DEF Above
      <4>2. QED
        BY <1>5, <3>3, <3>4, <4>1, FS_AddElement
    <3>5. CASE p \notin PagesOn(path)
      <4>1. Above(G, p) = Above(H, p)
        BY <1>0, <3>2, <3>5 DEF Above
      <4>2. QED
        BY <1>5, <3>3, <3>5, <4>1
    <3>6. QED
      BY <3>4, <3>5
  <2>4. QED
    BY <1>5, <2>1, <2>2, <2>3 DEF Locks
<1>8. Sized(r)
  <2> DEFINE U == {p \in PagesOn(path) : t.page[p].ref = 0}
             E == EvictablePages(t)
             P == DOMAIN t.page \ E
  <2>1. U \subseteq E /\ U \cap P = {}
    BY <1>2 DEF EvictablePages
  <2>2. EvictablePages(r) = E \ U
    BY <1>2, <1>4, <1>5 DEF EvictablePages
  <2>3. DOMAIN r.page \ EvictablePages(r) = P \cup U
    BY <1>2, <1>5, <2>1, <2>2
  <2>4. IsFiniteSet(E) /\ IsFiniteSet(P)
    BY <1>1, EvictableIsFinite
  <2>5. t.evictable = Cardinality(E) /\ t.protected = Cardinality(P) /\ n = Cardinality(U)
    BY <1>1 DEF Sized
  <2> HIDE DEF U, E, P
  <2>6. /\ Cardinality(E \ U) = Cardinality(E) - Cardinality(U) /\ IsFiniteSet(U)
        /\ Cardinality(P \cup U) = Cardinality(P) + Cardinality(U)
    BY <2>1, <2>4, SubsetDifference, DisjointSum
  <2>7. QED
    BY <1>3, <2>2, <2>3, <2>5, <2>6 DEF Sized
<1>9. QED
  BY <1>3, <1>5, <1>6, <1>7, <1>8 DEF SoundTree, SameMarks, r

\* Unlocking removes one.
LEMMA UnlockIsSound ==
  ASSUME NEW C, NEW t, NEW H, SoundTree(C, t, H), NEW u \in DOMAIN H,
         NEW G, Without(H, G, u)
  PROVE  /\ SoundTree(C, UnlockHandle(t, H[u]), G)
         /\ SameMarks(UnlockHandle(t, H[u]), t)
         /\ UnlockHandle(t, H[u]).ends = t.ends
<1> DEFINE path == H[u]
           r == UnlockHandle(t, path)
           n == Cardinality({p \in PagesOn(path) : t.page[p].ref = 1})
<1>0. DOMAIN G = DOMAIN H \ {u} /\ \A v \in DOMAIN G : G[v] = H[v]
  BY DEF Without
<1>1. Shape(C, t) /\ Locks(C, t, H) /\ Sized(t)
  BY DEF SoundTree
<1>2. path \in Seq(C) /\ Names(t, path)
  BY <1>1 DEF Locks
<1> HIDE DEF path
<1>3. PagesOn(path) \subseteq DOMAIN t.page
  BY <1>1, <1>2, NamesInTree
<1>4. /\ DOMAIN r = Fields
      /\ r.page = [p \in DOMAIN t.page |->
                     IF p \in PagesOn(path) THEN [t.page[p] EXCEPT !.ref = @ - 1] ELSE t.page[p]]
      /\ r.ends = t.ends
      /\ r.evictable = t.evictable + n /\ r.protected = t.protected - n
  BY <1>1, <1>3, UnlockFields
<1> HIDE DEF r
<1>5. \A p \in DOMAIN t.page :
        /\ t.page[p] \in PageRecords /\ t.page[p].ref \in Nat
        /\ p \in PagesOn(path) <=> IsPrefixOf(p, path)
        /\ IsFiniteSet(Above(H, p)) /\ t.page[p].ref = Cardinality(Above(H, p))
  <2>1. SUFFICES ASSUME NEW p \in DOMAIN t.page
                 PROVE  /\ t.page[p] \in PageRecords /\ t.page[p].ref \in Nat
                        /\ p \in PagesOn(path) <=> IsPrefixOf(p, path)
                        /\ IsFiniteSet(Above(H, p)) /\ t.page[p].ref = Cardinality(Above(H, p))
    OBVIOUS
  <2>2. p \in Seq(C) /\ Len(p) > 0 /\ t.page[p] \in PageRecords /\ t.page[p].ref \in Nat
    BY <1>1, PageTypes
  <2>3. QED
    BY <1>1, <1>2, <2>2, PagesAre, AboveIsFinite DEF Locks
<1>6. ASSUME NEW p \in PagesOn(path) PROVE /\ Above(G, p) = Above(H, p) \ {u} /\ u \in Above(H, p)
                                           /\ t.page[p].ref > 0
  <2>1. p \in DOMAIN t.page /\ IsPrefixOf(p, path)
    BY <1>3, <1>5
  <2>2. Above(G, p) = Above(H, p) \ {u} /\ u \in Above(H, p)
    BY <1>0, <2>1 DEF Above, path
  <2>3. t.page[p].ref # 0
    BY <1>5, <2>1, <2>2, FS_EmptySet
  <2>4. QED
    BY <1>5, <2>1, <2>2, <2>3
<1>7. /\ DOMAIN r.page = DOMAIN t.page
      /\ \A p \in DOMAIN t.page :
           /\ r.page[p] \in PageRecords
           /\ r.page[p].full = t.page[p].full /\ r.page[p].swa = t.page[p].swa
           /\ p \in PagesOn(path) => r.page[p].ref = t.page[p].ref - 1
           /\ p \notin PagesOn(path) => r.page[p].ref = t.page[p].ref
  <2>1. \A p \in PagesOn(path) : t.page[p].ref - 1 \in Nat
    BY <1>3, <1>5, <1>6
  <2>2. QED
    BY <1>4, <1>5, <2>1 DEF PageRecords
<1>8. Shape(C, r)
  <2>1. r.page \in [DOMAIN t.page -> PageRecords]
    BY <1>4, <1>7
  <2>2. r.ends \subseteq DOMAIN t.page
    BY <1>1, <1>4 DEF Shape
  <2>3. QED
    BY <1>1, <1>4, <1>7, <2>1, <2>2, ShapeKept
<1>9. Locks(C, r, G)
  <2>1. IsFiniteSet(DOMAIN G)
    BY <1>0, <1>1, FS_RemoveElement DEF Locks
  <2>2. \A v \in DOMAIN G : G[v] \in Seq(C) /\ Names(r, G[v])
    BY <1>0, <1>1, <1>4 DEF Locks, Names
  <2>3. ASSUME NEW p \in DOMAIN t.page PROVE r.page[p].ref = Cardinality(Above(G, p))
    <3>1. CASE p \in PagesOn(path)
      BY <1>5, <1>6, <1>7, <3>1, FS_RemoveElement
    <3>2. CASE p \notin PagesOn(path)
      <4>1. Above(G, p) = Above(H, p)
        BY <1>0, <1>5, <3>2 DEF Above, path
      <4>2. QED
        BY <1>5, <1>7, <3>2, <4>1
    <3>3. QED
      BY <3>1, <3>2
  <2>4. QED
    BY <1>7, <2>1, <2>2, <2>3 DEF Locks
<1>10. Sized(r)
  <2> DEFINE U == {p \in PagesOn(path) : t.page[p].ref = 1}
             E == EvictablePages(t)
             P == DOMAIN t.page \ E
  <2>1. U \subseteq P /\ U \cap E = {}
    BY <1>3 DEF EvictablePages
  <2>2. EvictablePages(r) = E \cup U
    BY <1>3, <1>5, <1>6, <1>7 DEF EvictablePages
  <2>3. DOMAIN r.page \ EvictablePages(r) = P \ U
    BY <1>3, <1>7, <2>1, <2>2
  <2>4. IsFiniteSet(E) /\ IsFiniteSet(P)
    BY <1>1, EvictableIsFinite
  <2>5. t.evictable = Cardinality(E) /\ t.protected = Cardinality(P) /\ n = Cardinality(U)
    BY <1>1 DEF Sized
  <2> HIDE DEF U, E, P
  <2>6. /\ Cardinality(P \ U) = Cardinality(P) - Cardinality(U) /\ IsFiniteSet(U)
        /\ Cardinality(E \cup U) = Cardinality(E) + Cardinality(U)
    BY <2>1, <2>4, SubsetDifference, DisjointSum
  <2>7. QED
    BY <1>4, <2>2, <2>3, <2>5, <2>6 DEF Sized
<1>11. QED
  BY <1>4, <1>7, <1>8, <1>9, <1>10 DEF SoundTree, SameMarks, r, path

\* A page that is inserted.
NewPage(p, live) == [ref |-> 0, full |-> TRUE, swa |-> Len(p) \in live]

LEMMA NewPageIs ==
  ASSUME NEW p, NEW live
  PROVE  /\ NewPage(p, live).ref = 0 /\ NewPage(p, live).full = TRUE
         /\ NewPage(p, live).swa = (Len(p) \in live)
         /\ NewPage(p, live) \in PageRecords
BY DEF NewPage, PageRecords

\* The pages of a key that a tree lacks.
Lacks(t, key) == PagesOn(key) \ DOMAIN t.page

\* Inserting a key: the pages that the tree lacks become one new node.
LEMMA InsertFields ==
  ASSUME NEW C, NEW t, NEW H, SoundTree(C, t, H), NEW key \in Seq(C), NEW live,
         Lacks(t, key) # {}
  PROVE  /\ DOMAIN InsertPrefix(t, key, live) = Fields
         /\ InsertPrefix(t, key, live).page =
              [p \in DOMAIN t.page \cup Lacks(t, key) |->
                 IF p \in Lacks(t, key) THEN NewPage(p, live)
                 ELSE t.page[p]]
         /\ InsertPrefix(t, key, live).ends = TreeWalk(t, key).ends \cup {key}
         /\ InsertPrefix(t, key, live).evictable = t.evictable + Len(key) - MatchLen(t, key)
         /\ InsertPrefix(t, key, live).protected = t.protected
<1> DEFINE new == Lacks(t, key)
           w == TreeWalk(t, key)
           pg == [p \in DOMAIN w.page \cup new |->
                    IF p \in new THEN NewPage(p, live)
                    ELSE w.page[p]]
           r == InsertPrefix(t, key, live)
<1>1. r = [[w EXCEPT !.page = pg]
             EXCEPT !.ends = @ \cup {key}, !.evictable = @ + Len(key) - MatchLen(t, key)]
  BY DEF InsertPrefix, WithPages, NewPage, Lacks
<1>2. DOMAIN w = Fields /\ w.page = t.page
  BY WalkIsSound DEF SoundTree, Shape
<1>3. w.evictable = t.evictable /\ w.protected = t.protected
  <2>1. DOMAIN t = Fields
    BY DEF SoundTree, Shape
  <2>2. QED
    BY <2>1 DEF TreeWalk, SplitAt, Fields
<1> HIDE DEF w, pg, r, new
<1>4. DOMAIN r = Fields /\ r.page = pg /\ r.ends = w.ends \cup {key}
      /\ r.evictable = w.evictable + Len(key) - MatchLen(t, key) /\ r.protected = w.protected
  BY <1>1, <1>2 DEF Fields
<1>5. QED
  BY <1>2, <1>3, <1>4 DEF w, pg, r, new

\* A tree that has grown by what it lacked of a key.
GrownBy(r, t, key, live) ==
  /\ DOMAIN r.page = DOMAIN t.page \cup Lacks(t, key)
  /\ \A p \in DOMAIN t.page : r.page[p].full = t.page[p].full
  /\ \A p \in DOMAIN t.page : r.page[p].swa = t.page[p].swa
  /\ \A p \in Lacks(t, key) : r.page[p].full = TRUE
  /\ \A p \in Lacks(t, key) : r.page[p].swa = (Len(p) \in live)

LEMMA InsertIsSound ==
  ASSUME NEW C, NEW t, NEW H, SoundTree(C, t, H), NEW key \in Seq(C), NEW live
  PROVE  /\ SoundTree(C, InsertPrefix(t, key, live), H)
         /\ Names(InsertPrefix(t, key, live), key)
         /\ GrownBy(InsertPrefix(t, key, live), t, key, live)
<1>a. ASSUME Lacks(t, key) # {}
      PROVE  /\ DOMAIN InsertPrefix(t, key, live) = Fields
             /\ InsertPrefix(t, key, live).page =
                  [p \in DOMAIN t.page \cup Lacks(t, key) |->
                     IF p \in Lacks(t, key) THEN NewPage(p, live)
                     ELSE t.page[p]]
             /\ InsertPrefix(t, key, live).ends = TreeWalk(t, key).ends \cup {key}
             /\ InsertPrefix(t, key, live).evictable = t.evictable + Len(key) - MatchLen(t, key)
             /\ InsertPrefix(t, key, live).protected = t.protected
  BY <1>a, InsertFields
<1> DEFINE r == InsertPrefix(t, key, live)
           w == TreeWalk(t, key)
           have == MatchLen(t, key)
           stem == Prefix(key, have)
           new == Lacks(t, key)
<1>0. new = PagesOn(key) \ DOMAIN t.page
  BY DEF Lacks
<1> HIDE DEF new
<1>1. Shape(C, t) /\ Locks(C, t, H) /\ Sized(t)
  BY DEF SoundTree
<1>2. /\ SoundTree(C, w, H) /\ w.page = t.page /\ t.ends \subseteq w.ends /\ Names(w, stem)
  BY WalkIsSound
<1>3. /\ have \in 0..Len(key) /\ stem \in Seq(C)
      /\ PagesOn(key) \cap DOMAIN t.page = PagesOn(stem)
  BY <1>1, MatchIs
<1>4. Len(key) \in Nat
  BY LenProperties
<1>5. CASE new = {}
  <2>1. r = w
    BY <1>0, <1>5 DEF InsertPrefix
  <2>2. PagesOn(key) \cap DOMAIN t.page = PagesOn(key)
    BY <1>0, <1>5
  <2>3. have = Len(key)
    BY <2>2, PagesAreFinite DEF MatchLen
  <2>4. stem = key
    BY <2>3, WholePrefix
  <2> HIDE DEF r, w, stem
  <2>5. SoundTree(C, r, H) /\ Names(r, key)
    BY <1>2, <2>1, <2>4
  <2>6. GrownBy(r, t, key, live)
    BY <1>2, <1>5, <2>1 DEF GrownBy, new
  <2>7. QED
    BY <2>5, <2>6 DEF r
<1>6. CASE new # {}
  <2>1. /\ DOMAIN r = Fields
        /\ r.page = [p \in DOMAIN t.page \cup new |->
                       IF p \in new THEN NewPage(p, live)
                       ELSE t.page[p]]
        /\ r.ends = w.ends \cup {key}
        /\ r.evictable = t.evictable + Len(key) - have /\ r.protected = t.protected
    <3> HIDE DEF r, w, new, have
    <3>1. QED
      BY <1>a, <1>6 DEF r, w, new, have
  <2>2. /\ Shape(C, w) /\ Locks(C, w, H)
    BY <1>2 DEF SoundTree
  <2>3. \A p \in new : p \in Seq(C) /\ Len(p) > 0 /\ Len(p) \in Nat /\ IsPrefixOf(p, key)
                       /\ p \notin DOMAIN t.page
    BY <1>0, PagesType
  <2>4. key \in new
    <3>1. PICK p \in new : TRUE
      BY <1>6
    <3>2. p \in Seq(C) /\ Len(p) > 0 /\ Len(p) \in Nat /\ IsPrefixOf(p, key) /\ p \notin DOMAIN t.page
      BY <2>3, <3>1
    <3>3. Len(key) > 0
      BY <1>4, <3>2, PrefixOrder
    <3>4. key \in PagesOn(key)
      BY <3>3, PagesAre, PrefixReflexive
    <3>5. key \notin DOMAIN t.page
      BY <1>1, <3>2, PrefixInTree
    <3>6. QED
      BY <1>0, <3>4, <3>5
  <2>5. \A p \in new : Len(p) > have
    <3>1. SUFFICES ASSUME NEW p \in new, ~(Len(p) > have) PROVE FALSE
      OBVIOUS
    <3>2. p \in Seq(C) /\ Len(p) > 0 /\ Len(p) \in Nat /\ p \in PagesOn(key)
      BY <1>0, <2>3
    <3>3. Len(p) <= have
      BY <1>3, <1>4, <3>1, <3>2
    <3>4. p \in PagesOn(stem)
      BY <1>3, <3>2, <3>3, PagesOfPrefix
    <3>5. QED
      BY <1>3, <2>3, <3>4
  <2>6. new \cap DOMAIN t.page = {} /\ DOMAIN r.page = DOMAIN t.page \cup new
        /\ DOMAIN t.page \cup new = DOMAIN t.page \cup PagesOn(key)
    BY <1>0, <2>1
  <2>7. \A p \in DOMAIN t.page : r.page[p] = t.page[p]
    BY <2>1, <2>6
  <2>8. \A p \in new : r.page[p].ref = 0 /\ r.page[p].full = TRUE
                       /\ r.page[p].swa = (Len(p) \in live) /\ r.page[p] \in PageRecords
    <3>1. \A p \in new : r.page[p] = NewPage(p, live)
      BY <2>1
    <3>2. ASSUME NEW p \in new
          PROVE  /\ r.page[p].ref = 0 /\ r.page[p].full = TRUE
                 /\ r.page[p].swa = (Len(p) \in live) /\ r.page[p] \in PageRecords
      <4>1. r.page[p] = NewPage(p, live)
        BY <3>1
      <4> HIDE DEF new, r
      <4>2. QED
        BY <4>1, NewPageIs
    <3>3. QED
      BY <3>2
  <2>9. IsFiniteSet(new) /\ Cardinality(new) = Len(key) - have
    <3>1. new = PagesOn(key) \ PagesOn(stem) /\ PagesOn(stem) \subseteq PagesOn(key)
      BY <1>0, <1>3
    <3>2. /\ IsFiniteSet(PagesOn(key)) /\ Cardinality(PagesOn(key)) = Len(key)
          /\ Cardinality(PagesOn(stem)) = have
      BY <1>3, PagesAreFinite, PrefixType
    <3> HIDE DEF new, stem, have
    <3>3. QED
      BY <3>1, <3>2, SubsetDifference
  <2> HIDE DEF r, w, new, stem, have
  <2>10. Shape(C, r)
    <3>1. r.page \in [DOMAIN r.page -> PageRecords]
      <4>1. \A p \in DOMAIN r.page : r.page[p] \in PageRecords
        BY <1>1, <2>6, <2>7, <2>8, PageTypes
      <4>2. r.page = [p \in DOMAIN r.page |-> r.page[p]]
        BY <2>1
      <4>3. QED
        BY <4>1, <4>2
    <3>2. IsFiniteSet(DOMAIN r.page)
      <4>1. IsFiniteSet(DOMAIN t.page)
        BY <1>1 DEF Shape
      <4>2. QED
        BY <2>6, <2>9, <4>1, FS_Union
    <3>3. \A p \in DOMAIN r.page : p \in Seq(C) /\ Len(p) > 0 /\ Len(p) \in Nat
      BY <1>1, <2>3, <2>6, PageTypes
    <3>4. \A p \in DOMAIN r.page : PagesOn(p) \subseteq DOMAIN r.page
      <4>1. SUFFICES ASSUME NEW p \in new PROVE PagesOn(p) \subseteq DOMAIN r.page
        BY <1>1, <2>6 DEF Shape
      <4>2. p \in Seq(C) /\ IsPrefixOf(p, key)
        BY <2>3
      <4>3. ASSUME NEW q \in PagesOn(p) PROVE q \in PagesOn(key)
        <5>1. q \in Seq(C) /\ Len(q) > 0 /\ IsPrefixOf(q, p)
          BY <4>2, PagesType
        <5>2. IsPrefixOf(q, key)
          BY <4>2, <5>1, PrefixTransitive
        <5>3. QED
          BY <5>1, <5>2, PagesAre
      <4>4. QED
        BY <2>6, <4>3
    <3>5. r.ends \subseteq DOMAIN r.page
      BY <1>2, <2>1, <2>2, <2>4, <2>6 DEF Shape
    <3>6. \A p \in DOMAIN r.page : \E e \in r.ends : IsPrefixOf(p, e)
      <4>1. ASSUME NEW p \in DOMAIN t.page PROVE \E e \in r.ends : IsPrefixOf(p, e)
        BY <1>1, <1>2, <2>1 DEF Shape
      <4>2. ASSUME NEW p \in new PROVE \E e \in r.ends : IsPrefixOf(p, e)
        BY <2>1, <2>3
      <4>3. QED
        BY <2>6, <4>1, <4>2
    <3>7. ASSUME NEW p \in DOMAIN r.page, NEW q \in DOMAIN r.page,
                 Len(p) = Len(q), p # q, Len(p) > 1,
                 Prefix(p, Len(p) - 1) = Prefix(q, Len(q) - 1)
          PROVE  Prefix(p, Len(p) - 1) \in r.ends
      <4>1. ASSUME NEW x \in new, NEW y \in DOMAIN t.page, Len(x) = Len(y), Len(x) > 1,
                   Prefix(x, Len(x) - 1) = Prefix(y, Len(y) - 1)
            PROVE  Prefix(x, Len(x) - 1) \in r.ends
        <5> DEFINE n == Len(x) - 1
        <5>1. x \in Seq(C) /\ Len(x) \in Nat /\ IsPrefixOf(x, key) /\ Len(x) > have
          BY <2>3, <2>5
        <5>2. y \in Seq(C)
          BY <1>1, PageTypes
        <5>3. n \in 0..Len(x) /\ n \in 0..Len(y) /\ n >= have /\ n > 0 /\ n \in 0..Len(key)
              /\ Len(x) \in 0..Len(key)
          <6>1. Len(x) <= Len(key)
            BY <5>1, PrefixOrder
          <6>2. have \in Nat
            BY <1>3, <1>4
          <6>3. QED
            BY <1>4, <4>1, <5>1, <6>1, <6>2
        <5>4. Prefix(x, n) = Prefix(key, n)
          <6>1. x = Prefix(key, Len(x))
            BY <5>1, PrefixOrder
          <6>2. Prefix(Prefix(key, Len(x)), n) = Prefix(key, n)
            BY <5>3, PrefixOfPrefix
          <6> HIDE DEF n
          <6>3. QED
            BY <6>1, <6>2, Zenon
        <5>5. Prefix(y, n) \in Seq(C) /\ Len(Prefix(y, n)) = n /\ IsPrefixOf(Prefix(y, n), y)
          BY <5>2, <5>3, PrefixType, PrefixesAre
        <5>6. Prefix(y, n) \in DOMAIN t.page
          BY <1>1, <5>3, <5>5, PrefixInTree
        <5>7. Prefix(x, n) = Prefix(y, n)
          BY <4>1
        <5>8. Prefix(key, n) \in PagesOn(key)
          BY <1>4, <5>3 DEF PagesOn
        <5>9. Prefix(key, n) \in PagesOn(stem)
          BY <1>3, <5>4, <5>6, <5>7, <5>8
        <5>10. n <= have
          <6>1. Len(stem) = have
            BY <1>3, PrefixType DEF stem
          <6>2. IsPrefixOf(Prefix(key, n), stem)
            BY <1>3, <5>9, PagesType
          <6>3. Len(Prefix(key, n)) = n
            BY <5>4, <5>5, <5>7
          <6>4. QED
            BY <6>1, <6>2, <6>3 DEF IsPrefixOf
        <5>11. n = have
          BY <1>3, <1>4, <5>1, <5>3, <5>10
        <5>12. stem = Prefix(key, n)
          BY <5>11 DEF stem
        <5>13. stem # <<>>
          <6>1. Len(stem) = have /\ Len(<<>>) = 0
            BY <1>3, PrefixType, EmptySeq DEF stem
          <6>2. QED
            BY <5>3, <5>11, <6>1
        <5>14. stem \in r.ends
          BY <1>2, <2>1, <5>13 DEF Names
        <5>15. QED
          BY <5>4, <5>12, <5>14
      <4>2. CASE p \in new /\ q \in DOMAIN t.page
        BY <3>7, <4>1, <4>2
      <4>3. CASE q \in new /\ p \in DOMAIN t.page
        <5>1. Prefix(q, Len(q) - 1) \in r.ends
          BY <3>7, <4>1, <4>3
        <5>2. QED
          BY <3>7, <5>1
      <4>4. CASE p \in DOMAIN t.page /\ q \in DOMAIN t.page
        <5>1. Prefix(p, Len(p) - 1) \in t.ends
          BY <1>1, <3>7, <4>4 DEF Shape
        <5>2. QED
          BY <1>2, <2>1, <5>1
      <4>5. CASE p \in new /\ q \in new
        <5>1. p = Prefix(key, Len(p)) /\ q = Prefix(key, Len(q))
          BY <2>3, <4>5, PrefixOrder
        <5>2. QED
          BY <3>7, <5>1
      <4>6. QED
        BY <2>6, <4>2, <4>3, <4>4, <4>5
    <3>8. \A p, q \in DOMAIN r.page :
            Len(p) = Len(q) /\ p # q /\ Len(p) > 1
            /\ Prefix(p, Len(p) - 1) = Prefix(q, Len(q) - 1)
            => Prefix(p, Len(p) - 1) \in r.ends
      BY <3>7
    <3>9. QED
      BY <2>1, <3>1, <3>2, <3>3, <3>4, <3>5, <3>6, <3>8 DEF Shape
  <2>11. Locks(C, r, H)
    <3>1. \A u \in DOMAIN H : H[u] \in Seq(C) /\ Names(r, H[u])
      BY <1>1, <1>2, <2>1 DEF Locks, Names
    <3>2. ASSUME NEW p \in new PROVE r.page[p].ref = Cardinality(Above(H, p))
      <4>1. p \in Seq(C) /\ Len(p) > 0 /\ p \notin DOMAIN t.page
        BY <2>3
      <4>2. ASSUME NEW u \in DOMAIN H, IsPrefixOf(p, H[u]) PROVE FALSE
        <5>1. H[u] \in Seq(C) /\ Names(t, H[u])
          BY <1>1 DEF Locks
        <5>2. p \in PagesOn(H[u])
          BY <4>1, <4>2, <5>1, PagesAre
        <5>3. QED
          BY <1>1, <4>1, <5>1, <5>2, NamesInTree
      <4>3. Above(H, p) = {}
        BY <4>2 DEF Above
      <4>4. QED
        BY <2>8, <4>3, FS_EmptySet
    <3>3. ASSUME NEW p \in DOMAIN t.page PROVE r.page[p].ref = Cardinality(Above(H, p))
      BY <1>1, <2>7 DEF Locks
    <3>4. IsFiniteSet(DOMAIN H)
      BY <1>1 DEF Locks
    <3>5. QED
      BY <2>6, <3>1, <3>2, <3>3, <3>4 DEF Locks
  <2>12. Sized(r)
    <3> DEFINE E == EvictablePages(t)
    <3>1. EvictablePages(r) = E \cup new
      BY <2>6, <2>7, <2>8 DEF EvictablePages
    <3>2. E \subseteq DOMAIN t.page /\ IsFiniteSet(E)
      BY <1>1, EvictableIsFinite
    <3>3. DOMAIN r.page \ EvictablePages(r) = DOMAIN t.page \ E
      BY <2>6, <3>1, <3>2
    <3>4. t.evictable = Cardinality(E) /\ t.protected = Cardinality(DOMAIN t.page \ E)
      BY <1>1 DEF Sized
    <3> HIDE DEF E
    <3>5. Cardinality(E \cup new) = Cardinality(E) + Cardinality(new) /\ Cardinality(E) \in Nat
      BY <2>6, <2>9, <3>2, DisjointSum
    <3>6. r.evictable = Cardinality(E) + Cardinality(new)
      BY <1>3, <1>4, <2>1, <2>9, <3>4, <3>5
    <3>7. QED
      BY <2>1, <3>1, <3>3, <3>4, <3>5, <3>6 DEF Sized
  <2>13. key \in r.ends
    BY <2>1
  <2>14. SoundTree(C, r, H) /\ Names(r, key)
    BY <2>10, <2>11, <2>12, <2>13 DEF SoundTree, Names
  <2>15. GrownBy(r, t, key, live)
    BY <2>6, <2>7, <2>8, Zenon DEF GrownBy, new
  <2>16. QED
    BY <2>14, <2>15 DEF r
<1>7. QED
  BY <1>5, <1>6

-------------------------------------------------------------------------------
(* Eviction and release.                                                      *)

LEMMA PagesOfNodes ==
  ASSUME NEW C, NEW t, Shape(C, t), NEW E, E \subseteq t.ends
  PROVE  /\ PagesOf(t, E) \subseteq DOMAIN t.page /\ E \subseteq PagesOf(t, E)
         /\ IsFiniteSet(PagesOf(t, E))
<1>1. \A e \in E : e \in t.ends
  OBVIOUS
<1>2. \A e \in E : NodePages(t, e) \subseteq DOMAIN t.page /\ e \in NodePages(t, e)
  BY <1>1, NodePagesType
<1>3. PagesOf(t, E) \in SUBSET DOMAIN t.page /\ E \subseteq PagesOf(t, E)
  BY <1>2 DEF PagesOf
<1>4. QED
  BY <1>3, FS_Subset DEF Shape

\* All pages of a node are locked alike.
LEMMA NodeIsLockedAlike ==
  ASSUME NEW C, NEW t, NEW H, SoundTree(C, t, H), NEW e \in t.ends, NEW p \in NodePages(t, e)
  PROVE  t.page[p].ref = t.page[e].ref
<1>1. Shape(C, t) /\ Locks(C, t, H)
  BY DEF SoundTree
<1>2. p \in DOMAIN t.page /\ p \in Seq(C) /\ IsPrefixOf(p, e) /\ Len(p) > 0
  BY <1>1, NodePagesType
<1>3. e \in DOMAIN t.page /\ e \in Seq(C)
  BY <1>1 DEF Shape
<1>4. ASSUME NEW u \in DOMAIN H, IsPrefixOf(e, H[u]) PROVE IsPrefixOf(p, H[u])
  <2>1. H[u] \in Seq(C)
    BY <1>1 DEF Locks
  <2>2. QED
    BY <1>2, <1>3, <1>4, <2>1, PrefixTransitive
<1>5. ASSUME NEW u \in DOMAIN H, IsPrefixOf(p, H[u]) PROVE IsPrefixOf(e, H[u])
  <2>1. H[u] \in Seq(C) /\ Names(t, H[u])
    BY <1>1 DEF Locks
  <2>2. H[u] # <<>>
    <3>1. Len(p) <= Len(H[u]) /\ Len(<<>>) = 0 /\ Len(p) \in Nat
      BY <1>2, <1>5, <2>1, PrefixOrder, EmptySeq
    <3>2. QED
      BY <1>2, <3>1
  <2>3. H[u] \in t.ends
    BY <2>1, <2>2 DEF Names
  <2>4. QED
    BY <1>1, <1>5, <2>3, NodeIsWhole
<1>6. Above(H, p) = Above(H, e)
  BY <1>4, <1>5 DEF Above
<1>7. QED
  BY <1>1, <1>2, <1>3, <1>6 DEF Locks

\* Evicting unlocked nodes, children first.
LEMMA EvictIsSound ==
  ASSUME NEW C, NEW t, NEW H, SoundTree(C, t, H), NEW E \in SUBSET Unlocked(t),
         ChildrenFirst(t, E)
  PROVE  /\ SoundTree(C, Evict(t, E), H)
         /\ DOMAIN Evict(t, E).page = DOMAIN t.page \ PagesOf(t, E)
         /\ \A p \in DOMAIN t.page \ PagesOf(t, E) : Evict(t, E).page[p] = t.page[p]
         /\ PagesOf(t, E) \subseteq EvictablePages(t) /\ IsFiniteSet(PagesOf(t, E))
<1> DEFINE r == Evict(t, E)
           gone == PagesOf(t, E)
<1>1. Shape(C, t) /\ Locks(C, t, H) /\ Sized(t)
  BY DEF SoundTree
<1>2. \A e \in E : e \in t.ends /\ t.page[e].ref = 0
  BY DEF Unlocked
<1>3. E \subseteq t.ends
  BY <1>2
<1>4. gone \subseteq DOMAIN t.page /\ IsFiniteSet(gone) /\ E \subseteq gone
  BY <1>1, <1>3, PagesOfNodes
<1>5. \A p : p \in gone <=> \E e \in E : p \in NodePages(t, e)
  BY DEF PagesOf
<1>6. gone \subseteq EvictablePages(t)
  <2>1. SUFFICES ASSUME NEW p \in gone PROVE t.page[p].ref = 0
    BY <1>4 DEF EvictablePages
  <2>2. PICK e \in E : p \in NodePages(t, e)
    BY <1>5
  <2>3. t.page[p].ref = t.page[e].ref
    BY <1>2, <2>2, NodeIsLockedAlike
  <2>4. QED
    BY <1>2, <2>3
<1> HIDE DEF gone
<1>7. /\ DOMAIN r = Fields
      /\ r.page = [p \in DOMAIN t.page \ gone |-> t.page[p]]
      /\ r.ends = t.ends \ E /\ r.evictable = t.evictable - Cardinality(gone)
      /\ r.protected = t.protected
  <2>1. DOMAIN t = Fields
    BY <1>1 DEF Shape
  <2>2. QED
    BY <2>1 DEF Evict, Fields, gone
<1> HIDE DEF r
<1>8. DOMAIN r.page = DOMAIN t.page \ gone
      /\ \A p \in DOMAIN t.page \ gone : r.page[p] = t.page[p]
  BY <1>7
<1>9. \A p \in DOMAIN t.page : p \in Seq(C) /\ Len(p) > 0
  BY <1>1 DEF Shape
<1>10. ASSUME NEW p \in DOMAIN t.page \ gone, NEW d \in t.ends, p \in NodePages(t, d)
       PROVE  d \in t.ends \ E
  BY <1>5, <1>10
<1>11. t.ends \ E \subseteq DOMAIN t.page \ gone
  <2>1. SUFFICES ASSUME NEW d \in t.ends \ E, d \in gone PROVE FALSE
    BY <1>1 DEF Shape
  <2>2. PICK e \in E : d \in NodePages(t, e)
    BY <1>5, <2>1
  <2>3. d \in Seq(C)
    BY <1>1 DEF Shape
  <2>4. IsPrefixOf(d, e) /\ \A x \in t.ends : IsPrefixOf(d, x) /\ IsPrefixOf(x, e) => x = e
    BY <1>1, <1>2, <2>2, <2>3, NodesAre
  <2>5. IsPrefixOf(d, d)
    BY <2>3, PrefixReflexive
  <2>6. d = e
    BY <2>1, <2>4, <2>5
  <2>7. QED
    BY <2>1, <2>6
<1>12. ASSUME NEW p \in DOMAIN t.page \ gone, NEW q \in PagesOn(p) PROVE q \notin gone
  <2>1. SUFFICES ASSUME q \in gone PROVE FALSE
    OBVIOUS
  <2>2. PICK e \in E : q \in NodePages(t, e)
    BY <1>5, <2>1
  <2>3. PICK d \in t.ends : p \in NodePages(t, d)
    BY <1>1, NodeOfPage
  <2>4. p \in Seq(C) /\ q \in Seq(C) /\ IsPrefixOf(q, p) /\ IsPrefixOf(p, d) /\ d \in Seq(C)
    <3>1. p \in Seq(C) /\ d \in Seq(C)
      BY <1>1 DEF Shape
    <3>2. QED
      BY <1>1, <2>3, <3>1, PagesType, NodePagesType
  <2>5. IsPrefixOf(q, d)
    BY <2>4, PrefixTransitive
  <2>6. IsPrefixOf(e, d)
    BY <1>1, <1>2, <2>2, <2>5, NodeIsWhole
  <2>7. d \in E
    BY <2>6 DEF ChildrenFirst
  <2>8. QED
    BY <1>10, <2>3, <2>7
<1>13. Shape(C, r)
  <2>1. r.page \in [DOMAIN r.page -> PageRecords]
    BY <1>1, <1>7, <1>8 DEF Shape
  <2>2. IsFiniteSet(DOMAIN r.page)
    <3>1. IsFiniteSet(DOMAIN t.page)
      BY <1>1 DEF Shape
    <3>2. QED
      BY <1>8, <3>1, FS_Difference
  <2>3. \A p \in DOMAIN r.page : PagesOn(p) \subseteq DOMAIN r.page
    BY <1>1, <1>8, <1>12 DEF Shape
  <2>4. r.ends \subseteq DOMAIN r.page
    BY <1>7, <1>8, <1>11
  <2>5. ASSUME NEW p \in DOMAIN r.page PROVE \E e \in r.ends : IsPrefixOf(p, e)
    <3>1. PICK d \in t.ends : p \in NodePages(t, d)
      BY <1>1, <1>8, NodeOfPage
    <3>2. d \in r.ends
      BY <1>7, <1>8, <1>10, <3>1
    <3>3. QED
      BY <1>1, <3>1, <3>2, NodePagesType
  <2>6. ASSUME NEW p \in DOMAIN r.page, NEW q \in DOMAIN r.page,
               Len(p) = Len(q), p # q, Len(p) > 1,
               Prefix(p, Len(p) - 1) = Prefix(q, Len(q) - 1)
        PROVE  Prefix(p, Len(p) - 1) \in r.ends
    <3> DEFINE m == Prefix(p, Len(p) - 1)
    <3>1. m \in t.ends
      BY <1>1, <1>8, <2>6 DEF Shape
    <3>2. m \in PagesOn(p)
      <4>1. p \in Seq(C) /\ Len(p) \in Nat
        BY <1>8, <1>9, LenProperties
      <4>2. Len(p) - 1 \in 1..Len(p)
        BY <2>6, <4>1
      <4>3. QED
        BY <4>2 DEF PagesOn
    <3>3. m \notin gone
      BY <1>8, <1>12, <3>2
    <3>4. QED
      BY <1>4, <1>7, <3>1, <3>3
  <2>7. \A p, q \in DOMAIN r.page :
          Len(p) = Len(q) /\ p # q /\ Len(p) > 1
          /\ Prefix(p, Len(p) - 1) = Prefix(q, Len(q) - 1)
          => Prefix(p, Len(p) - 1) \in r.ends
    BY <2>6
  <2>8. QED
    BY <1>7, <1>8, <1>9, <2>1, <2>2, <2>3, <2>4, <2>5, <2>7 DEF Shape
<1>14. Locks(C, r, H)
  <2>1. ASSUME NEW u \in DOMAIN H PROVE H[u] \in Seq(C) /\ Names(r, H[u])
    <3>1. H[u] \in Seq(C) /\ Names(t, H[u])
      BY <1>1 DEF Locks
    <3>2. SUFFICES ASSUME H[u] \in E PROVE FALSE
      BY <1>7, <3>1 DEF Names
    <3>3. H[u] \in DOMAIN t.page /\ t.page[H[u]].ref = 0
      BY <1>2, <1>4, <3>2
    <3>4. u \in Above(H, H[u])
      BY <3>1, PrefixReflexive DEF Above
    <3>5. Cardinality(Above(H, H[u])) = 0 /\ IsFiniteSet(Above(H, H[u]))
      BY <1>1, <3>3, AboveIsFinite DEF Locks
    <3>6. QED
      BY <3>4, <3>5, FS_EmptySet
  <2>2. QED
    BY <1>1, <1>8, <2>1 DEF Locks
<1>15. Sized(r)
  <2> DEFINE V == EvictablePages(t)
  <2>1. V \subseteq DOMAIN t.page /\ IsFiniteSet(V)
    BY <1>1, EvictableIsFinite
  <2>2. EvictablePages(r) = V \ gone
    BY <1>8 DEF EvictablePages
  <2>3. DOMAIN r.page \ EvictablePages(r) = DOMAIN t.page \ V
    BY <1>6, <1>8, <2>1, <2>2
  <2>4. t.evictable = Cardinality(V) /\ t.protected = Cardinality(DOMAIN t.page \ V)
    BY <1>1 DEF Sized
  <2>5. gone \subseteq V
    BY <1>6
  <2> HIDE DEF V
  <2>6. Cardinality(V \ gone) = Cardinality(V) - Cardinality(gone)
    BY <2>1, <2>5, SubsetDifference
  <2>7. QED
    BY <1>7, <2>2, <2>3, <2>4, <2>6 DEF Sized
<1>16. QED
  BY <1>4, <1>6, <1>8, <1>13, <1>14, <1>15 DEF SoundTree, r, gone

\* Giving up the SWA or full pages of the head of a path.
LEMMA ReleaseHeadIsSound ==
  ASSUME NEW C, NEW t, NEW H, SoundTree(C, t, H), NEW path \in Seq(C), Names(t, path),
         NEW n \in 0..Len(path)
  PROVE  /\ SoundTree(C, ReleaseSwaHead(t, path, n), H)
         /\ DOMAIN ReleaseSwaHead(t, path, n).page = DOMAIN t.page
         /\ \A p \in DOMAIN t.page :
              /\ ReleaseSwaHead(t, path, n).page[p].full = t.page[p].full
              /\ ReleaseSwaHead(t, path, n).page[p].swa =
                   (t.page[p].swa /\ p \notin PagesOn(Prefix(path, n)))
         /\ t.ends \subseteq ReleaseSwaHead(t, path, n).ends
         /\ SoundTree(C, ReleaseFullHead(t, path, n), H)
         /\ DOMAIN ReleaseFullHead(t, path, n).page = DOMAIN t.page
         /\ \A p \in DOMAIN t.page :
              /\ ReleaseFullHead(t, path, n).page[p].swa = t.page[p].swa
              /\ ReleaseFullHead(t, path, n).page[p].full =
                   (t.page[p].full /\ p \notin PagesOn(Prefix(path, n)))
         /\ t.ends \subseteq ReleaseFullHead(t, path, n).ends
<1> DEFINE head == Prefix(path, n)
           w == SplitAt(t, head)
           ps == [p \in DOMAIN w.page \cup PagesOn(head) |->
                    IF p \in PagesOn(head) THEN [t.page[p] EXCEPT !.swa = FALSE] ELSE w.page[p]]
           pf == [p \in DOMAIN w.page \cup PagesOn(head) |->
                    IF p \in PagesOn(head) THEN [t.page[p] EXCEPT !.full = FALSE] ELSE w.page[p]]
           s == ReleaseSwaHead(t, path, n)
           f == ReleaseFullHead(t, path, n)
<1>1. Shape(C, t)
  BY DEF SoundTree
<1>2. head \in Seq(C) /\ PagesOn(head) \subseteq DOMAIN t.page
      /\ (head = <<>> \/ head \in DOMAIN t.page)
  <2>1. head \in Seq(C) /\ Len(head) = n /\ IsPrefixOf(head, path)
    BY PrefixType, PrefixesAre
  <2>2. PagesOn(path) \subseteq DOMAIN t.page
    BY <1>1, NamesInTree
  <2>3. PagesOn(head) \subseteq PagesOn(path)
    BY PagesOfPrefix
  <2>4. Len(path) \in Nat
    BY LenProperties
  <2>5. CASE n = 0
    BY <2>1, <2>2, <2>3, <2>5, WholePrefix
  <2>6. CASE n # 0
    <3>1. Len(head) > 0
      BY <2>1, <2>4, <2>6
    <3>2. head \in PagesOn(path)
      BY <2>1, <3>1, PagesAre
    <3>3. QED
      BY <2>1, <2>2, <2>3, <3>2
  <2>7. QED
    BY <2>5, <2>6
<1>3. SoundTree(C, w, H) /\ w.page = t.page /\ t.ends \subseteq w.ends
  BY <1>2, SplitIsSound
<1>4. s = [w EXCEPT !.page = ps] /\ f = [w EXCEPT !.page = pf]
  BY DEF ReleaseSwaHead, ReleaseFullHead, WithPages
<1>5. Shape(C, w) /\ Locks(C, w, H) /\ Sized(w) /\ DOMAIN w = Fields
  BY <1>3 DEF SoundTree, Shape
<1>6. \A p \in DOMAIN t.page : w.page[p] \in PageRecords
  BY <1>3, <1>5 DEF Shape
<1>7. DOMAIN w.page \cup PagesOn(head) = DOMAIN t.page
  BY <1>2, <1>3
<1> HIDE DEF w, s, f, head
<1>8. /\ DOMAIN s = Fields /\ s.page = ps /\ s.ends = w.ends
      /\ s.evictable = w.evictable /\ s.protected = w.protected
      /\ DOMAIN f = Fields /\ f.page = pf /\ f.ends = w.ends
      /\ f.evictable = w.evictable /\ f.protected = w.protected
  <2> HIDE DEF ps, pf
  <2>1. QED
    BY <1>4, <1>5 DEF Fields
<1>9. /\ DOMAIN s.page = DOMAIN t.page /\ DOMAIN f.page = DOMAIN t.page
      /\ \A p \in DOMAIN t.page :
           /\ s.page[p] = IF p \in PagesOn(head) THEN [t.page[p] EXCEPT !.swa = FALSE] ELSE w.page[p]
           /\ f.page[p] = IF p \in PagesOn(head) THEN [t.page[p] EXCEPT !.full = FALSE] ELSE w.page[p]
  BY <1>3, <1>7, <1>8
<1>10. \A p \in DOMAIN t.page :
         /\ s.page[p] \in PageRecords /\ s.page[p].ref = w.page[p].ref
         /\ s.page[p].full = w.page[p].full
         /\ p \in PagesOn(head) => s.page[p].swa = FALSE
         /\ p \notin PagesOn(head) => s.page[p].swa = w.page[p].swa
         /\ f.page[p] \in PageRecords /\ f.page[p].ref = w.page[p].ref
         /\ f.page[p].swa = w.page[p].swa
         /\ p \in PagesOn(head) => f.page[p].full = FALSE
         /\ p \notin PagesOn(head) => f.page[p].full = w.page[p].full
  <2> HIDE DEF ps, pf
  <2>1. ASSUME NEW p \in DOMAIN t.page
        PROVE  /\ s.page[p] \in PageRecords /\ s.page[p].ref = w.page[p].ref
               /\ s.page[p].full = w.page[p].full
               /\ p \in PagesOn(head) => s.page[p].swa = FALSE
               /\ p \notin PagesOn(head) => s.page[p].swa = w.page[p].swa
    <3>1. w.page[p] = t.page[p] /\ t.page[p] \in PageRecords
      BY <1>3, <1>6
    <3>2. s.page[p] = IF p \in PagesOn(head) THEN [t.page[p] EXCEPT !.swa = FALSE] ELSE t.page[p]
      BY <1>9, <3>1
    <3>3. QED
      BY <3>1, <3>2 DEF PageRecords
  <2>2. ASSUME NEW p \in DOMAIN t.page
        PROVE  /\ f.page[p] \in PageRecords /\ f.page[p].ref = w.page[p].ref
               /\ f.page[p].swa = w.page[p].swa
               /\ p \in PagesOn(head) => f.page[p].full = FALSE
               /\ p \notin PagesOn(head) => f.page[p].full = w.page[p].full
    <3>1. w.page[p] = t.page[p] /\ t.page[p] \in PageRecords
      BY <1>3, <1>6
    <3>2. f.page[p] = IF p \in PagesOn(head) THEN [t.page[p] EXCEPT !.full = FALSE] ELSE t.page[p]
      BY <1>9, <3>1
    <3>3. QED
      BY <3>1, <3>2 DEF PageRecords
  <2>3. QED
    BY <2>1, <2>2
<1>11. s.page \in [DOMAIN t.page -> PageRecords] /\ f.page \in [DOMAIN t.page -> PageRecords]
  BY <1>7, <1>8, <1>10
<1> HIDE DEF ps, pf
<1>12. w.ends \subseteq DOMAIN w.page
  BY <1>5 DEF Shape
<1>13. Shape(C, s) /\ Shape(C, f)
  BY <1>3, <1>5, <1>8, <1>9, <1>11, <1>12, ShapeKept
<1>14. SameLocks(s, w) /\ SameLocks(f, w)
  BY <1>3, <1>9, <1>10 DEF SameLocks
<1>15. Locks(C, s, H) /\ Locks(C, f, H) /\ Sized(s) /\ Sized(f)
  BY <1>5, <1>8, <1>14, LocksKept, SizesKept
<1>16. \A p \in DOMAIN t.page : w.page[p].full \in BOOLEAN /\ w.page[p].swa \in BOOLEAN
  BY <1>6 DEF PageRecords
<1>17. \A p \in DOMAIN t.page :
         /\ s.page[p].full = t.page[p].full
         /\ s.page[p].swa = (t.page[p].swa /\ p \notin PagesOn(head))
         /\ f.page[p].swa = t.page[p].swa
         /\ f.page[p].full = (t.page[p].full /\ p \notin PagesOn(head))
  <2>1. TAKE p \in DOMAIN t.page
  <2>2. w.page[p] = t.page[p] /\ w.page[p].full \in BOOLEAN /\ w.page[p].swa \in BOOLEAN
    BY <1>3, <1>16
  <2>3. CASE p \in PagesOn(head)
    BY <1>10, <2>2, <2>3
  <2>4. CASE p \notin PagesOn(head)
    BY <1>10, <2>2, <2>4
  <2>5. QED
    BY <2>3, <2>4
<1>18. QED
  BY <1>3, <1>8, <1>9, <1>13, <1>15, <1>17 DEF SoundTree, s, f, head

\* Giving up the SWA pages of leaves.
LEMMA ReleaseLeafIsSound ==
  ASSUME NEW C, NEW t, NEW H, SoundTree(C, t, H), NEW L, L \subseteq t.ends
  PROVE  /\ SoundTree(C, ReleaseLeafSwa(t, L), H)
         /\ ReleaseLeafSwa(t, L).ends = t.ends
         /\ DOMAIN ReleaseLeafSwa(t, L).page = DOMAIN t.page
         /\ \A p \in DOMAIN t.page :
              /\ ReleaseLeafSwa(t, L).page[p].full = t.page[p].full
              /\ ReleaseLeafSwa(t, L).page[p].swa = (t.page[p].swa /\ p \notin PagesOf(t, L))
<1> DEFINE gone == PagesOf(t, L)
           ps == [p \in DOMAIN t.page \cup gone |->
                    IF p \in gone THEN [t.page[p] EXCEPT !.swa = FALSE] ELSE t.page[p]]
           s == ReleaseLeafSwa(t, L)
<1>1. Shape(C, t) /\ Locks(C, t, H) /\ Sized(t) /\ DOMAIN t = Fields
  BY DEF SoundTree, Shape
<1>2. gone \subseteq DOMAIN t.page
  BY <1>1, PagesOfNodes
<1>3. s = [t EXCEPT !.page = ps]
  BY DEF ReleaseLeafSwa, WithPages
<1>4. \A p \in DOMAIN t.page : t.page[p] \in PageRecords
  BY <1>1, PageTypes
<1>5. DOMAIN t.page \cup gone = DOMAIN t.page
  BY <1>2
<1> HIDE DEF s, gone
<1>6. /\ DOMAIN s = Fields /\ s.page = ps /\ s.ends = t.ends
      /\ s.evictable = t.evictable /\ s.protected = t.protected
  <2> HIDE DEF ps
  <2>1. QED
    BY <1>1, <1>3 DEF Fields
<1>7. /\ DOMAIN s.page = DOMAIN t.page
      /\ \A p \in DOMAIN t.page :
           s.page[p] = IF p \in gone THEN [t.page[p] EXCEPT !.swa = FALSE] ELSE t.page[p]
  BY <1>5, <1>6
<1>8. \A p \in DOMAIN t.page :
         /\ s.page[p] \in PageRecords /\ s.page[p].ref = t.page[p].ref
         /\ s.page[p].full = t.page[p].full
         /\ p \in gone => s.page[p].swa = FALSE
         /\ p \notin gone => s.page[p].swa = t.page[p].swa
  BY <1>4, <1>7 DEF PageRecords
<1>9. s.page \in [DOMAIN t.page -> PageRecords]
  BY <1>5, <1>6, <1>8
<1> HIDE DEF ps
<1>10. t.ends \subseteq DOMAIN t.page
  BY <1>1 DEF Shape
<1>11. Shape(C, s)
  BY <1>1, <1>6, <1>7, <1>9, <1>10, ShapeKept
<1>12. SameLocks(s, t)
  BY <1>7, <1>8 DEF SameLocks
<1>13. Locks(C, s, H) /\ Sized(s)
  BY <1>1, <1>6, <1>12, LocksKept, SizesKept
<1>14. \A p \in DOMAIN t.page : t.page[p].full \in BOOLEAN /\ t.page[p].swa \in BOOLEAN
  BY <1>4 DEF PageRecords
<1>15. \A p \in DOMAIN t.page :
         /\ s.page[p].full = t.page[p].full
         /\ s.page[p].swa = (t.page[p].swa /\ p \notin gone)
  BY <1>8, <1>14
<1>16. QED
  BY <1>6, <1>7, <1>11, <1>13, <1>15 DEF SoundTree, s, gone

-------------------------------------------------------------------------------
(* What caching a request does to the tree, and to the number of its pages.   *)

\* Distinct lengths are distinct prefixes.
LEMMA CountPrefixes ==
  ASSUME NEW C, NEW s \in Seq(C), NEW S, S \subseteq 1..Len(s)
  PROVE  /\ IsFiniteSet({Prefix(s, i) : i \in S}) /\ IsFiniteSet(S)
         /\ Cardinality({Prefix(s, i) : i \in S}) = Cardinality(S)
<1> DEFINE T == {Prefix(s, i) : i \in S}
           f == [i \in S |-> Prefix(s, i)]
<1>1. Len(s) \in Nat /\ S \in SUBSET (1..Len(s))
  BY LenProperties
<1>2. IsFiniteSet(S)
  <2>1. IsFiniteSet(1..Len(s))
    BY <1>1, FS_Interval
  <2>2. QED
    BY <1>1, <2>1, FS_Subset
<1>3. \A i \in S : Len(f[i]) = i
  <2>1. \A i \in S : i \in 0..Len(s) /\ f[i] = Prefix(s, i)
    BY <1>1
  <2>2. QED
    BY <2>1, PrefixType
<1>4. f \in Surjection(S, T)
  BY DEF Surjection
<1>5. f \in [S -> T]
  OBVIOUS
<1> HIDE DEF f, T
<1>6. \A i, j \in S : f[i] = f[j] => i = j
  BY <1>3
<1>7. f \in Injection(S, T)
  BY <1>5, <1>6 DEF Injection, IsInjective
<1>8. QED
  BY <1>2, <1>4, <1>7, FS_Surjection DEF T

\* The pages that a tree lacks, by their lengths.
LEMMA LacksAre ==
  ASSUME NEW C, NEW t, Shape(C, t), NEW key \in Seq(C)
  PROVE  /\ Lacks(t, key) = {Prefix(key, i) : i \in (MatchLen(t, key) + 1)..Len(key)}
         /\ IsFiniteSet(Lacks(t, key))
         /\ Cardinality(Lacks(t, key)) = Len(key) - MatchLen(t, key)
<1> DEFINE have == MatchLen(t, key)
           stem == Prefix(key, have)
<1>1. Len(key) \in Nat
  BY LenProperties
<1>2. have \in 0..Len(key) /\ PagesOn(key) \cap DOMAIN t.page = PagesOn(stem)
  BY MatchIs
<1> HIDE DEF have
<1>3. PagesOn(stem) = {p \in PagesOn(key) : Len(p) <= have}
  BY <1>2, PagesOfPrefix
<1>4. Lacks(t, key) = {p \in PagesOn(key) : ~(Len(p) <= have)}
  BY <1>2, <1>3 DEF Lacks
<1>5. \A i \in 1..Len(key) : Len(Prefix(key, i)) = i
  <2>1. \A i \in 1..Len(key) : i \in 0..Len(key)
    BY <1>1
  <2>2. QED
    BY <2>1, PrefixType
<1>6. Lacks(t, key) = {Prefix(key, i) : i \in (have + 1)..Len(key)}
  <2>1. ASSUME NEW p \in Lacks(t, key) PROVE \E i \in (have + 1)..Len(key) : p = Prefix(key, i)
    <3>1. PICK i \in 1..Len(key) : p = Prefix(key, i)
      BY <1>4 DEF PagesOn
    <3>2. ~(i <= have)
      BY <1>4, <1>5, <3>1
    <3>3. i \in (have + 1)..Len(key)
      BY <1>1, <1>2, <3>2
    <3>4. QED
      BY <3>1, <3>3
  <2>2. ASSUME NEW i \in (have + 1)..Len(key) PROVE Prefix(key, i) \in Lacks(t, key)
    <3>1. i \in 1..Len(key) /\ ~(i <= have)
      BY <1>1, <1>2
    <3>2. Prefix(key, i) \in PagesOn(key)
      BY <3>1 DEF PagesOn
    <3>3. QED
      BY <1>4, <1>5, <3>1, <3>2
  <2>3. QED
    BY <2>1, <2>2
<1>7. (have + 1)..Len(key) \subseteq 1..Len(key)
  BY <1>1, <1>2
<1>8. Cardinality((have + 1)..Len(key)) = Len(key) - have
  <2>1. have + 1 \in Int /\ Len(key) \in Int
    BY <1>1, <1>2
  <2>2. Cardinality((have + 1)..Len(key)) =
          IF have + 1 > Len(key) THEN 0 ELSE Len(key) - (have + 1) + 1
    BY <2>1, FS_Interval
  <2>3. QED
    BY <1>1, <1>2, <2>2
<1>9. /\ IsFiniteSet({Prefix(key, i) : i \in (have + 1)..Len(key)})
      /\ Cardinality({Prefix(key, i) : i \in (have + 1)..Len(key)})
           = Cardinality((have + 1)..Len(key))
  BY <1>7, CountPrefixes
<1>10. QED
  BY <1>6, <1>8, <1>9 DEF have

\* The steps of cache_req on the tree.
Inserted(t, path, live, old, finished) ==
  LET unlocked == UnlockHandle(InsertPrefix(t, path, live), old)
  IN  IF finished THEN unlocked ELSE LockHandle(unlocked, path)
Cut(t, path, a, b) == ReleaseFullHead(ReleaseSwaHead(t, path, a), path, b)

LEMMA MarksOfSame ==
  ASSUME NEW s, NEW t, SameMarks(s, t)
  PROVE  /\ DOMAIN s.page = DOMAIN t.page
         /\ \A p \in DOMAIN t.page : s.page[p].full = t.page[p].full
         /\ \A p \in DOMAIN t.page : s.page[p].swa = t.page[p].swa
BY DEF SameMarks

LEMMA InsertedIsSound ==
  ASSUME NEW C, NEW t, NEW H, SoundTree(C, t, H), NEW path \in Seq(C), NEW live,
         NEW u \in DOMAIN H, NEW finished \in BOOLEAN, NEW G,
         finished => Without(H, G, u),
         ~finished => DOMAIN G = DOMAIN H /\ G[u] = path /\ \A v \in DOMAIN H \ {u} : G[v] = H[v]
  PROVE  /\ SoundTree(C, Inserted(t, path, live, H[u], finished), G)
         /\ Names(Inserted(t, path, live, H[u], finished), path)
         /\ GrownBy(Inserted(t, path, live, H[u], finished), t, path, live)
<1> DEFINE i == InsertPrefix(t, path, live)
           k == UnlockHandle(i, H[u])
           r == Inserted(t, path, live, H[u], finished)
           F == [v \in DOMAIN H \ {u} |-> H[v]]
<1>1. SoundTree(C, i, H) /\ Names(i, path) /\ GrownBy(i, t, path, live)
  BY InsertIsSound
<1> HIDE DEF i
<1>2. DOMAIN F = DOMAIN H \ {u} /\ \A v \in DOMAIN F : F[v] = H[v]
  OBVIOUS
<1> HIDE DEF F
<1>3. Without(H, F, u)
  BY <1>2 DEF Without
<1>4. SoundTree(C, k, F) /\ SameMarks(k, i) /\ k.ends = i.ends
  BY <1>1, <1>3, UnlockIsSound
<1> HIDE DEF k
<1>5. Names(k, path)
  BY <1>1, <1>4 DEF Names
<1>6. SoundTree(C, r, G) /\ SameMarks(r, k) /\ r.ends = k.ends
  <2>1. CASE finished
    <3>1. r = k
      BY <2>1 DEF Inserted, k, i
    <3>2. DOMAIN G = DOMAIN F /\ \A v \in DOMAIN F : G[v] = F[v]
      BY <1>2, <2>1 DEF Without
    <3>3. \A p : Above(G, p) = Above(F, p)
      BY <3>2 DEF Above
    <3>4. Locks(C, k, G)
      BY <1>4, <3>2, <3>3 DEF SoundTree, Locks
    <3>5. QED
      BY <1>4, <3>1, <3>4 DEF SoundTree, SameMarks
  <2>2. CASE ~finished
    <3>1. r = LockHandle(k, path)
      BY <2>2 DEF Inserted, k, i
    <3>2. With(F, G, u, path)
      BY <1>2, <2>2 DEF With
    <3>3. SoundTree(C, LockHandle(k, path), G) /\ SameMarks(LockHandle(k, path), k)
          /\ LockHandle(k, path).ends = k.ends
      BY <1>4, <1>5, <3>2, LockIsSound
    <3>4. QED
      BY <3>1, <3>3
  <2>3. QED
    BY <2>1, <2>2
<1> HIDE DEF r
<1>7. Names(r, path)
  BY <1>5, <1>6 DEF Names
<1>8. /\ DOMAIN r.page = DOMAIN k.page
      /\ \A p \in DOMAIN k.page : r.page[p].full = k.page[p].full
      /\ \A p \in DOMAIN k.page : r.page[p].swa = k.page[p].swa
      /\ DOMAIN k.page = DOMAIN i.page
      /\ \A p \in DOMAIN i.page : k.page[p].full = i.page[p].full
      /\ \A p \in DOMAIN i.page : k.page[p].swa = i.page[p].swa
  BY <1>4, <1>6, MarksOfSame
<1>9. GrownBy(r, t, path, live)
  <2>1. /\ DOMAIN i.page = DOMAIN t.page \cup Lacks(t, path)
        /\ \A p \in DOMAIN t.page : i.page[p].full = t.page[p].full
        /\ \A p \in DOMAIN t.page : i.page[p].swa = t.page[p].swa
        /\ \A p \in Lacks(t, path) : i.page[p].full = TRUE
        /\ \A p \in Lacks(t, path) : i.page[p].swa = (Len(p) \in live)
    BY <1>1, Zenon DEF GrownBy
  <2>2. DOMAIN r.page = DOMAIN t.page \cup Lacks(t, path)
    BY <1>8, <2>1
  <2>3. \A p \in DOMAIN t.page : r.page[p].full = t.page[p].full
    BY <1>8, <2>1
  <2>4. \A p \in DOMAIN t.page : r.page[p].swa = t.page[p].swa
    BY <1>8, <2>1
  <2>5. \A p \in Lacks(t, path) : r.page[p].full = TRUE
    BY <1>8, <2>1
  <2>6. \A p \in Lacks(t, path) : r.page[p].swa = (Len(p) \in live)
    <3>1. \A p \in Lacks(t, path) : p \in DOMAIN i.page
      BY <2>1
    <3>2. QED
      BY <1>8, <2>1, <3>1, Zenon
  <2>7. QED
    BY <2>2, <2>3, <2>4, <2>5, <2>6, Zenon DEF GrownBy
<1>10. QED
  BY <1>6, <1>7, <1>9 DEF r

LEMMA CutIsSound ==
  ASSUME NEW C, NEW t, NEW H, SoundTree(C, t, H), NEW path \in Seq(C), Names(t, path),
         NEW a \in 0..Len(path), NEW b \in 0..Len(path)
  PROVE  /\ SoundTree(C, Cut(t, path, a, b), H)
         /\ DOMAIN Cut(t, path, a, b).page = DOMAIN t.page
         /\ \A p \in DOMAIN t.page :
              Cut(t, path, a, b).page[p].swa = (t.page[p].swa /\ p \notin PagesOn(Prefix(path, a)))
         /\ \A p \in DOMAIN t.page :
              Cut(t, path, a, b).page[p].full = (t.page[p].full /\ p \notin PagesOn(Prefix(path, b)))
<1> DEFINE s == ReleaseSwaHead(t, path, a)
           r == ReleaseFullHead(s, path, b)
<1>1. /\ SoundTree(C, s, H) /\ DOMAIN s.page = DOMAIN t.page /\ t.ends \subseteq s.ends
      /\ \A p \in DOMAIN t.page :
           /\ s.page[p].full = t.page[p].full
           /\ s.page[p].swa = (t.page[p].swa /\ p \notin PagesOn(Prefix(path, a)))
  BY ReleaseHeadIsSound
<1>2. Names(s, path)
  BY <1>1 DEF Names
<1> HIDE DEF s
<1>3. /\ SoundTree(C, r, H) /\ DOMAIN r.page = DOMAIN s.page
      /\ \A p \in DOMAIN s.page :
           /\ r.page[p].swa = s.page[p].swa
           /\ r.page[p].full = (s.page[p].full /\ p \notin PagesOn(Prefix(path, b)))
  BY <1>1, <1>2, ReleaseHeadIsSound
<1>4. Cut(t, path, a, b) = r
  BY DEF Cut, s
<1> HIDE DEF r
<1>5. DOMAIN r.page = DOMAIN t.page
  BY <1>1, <1>3
<1>6. ASSUME NEW p \in DOMAIN t.page
      PROVE  /\ r.page[p].swa = (t.page[p].swa /\ p \notin PagesOn(Prefix(path, a)))
             /\ r.page[p].full = (t.page[p].full /\ p \notin PagesOn(Prefix(path, b)))
  <2>1. s.page[p].full = t.page[p].full
        /\ s.page[p].swa = (t.page[p].swa /\ p \notin PagesOn(Prefix(path, a)))
    BY <1>1
  <2>2. r.page[p].swa = s.page[p].swa
        /\ r.page[p].full = (s.page[p].full /\ p \notin PagesOn(Prefix(path, b)))
    BY <1>1, <1>3
  <2>3. QED
    BY <2>1, <2>2, Zenon
<1>7. QED
  BY <1>3, <1>4, <1>5, <1>6, Zenon

-------------------------------------------------------------------------------
(* Tokens and pages.                                                          *)

LEMMA MoreProducts ==
  ASSUME NEW k \in Nat \ {0}, NEW a \in Int, NEW b \in Int, a < b
  PROVE  a * k + k <= b * k
<1>1. (b - a - 1) * k >= 0
  OBVIOUS
<1>2. (b - a - 1) * k = b * k - a * k - k
  OBVIOUS
<1>3. a * k \in Int /\ b * k \in Int
  OBVIOUS
<1>4. QED
  BY <1>1, <1>2, <1>3

LEMMA Products ==
  ASSUME NEW k \in Nat \ {0}, NEW a \in Int, NEW b \in Int
  PROVE  /\ a * k \in Int /\ (a \in Nat => a * k \in Nat) /\ k * a = a * k
         /\ a <= b => a * k <= b * k
         /\ a * k < b * k => a < b
         /\ a * k < b * k + k => a <= b
         /\ (a + 1) * k = a * k + k
<1>1. /\ a * k \in Int /\ (a \in Nat => a * k \in Nat) /\ k * a = a * k
      /\ (a + 1) * k = a * k + k /\ b * k \in Int
  OBVIOUS
<1>2. a < b => a * k + k <= b * k
  BY MoreProducts
<1>3. b < a => b * k + k <= a * k
  BY MoreProducts
<1>4. QED
  BY <1>1, <1>2, <1>3

\* The whole pages of a number of tokens.
LEMMA Floor ==
  ASSUME NEW k \in Nat \ {0}, NEW n \in Nat
  PROVE  /\ n \div k \in Nat
         /\ (n \div k) * k <= n /\ n < (n \div k) * k + k
<1>1. n \div k \in Nat
  OBVIOUS
<1>2. n = (n \div k) * k + (n % k) /\ n % k \in 0..(k - 1)
  OBVIOUS
<1>3. QED
  BY <1>1, <1>2

LEMMA FloorMost ==
  ASSUME NEW k \in Nat \ {0}, NEW n \in Nat, NEW m \in Nat
  PROVE  m * k <= n <=> m <= n \div k
<1>1. /\ n \div k \in Nat /\ (n \div k) * k \in Nat /\ m * k \in Nat
      /\ (n \div k) * k <= n /\ n < (n \div k) * k + k
  BY Floor, Products
<1>2. m <= n \div k => m * k <= (n \div k) * k
  BY <1>1, Products
<1>3. m * k < (n \div k) * k + k => m <= n \div k
  BY <1>1, Products
<1>4. QED
  BY <1>1, <1>2, <1>3

LEMMA Ceiling ==
  ASSUME NEW k \in Nat \ {0}, NEW n \in Nat
  PROVE  /\ DivCeil(n, k) \in Nat
         /\ n <= DivCeil(n, k) * k /\ DivCeil(n, k) * k < n + k
<1>1. n + k - 1 \in Nat
  OBVIOUS
<1>2. /\ (n + k - 1) \div k \in Nat
      /\ ((n + k - 1) \div k) * k <= n + k - 1 /\ n + k - 1 < ((n + k - 1) \div k) * k + k
  BY <1>1, Floor
<1>3. ((n + k - 1) \div k) * k \in Nat
  BY <1>2, Products
<1>4. QED
  BY <1>2, <1>3 DEF DivCeil

LEMMA CeilingLeast ==
  ASSUME NEW k \in Nat \ {0}, NEW n \in Nat, NEW m \in Nat
  PROVE  n <= m * k <=> DivCeil(n, k) <= m
<1> DEFINE c == DivCeil(n, k)
<1>a. c \in Nat /\ n <= c * k /\ c * k < n + k
  BY Ceiling
<1> HIDE DEF c
<1>1. c \in Nat /\ c * k \in Nat /\ m * k \in Nat /\ n <= c * k /\ c * k < n + k
  BY <1>a, Products
<1>2. c <= m => c * k <= m * k
  BY <1>1, Products
<1>3. c * k < m * k + k => c <= m
  BY <1>1, Products
<1>4. QED
  BY <1>1, <1>2, <1>3 DEF c

\* The pages that a number of tokens begins and those that it fills.
LEMMA Ceilings ==
  ASSUME NEW k \in Nat \ {0}, NEW n \in Nat, NEW m \in Nat
  PROVE  /\ n <= m => DivCeil(n, k) <= DivCeil(m, k)
         /\ n \div k <= DivCeil(n, k)
         /\ n <= m => n \div k <= m \div k
         /\ DivCeil(m * k, k) = m
         /\ (m * k) \div k = m
<1>1. DivCeil(n, k) \in Nat /\ DivCeil(m, k) \in Nat /\ n \div k \in Nat /\ m \div k \in Nat
      /\ m * k \in Nat
  <2>1. DivCeil(n, k) \in Nat /\ DivCeil(m, k) \in Nat
    BY Ceiling
  <2>2. n \div k \in Nat /\ m \div k \in Nat
    BY Floor
  <2>3. m * k \in Nat
    BY Products
  <2>4. QED
    BY <2>1, <2>2, <2>3
<1>2. DivCeil(m * k, k) \in Nat /\ (m * k) \div k \in Nat
  BY <1>1, Ceiling, Floor
<1>3. ASSUME n <= m PROVE DivCeil(n, k) <= DivCeil(m, k)
  <2>1. m <= DivCeil(m, k) * k
    BY Ceiling
  <2>2. DivCeil(m, k) * k \in Nat
    BY <1>1, Products
  <2>3. n <= DivCeil(m, k) * k
    BY <1>3, <2>1, <2>2
  <2>4. QED
    BY <1>1, <2>3, CeilingLeast
<1>4. n \div k <= DivCeil(n, k)
  <2> DEFINE c == DivCeil(n, k)
             f == n \div k
  <2>1. n <= c * k /\ f * k <= n
    BY Ceiling, Floor
  <2> HIDE DEF c, f
  <2>2. f * k < c * k + k
    <3>1. c \in Nat /\ f \in Nat
      BY <1>1 DEF c, f
    <3>2. c * k \in Nat /\ f * k \in Nat
      BY <3>1, Products
    <3>3. QED
      BY <2>1, <3>2
  <2> USE DEF c, f
  <2>3. QED
    BY <1>1, <2>2, Products
<1>5. ASSUME n <= m PROVE n \div k <= m \div k
  <2>1. (n \div k) * k <= m
    BY <1>1, <1>5, Floor, Products
  <2>2. QED
    BY <1>1, <2>1, FloorMost
<1>6. DivCeil(m * k, k) = m
  <2>1. DivCeil(m * k, k) <= m
    BY <1>1, CeilingLeast
  <2>2. m * k <= DivCeil(m * k, k) * k
    BY <1>1, Ceiling
  <2>3. m <= DivCeil(m * k, k)
    <3>1. m * k < DivCeil(m * k, k) * k + k
      BY <1>1, <1>2, <2>2, Products
    <3>2. QED
      BY <1>1, <1>2, <3>1, Products
  <2>4. QED
    BY <1>2, <2>1, <2>3
<1>7. (m * k) \div k = m
  <2>1. m <= (m * k) \div k
    BY <1>1, FloorMost
  <2>2. ((m * k) \div k) * k <= m * k
    BY <1>1, Floor
  <2>3. (m * k) \div k <= m
    <3>1. ((m * k) \div k) * k < m * k + k
      BY <1>1, <1>2, <2>2, Products
    <3>2. QED
      BY <1>1, <1>2, <3>1, Products
  <2>4. QED
    BY <1>2, <2>1, <2>3
<1>8. QED
  BY <1>3, <1>4, <1>5, <1>6, <1>7

-------------------------------------------------------------------------------
(* How many pages a tree holds.                                               *)

Held(t) == Cardinality(DOMAIN t.page)
FullHeld(t) == Cardinality(FullPagesIn(t, DOMAIN t.page))
SwaHeld(t) == Cardinality(SwaPagesIn(t, DOMAIN t.page))

LEMMA HeldAreNumbers ==
  ASSUME NEW C, NEW t, Shape(C, t)
  PROVE  /\ Held(t) \in Nat /\ FullHeld(t) \in Nat /\ SwaHeld(t) \in Nat
         /\ \A ps : /\ IsFiniteSet(ps) => IsFiniteSet(FullPagesIn(t, ps)) /\ IsFiniteSet(SwaPagesIn(t, ps))
                    /\ FullPagesIn(t, ps) \subseteq ps /\ SwaPagesIn(t, ps) \subseteq ps
<1>1. IsFiniteSet(DOMAIN t.page)
  BY DEF Shape
<1>2. \A ps : FullPagesIn(t, ps) \subseteq ps /\ SwaPagesIn(t, ps) \subseteq ps
  BY DEF FullPagesIn, SwaPagesIn
<1>3. \A ps : IsFiniteSet(ps) => IsFiniteSet(FullPagesIn(t, ps)) /\ IsFiniteSet(SwaPagesIn(t, ps))
  BY <1>2, FS_Subset
<1>4. QED
  BY <1>1, <1>2, <1>3, FS_CardinalityType DEF Held, FullHeld, SwaHeld

\* The same marks, the same numbers.
LEMMA HeldAlike ==
  ASSUME NEW s, NEW t, SameMarks(s, t)
  PROVE  Held(s) = Held(t) /\ FullHeld(s) = FullHeld(t) /\ SwaHeld(s) = SwaHeld(t)
<1>1. /\ DOMAIN s.page = DOMAIN t.page
      /\ \A p \in DOMAIN t.page : s.page[p].full = t.page[p].full
      /\ \A p \in DOMAIN t.page : s.page[p].swa = t.page[p].swa
  BY MarksOfSame
<1>2. FullPagesIn(s, DOMAIN s.page) = FullPagesIn(t, DOMAIN t.page)
  BY <1>1 DEF FullPagesIn
<1>3. SwaPagesIn(s, DOMAIN s.page) = SwaPagesIn(t, DOMAIN t.page)
  BY <1>1 DEF SwaPagesIn
<1>4. QED
  BY <1>1, <1>2, <1>3 DEF Held, FullHeld, SwaHeld

(* A tree that has gained the pages of a key that it lacked has gained as     *)
(* many full pages, and the SWA pages that came with them.                    *)
LEMMA GrownCounts ==
  ASSUME NEW C, NEW t, Shape(C, t), NEW r, Shape(C, r), NEW key \in Seq(C), NEW live,
         GrownBy(r, t, key, live)
  PROVE  /\ Held(r) = Held(t) + (Len(key) - MatchLen(t, key))
         /\ FullHeld(r) = FullHeld(t) + (Len(key) - MatchLen(t, key))
         /\ SwaHeld(r) = SwaHeld(t) + Cardinality(((MatchLen(t, key) + 1)..Len(key)) \cap live)
<1> DEFINE new == Lacks(t, key)
           last == ((MatchLen(t, key) + 1)..Len(key)) \cap live
           some == {Prefix(key, i) : i \in last}
<1>1. /\ new = {Prefix(key, i) : i \in (MatchLen(t, key) + 1)..Len(key)}
      /\ IsFiniteSet(new) /\ Cardinality(new) = Len(key) - MatchLen(t, key)
  BY LacksAre
<1>2. IsFiniteSet(DOMAIN t.page) /\ new \cap DOMAIN t.page = {}
  BY DEF Shape, Lacks
<1>3. DOMAIN r.page = DOMAIN t.page \cup new
  BY DEF GrownBy
<1>4. Held(r) = Held(t) + Cardinality(new)
  BY <1>1, <1>2, <1>3, DisjointSum DEF Held
<1>5. FullPagesIn(r, DOMAIN r.page) = FullPagesIn(t, DOMAIN t.page) \cup new
  BY <1>3 DEF GrownBy, FullPagesIn
<1>6. IsFiniteSet(FullPagesIn(t, DOMAIN t.page)) /\ FullPagesIn(t, DOMAIN t.page) \subseteq DOMAIN t.page
  BY <1>2, HeldAreNumbers
<1>7. FullHeld(r) = FullHeld(t) + Cardinality(new)
  BY <1>1, <1>2, <1>5, <1>6, DisjointSum DEF FullHeld
<1>8. MatchLen(t, key) \in 0..Len(key) /\ Len(key) \in Nat
  BY MatchIs, LenProperties
<1>9. last \subseteq 1..Len(key)
  BY <1>8
<1>10. IsFiniteSet(some) /\ Cardinality(some) = Cardinality(last)
  <2> HIDE DEF last
  <2>1. QED
    BY <1>9, CountPrefixes
<1>11. some \subseteq new
  BY <1>1
<1>12. \A i \in (MatchLen(t, key) + 1)..Len(key) : Len(Prefix(key, i)) = i
  BY <1>8, PrefixType
<1>13. \A p \in new : r.page[p].swa = (Len(p) \in live)
  BY DEF GrownBy
<1>14. \A p \in new : r.page[p].swa <=> p \in some
  <2>1. TAKE p \in new
  <2>2. PICK i \in (MatchLen(t, key) + 1)..Len(key) : p = Prefix(key, i)
    BY <1>1
  <2>3. Len(p) = i
    BY <1>12, <2>2
  <2>4. ASSUME p \in some PROVE Len(p) \in live
    <3>1. PICK j \in ((MatchLen(t, key) + 1)..Len(key)) \cap live : p = Prefix(key, j)
      BY <2>4
    <3>2. QED
      BY <1>12, <3>1
  <2>5. QED
    BY <1>13, <2>2, <2>3, <2>4
<1>15. SwaPagesIn(r, DOMAIN r.page) = SwaPagesIn(t, DOMAIN t.page) \cup some
  <2>1. \A p \in DOMAIN t.page : r.page[p].swa = t.page[p].swa
    BY DEF GrownBy
  <2>2. QED
    BY <1>3, <1>11, <1>14, <2>1, <1>2 DEF SwaPagesIn
<1>16. IsFiniteSet(SwaPagesIn(t, DOMAIN t.page)) /\ SwaPagesIn(t, DOMAIN t.page) \subseteq DOMAIN t.page
  BY <1>2, HeldAreNumbers
<1>17. SwaHeld(r) = SwaHeld(t) + Cardinality(some)
  BY <1>2, <1>10, <1>11, <1>15, <1>16, DisjointSum DEF SwaHeld
<1>18. QED
  BY <1>1, <1>4, <1>7, <1>10, <1>17

(* A tree that has given up the SWA pages of some pages and the full pages of *)
(* others has fewer by as many as those had.                                  *)
Gives(r, t, A, B) ==
  /\ DOMAIN r.page = DOMAIN t.page
  /\ \A p \in DOMAIN t.page : r.page[p].swa = (t.page[p].swa /\ p \notin A)
  /\ \A p \in DOMAIN t.page : r.page[p].full = (t.page[p].full /\ p \notin B)

LEMMA GivesCounts ==
  ASSUME NEW C, NEW t, Shape(C, t), NEW r, NEW A, NEW B, Gives(r, t, A, B),
         A \subseteq DOMAIN t.page, B \subseteq DOMAIN t.page
  PROVE  /\ Held(r) = Held(t)
         /\ FullHeld(r) = FullHeld(t) - Cardinality(FullPagesIn(t, B))
         /\ SwaHeld(r) = SwaHeld(t) - Cardinality(SwaPagesIn(t, A))
         /\ Cardinality(FullPagesIn(t, B)) \in Nat /\ Cardinality(SwaPagesIn(t, A)) \in Nat
<1>1. IsFiniteSet(DOMAIN t.page)
  BY DEF Shape
<1>2. IsFiniteSet(FullPagesIn(t, DOMAIN t.page)) /\ IsFiniteSet(SwaPagesIn(t, DOMAIN t.page))
  BY <1>1, HeldAreNumbers
<1>3. FullPagesIn(r, DOMAIN r.page) = FullPagesIn(t, DOMAIN t.page) \ FullPagesIn(t, B)
  BY DEF Gives, FullPagesIn
<1>4. FullPagesIn(t, B) \subseteq FullPagesIn(t, DOMAIN t.page)
  BY DEF FullPagesIn
<1>5. SwaPagesIn(r, DOMAIN r.page) = SwaPagesIn(t, DOMAIN t.page) \ SwaPagesIn(t, A)
  BY DEF Gives, SwaPagesIn
<1>6. SwaPagesIn(t, A) \subseteq SwaPagesIn(t, DOMAIN t.page)
  BY DEF SwaPagesIn
<1>7. /\ FullHeld(r) = FullHeld(t) - Cardinality(FullPagesIn(t, B))
      /\ Cardinality(FullPagesIn(t, B)) \in Nat
  BY <1>2, <1>3, <1>4, SubsetDifference DEF FullHeld
<1>8. /\ SwaHeld(r) = SwaHeld(t) - Cardinality(SwaPagesIn(t, A))
      /\ Cardinality(SwaPagesIn(t, A)) \in Nat
  BY <1>2, <1>5, <1>6, SubsetDifference DEF SwaHeld
<1>9. QED
  BY <1>7, <1>8 DEF Held, Gives
-------------------------------------------------------------------------------
(* The pages of all requests, as pairs.                                       *)

PairsOf(f) == UNION {{u} \X f[u] : u \in DOMAIN f}

LEMMA PairsAreFinite ==
  ASSUME NEW f, NEW S, IsFiniteSet(DOMAIN f), IsFiniteSet(S), \A u \in DOMAIN f : f[u] \subseteq S
  PROVE  IsFiniteSet(PairsOf(f)) /\ Cardinality(PairsOf(f)) \in Nat
<1> DEFINE D == DOMAIN f
<1>1. PairsOf(f) \subseteq D \X S
  <2>1. \A u \in D : {u} \X f[u] \subseteq D \X S
    OBVIOUS
  <2>2. QED
    BY <2>1 DEF PairsOf
<1>2. IsFiniteSet(D \X S)
  <2> HIDE DEF D
  <2>1. IsFiniteSet(D)
    BY DEF D
  <2>2. QED
    BY <2>1, FS_Product
<1>3. IsFiniteSet(PairsOf(f))
  BY <1>1, <1>2, FS_Subset
<1>4. QED
  BY <1>3, FS_CardinalityType

\* One request's pages change, and with them the number of all pairs.
LEMMA PairsChange ==
  ASSUME NEW f, NEW g, NEW S, IsFiniteSet(DOMAIN f), IsFiniteSet(S),
         DOMAIN g = DOMAIN f, NEW u \in DOMAIN f,
         \A v \in DOMAIN f : f[v] \subseteq S, g[u] \subseteq S,
         \A v \in DOMAIN f : v # u => g[v] = f[v]
  PROVE  /\ Cardinality(PairsOf(g)) + Cardinality(f[u]) = Cardinality(PairsOf(f)) + Cardinality(g[u])
         /\ Cardinality(PairsOf(g)) \in Nat /\ Cardinality(PairsOf(f)) \in Nat
         /\ Cardinality(f[u]) \in Nat /\ Cardinality(g[u]) \in Nat
<1> DEFINE rest == {x \in PairsOf(f) : x[1] # u}
<1>1. \A v \in DOMAIN g : g[v] \subseteq S
  OBVIOUS
<1>2. IsFiniteSet(PairsOf(f)) /\ IsFiniteSet(PairsOf(g))
      /\ Cardinality(PairsOf(g)) \in Nat /\ Cardinality(PairsOf(f)) \in Nat
  BY <1>1, PairsAreFinite
<1>3. PairsOf(f) = rest \cup ({u} \X f[u]) /\ rest \cap ({u} \X f[u]) = {}
  BY DEF PairsOf
<1>4. PairsOf(g) = rest \cup ({u} \X g[u]) /\ rest \cap ({u} \X g[u]) = {}
  BY DEF PairsOf
<1>5. ASSUME NEW T, T \subseteq S
      PROVE  /\ IsFiniteSet({u} \X T) /\ Cardinality({u} \X T) = Cardinality(T)
             /\ Cardinality(T) \in Nat
  <2>1. IsFiniteSet(T) /\ Cardinality(T) \in Nat
    BY <1>5, FS_Subset, FS_CardinalityType
  <2>2. IsFiniteSet({u}) /\ Cardinality({u}) = 1
    BY FS_Singleton
  <2>3. IsFiniteSet({u} \X T) /\ Cardinality({u} \X T) = Cardinality({u}) * Cardinality(T)
    BY <2>1, <2>2, FS_Product
  <2>4. QED
    BY <2>1, <2>2, <2>3
<1>6. IsFiniteSet(rest)
  BY <1>2, FS_Subset
<1>7. Cardinality(PairsOf(f)) = Cardinality(rest) + Cardinality(f[u])
      /\ Cardinality(rest) \in Nat /\ Cardinality(f[u]) \in Nat
  <2>1. IsFiniteSet({u} \X f[u]) /\ Cardinality({u} \X f[u]) = Cardinality(f[u])
    BY <1>5
  <2>2. QED
    BY <1>3, <1>6, <2>1, DisjointSum
<1>8. Cardinality(PairsOf(g)) = Cardinality(rest) + Cardinality(g[u])
      /\ Cardinality(g[u]) \in Nat
  <2>1. IsFiniteSet({u} \X g[u]) /\ Cardinality({u} \X g[u]) = Cardinality(g[u])
    BY <1>5
  <2>2. QED
    BY <1>4, <1>6, <2>1, DisjointSum
<1> HIDE DEF rest
<1>9. QED
  BY <1>2, <1>7, <1>8

LEMMA Interval ==
  ASSUME NEW a \in Nat, NEW b \in Nat, a <= b
  PROVE  IsFiniteSet((a + 1)..b) /\ Cardinality((a + 1)..b) = b - a
<1>1. IsFiniteSet((a + 1)..b) /\ Cardinality((a + 1)..b) = IF a + 1 > b THEN 0 ELSE b - (a + 1) + 1
  BY FS_Interval
<1>2. QED
  BY <1>1

-------------------------------------------------------------------------------
(* The inductive invariant.                                                   *)

Forwards == UNION {[D -> FlightRows] : D \in SUBSET Requests}
Batches == UNION {[D -> Nat] : D \in SUBSET Requests}
Pools == [full : Nat, comp : Nat, swa : Nat]
TypeInv ==
  /\ pc \in {"schedule", "allocate", "process", "raised"}
  /\ free \in Pools
  /\ kind \in Workloads /\ stage \in [Requests -> Stages]
  /\ cached \in [Requests -> Nat] /\ host \in [Requests -> Nat]
  /\ handle \in [Requests -> Nat] /\ evicted \in [Requests -> Nat]
  /\ row \in [Requests -> Seq(Sources)] /\ ownSwa \in [Requests -> SUBSET Nat]
  /\ batch \in Batches /\ flight \in Seq(Forwards)

Holders == [u \in Resident |-> HandlePath(u)]
TreeInv == SoundTree(Contents, tree, Holders)

\* What the lengths, the row and the handle of a resident request have to do
\* with each other.
RowInv(u) ==
  /\ Len(row[u]) = DivCeil(cached[u], PageSize)
  /\ \A i \in 1..Len(row[u]) : row[u][i] = "own" <=> i > handle[u]
  /\ ownSwa[u] \subseteq (handle[u] + 1)..Len(row[u])
  /\ handle[u] * PageSize <= cached[u]
  /\ cached[u] < kind[u].input + kind[u].output
  /\ handle[u] * PageSize <= host[u] \/ (stage[u] = "prefill" /\ u \in DOMAIN batch)
  /\ evicted[u] * PageSize <= cached[u]
  /\ \A i \in ownSwa[u] : i > evicted[u]

\* A request without resources.
Empty(u) ==
  /\ row[u] = <<>> /\ ownSwa[u] = {}
  /\ cached[u] = 0 /\ host[u] = 0 /\ handle[u] = 0 /\ evicted[u] = 0

RequestInv == \A u \in Requests : IF u \in Resident THEN RowInv(u) ELSE Empty(u)

BatchRow(u) ==
  /\ stage[u] \in {"prefill", "decode"}
  /\ cached[u] < batch[u] /\ batch[u] < kind[u].input + kind[u].output
  /\ stage[u] = "prefill" => batch[u] <= kind[u].input
BatchInv ==
  /\ pc = "process" => DOMAIN batch = {}
  /\ \A u \in DOMAIN batch : BatchRow(u)

\* A row in flight: its request is resident, and the frontier that it hands on
\* lies below every SWA page that the request still has.
FlightRow(r, u) ==
  /\ u \in Resident
  /\ r.len <= cached[u] /\ r.frontier * PageSize <= cached[u]
  /\ \A i \in ownSwa[u] : i > r.frontier
FlightInv == \A i \in DOMAIN flight : \A u \in DOMAIN flight[i] : FlightRow(flight[i][u], u)

IInv == TypeInv /\ TreeInv /\ RequestInv /\ BatchInv /\ FlightInv /\ PagesAreAccounted
-------------------------------------------------------------------------------
(* What a request asks for, and the pages of one that holds resources.        *)

LEMMA KindIs ==
  ASSUME TypeInv, NEW u \in Requests
  PROVE  /\ kind[u].text \in Seq(Contents) /\ Len(kind[u].text) \in Nat
         /\ kind[u].input \in Nat \ {0} /\ kind[u].output \in Nat \ {0}
         /\ kind[u].input + kind[u].output <= PageSize * (Len(kind[u].text) + 1)
         /\ kind[u].input + kind[u].output <= PageSize * NumPages
<1>1. kind \in Workloads
  BY DEF TypeInv
<1>2. /\ kind[u].text \in Seq(Contents)
      /\ kind[u].input \in Nat \ {0} /\ kind[u].output \in Nat \ {0}
      /\ kind[u].input + kind[u].output <= PageSize * (Len(kind[u].text) + 1)
      /\ kind[u].input + kind[u].output <= PageSize * NumPages
  BY <1>1, CacheAssumption
<1>3. QED
  BY <1>2, LenProperties

LEMMA TypesAre ==
  ASSUME TypeInv, NEW u \in Requests
  PROVE  /\ cached[u] \in Nat /\ host[u] \in Nat /\ handle[u] \in Nat /\ evicted[u] \in Nat
         /\ row[u] \in Seq(Sources) /\ Len(row[u]) \in Nat /\ ownSwa[u] \subseteq Nat
         /\ stage[u] \in Stages /\ (u \in Resident <=> stage[u] \in {"prefill", "decode", "ended"})
<1>1. row[u] \in Seq(Sources)
  BY DEF TypeInv
<1>2. QED
  BY <1>1, LenProperties DEF TypeInv, Resident

LEMMA BatchIs ==
  ASSUME TypeInv
  PROVE  DOMAIN batch \subseteq Requests /\ \A u \in DOMAIN batch : batch[u] \in Nat
BY DEF TypeInv, Batches

LEMMA PathIs ==
  ASSUME TypeInv, NEW u \in Requests, NEW n \in 0..Len(kind[u].text)
  PROVE  /\ Path(u, n) \in Seq(Contents) /\ Len(Path(u, n)) = n
         /\ \A m \in 0..n : Prefix(Path(u, n), m) = Path(u, m)
         /\ Path(u, 0) = <<>>
<1>1. kind[u].text \in Seq(Contents)
  BY KindIs
<1>2. Path(u, n) \in Seq(Contents) /\ Len(Path(u, n)) = n
  BY <1>1, PrefixType DEF Path
<1>3. \A m \in 0..n : Prefix(Path(u, n), m) = Path(u, m)
  BY <1>1, PrefixOfPrefix DEF Path
<1>4. Path(u, 0) = <<>>
  BY <1>1, WholePrefix DEF Path
<1>5. QED
  BY <1>2, <1>3, <1>4

LEMMA RowIs ==
  ASSUME TypeInv, NEW u \in Requests, RowInv(u)
  PROVE  /\ handle[u] \in 0..Len(kind[u].text) /\ handle[u] <= cached[u] \div PageSize
         /\ cached[u] \div PageSize \in 0..Len(kind[u].text)
         /\ cached[u] \div PageSize <= Len(row[u])
         /\ handle[u] <= Len(row[u]) /\ Len(row[u]) <= NumPages
         /\ OwnPages(u) = (handle[u] + 1)..Len(row[u])
<1> DEFINE k == PageSize
           n == cached[u]
<1>1. k \in Nat \ {0} /\ NumPages \in Nat \ {0}
  BY CacheAssumption
<1>2. n \in Nat /\ handle[u] \in Nat /\ Len(row[u]) \in Nat
  BY TypesAre
<1>3. Len(row[u]) = DivCeil(n, k) /\ handle[u] * k <= n /\ n < kind[u].input + kind[u].output
  BY DEF RowInv
<1>4. /\ Len(kind[u].text) \in Nat /\ kind[u].input \in Nat /\ kind[u].output \in Nat
      /\ kind[u].input + kind[u].output <= k * (Len(kind[u].text) + 1)
      /\ kind[u].input + kind[u].output <= k * NumPages
  BY KindIs
<1> HIDE DEF k, n
<1>5. handle[u] <= n \div k /\ n \div k \in Nat
  BY <1>1, <1>2, <1>3, FloorMost, Floor
<1>6. n \div k <= Len(row[u])
  BY <1>1, <1>2, <1>3, Ceilings
<1>7. n \div k <= Len(kind[u].text)
  <2>1. k * (Len(kind[u].text) + 1) = Len(kind[u].text) * k + k /\ Len(kind[u].text) * k \in Nat
    BY <1>1, <1>4, Products
  <2>2. (n \div k) * k <= n /\ (n \div k) * k \in Nat
    <3>1. (n \div k) * k <= n
      BY <1>1, <1>2, Floor
    <3>2. (n \div k) * k \in Nat
      BY <1>1, <1>5, Products
    <3>3. QED
      BY <3>1, <3>2
  <2>3. (n \div k) * k < Len(kind[u].text) * k + k
    <3> DEFINE a == Len(kind[u].text) * k
               b == kind[u].input + kind[u].output
               c == k * (Len(kind[u].text) + 1)
               d == (n \div k) * k
    <3>1. c = a + k /\ a \in Nat /\ d <= n /\ d \in Nat
      BY <2>1, <2>2
    <3>2. b <= c /\ n < b /\ b \in Nat
      BY <1>3, <1>4
    <3> HIDE DEF a, b, c, d
    <3>3. d < a + k
      BY <1>1, <1>2, <3>1, <3>2
    <3>4. QED
      BY <3>3 DEF a, d
  <2>4. QED
    BY <1>1, <1>4, <1>5, <2>3, Products
<1>8. Len(row[u]) <= NumPages
  <2>1. k * NumPages = NumPages * k /\ NumPages * k \in Nat
    BY <1>1, Products
  <2>2. n <= NumPages * k
    BY <1>2, <1>3, <1>4, <2>1
  <2>3. QED
    BY <1>1, <1>2, <1>3, <2>2, CeilingLeast
<1>9. OwnPages(u) = (handle[u] + 1)..Len(row[u])
  <2>1. DOMAIN row[u] = 1..Len(row[u])
    BY TypesAre, LenProperties
  <2>2. \A i \in 1..Len(row[u]) : row[u][i] = "own" <=> i > handle[u]
    BY DEF RowInv
  <2>3. QED
    BY <1>2, <2>1, <2>2 DEF OwnPages
<1>10. QED
  BY <1>2, <1>4, <1>5, <1>6, <1>7, <1>8, <1>9 DEF k, n

\* The pages of requests, as functions.
Own == [u \in Requests |-> OwnPages(u)]

LEMMA OwnersAre ==
  ASSUME TypeInv, RequestInv
  PROVE  /\ Owned = PairsOf(Own) /\ OwnedSwa = PairsOf(ownSwa)
         /\ DOMAIN Own = Requests /\ DOMAIN ownSwa = Requests /\ IsFiniteSet(Requests)
         /\ IsFiniteSet(1..NumPages)
         /\ \A u \in Requests : /\ Own[u] = OwnPages(u) /\ Own[u] \subseteq 1..NumPages
                                /\ ownSwa[u] \subseteq OwnPages(u)
                                /\ ownSwa[u] \subseteq 1..NumPages
<1>1. DOMAIN ownSwa = Requests
  BY DEF TypeInv
<1>2. Owned = PairsOf(Own) /\ OwnedSwa = PairsOf(ownSwa)
  BY <1>1 DEF Owned, OwnedSwa, PairsOf, Own
<1>3. ASSUME NEW u \in Requests
      PROVE  OwnPages(u) \subseteq 1..NumPages /\ ownSwa[u] \subseteq OwnPages(u)
  <2>1. CASE u \in Resident
    <3>1. RowInv(u)
      BY <2>1 DEF RequestInv
    <3>2. OwnPages(u) = (handle[u] + 1)..Len(row[u]) /\ Len(row[u]) <= NumPages
      BY <3>1, RowIs
    <3>3. ownSwa[u] \subseteq (handle[u] + 1)..Len(row[u])
      BY <3>1 DEF RowInv
    <3>4. handle[u] \in Nat /\ Len(row[u]) \in Nat /\ NumPages \in Nat
      BY TypesAre, CacheAssumption
    <3>5. (handle[u] + 1)..Len(row[u]) \subseteq 1..NumPages
      BY <3>2, <3>4
    <3>6. QED
      BY <3>2, <3>3, <3>5
  <2>2. CASE u \notin Resident
    <3>1. row[u] = <<>> /\ ownSwa[u] = {}
      BY <2>2 DEF RequestInv, Empty
    <3>2. DOMAIN row[u] = {}
      BY <3>1
    <3>3. QED
      BY <3>1, <3>2 DEF OwnPages
  <2>3. QED
    BY <2>1, <2>2
<1>4. IsFiniteSet(Requests) /\ IsFiniteSet(1..NumPages)
  BY CacheAssumption, FS_Interval
<1>5. QED
  BY <1>1, <1>2, <1>3, <1>4 DEF Own
-------------------------------------------------------------------------------
(* cache_req: what a request gives to the tree, gives back and keeps.         *)

LEMMA Entries ==
  ASSUME NEW h \in Nat, NEW m \in Nat, NEW n \in Nat, NEW l \in Nat, h <= m, m <= n, n <= l,
         NEW live, live \subseteq (h + 1)..l
  PROVE  /\ Cardinality((h + 1)..m) = m - h /\ Cardinality(((h + 1)..m) \cup ((n + 1)..l)) = m - h + (l - n)
         /\ Cardinality((((h + 1)..m) \cup ((n + 1)..l)) \cap live) + Cardinality(((m + 1)..n) \cap live)
              = Cardinality(live)
         /\ Cardinality(((h + 1)..m) \cap live) + Cardinality(((m + 1)..n) \cap live)
              + Cardinality(live \ (1..n)) = Cardinality(live)
         /\ Cardinality((((h + 1)..m) \cup ((n + 1)..l)) \cap live) \in Nat
         /\ Cardinality(((h + 1)..m) \cap live) \in Nat
         /\ Cardinality(((m + 1)..n) \cap live) \in Nat
         /\ Cardinality(live \ (1..n)) \in Nat /\ Cardinality(live) \in Nat
<1> DEFINE D == (h + 1)..m
           A == (m + 1)..n
           L == (n + 1)..l
<1>1. /\ IsFiniteSet(D) /\ Cardinality(D) = m - h
      /\ IsFiniteSet(L) /\ Cardinality(L) = l - n /\ IsFiniteSet(A)
  <2>1. IsFiniteSet(D) /\ Cardinality(D) = m - h
    BY Interval
  <2>2. IsFiniteSet(L) /\ Cardinality(L) = l - n
    BY Interval
  <2>3. IsFiniteSet(A)
    BY Interval
  <2>4. QED
    BY <2>1, <2>2, <2>3
<1>2. live \subseteq D \cup A \cup L
  OBVIOUS
<1>3. D \cap A = {} /\ D \cap L = {} /\ A \cap L = {} /\ L \cap (1..n) = {} /\ D \cup A \subseteq 1..n
  OBVIOUS
<1> HIDE DEF D, A, L
<1>4. Cardinality(D \cup L) = m - h + (l - n)
  BY <1>1, <1>3, DisjointSum
<1>5. /\ IsFiniteSet(D \cap live) /\ IsFiniteSet(A \cap live) /\ IsFiniteSet(L \cap live)
  BY <1>1, FS_Subset
<1>6. live \ (1..n) = L \cap live
  BY <1>2, <1>3
<1>7. (D \cup L) \cap live = (D \cap live) \cup (L \cap live)
  OBVIOUS
<1>8. live = ((D \cup L) \cap live) \cup (A \cap live)
  BY <1>2
<1>9. ((D \cup L) \cap live) \cap (A \cap live) = {} /\ (D \cap live) \cap (L \cap live) = {}
  BY <1>3
<1> DEFINE dl == D \cap live
           al == A \cap live
           ll == L \cap live
           e == (D \cup L) \cap live
<1>10. /\ IsFiniteSet(e) /\ Cardinality(e) = Cardinality(dl) + Cardinality(ll)
       /\ Cardinality(dl) \in Nat /\ Cardinality(ll) \in Nat
  <2> HIDE DEF dl, ll, e
  <2>1. e = dl \cup ll /\ dl \cap ll = {} /\ IsFiniteSet(dl) /\ IsFiniteSet(ll)
    BY <1>5, <1>7, <1>9 DEF dl, ll, e
  <2>2. QED
    BY <2>1, DisjointSum
<1>11. Cardinality(live) = Cardinality(e) + Cardinality(al) /\ Cardinality(e) \in Nat
       /\ Cardinality(al) \in Nat
  <2>1. live = e \cup al /\ e \cap al = {} /\ IsFiniteSet(al)
    BY <1>5, <1>8, <1>9
  <2> HIDE DEF al, e
  <2>2. QED
    BY <1>10, <2>1, DisjointSum
<1>12. Cardinality(live) = Cardinality(dl) + Cardinality(al) + Cardinality(ll)
  BY <1>10, <1>11
<1>13. Cardinality(live) \in Nat
  BY <1>11
<1>14. Cardinality(live \ (1..n)) = Cardinality(ll)
  BY <1>6
<1>15. QED
  BY <1>1, <1>4, <1>10, <1>11, <1>12, <1>13, <1>14 DEF D, A, L

LEMMA ReleasedIs ==
  ASSUME TypeInv, NEW u \in Requests, RowInv(u), NEW es, es \subseteq (handle[u] + 1)..Len(row[u])
  PROVE  /\ Released(u, es).full = Cardinality(es) /\ Released(u, es).comp = Cardinality(es)
         /\ Released(u, es).swa = Cardinality(es \cap ownSwa[u])
<1>1. handle[u] \in Nat /\ Len(row[u]) \in Nat
  BY TypesAre
<1>2. \A i \in es : row[u][i] = "own"
  BY <1>1 DEF RowInv
<1>3. {i \in es : row[u][i] # "none"} = es
  BY <1>2
<1>4. QED
  BY <1>3 DEF Released

\* The pages that cache_req inserts, as a number.
FiledLen(u, length) == Least(cached[u], length) \div PageSize

LEMMA FiledLenIs ==
  ASSUME TypeInv, NEW u \in Requests, RowInv(u), NEW length \in Nat, handle[u] * PageSize <= length
  PROVE  /\ FiledLen(u, length) \in 0..Len(kind[u].text) /\ FiledLen(u, length) \in 0..Len(row[u])
         /\ handle[u] <= FiledLen(u, length) /\ FiledLen(u, length) <= cached[u] \div PageSize
         /\ FiledLen(u, length) <= length \div PageSize
<1> DEFINE m == Least(cached[u], length)
<1>1. PageSize \in Nat \ {0} /\ cached[u] \in Nat /\ handle[u] \in Nat
  BY CacheAssumption, TypesAre
<1>2. m \in Nat /\ m <= cached[u] /\ m <= length /\ (m = cached[u] \/ m = length)
  BY <1>1 DEF Least
<1>3. handle[u] * PageSize <= m
  BY <1>2 DEF RowInv
<1> HIDE DEF m
<1>4. handle[u] <= m \div PageSize /\ m \div PageSize \in Nat
  BY <1>1, <1>2, <1>3, FloorMost, Floor
<1>5. m \div PageSize <= cached[u] \div PageSize /\ m \div PageSize <= length \div PageSize
  BY <1>1, <1>2, Ceilings
<1>6. /\ cached[u] \div PageSize \in 0..Len(kind[u].text) /\ cached[u] \div PageSize <= Len(row[u])
      /\ Len(row[u]) \in Nat /\ Len(kind[u].text) \in Nat
  BY RowIs, TypesAre, KindIs
<1>7. FiledLen(u, length) = m \div PageSize
  BY DEF FiledLen, m
<1>8. QED
  BY <1>4, <1>5, <1>6, <1>7

\* The tree with the path inserted and the handle moved, and its cut.
Grown(u, length, finished) ==
  Inserted(tree, Path(u, FiledLen(u, length)), ownSwa[u], HandlePath(u), finished)
SwaCut(u, length) == Minus(FiledLen(u, length), SwaTail)
FullCut(u, length) == Minus(FiledLen(u, length), 1)

LEMMA CutsAre ==
  ASSUME NEW n \in Nat
  PROVE  Minus(n, SwaTail) \in 0..n /\ Minus(n, 1) \in 0..n /\ SwaTail \in Nat \ {0}
<1>1. DivCeil(Window, PageSize) \in Nat
  BY CacheAssumption, Ceiling
<1>2. QED
  BY <1>1 DEF SwaTail, Minus

LEMMA CacheReqFields ==
  ASSUME NEW u, NEW length, NEW finished \in BOOLEAN, NEW r, r = CacheReq(u, length, finished),
         NEW m, m = Grown(u, length, finished), NEW path, path = Path(u, FiledLen(u, length)),
         NEW a, a = SwaCut(u, length), NEW b, b = FullCut(u, length),
         NEW es, es = Duplicates(u, MatchLen(tree, path)) \cup
                        IF finished THEN Leftover(u, FiledLen(u, length)) ELSE {}
  PROVE  /\ r.tree = Cut(m, path, a, b) /\ r.path = path
         /\ r.freed = Plus(Released(u, es),
                       [full |-> Cardinality(FullPagesIn(m, PagesOn(Path(u, b)))), comp |-> 0,
                        swa |-> Cardinality(SwaPagesIn(m, PagesOn(Path(u, a))))])
BY DEF CacheReq, Grown, Inserted, FiledLen, SwaCut, FullCut, Cut

LEMMA HoldersAre ==
  ASSUME TypeInv
  PROVE  /\ DOMAIN Holders = Resident /\ Resident \subseteq Requests
         /\ \A u \in Resident : Holders[u] = HandlePath(u)
BY DEF Holders, Resident

\* The handle of a request names a node, and its pages are in the tree.
LEMMA HandleIs ==
  ASSUME TypeInv, TreeInv, RequestInv, NEW u \in Resident
  PROVE  /\ RowInv(u) /\ HandlePath(u) \in Seq(Contents) /\ Len(HandlePath(u)) = handle[u]
         /\ Names(tree, HandlePath(u)) /\ PagesOn(HandlePath(u)) \subseteq DOMAIN tree.page
         /\ handle[u] \in 0..Len(kind[u].text)
<1>1. u \in Requests /\ RowInv(u)
  BY HoldersAre DEF RequestInv
<1>2. handle[u] \in 0..Len(kind[u].text)
  BY <1>1, RowIs
<1>3. HandlePath(u) \in Seq(Contents) /\ Len(HandlePath(u)) = handle[u]
  BY <1>1, <1>2, PathIs DEF HandlePath
<1>4. Names(tree, HandlePath(u))
  BY HoldersAre DEF TreeInv, SoundTree, Locks
<1>5. PagesOn(HandlePath(u)) \subseteq DOMAIN tree.page
  BY <1>3, <1>4, NamesInTree DEF TreeInv, SoundTree
<1>6. QED
  BY <1>1, <1>2, <1>3, <1>4, <1>5

\* What the tree matches of a path reaches down to the handle.
LEMMA MatchesHandle ==
  ASSUME TypeInv, TreeInv, RequestInv, NEW u \in Resident,
         NEW n \in 0..Len(kind[u].text), handle[u] <= n
  PROVE  /\ MatchLen(tree, Path(u, n)) \in handle[u]..n
         /\ Path(u, n) \in Seq(Contents) /\ Len(Path(u, n)) = n
<1>1. u \in Requests /\ Shape(Contents, tree)
  BY HoldersAre DEF TreeInv, SoundTree
<1>2. /\ Path(u, n) \in Seq(Contents) /\ Len(Path(u, n)) = n
      /\ \A m \in 0..n : Prefix(Path(u, n), m) = Path(u, m)
  BY <1>1, PathIs
<1>3. MatchLen(tree, Path(u, n)) \in 0..n
  BY <1>1, <1>2, MatchIs
<1>4. PagesOn(HandlePath(u)) \subseteq PagesOn(Path(u, n)) \cap DOMAIN tree.page
  <2>1. PagesOn(HandlePath(u)) \subseteq DOMAIN tree.page /\ handle[u] \in 0..n
    BY HandleIs, <1>2
  <2>2. HandlePath(u) = Prefix(Path(u, n), handle[u])
    BY <1>2, <2>1 DEF HandlePath
  <2>3. PagesOn(HandlePath(u)) \subseteq PagesOn(Path(u, n))
    BY <1>2, <2>1, <2>2, PagesOfPrefix
  <2>4. QED
    BY <2>1, <2>3
<1>5. Cardinality(PagesOn(HandlePath(u))) = handle[u]
  BY HandleIs, PagesAreFinite
<1>6. IsFiniteSet(PagesOn(Path(u, n)) \cap DOMAIN tree.page)
  BY <1>1, FS_Subset DEF Shape
<1>7. handle[u] <= Cardinality(PagesOn(Path(u, n)) \cap DOMAIN tree.page)
  BY <1>4, <1>5, <1>6, FS_Subset
<1>8. QED
  BY <1>2, <1>3, <1>7, HandleIs DEF MatchLen

(* What remains for the holders after a request has filed its pages.          *)
Handed(G, u, path, finished) ==
  /\ finished => Without(Holders, G, u)
  /\ ~finished => /\ DOMAIN G = DOMAIN Holders /\ G[u] = path
                  /\ \A v \in DOMAIN Holders \ {u} : G[v] = Holders[v]

(* cache_req leaves a sound tree: grown by the path of the request, and cut   *)
(* at its head.                                                               *)
LEMMA CacheReqIsSound ==
  ASSUME TypeInv, TreeInv, RequestInv, NEW u \in Resident,
         NEW length \in Nat, handle[u] * PageSize <= length, NEW finished \in BOOLEAN,
         NEW r, r = CacheReq(u, length, finished),
         NEW path, path = Path(u, FiledLen(u, length)), NEW G, Handed(G, u, path, finished)
  PROVE  /\ SoundTree(Contents, r.tree, G) /\ r.path = path /\ Names(Grown(u, length, finished), path)
         /\ Len(path) = FiledLen(u, length) /\ path \in Seq(Contents)
         /\ Shape(Contents, Grown(u, length, finished))
         /\ GrownBy(Grown(u, length, finished), tree, path, ownSwa[u])
         /\ Gives(r.tree, Grown(u, length, finished),
                  PagesOn(Path(u, SwaCut(u, length))), PagesOn(Path(u, FullCut(u, length))))
         /\ PagesOn(path) \subseteq DOMAIN Grown(u, length, finished).page
         /\ PagesOn(Path(u, SwaCut(u, length))) \subseteq PagesOn(path)
         /\ PagesOn(Path(u, FullCut(u, length))) \subseteq PagesOn(path)
<1> DEFINE n == FiledLen(u, length)
           m == Grown(u, length, finished)
           a == SwaCut(u, length)
           b == FullCut(u, length)
<1>1. u \in Requests /\ RowInv(u) /\ u \in DOMAIN Holders /\ Holders[u] = HandlePath(u)
  BY HoldersAre, HandleIs
<1>2. n \in 0..Len(kind[u].text) /\ handle[u] <= n
  BY <1>1, FiledLenIs
<1>3. /\ path \in Seq(Contents) /\ Len(path) = n
      /\ \A i \in 0..n : Prefix(path, i) = Path(u, i)
  BY <1>1, <1>2, PathIs
<1>4. a \in 0..n /\ b \in 0..n
  <2>1. n \in Nat
    BY <1>2
  <2>2. QED
    BY <2>1, CutsAre DEF SwaCut, FullCut
<1>5. m = Inserted(tree, path, ownSwa[u], Holders[u], finished)
  BY <1>1 DEF Grown
<1>6. /\ SoundTree(Contents, m, G) /\ Names(m, path)
      /\ GrownBy(m, tree, path, ownSwa[u])
  <2>1. SoundTree(Contents, tree, Holders)
    BY DEF TreeInv
  <2>2. /\ finished => Without(Holders, G, u)
        /\ ~finished => /\ DOMAIN G = DOMAIN Holders /\ G[u] = path
                        /\ \A v \in DOMAIN Holders \ {u} : G[v] = Holders[v]
    BY DEF Handed
  <2> HIDE DEF m, n
  <2>3. QED
    BY <1>1, <1>3, <1>5, <2>1, <2>2, InsertedIsSound
<1>7. r.tree = Cut(m, path, a, b) /\ r.path = path
  BY DEF CacheReq, Grown, Inserted, FiledLen, SwaCut, FullCut, Cut
<1> HIDE DEF m
<1>8. /\ SoundTree(Contents, r.tree, G)
      /\ DOMAIN r.tree.page = DOMAIN m.page
      /\ \A p \in DOMAIN m.page :
           r.tree.page[p].swa = (m.page[p].swa /\ p \notin PagesOn(Prefix(path, a)))
      /\ \A p \in DOMAIN m.page :
           r.tree.page[p].full = (m.page[p].full /\ p \notin PagesOn(Prefix(path, b)))
  <2>1. a \in 0..Len(path) /\ b \in 0..Len(path)
    BY <1>3, <1>4
  <2> HIDE DEF a, b, n
  <2>2. QED
    BY <1>3, <1>6, <1>7, <2>1, CutIsSound
<1>9. Prefix(path, a) = Path(u, a) /\ Prefix(path, b) = Path(u, b)
  BY <1>3, <1>4
<1>10. Gives(r.tree, m, PagesOn(Path(u, a)), PagesOn(Path(u, b)))
  BY <1>8, <1>9 DEF Gives
<1>11. Shape(Contents, m)
  BY <1>6 DEF SoundTree
<1>12. PagesOn(path) \subseteq DOMAIN m.page
  BY <1>3, <1>6, <1>11, NamesInTree
<1>13. PagesOn(Path(u, a)) \subseteq PagesOn(path) /\ PagesOn(Path(u, b)) \subseteq PagesOn(path)
  <2>1. a \in 0..Len(path) /\ b \in 0..Len(path)
    BY <1>3, <1>4
  <2> HIDE DEF a, b, n
  <2>2. /\ PagesOn(Prefix(path, a)) = {p \in PagesOn(path) : Len(p) <= a}
        /\ PagesOn(Prefix(path, b)) = {p \in PagesOn(path) : Len(p) <= b}
    BY <1>3, <2>1, PagesOfPrefix
  <2>3. QED
    BY <1>9, <2>2
<1>14. QED
  BY <1>3, <1>6, <1>7, <1>8, <1>10, <1>11, <1>12, <1>13 DEF m

\* The pages that leave the row as the request's own, and the SWA pages it keeps.
GivenUp(u, length, finished) ==
  (IF finished THEN Len(row[u]) ELSE FiledLen(u, length)) - handle[u]
SwaLeft(u, length, finished) ==
  IF finished THEN {} ELSE ownSwa[u] \ (1..FiledLen(u, length))

(* What it gives back and what it gives to the tree is what the request had.  *)
LEMMA Turnover ==
  ASSUME NEW s \in Nat, NEW ca \in Nat, NEW cs \in Nat, NEW cl \in Nat, NEW x \in Nat,
         NEW ct \in Nat, cl + ca + x = ct
  PROVE  (s + ca - cs) + (cl + cs) + x = s + ct
OBVIOUS

LEMMA CacheReqCounts ==
  ASSUME TypeInv, TreeInv, RequestInv, NEW u \in Resident,
         NEW length \in Nat, handle[u] * PageSize <= length, NEW finished \in BOOLEAN,
         NEW r, r = CacheReq(u, length, finished),
         NEW path, path = Path(u, FiledLen(u, length)), NEW G, Handed(G, u, path, finished)
  PROVE  /\ r.freed \in Pools
         /\ FullHeld(r.tree) + r.freed.full = FullHeld(tree) + GivenUp(u, length, finished)
         /\ Held(r.tree) + r.freed.comp = Held(tree) + GivenUp(u, length, finished)
         /\ SwaHeld(r.tree) + r.freed.swa + Cardinality(SwaLeft(u, length, finished))
              = SwaHeld(tree) + Cardinality(ownSwa[u])
<1> DEFINE n == FiledLen(u, length)
           m == Grown(u, length, finished)
           a == SwaCut(u, length)
           b == FullCut(u, length)
           have == MatchLen(tree, path)
           es == Duplicates(u, have) \cup IF finished THEN Leftover(u, n) ELSE {}
           fh == FullPagesIn(m, PagesOn(Path(u, b)))
           sh == SwaPagesIn(m, PagesOn(Path(u, a)))
           l == Len(row[u])
           h == handle[u]
           live == ownSwa[u]
<1>1. u \in Requests /\ RowInv(u)
  BY HoldersAre, HandleIs
<1>2. h \in Nat /\ n \in Nat /\ l \in Nat /\ h <= n /\ n <= l /\ n \in 0..Len(kind[u].text)
  BY <1>1, FiledLenIs, TypesAre
<1>3. have \in h..n
  BY <1>2, MatchesHandle
<1>4. live \subseteq (h + 1)..l
  BY <1>1 DEF RowInv
<1>5. r.freed = Plus(Released(u, es), [full |-> Cardinality(fh), comp |-> 0, swa |-> Cardinality(sh)])
  BY CacheReqFields
<1>6. /\ Shape(Contents, m) /\ GrownBy(m, tree, path, ownSwa[u])
      /\ Gives(r.tree, m, PagesOn(Path(u, a)), PagesOn(Path(u, b)))
      /\ PagesOn(Path(u, a)) \subseteq DOMAIN m.page /\ PagesOn(Path(u, b)) \subseteq DOMAIN m.page
      /\ Len(path) = n /\ path \in Seq(Contents)
  BY CacheReqIsSound
<1>7. Shape(Contents, tree)
  BY DEF TreeInv, SoundTree
<1>8. /\ Held(m) = Held(tree) + (n - have) /\ FullHeld(m) = FullHeld(tree) + (n - have)
      /\ SwaHeld(m) = SwaHeld(tree) + Cardinality(((have + 1)..n) \cap live)
  <2> HIDE DEF m, n
  <2>1. QED
    BY <1>6, <1>7, GrownCounts
<1>9. /\ Held(r.tree) = Held(m) /\ FullHeld(r.tree) = FullHeld(m) - Cardinality(fh)
      /\ SwaHeld(r.tree) = SwaHeld(m) - Cardinality(sh)
      /\ Cardinality(fh) \in Nat /\ Cardinality(sh) \in Nat
  <2> HIDE DEF m, n, a, b
  <2>1. QED
    BY <1>6, GivesCounts
<1>10. Held(tree) \in Nat /\ FullHeld(tree) \in Nat /\ SwaHeld(tree) \in Nat
  BY <1>7, HeldAreNumbers
<1>11. es = ((h + 1)..have) \cup IF finished THEN (n + 1)..l ELSE {}
  BY DEF Duplicates, Leftover
<1>12. es \subseteq (h + 1)..l
  BY <1>2, <1>3, <1>11
<1>13. /\ Released(u, es).full = Cardinality(es) /\ Released(u, es).comp = Cardinality(es)
       /\ Released(u, es).swa = Cardinality(es \cap live)
  <2> HIDE DEF es
  <2>1. QED
    BY <1>1, <1>12, ReleasedIs
<1>14. /\ r.freed = [full |-> Cardinality(es) + Cardinality(fh), comp |-> Cardinality(es) + 0,
                     swa |-> Cardinality(es \cap live) + Cardinality(sh)]
  <2> HIDE DEF es, fh, sh
  <2>1. QED
    BY <1>5, <1>13 DEF Plus
<1>15. /\ Cardinality(es) = (IF finished THEN have - h + (l - n) ELSE have - h)
       /\ Cardinality(es \cap live) \in Nat
       /\ Cardinality(((have + 1)..n) \cap live) \in Nat /\ Cardinality(live) \in Nat
       /\ Cardinality(es \cap live) + Cardinality(((have + 1)..n) \cap live)
             + (IF finished THEN 0 ELSE Cardinality(live \ (1..n))) = Cardinality(live)
       /\ Cardinality(live \ (1..n)) \in Nat
  <2>1. have \in Nat /\ h <= have /\ have <= n
    BY <1>2, <1>3
  <2> HIDE DEF have, h, n, l, live, es
  <2>2. /\ Cardinality((h + 1)..have) = have - h /\ Cardinality(((h + 1)..have) \cup ((n + 1)..l)) = have - h + (l - n)
        /\ Cardinality((((h + 1)..have) \cup ((n + 1)..l)) \cap live) + Cardinality(((have + 1)..n) \cap live)
              = Cardinality(live)
        /\ Cardinality(((h + 1)..have) \cap live) + Cardinality(((have + 1)..n) \cap live)
              + Cardinality(live \ (1..n)) = Cardinality(live)
        /\ Cardinality((((h + 1)..have) \cup ((n + 1)..l)) \cap live) \in Nat
        /\ Cardinality(((h + 1)..have) \cap live) \in Nat
        /\ Cardinality(((have + 1)..n) \cap live) \in Nat
        /\ Cardinality(live \ (1..n)) \in Nat /\ Cardinality(live) \in Nat
    BY <1>2, <1>4, <2>1, Entries
  <2>3. CASE finished
    <3>1. es = ((h + 1)..have) \cup ((n + 1)..l)
      BY <1>11, <2>3
    <3>2. QED
      BY <2>2, <2>3, <3>1
  <2>4. CASE ~finished
    <3>1. es = ((h + 1)..have)
      BY <1>11, <2>4
    <3>2. QED
      BY <2>2, <2>4, <3>1
  <2>5. QED
    BY <2>3, <2>4
<1> DEFINE ce == Cardinality(es)
           cl == Cardinality(es \cap live)
           ca == Cardinality(((have + 1)..n) \cap live)
           cf == Cardinality(fh)
           cs == Cardinality(sh)
           ct == Cardinality(live)
           cr == Cardinality(live \ (1..n))
<1>16. /\ r.freed = [full |-> ce + cf, comp |-> ce + 0, swa |-> cl + cs]
       /\ Held(r.tree) = Held(tree) + (n - have)
       /\ FullHeld(r.tree) = FullHeld(tree) + (n - have) - cf
       /\ SwaHeld(r.tree) = SwaHeld(tree) + ca - cs
  <2>1. FullHeld(m) \in Int /\ Held(m) \in Int /\ SwaHeld(m) \in Int
    BY <1>6, HeldAreNumbers
  <2>2. r.freed = [full |-> ce + cf, comp |-> ce + 0, swa |-> cl + cs]
    BY <1>14
  <2> HIDE DEF es, fh, sh, m, a, b, have, n, h, l, live
  <2>3. Held(r.tree) = Held(tree) + (n - have)
    BY <1>8, <1>9
  <2> DEFINE fm == FullHeld(m)
             sm == SwaHeld(m)
             f == FullHeld(tree)
             s == SwaHeld(tree)
  <2>a. /\ FullHeld(r.tree) = fm - cf /\ fm = f + (n - have)
        /\ SwaHeld(r.tree) = sm - cs /\ sm = s + ca
        /\ fm \in Int /\ sm \in Int /\ f \in Int /\ s \in Int
        /\ cf \in Int /\ cs \in Int /\ ca \in Int
    BY <1>8, <1>9, <1>10, <1>15, <2>1
  <2>b. have \in Int /\ n \in Int
    BY <1>2, <1>3
  <2> HIDE DEF fm, sm, f, s, ca, cs, cf
  <2>4. FullHeld(r.tree) = f + (n - have) - cf
    BY <2>a, <2>b
  <2>5. SwaHeld(r.tree) = s + ca - cs
    BY <2>a, <2>b
  <2> USE DEF f, s
  <2>6. QED
    BY <2>2, <2>3, <2>4, <2>5
<1>17. /\ ce = (IF finished THEN have - h + (l - n) ELSE have - h)
       /\ cl \in Nat /\ ca \in Nat /\ ct \in Nat /\ cr \in Nat /\ cf \in Nat /\ cs \in Nat
       /\ cl + ca + (IF finished THEN 0 ELSE cr) = ct
  BY <1>9, <1>15
<1> HIDE DEF ce, cl, ca, cf, cs, ct, cr, es, fh, sh, m, a, b, have, n, h, l, live
<1>18. have \in Nat /\ h <= have /\ have <= n /\ ce \in Nat
  BY <1>2, <1>3, <1>17
<1>19. /\ r.freed.full = ce + cf /\ r.freed.comp = ce /\ r.freed.swa = cl + cs
       /\ r.freed \in Pools
  BY <1>16, <1>17, <1>18 DEF Pools
<1>20. /\ FullHeld(r.tree) + r.freed.full = FullHeld(tree) + ((IF finished THEN l ELSE n) - h)
       /\ Held(r.tree) + r.freed.comp = Held(tree) + ((IF finished THEN l ELSE n) - h)
  <2>1. CASE finished
    BY <1>2, <1>10, <1>16, <1>17, <1>18, <1>19, <2>1
  <2>2. CASE ~finished
    BY <1>2, <1>10, <1>16, <1>17, <1>18, <1>19, <2>2
  <2>3. QED
    BY <2>1, <2>2
<1>21. SwaHeld(r.tree) + r.freed.swa + (IF finished THEN 0 ELSE cr) = SwaHeld(tree) + ct
  <2> DEFINE x == IF finished THEN 0 ELSE cr
  <2>1. x \in Nat /\ cl + ca + x = ct
    BY <1>17
  <2>2. SwaHeld(r.tree) = SwaHeld(tree) + ca - cs /\ r.freed.swa = cl + cs
    BY <1>16, <1>19
  <2> HIDE DEF x
  <2>3. (SwaHeld(tree) + ca - cs) + (cl + cs) + x = SwaHeld(tree) + ct
    BY <1>10, <1>17, <2>1, Turnover
  <2>4. QED
    BY <2>2, <2>3 DEF x
<1>22. GivenUp(u, length, finished) = (IF finished THEN l ELSE n) - h
  BY DEF GivenUp, n, h, l
<1>23. Cardinality(SwaLeft(u, length, finished)) = IF finished THEN 0 ELSE cr
  BY FS_EmptySet DEF SwaLeft, n, live, cr
<1>24. QED
  BY <1>19, <1>20, <1>21, <1>22, <1>23 DEF live, ct

-------------------------------------------------------------------------------
(* Steps that change one request.                                             *)

\* A request that a step leaves alone.
Alike(u) ==
  /\ kind' = kind /\ stage'[u] = stage[u] /\ cached'[u] = cached[u] /\ host'[u] = host[u]
  /\ handle'[u] = handle[u] /\ evicted'[u] = evicted[u] /\ row'[u] = row[u]
  /\ ownSwa'[u] = ownSwa[u] /\ (u \in DOMAIN batch => u \in DOMAIN batch')

Others(u) == \A v \in Requests \ {u} : Alike(v)

LEMMA AlikeIs ==
  ASSUME NEW u \in Requests, Alike(u)
  PROVE  /\ u \in Resident' <=> u \in Resident
         /\ RowInv(u) => RowInv(u)'
         /\ Empty(u) => Empty(u)'
         /\ HandlePath(u)' = HandlePath(u)
         /\ OwnPages(u)' = OwnPages(u)
         /\ \A r : FlightRow(r, u) => FlightRow(r, u)'
<1>1. u \in Resident' <=> u \in Resident
  BY DEF Alike, Resident
<1>2. RowInv(u) => RowInv(u)'
  BY DEF Alike, RowInv
<1>3. Empty(u) => Empty(u)'
  BY DEF Alike, Empty
<1>4. HandlePath(u)' = HandlePath(u) /\ OwnPages(u)' = OwnPages(u)
  BY DEF Alike, HandlePath, Path, OwnPages
<1>5. \A r : FlightRow(r, u) => FlightRow(r, u)'
  BY <1>1 DEF Alike, FlightRow
<1>6. QED
  BY <1>1, <1>2, <1>3, <1>4, <1>5

LEMMA RequestsKept ==
  ASSUME RequestInv, NEW u \in Requests, Others(u),
         u \in Resident' => RowInv(u)', u \notin Resident' => Empty(u)'
  PROVE  RequestInv'
<1>1. ASSUME NEW v \in Requests, v # u
      PROVE  (IF v \in Resident THEN RowInv(v) ELSE Empty(v))'
  BY <1>1, AlikeIs DEF Others, RequestInv
<1>2. QED
  BY <1>1 DEF RequestInv

LEMMA AllKept ==
  ASSUME RequestInv, \A v \in Requests : Alike(v)
  PROVE  RequestInv'
<1>1. ASSUME NEW v \in Requests
      PROVE  (IF v \in Resident THEN RowInv(v) ELSE Empty(v))'
  BY <1>1, AlikeIs DEF RequestInv
<1>2. QED
  BY <1>1 DEF RequestInv

\* The rows of the forwards in flight after a step were in flight before it.
FlightFrom(u) ==
  \A i \in DOMAIN flight' : \A v \in DOMAIN flight'[i] :
    \E j \in DOMAIN flight : /\ v \in DOMAIN flight[j] /\ flight[j][v] = flight'[i][v]
                             /\ v = u => j > 1

LEMMA FlightKept ==
  ASSUME TypeInv, FlightInv, NEW u \in Requests, Others(u), FlightFrom(u),
         \A j \in DOMAIN flight : \A r :
           j > 1 /\ u \in DOMAIN flight[j] /\ r = flight[j][u] => FlightRow(r, u)'
  PROVE  FlightInv'
<1>1. ASSUME NEW i \in DOMAIN flight', NEW v \in DOMAIN flight'[i], NEW r, r = flight'[i][v]
      PROVE  FlightRow(r, v)'
  <2>1. PICK j \in DOMAIN flight : /\ v \in DOMAIN flight[j] /\ flight[j][v] = flight'[i][v]
                                   /\ v = u => j > 1
    BY <1>1 DEF FlightFrom
  <2>2. r = flight[j][v]
    BY <1>1, <2>1
  <2>3. CASE v = u
    BY <2>1, <2>2, <2>3
  <2>4. CASE v # u
    <3>1. FlightRow(r, v)
      BY <2>1, <2>2 DEF FlightInv
    <3>2. v \in Requests
      BY <3>1 DEF FlightRow, Resident
    <3>3. Alike(v)
      BY <2>4, <3>2 DEF Others
    <3>4. QED
      BY <3>1, <3>2, <3>3, AlikeIs
  <2>5. QED
    BY <2>3, <2>4
<1>2. \A i \in DOMAIN flight' : \A v \in DOMAIN flight'[i] : FlightRow(flight[i][v], v)'
  BY <1>1
<1>3. QED
  BY <1>2 DEF FlightInv

\* The forwards are as they were.
LEMMA FlightStays ==
  ASSUME TypeInv, FlightInv, flight' = flight, NEW u \in Requests, Others(u),
         \A j \in DOMAIN flight : \A r : u \in DOMAIN flight[j] /\ r = flight[j][u] => FlightRow(r, u)'
  PROVE  FlightInv'
<1>1. ASSUME NEW i \in DOMAIN flight, NEW v \in DOMAIN flight[i], NEW r, r = flight[i][v]
      PROVE  FlightRow(r, v)'
  <2>1. CASE v = u
    BY <1>1, <2>1
  <2>2. CASE v # u
    <3>1. FlightRow(r, v)
      BY <1>1 DEF FlightInv
    <3>2. v \in Requests
      BY <3>1 DEF FlightRow, Resident
    <3>3. Alike(v)
      BY <2>2, <3>2 DEF Others
    <3>4. QED
      BY <3>1, <3>2, <3>3, AlikeIs
  <2>3. QED
    BY <2>1, <2>2
<1>2. \A i \in DOMAIN flight' : \A v \in DOMAIN flight'[i] : FlightRow(flight[i][v], v)'
  BY <1>1
<1>3. QED
  BY <1>2 DEF FlightInv

LEMMA ForwardIs ==
  ASSUME TypeInv, NEW i \in DOMAIN flight
  PROVE  /\ flight[i] \in [DOMAIN flight[i] -> FlightRows] /\ DOMAIN flight[i] \subseteq Requests
         /\ \A u \in DOMAIN flight[i] : /\ flight[i][u] \in FlightRows
                                        /\ flight[i][u].len \in Nat /\ flight[i][u].frontier \in Nat
<1>1. flight[i] \in Forwards
  BY ElementOfSeq DEF TypeInv
<1>2. PICK D \in SUBSET Requests : flight[i] \in [D -> FlightRows]
  BY <1>1 DEF Forwards
<1>3. DOMAIN flight[i] = D
  BY <1>2
<1>4. \A u \in DOMAIN flight[i] : flight[i][u] \in FlightRows
  BY <1>2, <1>3
<1>5. \A r \in FlightRows : r.len \in Nat /\ r.frontier \in Nat
  BY DEF FlightRows
<1>6. QED
  BY <1>2, <1>3, <1>4, <1>5

\* Where the rows of the forwards come from once a row of the oldest is done.
LEMMA FlightWithoutIs ==
  ASSUME TypeInv, flight # <<>>, NEW u \in DOMAIN Head(flight), NEW g, g = FlightWithout(u)
  PROVE  /\ Head(flight) = flight[1] /\ Len(flight) \in Nat \ {0} /\ DOMAIN flight = 1..Len(flight)
         /\ g \in Seq(Forwards) /\ DOMAIN g = 1..Len(g) /\ Len(g) \in Nat
         /\ \/ /\ DOMAIN flight[1] = {u} /\ Len(g) = Len(flight) - 1
               /\ \A i \in 1..Len(g) : g[i] = flight[i + 1]
            \/ /\ DOMAIN flight[1] # {u} /\ Len(g) = Len(flight) /\ DOMAIN g[1] = DOMAIN flight[1] \ {u}
               /\ \A v \in DOMAIN g[1] : g[1][v] = flight[1][v]
               /\ \A i \in 2..Len(g) : g[i] = flight[i]
<1> DEFINE rest == [v \in DOMAIN Head(flight) \ {u} |-> Head(flight)[v]]
<1>1. flight \in Seq(Forwards)
  BY DEF TypeInv
<1>2. /\ Head(flight) \in Forwards /\ Tail(flight) \in Seq(Forwards)
      /\ Len(flight) \in Nat \ {0} /\ DOMAIN flight = 1..Len(flight)
      /\ Len(Tail(flight)) = Len(flight) - 1
      /\ \A i \in 1..(Len(flight) - 1) : Tail(flight)[i] = flight[i + 1]
      /\ Head(flight) = flight[1]
  <2>1. Len(flight) \in Nat /\ DOMAIN flight = 1..Len(flight)
    BY <1>1, LenProperties
  <2>2. Len(flight) # 0
    BY <1>1, EmptySeq
  <2>3. /\ Head(flight) \in Forwards /\ Tail(flight) \in Seq(Forwards)
        /\ Len(Tail(flight)) = Len(flight) - 1
        /\ \A i \in 1..Len(Tail(flight)) : Tail(flight)[i] = flight[i + 1]
    BY <1>1, HeadTailProperties
  <2>4. Head(flight) = flight[1]
    OBVIOUS
  <2>5. QED
    BY <2>1, <2>2, <2>3, <2>4
<1>3. CASE DOMAIN rest = {}
  <2>1. g = Tail(flight)
    BY <1>3 DEF FlightWithout
  <2>2. DOMAIN flight[1] = {u}
    BY <1>2, <1>3
  <2>3. DOMAIN g = 1..Len(g) /\ Len(g) \in Nat
    BY <1>2, <2>1, LenProperties
  <2>4. QED
    BY <1>2, <2>1, <2>2, <2>3
<1>4. CASE DOMAIN rest # {}
  <2>1. g = <<rest>> \o Tail(flight)
    BY <1>4 DEF FlightWithout
  <2>2. rest \in Forwards
    <3>1. PICK D \in SUBSET Requests : Head(flight) \in [D -> FlightRows]
      BY <1>2 DEF Forwards
    <3>2. DOMAIN Head(flight) = D
      BY <3>1
    <3>3. rest \in [D \ {u} -> FlightRows]
      BY <3>1, <3>2
    <3>4. QED
      BY <3>3 DEF Forwards
  <2> HIDE DEF rest
  <2>3. <<rest>> \in Seq(Forwards) /\ Len(<<rest>>) = 1 /\ <<rest>>[1] = rest
    BY <2>2
  <2>4. /\ g \in Seq(Forwards) /\ Len(g) = Len(flight)
        /\ \A i \in 1..Len(g) : g[i] = IF i <= 1 THEN <<rest>>[i] ELSE Tail(flight)[i - 1]
    BY <1>2, <2>1, <2>3, ConcatProperties
  <2>5. g[1] = rest /\ \A i \in 2..Len(g) : g[i] = flight[i]
    <3>1. g[1] = rest
      BY <1>2, <2>3, <2>4
    <3>2. ASSUME NEW i \in 2..Len(g) PROVE g[i] = flight[i]
      <4>1. g[i] = Tail(flight)[i - 1] /\ i - 1 \in 1..(Len(flight) - 1)
        BY <1>2, <2>4
      <4>2. Tail(flight)[i - 1] = flight[i - 1 + 1]
        BY <1>2, <4>1
      <4>3. i - 1 + 1 = i
        BY <1>2, <2>4
      <4>4. QED
        BY <4>1, <4>2, <4>3
    <3>3. QED
      BY <3>1, <3>2
  <2>6. DOMAIN rest = DOMAIN flight[1] \ {u} /\ \A v \in DOMAIN rest : rest[v] = flight[1][v]
    BY <1>2 DEF rest
  <2>7. DOMAIN flight[1] # {u}
    BY <1>4, <2>6
  <2>8. DOMAIN g = 1..Len(g) /\ Len(g) \in Nat
    BY <2>4, LenProperties
  <2>9. QED
    BY <1>2, <2>4, <2>5, <2>6, <2>7, <2>8
<1>5. QED
  BY <1>3, <1>4

LEMMA RowDoneIs ==
  ASSUME TypeInv, Processing, NEW u \in DOMAIN Head(flight), flight' = FlightWithout(u)
  PROVE  flight' \in Seq(Forwards) /\ FlightFrom(u)
<1>1. flight # <<>>
  BY DEF Processing
<1>2. /\ Head(flight) = flight[1] /\ Len(flight) \in Nat \ {0} /\ DOMAIN flight = 1..Len(flight)
      /\ flight' \in Seq(Forwards) /\ DOMAIN flight' = 1..Len(flight') /\ Len(flight') \in Nat
      /\ \/ /\ DOMAIN flight[1] = {u} /\ Len(flight') = Len(flight) - 1
            /\ \A i \in 1..Len(flight') : flight'[i] = flight[i + 1]
         \/ /\ DOMAIN flight[1] # {u} /\ Len(flight') = Len(flight) /\ DOMAIN flight'[1] = DOMAIN flight[1] \ {u}
            /\ \A v \in DOMAIN flight'[1] : flight'[1][v] = flight[1][v]
            /\ \A i \in 2..Len(flight') : flight'[i] = flight[i]
  BY <1>1, FlightWithoutIs
<1>3. ASSUME NEW i \in DOMAIN flight', NEW v \in DOMAIN flight'[i]
      PROVE  \E j \in DOMAIN flight : /\ v \in DOMAIN flight[j] /\ flight[j][v] = flight'[i][v]
                                      /\ v = u => j > 1
  <2>1. CASE /\ Len(flight') = Len(flight) - 1
             /\ \A k \in 1..Len(flight') : flight'[k] = flight[k + 1]
    <3>1. flight'[i] = flight[i + 1] /\ i + 1 \in DOMAIN flight /\ i + 1 > 1
      <4>1. i \in 1..Len(flight')
        BY <1>2
      <4>2. Len(flight) \in Nat /\ DOMAIN flight = 1..Len(flight) /\ Len(flight') \in Nat
        BY <1>2
      <4>3. QED
        BY <2>1, <4>1, <4>2
    <3>2. QED
      BY <3>1
  <2>2. CASE /\ Len(flight') = Len(flight) /\ DOMAIN flight'[1] = DOMAIN flight[1] \ {u}
             /\ \A w \in DOMAIN flight'[1] : flight'[1][w] = flight[1][w]
             /\ \A k \in 2..Len(flight') : flight'[k] = flight[k]
    <3>1. CASE i = 1
      <4>1. v \in DOMAIN flight[1] /\ v # u /\ flight'[1][v] = flight[1][v] /\ 1 \in DOMAIN flight
        BY <1>2, <2>2, <3>1
      <4>2. QED
        BY <3>1, <4>1
    <3>2. CASE i # 1
      <4>1. flight'[i] = flight[i] /\ i \in DOMAIN flight /\ i > 1
        <5>1. i \in 1..Len(flight')
          BY <1>2
        <5>2. Len(flight) \in Nat /\ DOMAIN flight = 1..Len(flight)
          BY <1>2
        <5>3. QED
          BY <2>2, <3>2, <5>1, <5>2
      <4>2. QED
        BY <4>1
    <3>3. QED
      BY <3>1, <3>2
  <2>3. QED
    BY <1>2, <2>1, <2>2
<1>4. QED
  BY <1>2, <1>3 DEF FlightFrom

-------------------------------------------------------------------------------
(* Accounting for the pages.                                                  *)

OwnersFacts ==
  /\ Owned = PairsOf(Own) /\ OwnedSwa = PairsOf(ownSwa)
  /\ DOMAIN Own = Requests /\ DOMAIN ownSwa = Requests /\ IsFiniteSet(Requests)
  /\ IsFiniteSet(1..NumPages)
  /\ \A u \in Requests : /\ Own[u] = OwnPages(u) /\ Own[u] \subseteq 1..NumPages
                         /\ ownSwa[u] \subseteq OwnPages(u)
                         /\ ownSwa[u] \subseteq 1..NumPages

LEMMA OwnersState == TypeInv /\ RequestInv => OwnersFacts
BY OwnersAre DEF OwnersFacts

LEMMA OwnersNext == TypeInv' /\ RequestInv' => OwnersFacts'
<1>1. (TypeInv /\ RequestInv => OwnersFacts)'
  BY OwnersState, PTL
<1>2. QED
  BY <1>1

\* The three equations, with the numbers named.
LEMMA AccountIs ==
  PagesAreAccounted <=>
    /\ NumPages = free.full + FullHeld(tree) + Cardinality(Owned)
    /\ NumPages = free.comp + Held(tree) + Cardinality(Owned)
    /\ NumSwaPages = free.swa + SwaHeld(tree) + Cardinality(OwnedSwa)
BY DEF PagesAreAccounted, FullHeld, Held, SwaHeld

LEMMA AccountNext ==
  PagesAreAccounted' <=>
    /\ NumPages = free'.full + FullHeld(tree') + Cardinality(Owned')
    /\ NumPages = free'.comp + Held(tree') + Cardinality(Owned')
    /\ NumSwaPages = free'.swa + SwaHeld(tree') + Cardinality(OwnedSwa')
BY DEF PagesAreAccounted, FullHeld, Held, SwaHeld

LEMMA PlusIs ==
  ASSUME NEW p \in Pools, NEW q \in Pools
  PROVE  /\ Plus(p, q).full = p.full + q.full /\ Plus(p, q).comp = p.comp + q.comp
         /\ Plus(p, q).swa = p.swa + q.swa /\ Plus(p, q) \in Pools
BY DEF Plus, Pools

LEMMA PoolsAre ==
  ASSUME NEW p \in Pools
  PROVE  p.full \in Nat /\ p.comp \in Nat /\ p.swa \in Nat
         /\ p = [full |-> p.full, comp |-> p.comp, swa |-> p.swa]
BY DEF Pools

\* A pool that balances before and after.
LEMMA Balance ==
  ASSUME NEW all, NEW x \in Nat, NEW t \in Nat, NEW o \in Nat, NEW a \in Nat,
         NEW y \in Nat, NEW s \in Nat, NEW q \in Nat, NEW b \in Nat,
         all = x + t + o, q + a = o + b, s + y + b = t + x + a
  PROVE  all = y + s + q
OBVIOUS

\* One request's pages and the tree change, and nothing is lost.
LEMMA AccountOne ==
  ASSUME TypeInv, RequestInv, PagesAreAccounted, TypeInv', RequestInv',
         Shape(Contents, tree), Shape(Contents, tree'), NEW u \in Requests, Others(u),
         FullHeld(tree') + free'.full + Cardinality(OwnPages(u)') = FullHeld(tree) + free.full + Cardinality(OwnPages(u)),
         Held(tree') + free'.comp + Cardinality(OwnPages(u)') = Held(tree) + free.comp + Cardinality(OwnPages(u)),
         SwaHeld(tree') + free'.swa + Cardinality(ownSwa'[u]) = SwaHeld(tree) + free.swa + Cardinality(ownSwa[u])
  PROVE  PagesAreAccounted'
<1> DEFINE S == 1..NumPages
           f == Own
           g == Own'
<1>1. OwnersFacts /\ OwnersFacts'
  BY OwnersState, OwnersNext
<1>2. /\ Owned = PairsOf(f) /\ OwnedSwa = PairsOf(ownSwa)
      /\ DOMAIN f = Requests /\ DOMAIN ownSwa = Requests /\ IsFiniteSet(Requests)
      /\ IsFiniteSet(S)
      /\ \A v \in Requests : f[v] = OwnPages(v) /\ f[v] \subseteq S /\ ownSwa[v] \subseteq S
  BY <1>1 DEF OwnersFacts
<1>3. /\ Owned' = PairsOf(g) /\ OwnedSwa' = PairsOf(ownSwa')
      /\ DOMAIN g = Requests /\ DOMAIN ownSwa' = Requests
      /\ \A v \in Requests : g[v] = OwnPages(v)' /\ g[v] \subseteq S /\ ownSwa'[v] \subseteq S
  BY <1>1 DEF OwnersFacts
<1>4. \A v \in Requests : v # u => OwnPages(v)' = OwnPages(v) /\ ownSwa'[v] = ownSwa[v]
  BY AlikeIs DEF Others, Alike
<1>5. \A v \in Requests : v # u => g[v] = f[v]
  BY <1>2, <1>3, <1>4
<1> HIDE DEF f, g, S
<1>6. /\ Cardinality(PairsOf(g)) + Cardinality(f[u]) = Cardinality(PairsOf(f)) + Cardinality(g[u])
      /\ Cardinality(PairsOf(g)) \in Nat /\ Cardinality(PairsOf(f)) \in Nat
      /\ Cardinality(f[u]) \in Nat /\ Cardinality(g[u]) \in Nat
  BY <1>2, <1>3, <1>5, PairsChange
<1>7. /\ Cardinality(PairsOf(ownSwa')) + Cardinality(ownSwa[u]) = Cardinality(PairsOf(ownSwa)) + Cardinality(ownSwa'[u])
      /\ Cardinality(PairsOf(ownSwa')) \in Nat /\ Cardinality(PairsOf(ownSwa)) \in Nat
      /\ Cardinality(ownSwa[u]) \in Nat /\ Cardinality(ownSwa'[u]) \in Nat
  BY <1>2, <1>3, <1>4, PairsChange
<1>8. /\ free.full \in Nat /\ free.comp \in Nat /\ free.swa \in Nat
      /\ free'.full \in Nat /\ free'.comp \in Nat /\ free'.swa \in Nat
  BY PoolsAre DEF TypeInv
<1>9. /\ Held(tree) \in Nat /\ FullHeld(tree) \in Nat /\ SwaHeld(tree) \in Nat
      /\ Held(tree') \in Nat /\ FullHeld(tree') \in Nat /\ SwaHeld(tree') \in Nat
  BY HeldAreNumbers
<1>10. f[u] = OwnPages(u) /\ g[u] = OwnPages(u)'
  BY <1>2, <1>3
<1>11. /\ NumPages = free.full + FullHeld(tree) + Cardinality(PairsOf(f))
       /\ NumPages = free.comp + Held(tree) + Cardinality(PairsOf(f))
       /\ NumSwaPages = free.swa + SwaHeld(tree) + Cardinality(PairsOf(ownSwa))
  BY <1>2, AccountIs
<1>12. NumPages = free'.full + FullHeld(tree') + Cardinality(PairsOf(g))
  <2> DEFINE x == free.full
             y == free'.full
             t == FullHeld(tree)
             s == FullHeld(tree')
             o == Cardinality(PairsOf(f))
             q == Cardinality(PairsOf(g))
             a == Cardinality(f[u])
             b == Cardinality(g[u])
  <2>1. /\ x \in Nat /\ y \in Nat /\ t \in Nat /\ s \in Nat
        /\ o \in Nat /\ q \in Nat /\ a \in Nat /\ b \in Nat
    BY <1>6, <1>8, <1>9
  <2>2. NumPages = x + t + o /\ q + a = o + b /\ s + y + b = t + x + a
    BY <1>6, <1>10, <1>11
  <2> HIDE DEF x, y, t, s, o, q, a, b
  <2>3. NumPages = y + s + q
    BY <2>1, <2>2, Balance
  <2>4. QED
    BY <2>3 DEF y, s, q
<1>13. NumPages = free'.comp + Held(tree') + Cardinality(PairsOf(g))
  <2> DEFINE x == free.comp
             y == free'.comp
             t == Held(tree)
             s == Held(tree')
             o == Cardinality(PairsOf(f))
             q == Cardinality(PairsOf(g))
             a == Cardinality(f[u])
             b == Cardinality(g[u])
  <2>1. /\ x \in Nat /\ y \in Nat /\ t \in Nat /\ s \in Nat
        /\ o \in Nat /\ q \in Nat /\ a \in Nat /\ b \in Nat
    BY <1>6, <1>8, <1>9
  <2>2. NumPages = x + t + o /\ q + a = o + b /\ s + y + b = t + x + a
    BY <1>6, <1>10, <1>11
  <2> HIDE DEF x, y, t, s, o, q, a, b
  <2>3. NumPages = y + s + q
    BY <2>1, <2>2, Balance
  <2>4. QED
    BY <2>3 DEF y, s, q
<1>14. NumSwaPages = free'.swa + SwaHeld(tree') + Cardinality(PairsOf(ownSwa'))
  <2> DEFINE x == free.swa
             y == free'.swa
             t == SwaHeld(tree)
             s == SwaHeld(tree')
             o == Cardinality(PairsOf(ownSwa))
             q == Cardinality(PairsOf(ownSwa'))
             a == Cardinality(ownSwa[u])
             b == Cardinality(ownSwa'[u])
  <2>1. /\ x \in Nat /\ y \in Nat /\ t \in Nat /\ s \in Nat
        /\ o \in Nat /\ q \in Nat /\ a \in Nat /\ b \in Nat
    BY <1>7, <1>8, <1>9
  <2>2. NumSwaPages = x + t + o /\ q + a = o + b /\ s + y + b = t + x + a
    BY <1>7, <1>10, <1>11
  <2> HIDE DEF x, y, t, s, o, q, a, b
  <2>3. NumSwaPages = y + s + q
    BY <2>1, <2>2, Balance
  <2>4. QED
    BY <2>3 DEF y, s, q
<1>15. QED
  BY <1>3, <1>12, <1>13, <1>14, AccountNext

\* The requests keep what they have.
LEMMA AccountTree ==
  ASSUME TypeInv, RequestInv, PagesAreAccounted, TypeInv', RequestInv',
         Shape(Contents, tree), Shape(Contents, tree'), \A v \in Requests : Alike(v),
         FullHeld(tree') + free'.full = FullHeld(tree) + free.full,
         Held(tree') + free'.comp = Held(tree) + free.comp,
         SwaHeld(tree') + free'.swa = SwaHeld(tree) + free.swa
  PROVE  PagesAreAccounted'
<1>1. OwnersFacts /\ OwnersFacts'
  BY OwnersState, OwnersNext
<1>2. Owned' = Owned /\ OwnedSwa' = OwnedSwa
  <2>1. \A v \in Requests : OwnPages(v)' = OwnPages(v) /\ ownSwa'[v] = ownSwa[v]
    BY AlikeIs DEF Alike
  <2>2. QED
    BY <2>1 DEF Owned, OwnedSwa
<1>3. Cardinality(Owned) \in Nat /\ Cardinality(OwnedSwa) \in Nat
  <2>1. /\ Cardinality(PairsOf(Own)) \in Nat /\ Cardinality(PairsOf(ownSwa)) \in Nat
    <3>1. /\ IsFiniteSet(Requests) /\ DOMAIN Own = Requests /\ DOMAIN ownSwa = Requests
          /\ IsFiniteSet(1..NumPages)
          /\ \A v \in Requests : Own[v] \subseteq 1..NumPages /\ ownSwa[v] \subseteq 1..NumPages
      BY <1>1 DEF OwnersFacts
    <3>2. Cardinality(PairsOf(Own)) \in Nat
      BY <3>1, PairsAreFinite
    <3>3. Cardinality(PairsOf(ownSwa)) \in Nat
      BY <3>1, PairsAreFinite
    <3>4. QED
      BY <3>2, <3>3
  <2>2. QED
    BY <1>1, <2>1 DEF OwnersFacts
<1>4. /\ free.full \in Nat /\ free.comp \in Nat /\ free.swa \in Nat
      /\ free'.full \in Nat /\ free'.comp \in Nat /\ free'.swa \in Nat
  BY PoolsAre DEF TypeInv
<1>5. /\ Held(tree) \in Nat /\ FullHeld(tree) \in Nat /\ SwaHeld(tree) \in Nat
      /\ Held(tree') \in Nat /\ FullHeld(tree') \in Nat /\ SwaHeld(tree') \in Nat
  BY HeldAreNumbers
<1>6. /\ NumPages = free.full + FullHeld(tree) + Cardinality(Owned)
      /\ NumPages = free.comp + Held(tree) + Cardinality(Owned)
      /\ NumSwaPages = free.swa + SwaHeld(tree) + Cardinality(OwnedSwa)
  BY AccountIs
<1>7. NumPages = free'.full + FullHeld(tree') + Cardinality(Owned)
  BY <1>3, <1>4, <1>5, <1>6
<1>8. NumPages = free'.comp + Held(tree') + Cardinality(Owned)
  BY <1>3, <1>4, <1>5, <1>6
<1>9. NumSwaPages = free'.swa + SwaHeld(tree') + Cardinality(OwnedSwa)
  BY <1>3, <1>4, <1>5, <1>6
<1>10. QED
  BY <1>2, <1>7, <1>8, <1>9, AccountNext

\* A tree with the same marks and pools that do not move.
LEMMA AccountSame ==
  ASSUME TypeInv, RequestInv, PagesAreAccounted, TypeInv', RequestInv',
         Shape(Contents, tree), Shape(Contents, tree'), NEW u \in Requests, Others(u),
         SameMarks(tree', tree), free' = free, OwnPages(u)' = OwnPages(u), ownSwa'[u] = ownSwa[u]
  PROVE  PagesAreAccounted'
<1>1. Held(tree') = Held(tree) /\ FullHeld(tree') = FullHeld(tree) /\ SwaHeld(tree') = SwaHeld(tree)
  BY HeldAlike
<1>2. QED
  BY <1>1, AccountOne

-------------------------------------------------------------------------------
(* The steps of the scheduler and of the allocation.                          *)

LEMMA HoldersKept ==
  ASSUME NEW u \in Requests, Others(u), u \in Resident' <=> u \in Resident,
         HandlePath(u)' = HandlePath(u)
  PROVE  Holders' = Holders
<1>1. \A v \in Requests : (v \in Resident' <=> v \in Resident) /\ HandlePath(v)' = HandlePath(v)
  BY AlikeIs DEF Others
<1>2. Resident' = Resident
  BY <1>1 DEF Resident
<1>3. \A v \in Resident : HandlePath(v)' = HandlePath(v)
  BY <1>1 DEF Resident
<1>4. QED
  BY <1>2, <1>3 DEF Holders

LEMMA HoldersAlike ==
  ASSUME \A v \in Requests : Alike(v)
  PROVE  Holders' = Holders
<1>1. \A v \in Requests : (v \in Resident' <=> v \in Resident) /\ HandlePath(v)' = HandlePath(v)
  BY AlikeIs
<1>2. Resident' = Resident
  BY <1>1 DEF Resident
<1>3. \A v \in Resident : HandlePath(v)' = HandlePath(v)
  BY <1>1 DEF Resident
<1>4. QED
  BY <1>2, <1>3 DEF Holders

\* A step that changes no request and no forward in flight.
LEMMA QuietStep ==
  ASSUME IInv, UNCHANGED <<reqVars, flight>>, DOMAIN batch \subseteq DOMAIN batch',
         TypeInv', BatchInv', SoundTree(Contents, tree', Holders),
         FullHeld(tree') + free'.full = FullHeld(tree) + free.full,
         Held(tree') + free'.comp = Held(tree) + free.comp,
         SwaHeld(tree') + free'.swa = SwaHeld(tree) + free.swa
  PROVE  IInv'
<1>1. TypeInv /\ TreeInv /\ RequestInv /\ FlightInv /\ PagesAreAccounted
  BY DEF IInv
<1>2. \A v \in Requests : Alike(v)
  BY DEF Alike, reqVars
<1>3. RequestInv'
  BY <1>1, <1>2, AllKept
<1>4. TreeInv'
  BY <1>2, HoldersAlike DEF TreeInv
<1>5. FlightInv'
  <2>1. ASSUME NEW i \in DOMAIN flight, NEW v \in DOMAIN flight[i], NEW r, r = flight[i][v]
        PROVE  FlightRow(r, v)'
    <3>1. FlightRow(r, v)
      BY <1>1, <2>1 DEF FlightInv
    <3>2. v \in Requests
      BY <3>1 DEF FlightRow, Resident
    <3>3. QED
      BY <1>2, <3>1, <3>2, AlikeIs
  <2>2. \A i \in DOMAIN flight' : \A v \in DOMAIN flight'[i] : FlightRow(flight[i][v], v)'
    BY <2>1
  <2>3. QED
    BY <2>2 DEF FlightInv
<1>6. Shape(Contents, tree) /\ Shape(Contents, tree')
  BY <1>1 DEF TreeInv, SoundTree
<1>7. PagesAreAccounted'
  BY <1>1, <1>2, <1>3, <1>6, AccountTree
<1>8. QED
  BY <1>3, <1>4, <1>5, <1>7 DEF IInv

LEMMA PrepareChunkKeeps ==
  ASSUME IInv, NEW u \in Requests, PrepareChunk(u)
  PROVE  IInv'
<1>1. PICK n \in ChunkEnds(u, cached[u]) :
        batch' = [v \in DOMAIN batch \cup {u} |-> IF v = u THEN n ELSE batch[v]]
  BY DEF PrepareChunk
<1>2. UNCHANGED <<pc, tree, free, reqVars, flight>> /\ stage[u] = "prefill" /\ pc = "schedule"
  BY DEF PrepareChunk
<1>3. TypeInv /\ BatchInv
  BY DEF IInv
<1>4. kind[u].input \in Nat /\ kind[u].output \in Nat \ {0} /\ cached[u] \in Nat
  BY <1>3, KindIs, TypesAre
<1>5. n \in Nat /\ cached[u] < n /\ n <= kind[u].input /\ n < kind[u].input + kind[u].output
  BY <1>1, <1>4 DEF ChunkEnds
<1>6. DOMAIN batch \subseteq Requests /\ \A v \in DOMAIN batch : batch[v] \in Nat
  BY <1>3, BatchIs
<1>7. batch' \in Batches
  <2>1. batch' \in [DOMAIN batch \cup {u} -> Nat]
    BY <1>1, <1>5, <1>6
  <2>2. QED
    BY <1>6, <2>1 DEF Batches
<1>8. TypeInv'
  BY <1>2, <1>3, <1>7 DEF TypeInv, reqVars
<1>9. BatchInv'
  <2>1. ASSUME NEW v \in DOMAIN batch' PROVE BatchRow(v)'
    <3>1. CASE v = u
      BY <1>1, <1>2, <1>5, <3>1 DEF BatchRow, reqVars
    <3>2. CASE v # u
      <4>1. v \in DOMAIN batch /\ batch'[v] = batch[v]
        BY <1>1, <3>2
      <4>2. BatchRow(v)
        BY <1>3, <4>1 DEF BatchInv
      <4>3. QED
        BY <1>2, <4>1, <4>2 DEF BatchRow, reqVars
    <3>3. QED
      BY <3>1, <3>2
  <2>2. QED
    BY <1>2, <2>1 DEF BatchInv
<1>10. SoundTree(Contents, tree', Holders)
  BY <1>2 DEF IInv, TreeInv
<1>11. DOMAIN batch \subseteq DOMAIN batch'
  BY <1>1
<1>12. QED
  BY <1>2, <1>8, <1>9, <1>10, <1>11, QuietStep

LEMMA BeginPrefillKeeps ==
  ASSUME IInv, BeginPrefill
  PROVE  IInv'
<1>1. UNCHANGED <<tree, free, reqVars, batch, flight>> /\ pc' = "allocate"
  BY DEF BeginPrefill
<1>2. TypeInv /\ BatchInv /\ SoundTree(Contents, tree, Holders)
  BY DEF IInv, TreeInv
<1>3. TypeInv'
  BY <1>1, <1>2 DEF TypeInv, reqVars
<1>4. BatchInv'
  BY <1>1, <1>2 DEF BatchInv, BatchRow, reqVars
<1>5. QED
  BY <1>1, <1>2, <1>3, <1>4, QuietStep

LEMMA BeginDecodeKeeps ==
  ASSUME IInv, BeginDecode
  PROVE  IInv'
<1>1. /\ UNCHANGED <<tree, free, reqVars, flight>> /\ pc' = "allocate" /\ DOMAIN batch = {}
      /\ batch' = [u \in Running |-> cached[u] + 1]
  BY DEF BeginDecode
<1>2. TypeInv /\ BatchInv /\ SoundTree(Contents, tree, Holders)
  BY DEF IInv, TreeInv
<1>3. ASSUME NEW u \in Running
      PROVE  /\ u \in Requests /\ stage[u] = "decode" /\ cached[u] \in Nat
             /\ cached[u] + 1 \in Nat /\ cached[u] + 1 < kind[u].input + kind[u].output
  <2>1. u \in Requests /\ stage[u] = "decode" /\ kind[u].input + kind[u].output - (cached[u] + 1) > 0
    BY DEF Running, RemainLen
  <2>2. cached[u] \in Nat /\ kind[u].input \in Nat /\ kind[u].output \in Nat
    BY <1>2, <2>1, TypesAre, KindIs
  <2>3. QED
    BY <2>1, <2>2
<1>4. batch' \in Batches
  <2>1. batch' \in [Running -> Nat] /\ Running \subseteq Requests
    BY <1>1, <1>3
  <2>2. QED
    BY <2>1 DEF Batches
<1>5. TypeInv'
  BY <1>1, <1>2, <1>4 DEF TypeInv, reqVars
<1>6. BatchInv'
  <2>1. ASSUME NEW v \in DOMAIN batch' PROVE BatchRow(v)'
    <3>1. v \in Running /\ batch'[v] = cached[v] + 1
      BY <1>1, <2>1
    <3>2. stage[v] = "decode" /\ cached[v] < batch'[v] /\ batch'[v] < kind[v].input + kind[v].output
      BY <1>3, <3>1
    <3>3. QED
      BY <1>1, <3>2 DEF BatchRow, reqVars
  <2>2. QED
    BY <1>1, <2>1 DEF BatchInv
<1>7. QED
  BY <1>1, <1>2, <1>5, <1>6, QuietStep

LEMMA AllocationFailsKeeps ==
  ASSUME IInv, AllocationFails
  PROVE  IInv'
<1>1. UNCHANGED <<tree, free, reqVars, batch, flight>> /\ pc' = "raised"
  BY DEF AllocationFails
<1>2. TypeInv /\ BatchInv /\ SoundTree(Contents, tree, Holders)
  BY DEF IInv, TreeInv
<1>3. TypeInv'
  BY <1>1, <1>2 DEF TypeInv, reqVars
<1>4. BatchInv'
  BY <1>1, <1>2 DEF BatchInv, BatchRow, reqVars
<1>5. QED
  BY <1>1, <1>2, <1>3, <1>4, QuietStep

LEMMA StutterKeeps ==
  ASSUME IInv, UNCHANGED vars
  PROVE  IInv'
<1>1. UNCHANGED <<tree, free, reqVars, batch, flight>> /\ pc' = pc
  BY DEF vars
<1>2. TypeInv /\ BatchInv /\ SoundTree(Contents, tree, Holders)
  BY DEF IInv, TreeInv
<1>3. TypeInv'
  BY <1>1, <1>2 DEF TypeInv, reqVars
<1>4. BatchInv'
  BY <1>1, <1>2 DEF BatchInv, BatchRow, reqVars
<1>5. QED
  BY <1>1, <1>2, <1>3, <1>4, QuietStep

LEMMA ReleaseEvictableSwaKeeps ==
  ASSUME IInv, ReleaseEvictableSwa
  PROVE  IInv'
<1>1. PICK L \in SwaReleaseSets(tree, Deficit.swa) :
        /\ tree' = ReleaseLeafSwa(tree, L)
        /\ free' = [free EXCEPT !.swa = @ + Cardinality(SwaPagesIn(tree, PagesOf(tree, L)))]
  BY DEF ReleaseEvictableSwa
<1>2. UNCHANGED <<pc, reqVars, batch, flight>>
  BY DEF ReleaseEvictableSwa
<1>3. TypeInv /\ BatchInv /\ SoundTree(Contents, tree, Holders)
  BY DEF IInv, TreeInv
<1>4. L \subseteq tree.ends
  BY <1>1 DEF SwaReleaseSets, Leaves, Unlocked
<1>5. /\ SoundTree(Contents, tree', Holders)
      /\ DOMAIN tree'.page = DOMAIN tree.page
      /\ \A p \in DOMAIN tree.page :
           /\ tree'.page[p].full = tree.page[p].full
           /\ tree'.page[p].swa = (tree.page[p].swa /\ p \notin PagesOf(tree, L))
  BY <1>1, <1>3, <1>4, ReleaseLeafIsSound
<1>6. Shape(Contents, tree)
  BY <1>3 DEF SoundTree
<1>7. PagesOf(tree, L) \subseteq DOMAIN tree.page
  BY <1>4, <1>6, PagesOfNodes
<1>8. Gives(tree', tree, PagesOf(tree, L), {})
  <2>1. \A p \in DOMAIN tree.page : tree'.page[p].full = (tree.page[p].full /\ p \notin {})
    <3>1. \A p \in DOMAIN tree.page : tree.page[p].full \in BOOLEAN
      BY <1>6, PageTypes
    <3>2. QED
      BY <1>5, <3>1, Zenon
  <2>2. QED
    BY <1>5, <2>1 DEF Gives
<1>9. /\ Held(tree') = Held(tree)
      /\ FullHeld(tree') = FullHeld(tree) - Cardinality(FullPagesIn(tree, {}))
      /\ SwaHeld(tree') = SwaHeld(tree) - Cardinality(SwaPagesIn(tree, PagesOf(tree, L)))
      /\ Cardinality(SwaPagesIn(tree, PagesOf(tree, L))) \in Nat
  BY <1>6, <1>7, <1>8, GivesCounts
<1>10. Cardinality(FullPagesIn(tree, {})) = 0
  BY FS_EmptySet DEF FullPagesIn
<1>11. Held(tree) \in Nat /\ FullHeld(tree) \in Nat /\ SwaHeld(tree) \in Nat
  BY <1>6, HeldAreNumbers
<1>12. free \in Pools
  BY <1>3 DEF TypeInv
<1>13. /\ free'.full = free.full /\ free'.comp = free.comp
       /\ free'.swa = free.swa + Cardinality(SwaPagesIn(tree, PagesOf(tree, L)))
       /\ free' \in Pools
  BY <1>1, <1>9, <1>12 DEF Pools
<1>14. /\ free.full \in Nat /\ free.comp \in Nat /\ free.swa \in Nat
  BY <1>12, PoolsAre
<1>15. /\ FullHeld(tree') + free'.full = FullHeld(tree) + free.full
       /\ Held(tree') + free'.comp = Held(tree) + free.comp
       /\ SwaHeld(tree') + free'.swa = SwaHeld(tree) + free.swa
  <2> DEFINE c == Cardinality(SwaPagesIn(tree, PagesOf(tree, L)))
             s == SwaHeld(tree)
             x == free.swa
  <2>1. c \in Nat /\ s \in Nat /\ x \in Nat /\ SwaHeld(tree') = s - c /\ free'.swa = x + c
    BY <1>9, <1>11, <1>13, <1>14
  <2>2. FullHeld(tree') = FullHeld(tree)
    BY <1>9, <1>10, <1>11
  <2> HIDE DEF c, s, x
  <2>3. SwaHeld(tree') + free'.swa = s + x
    BY <2>1
  <2>4. QED
    BY <1>9, <1>13, <2>2, <2>3 DEF s, x
<1>16. TypeInv'
  BY <1>2, <1>3, <1>13 DEF TypeInv, reqVars
<1>17. BatchInv'
  BY <1>2, <1>3 DEF BatchInv, BatchRow, reqVars
<1>18. QED
  BY <1>2, <1>5, <1>15, <1>16, <1>17, QuietStep

LEMMA EvictNodesKeeps ==
  ASSUME IInv, EvictNodes
  PROVE  IInv'
<1>1. PICK E \in EvictableSets(tree, RoundSize) :
        /\ tree' = Evict(tree, E)
        /\ free' = Plus(free, [full |-> Cardinality(FullPagesIn(tree, PagesOf(tree, E))),
                               comp |-> Cardinality(PagesOf(tree, E)),
                               swa |-> Cardinality(SwaPagesIn(tree, PagesOf(tree, E)))])
  BY DEF EvictNodes
<1>2. UNCHANGED <<pc, reqVars, batch, flight>>
  BY DEF EvictNodes
<1>3. TypeInv /\ BatchInv /\ SoundTree(Contents, tree, Holders)
  BY DEF IInv, TreeInv
<1>4. E \in SUBSET Unlocked(tree) /\ ChildrenFirst(tree, E)
  BY <1>1 DEF EvictableSets
<1> DEFINE gone == PagesOf(tree, E)
           fs == FullPagesIn(tree, gone)
           ss == SwaPagesIn(tree, gone)
<1>5. /\ SoundTree(Contents, tree', Holders)
      /\ DOMAIN tree'.page = DOMAIN tree.page \ gone
      /\ \A p \in DOMAIN tree.page \ gone : tree'.page[p] = tree.page[p]
      /\ gone \subseteq EvictablePages(tree) /\ IsFiniteSet(gone)
  BY <1>1, <1>3, <1>4, EvictIsSound
<1>6. Shape(Contents, tree) /\ gone \subseteq DOMAIN tree.page /\ IsFiniteSet(DOMAIN tree.page)
  BY <1>3, <1>5 DEF SoundTree, Shape, EvictablePages
<1> HIDE DEF gone
<1>7. /\ FullPagesIn(tree', DOMAIN tree'.page) = FullPagesIn(tree, DOMAIN tree.page) \ fs
      /\ fs \subseteq FullPagesIn(tree, DOMAIN tree.page)
  BY <1>5, <1>6 DEF FullPagesIn
<1>8. /\ SwaPagesIn(tree', DOMAIN tree'.page) = SwaPagesIn(tree, DOMAIN tree.page) \ ss
      /\ ss \subseteq SwaPagesIn(tree, DOMAIN tree.page)
  BY <1>5, <1>6 DEF SwaPagesIn
<1>9. IsFiniteSet(FullPagesIn(tree, DOMAIN tree.page)) /\ IsFiniteSet(SwaPagesIn(tree, DOMAIN tree.page))
  BY <1>6, HeldAreNumbers
<1>10. /\ FullHeld(tree') = FullHeld(tree) - Cardinality(fs) /\ Cardinality(fs) \in Nat
  BY <1>7, <1>9, SubsetDifference DEF FullHeld
<1>11. /\ SwaHeld(tree') = SwaHeld(tree) - Cardinality(ss) /\ Cardinality(ss) \in Nat
  BY <1>8, <1>9, SubsetDifference DEF SwaHeld
<1>12. /\ Held(tree') = Held(tree) - Cardinality(gone) /\ Cardinality(gone) \in Nat
  BY <1>5, <1>6, SubsetDifference DEF Held
<1>13. Held(tree) \in Nat /\ FullHeld(tree) \in Nat /\ SwaHeld(tree) \in Nat
  BY <1>6, HeldAreNumbers
<1>14. free \in Pools /\ free.full \in Nat /\ free.comp \in Nat /\ free.swa \in Nat
  BY <1>3, PoolsAre DEF TypeInv
<1>15. /\ free' = [full |-> free.full + Cardinality(fs), comp |-> free.comp + Cardinality(gone),
                   swa |-> free.swa + Cardinality(ss)]
  BY <1>1 DEF Plus, gone
<1> DEFINE cf == Cardinality(fs)
           cs == Cardinality(ss)
           cg == Cardinality(gone)
           f == FullHeld(tree)
           s == SwaHeld(tree)
           h == Held(tree)
           x == free.full
           y == free.comp
           z == free.swa
<1>16. /\ cf \in Nat /\ cs \in Nat /\ cg \in Nat /\ f \in Nat /\ s \in Nat /\ h \in Nat
       /\ x \in Nat /\ y \in Nat /\ z \in Nat
       /\ FullHeld(tree') = f - cf /\ SwaHeld(tree') = s - cs /\ Held(tree') = h - cg
       /\ free' = [full |-> x + cf, comp |-> y + cg, swa |-> z + cs]
  BY <1>10, <1>11, <1>12, <1>13, <1>14, <1>15
<1> HIDE DEF cf, cs, cg, f, s, h, x, y, z
<1>17. /\ free'.full = x + cf /\ free'.comp = y + cg /\ free'.swa = z + cs /\ free' \in Pools
  BY <1>16 DEF Pools
<1>18. /\ FullHeld(tree') + free'.full = f + x
       /\ Held(tree') + free'.comp = h + y
       /\ SwaHeld(tree') + free'.swa = s + z
  BY <1>16, <1>17
<1>19. TypeInv'
  BY <1>2, <1>3, <1>17 DEF TypeInv, reqVars
<1>20. BatchInv'
  BY <1>2, <1>3 DEF BatchInv, BatchRow, reqVars
<1>21. QED
  <2>1. /\ FullHeld(tree') + free'.full = FullHeld(tree) + free.full
        /\ Held(tree') + free'.comp = Held(tree) + free.comp
        /\ SwaHeld(tree') + free'.swa = SwaHeld(tree) + free.swa
    BY <1>18 DEF f, s, h, x, y, z
  <2>2. QED
    BY <1>2, <1>5, <1>19, <1>20, <2>1, QuietStep

\* The row of a path whose pages are in the tree.
LEMMA MatchedRowIs ==
  ASSUME NEW t, NEW path \in Seq(Contents)
  PROVE  /\ MatchedRow(t, path) \in Seq(Sources) /\ Len(MatchedRow(t, path)) = Len(path)
         /\ \A i \in 1..Len(path) : MatchedRow(t, path)[i] # "own"
         /\ \A i \in 1..Len(path) :
              MatchedRow(t, path)[i] = "tree" <=> t.page[Prefix(path, i)].full
<1>1. Len(path) \in Nat
  BY LenProperties
<1>2. MatchedRow(t, path) \in [1..Len(path) -> Sources]
  BY DEF MatchedRow, Sources
<1>3. MatchedRow(t, path) \in Seq(Sources) /\ Len(MatchedRow(t, path)) = Len(path)
  <2>1. MatchedRow(t, path) \in Seq(Sources)
    BY <1>1, <1>2, SeqDef
  <2>2. DOMAIN MatchedRow(t, path) = 1..Len(path) /\ DOMAIN MatchedRow(t, path) = 1..Len(MatchedRow(t, path))
    BY <1>2, <2>1, LenProperties
  <2>3. Len(MatchedRow(t, path)) \in Nat
    BY <2>1, LenProperties
  <2>4. QED
    BY <1>1, <2>1, <2>2, <2>3
<1>4. QED
  BY <1>3 DEF MatchedRow

\* The path that an admission locks: the SWA page of its end is there.
LEMMA MatchedPathIs ==
  ASSUME TypeInv, SoundTree(Contents, tree, Holders), NEW u \in Requests,
         NEW m, m = (kind[u].input - 1) \div PageSize, NEW key, key = Path(u, m),
         NEW walked, walked = TreeWalk(tree, key),
         NEW have, have = MatchPrefix(tree, key), NEW path, path = Path(u, have)
  PROVE  /\ m \in Nat /\ m * PageSize <= kind[u].input - 1 /\ m <= Len(kind[u].text)
         /\ SoundTree(Contents, walked, Holders) /\ walked.page = tree.page
         /\ tree.ends \subseteq walked.ends
         /\ have \in 0..m /\ have \in Nat /\ have <= Len(kind[u].text)
         /\ path \in Seq(Contents) /\ Len(path) = have /\ Names(walked, path)
         /\ have > 0 => walked.page[path].swa
<1>2. TypeInv /\ SoundTree(Contents, tree, Holders)
  OBVIOUS
<1>3. /\ kind[u].input \in Nat \ {0} /\ kind[u].output \in Nat \ {0} /\ Len(kind[u].text) \in Nat
      /\ kind[u].input + kind[u].output <= PageSize * (Len(kind[u].text) + 1)
  BY <1>2, KindIs
<1>4. PageSize \in Nat \ {0}
  BY CacheAssumption
<1>5. m \in Nat /\ m * PageSize <= kind[u].input - 1 /\ m <= Len(kind[u].text)
  <2> DEFINE i == kind[u].input - 1
             a == Len(kind[u].text)
  <2>1. i \in Nat /\ a \in Nat
    BY <1>3
  <2>2. m \in Nat /\ m * PageSize <= i
    BY <1>4, <2>1, Floor
  <2>3. m * PageSize \in Nat /\ PageSize * (a + 1) = a * PageSize + PageSize /\ a * PageSize \in Nat
    BY <1>4, <2>1, <2>2, Products
  <2>4. i < PageSize * (a + 1)
    <3> DEFINE b == PageSize * (a + 1)
    <3>1. kind[u].input + kind[u].output <= b /\ b \in Nat
      <4>1. b \in Nat
        <5>1. a * PageSize + PageSize \in Nat
          BY <1>4, <2>3
        <5>2. QED
          BY <2>3, <5>1
      <4>2. QED
        BY <1>3, <4>1
    <3> HIDE DEF b
    <3>2. i < b
      BY <1>3, <3>1
    <3>3. QED
      BY <3>2 DEF b
  <2>5. m * PageSize < a * PageSize + PageSize
    <3> DEFINE b == a * PageSize
               c == m * PageSize
    <3>1. c \in Nat /\ b \in Nat /\ c <= i /\ i < b + PageSize
      BY <2>2, <2>3, <2>4
    <3> HIDE DEF b, c, i
    <3>2. c < b + PageSize
      BY <1>4, <2>1, <3>1
    <3>3. QED
      BY <3>2 DEF b, c
  <2> HIDE DEF a
  <2>6. m <= a
    BY <1>4, <2>1, <2>2, <2>5, Products
  <2>7. QED
    BY <2>2, <2>6 DEF a
<1>6. /\ key \in Seq(Contents) /\ Len(key) = m
      /\ \A i \in 0..m : Prefix(key, i) = Path(u, i)
  <2>1. m \in 0..Len(kind[u].text)
    BY <1>3, <1>5
  <2>2. QED
    BY <1>2, <2>1, PathIs
<1>7. /\ SoundTree(Contents, walked, Holders) /\ walked.page = tree.page
      /\ tree.ends \subseteq walked.ends
  BY <1>2, <1>6, WalkIsSound
<1>8. have \in 0..m /\ (have = 0 \/ (path \in walked.ends /\ walked.page[path].swa))
  <2> DEFINE k == MatchLen(tree, key)
             top == Prefix(key, k)
  <2>1. k \in 0..m /\ top \in Seq(Contents)
    BY <1>2, <1>6, MatchIs DEF SoundTree
  <2>2. Len(top) = k
    <3>1. k \in 0..Len(key)
      BY <1>6, <2>1
    <3> HIDE DEF k
    <3>2. QED
      BY <1>6, <3>1, PrefixType
  <2>3. have = SafeMatchBoundary(walked, top)
    BY DEF MatchPrefix
  <2> HIDE DEF k
  <2>4. have \in 0..k
        /\ (have = 0 \/ (Prefix(top, have) \in walked.ends /\ walked.page[Prefix(top, have)].swa))
    <3> HIDE DEF top
    <3>1. QED
      BY <2>1, <2>2, <2>3, BoundaryIs
  <2>5. have \in 0..m /\ m \in Nat
    BY <1>5, <2>1, <2>4
  <2>6. Prefix(top, have) = Prefix(key, have)
    <3>1. k \in 0..Len(key)
      BY <1>6, <2>1
    <3>2. QED
      BY <1>6, <2>4, <3>1, PrefixOfPrefix
  <2>7. Prefix(key, have) = path
    BY <1>6, <2>5
  <2>8. QED
    BY <2>4, <2>5, <2>6, <2>7
<1>9. path \in Seq(Contents) /\ Len(path) = have /\ (have = 0 => path = <<>>)
      /\ have \in Nat /\ have <= Len(kind[u].text)
  <2>1. have \in 0..Len(kind[u].text)
    BY <1>3, <1>5, <1>8
  <2>2. path \in Seq(Contents) /\ Len(path) = have /\ Path(u, 0) = <<>>
    BY <1>2, <2>1, PathIs
  <2>3. QED
    BY <1>3, <2>1, <2>2
<1>10. Names(walked, path)
  BY <1>8, <1>9 DEF Names
<1>11. QED
  BY <1>3, <1>5, <1>7, <1>8, <1>9, <1>10

LEMMA TryAllocateOneKeeps ==
  ASSUME IInv, NEW u \in Requests, TryAllocateOne(u)
  PROVE  IInv'
<1> DEFINE m == (kind[u].input - 1) \div PageSize
           key == Path(u, m)
           walked == TreeWalk(tree, key)
           have == MatchPrefix(tree, key)
           path == Path(u, have)
           locked == LockHandle(walked, path)
           hit == have * PageSize
<1>1. /\ pc = "schedule" /\ stage[u] = "waiting"
      /\ \/ \E n \in ChunkEnds(u, hit) :
              /\ tree' = locked
              /\ stage' = [stage EXCEPT ![u] = "prefill"]
              /\ cached' = [cached EXCEPT ![u] = hit]
              /\ handle' = [handle EXCEPT ![u] = have]
              /\ row' = [row EXCEPT ![u] = MatchedRow(locked, path)]
              /\ batch' = [v \in DOMAIN batch \cup {u} |-> IF v = u THEN n ELSE batch[v]]
         \/ /\ tree' = walked
            /\ UNCHANGED <<stage, cached, handle, row, batch>>
      /\ UNCHANGED <<pc, free, kind, host, evicted, ownSwa, flight>>
  BY DEF TryAllocateOne
<1>2. /\ TypeInv /\ BatchInv /\ TreeInv /\ RequestInv /\ FlightInv /\ PagesAreAccounted
      /\ SoundTree(Contents, tree, Holders)
  BY DEF IInv, TreeInv
<1>3. /\ kind[u].input \in Nat \ {0} /\ kind[u].output \in Nat \ {0} /\ Len(kind[u].text) \in Nat
      /\ kind[u].input + kind[u].output <= PageSize * (Len(kind[u].text) + 1)
  BY <1>2, KindIs
<1>4. PageSize \in Nat \ {0}
  BY CacheAssumption
<1>5. /\ m \in Nat /\ m * PageSize <= kind[u].input - 1 /\ m <= Len(kind[u].text)
      /\ SoundTree(Contents, walked, Holders) /\ walked.page = tree.page
      /\ tree.ends \subseteq walked.ends
      /\ have \in 0..m /\ have \in Nat /\ have <= Len(kind[u].text)
      /\ path \in Seq(Contents) /\ Len(path) = have /\ Names(walked, path)
  BY <1>2, MatchedPathIs
<1> HIDE DEF m, key
<1>7. /\ SoundTree(Contents, walked, Holders) /\ walked.page = tree.page
      /\ tree.ends \subseteq walked.ends
  BY <1>5
<1>8. have \in 0..m
  BY <1>5
<1>9. path \in Seq(Contents) /\ Len(path) = have /\ have \in Nat /\ have <= Len(kind[u].text)
  BY <1>5
<1>10. Names(walked, path)
  BY <1>5
<1>11. u \notin Resident /\ Empty(u)
  BY <1>1, <1>2 DEF Resident, RequestInv
<1>12. DOMAIN batch \subseteq Requests /\ \A v \in DOMAIN batch : batch[v] \in Nat
  BY <1>2, BatchIs
<1> HIDE DEF have, walked
<1>13. CASE tree' = walked /\ UNCHANGED <<stage, cached, handle, row, batch>>
  <2>1. UNCHANGED <<reqVars, flight, pc, free, batch>>
    BY <1>1, <1>13 DEF reqVars
  <2>2. SameMarks(tree', tree)
    BY <1>7, <1>13 DEF SameMarks
  <2>3. Held(tree') = Held(tree) /\ FullHeld(tree') = FullHeld(tree) /\ SwaHeld(tree') = SwaHeld(tree)
    BY <2>2, HeldAlike
  <2>4. TypeInv'
    BY <1>2, <2>1 DEF TypeInv, reqVars
  <2>5. BatchInv'
    BY <1>2, <2>1 DEF BatchInv, BatchRow, reqVars
  <2>6. QED
    BY <1>7, <1>13, <2>1, <2>3, <2>4, <2>5, QuietStep
<1>14. ASSUME NEW n \in ChunkEnds(u, hit),
              /\ tree' = locked
              /\ stage' = [stage EXCEPT ![u] = "prefill"]
              /\ cached' = [cached EXCEPT ![u] = hit]
              /\ handle' = [handle EXCEPT ![u] = have]
              /\ row' = [row EXCEPT ![u] = MatchedRow(locked, path)]
              /\ batch' = [v \in DOMAIN batch \cup {u} |-> IF v = u THEN n ELSE batch[v]]
       PROVE  IInv'
  <2>1. UNCHANGED <<pc, free, kind, host, evicted, ownSwa, flight>>
    BY <1>1
  <2>2. /\ cached \in [Requests -> Nat] /\ stage \in [Requests -> Stages] /\ handle \in [Requests -> Nat]
        /\ row \in [Requests -> Seq(Sources)]
    BY <1>2 DEF TypeInv
  <2>3. hit \in Nat /\ hit <= kind[u].input - 1
    <3>1. hit \in Nat /\ have * PageSize <= m * PageSize
      BY <1>4, <1>5, <1>8, Products
    <3> DEFINE mp == m * PageSize
    <3>2. hit <= mp /\ mp <= kind[u].input - 1 /\ mp \in Nat
      BY <1>4, <1>5, <3>1, Products
    <3> HIDE DEF hit, mp
    <3>3. QED
      BY <1>3, <3>1, <3>2
  <2>4. n \in Nat /\ hit < n /\ n <= kind[u].input /\ n < kind[u].input + kind[u].output
    BY <1>3, <1>14, <2>3, SMTT(30) DEF ChunkEnds
  <2>5. /\ MatchedRow(locked, path) \in Seq(Sources) /\ Len(MatchedRow(locked, path)) = have
        /\ \A i \in 1..have : MatchedRow(locked, path)[i] # "own"
    <3> HIDE DEF path, locked
    <3>1. QED
      BY <1>9, MatchedRowIs
  <2>6. /\ stage'[u] = "prefill" /\ cached'[u] = hit /\ handle'[u] = have
        /\ row'[u] = MatchedRow(locked, path) /\ u \in DOMAIN batch' /\ batch'[u] = n
        /\ host'[u] = 0 /\ evicted'[u] = 0 /\ ownSwa'[u] = {}
    BY <1>11, <1>14, <2>1, <2>2 DEF Empty
  <2>7. Others(u)
    BY <1>14, <2>1, <2>2 DEF Others, Alike
  <2>8. /\ cached' \in [Requests -> Nat] /\ stage' \in [Requests -> Stages] /\ handle' \in [Requests -> Nat]
        /\ row' \in [Requests -> Seq(Sources)]
    BY <1>9, <1>14, <2>2, <2>3, <2>5 DEF Stages
  <2>9. batch' \in Batches
    <3>1. batch' \in [DOMAIN batch \cup {u} -> Nat]
      BY <1>12, <1>14, <2>4
    <3>2. QED
      BY <1>12, <3>1 DEF Batches
  <2>10. TypeInv'
    BY <1>2, <2>1, <2>8, <2>9 DEF TypeInv
  <2>11. u \in Resident'
    BY <2>6 DEF Resident
  <2>12. RowInv(u)'
    <3>1. DivCeil(hit, PageSize) = have
      BY <1>4, <1>9, Ceilings
    <3>2. hit < kind[u].input + kind[u].output
      BY <1>3, <2>3
    <3>3. Len(row'[u]) = have /\ \A i \in 1..have : row'[u][i] # "own"
      BY <2>5, <2>6
    <3>4. \A i \in 1..have : ~(i > have)
      BY <1>9
    <3>5. Len(row'[u]) = DivCeil(cached'[u], PageSize)
      BY <2>6, <3>1, <3>3
    <3>6. \A i \in 1..Len(row'[u]) : row'[u][i] = "own" <=> i > handle'[u]
      BY <2>6, <3>3, <3>4
    <3>7. handle'[u] * PageSize <= cached'[u] /\ evicted'[u] * PageSize <= cached'[u]
      <4>1. 0 * PageSize = 0
        BY <1>4
      <4> HIDE DEF hit
      <4>2. hit = have * PageSize
        BY DEF hit
      <4>3. QED
        BY <2>3, <2>6, <4>1, <4>2
    <3>8. cached'[u] < kind'[u].input + kind'[u].output
      BY <2>1, <2>6, <3>2
    <3>9. QED
      BY <2>6, <3>5, <3>6, <3>7, <3>8 DEF RowInv
  <2>13. RequestInv'
    BY <1>2, <2>7, <2>11, <2>12, RequestsKept
  <2>14. With(Holders, Holders', u, path)
    <3>1. \A v \in Requests : v # u => (v \in Resident' <=> v \in Resident) /\ HandlePath(v)' = HandlePath(v)
      BY <2>7, AlikeIs DEF Others
    <3>2. Resident' = Resident \cup {u}
      BY <2>11, <3>1 DEF Resident
    <3>3. HandlePath(u)' = path
      BY <2>1, <2>6 DEF HandlePath, Path
    <3>4. DOMAIN Holders = Resident /\ \A v \in Resident : Holders[v] = HandlePath(v)
      BY DEF Holders
    <3>5. DOMAIN Holders' = Resident' /\ \A v \in Resident' : Holders'[v] = HandlePath(v)'
      BY DEF Holders
    <3>6. \A v \in Resident : v \in Requests /\ v # u
      BY <1>11 DEF Resident
    <3>7. QED
      BY <1>11, <3>1, <3>2, <3>3, <3>4, <3>5, <3>6 DEF With
  <2>15. SoundTree(Contents, tree', Holders') /\ SameMarks(tree', walked)
    <3> HIDE DEF path
    <3>1. QED
      BY <1>7, <1>9, <1>10, <1>14, <2>14, LockIsSound
  <2>16. SameMarks(tree', tree)
    BY <1>7, <2>15 DEF SameMarks
  <2>17. BatchInv'
    <3>1. ASSUME NEW v \in DOMAIN batch' PROVE BatchRow(v)'
      <4>1. CASE v = u
        <5>1. cached'[u] < batch'[u] /\ batch'[u] < kind'[u].input + kind'[u].output /\ batch'[u] <= kind'[u].input
          BY <2>1, <2>4, <2>6
        <5>2. QED
          BY <2>6, <4>1, <5>1 DEF BatchRow
      <4>2. CASE v # u
        <5>1. v \in DOMAIN batch /\ batch'[v] = batch[v] /\ v \in Requests
          BY <1>12, <1>14, <4>2
        <5>2. BatchRow(v)
          BY <1>2, <5>1 DEF BatchInv
        <5>3. Alike(v)
          BY <2>7, <4>2, <5>1 DEF Others
        <5>4. QED
          BY <5>1, <5>2, <5>3 DEF BatchRow, Alike
      <4>3. QED
        BY <4>1, <4>2
    <3>2. pc' # "process"
      BY <1>1
    <3>3. QED
      BY <3>1, <3>2 DEF BatchInv
  <2>18. FlightInv'
    <3>1. \A j \in DOMAIN flight : u \notin DOMAIN flight[j]
      BY <1>2, <1>11 DEF FlightInv, FlightRow
    <3>2. QED
      BY <1>2, <2>1, <2>7, <3>1, FlightStays
  <2>19. PagesAreAccounted'
    <3>1. Shape(Contents, tree) /\ Shape(Contents, tree')
      BY <1>2, <2>15 DEF SoundTree
    <3>2. OwnPages(u) = {} /\ OwnPages(u)' = {}
      <4>1. row[u] = <<>>
        BY <1>11 DEF Empty
      <4>2. DOMAIN row'[u] = 1..have
        BY <1>9, <2>5, <2>6, LenProperties
      <4>3. QED
        BY <2>5, <2>6, <4>1, <4>2 DEF OwnPages
    <3>3. QED
      BY <1>2, <1>11, <2>1, <2>6, <2>7, <2>10, <2>13, <2>16, <3>1, <3>2, AccountSame DEF Empty
  <2>20. QED
    BY <2>10, <2>13, <2>15, <2>17, <2>18, <2>19 DEF IInv, TreeInv
<1>15. QED
  BY <1>1, <1>13, <1>14

-------------------------------------------------------------------------------
(* Releasing what has left the window.                                        *)

LEMMA FrontierIs ==
  ASSUME NEW len \in Nat
  PROVE  /\ WindowFrontier(len) \in Nat /\ WindowFrontier(len) <= len \div PageSize
         /\ WindowFrontier(len) * PageSize <= len
         /\ \A m \in Nat : len <= m => WindowFrontier(len) <= WindowFrontier(m)
<1>1. PageSize \in Nat \ {0} /\ Window \in Nat \ {0}
  BY CacheAssumption
<1> DEFINE f(x) == Minus(x + 1, Window + PageSize)
<1>2. \A x \in Nat : f(x) \in Nat /\ f(x) <= x
  BY <1>1 DEF Minus
<1>3. \A x, y \in Nat : x <= y => f(x) <= f(y)
  BY <1>1 DEF Minus
<1>4. \A x \in Nat : WindowFrontier(x) = f(x) \div PageSize
  BY DEF WindowFrontier
<1> HIDE DEF f
<1>5. f(len) \div PageSize \in Nat /\ f(len) \div PageSize <= len \div PageSize
  <2>1. f(len) \in Nat /\ f(len) <= len
    BY <1>2
  <2>2. f(len) \div PageSize \in Nat
    BY <1>1, <2>1, Floor
  <2>3. QED
    BY <1>1, <2>1, <2>2, Ceilings
<1>6. (f(len) \div PageSize) * PageSize <= len
  BY <1>1, <1>5, FloorMost
<1>7. ASSUME NEW m \in Nat, len <= m PROVE WindowFrontier(len) <= WindowFrontier(m)
  <2> DEFINE a == f(len)
             b == f(m)
  <2>1. a \in Nat /\ b \in Nat /\ a <= b
    BY <1>2, <1>3, <1>7
  <2>2. WindowFrontier(len) = a \div PageSize /\ WindowFrontier(m) = b \div PageSize
    BY <1>4
  <2> HIDE DEF a, b
  <2>3. a \div PageSize <= b \div PageSize
    BY <1>1, <2>1, Ceilings
  <2>4. QED
    BY <2>2, <2>3
<1>8. QED
  BY <1>4, <1>5, <1>6, <1>7

\* The pages released are pages of the request's own, up to the new frontier.
LEMMA ActiveReleaseIs ==
  ASSUME TypeInv, NEW u \in Requests, RowInv(u), NEW len \in Nat, len <= cached[u],
         NEW from \in Nat, from * PageSize <= cached[u], \A i \in ownSwa[u] : i > from,
         NEW d, d = ActiveRelease(u, len, from)
  PROVE  /\ d.pages \subseteq ownSwa[u] /\ d.frontier \in Nat
         /\ d.frontier * PageSize <= cached[u]
         /\ \A i \in ownSwa[u] \ d.pages : i > d.frontier
         /\ \A i \in d.pages : i <= WindowFrontier(cached[u])
<1> DEFINE start == ReleaseStart(u, from)
           end == Greatest(start, WindowFrontier(len))
<1>1. PageSize \in Nat \ {0} /\ handle[u] \in Nat /\ cached[u] \in Nat /\ Len(row[u]) \in Nat
      /\ ownSwa[u] \subseteq Nat
  BY CacheAssumption, TypesAre
<1>2. /\ WindowFrontier(len) \in Nat /\ WindowFrontier(len) * PageSize <= len
      /\ WindowFrontier(len) <= len \div PageSize
      /\ WindowFrontier(len) <= WindowFrontier(cached[u]) /\ WindowFrontier(cached[u]) \in Nat
  BY <1>1, FrontierIs
<1>3. start \in Nat /\ start >= from /\ start >= handle[u] /\ (start = from \/ start = handle[u])
  BY <1>1 DEF ReleaseStart, Greatest
<1>4. end \in Nat /\ end >= start /\ (end = start \/ end = WindowFrontier(len))
      /\ end >= WindowFrontier(len)
  BY <1>2, <1>3 DEF Greatest
<1>5. d.pages = {i \in (start + 1)..end : FoundByRow(u, i)}
      /\ d.frontier = IF end > start THEN end ELSE from
  BY DEF ActiveRelease
<1> HIDE DEF start, end
<1>6. ownSwa[u] \subseteq (handle[u] + 1)..Len(row[u])
      /\ \A i \in 1..Len(row[u]) : row[u][i] = "own" <=> i > handle[u]
  BY DEF RowInv
<1>7. WindowFrontier(len) <= Len(row[u])
  <2>1. len \div PageSize <= cached[u] \div PageSize /\ cached[u] \div PageSize <= Len(row[u])
    BY <1>1, Ceilings, RowIs
  <2>2. len \div PageSize \in Nat /\ cached[u] \div PageSize \in Nat
    BY <1>1, Floor
  <2>3. QED
    BY <1>1, <1>2, <2>1, <2>2
<1>8. \A i \in (start + 1)..end : row[u][i] = "own" /\ i \in Nat /\ i <= WindowFrontier(len)
  <2>1. TAKE i \in (start + 1)..end
  <2>2. end = WindowFrontier(len) /\ i \in Nat /\ i <= end /\ i > start
    BY <1>3, <1>4
  <2>3. i \in 1..Len(row[u]) /\ i > handle[u]
    BY <1>1, <1>2, <1>3, <1>7, <2>2
  <2>4. QED
    BY <1>6, <2>2, <2>3
<1>9. \A i \in (start + 1)..end : FoundByRow(u, i) <=> i \in ownSwa[u]
  BY <1>8 DEF FoundByRow
<1>10. d.pages = ((start + 1)..end) \cap ownSwa[u]
  BY <1>5, <1>9
<1>11. \A i \in ownSwa[u] : i > start /\ i \in Nat
  <2>1. \A i \in ownSwa[u] : i > from /\ i > handle[u] /\ i \in Nat
    BY <1>1, <1>6
  <2>2. QED
    BY <1>1, <1>3, <2>1
<1>12. \A i \in ownSwa[u] \ d.pages : i > d.frontier
  BY <1>3, <1>4, <1>5, <1>10, <1>11
<1>13. d.frontier \in Nat /\ d.frontier * PageSize <= cached[u]
  <2>1. CASE end > start
    <3>1. d.frontier = WindowFrontier(len)
      BY <1>3, <1>4, <1>5, <2>1
    <3>2. WindowFrontier(len) * PageSize \in Nat
      BY <1>1, <1>2, Products
    <3> DEFINE x == WindowFrontier(len) * PageSize
    <3>3. x \in Nat /\ x <= len
      BY <1>2, <3>2
    <3> HIDE DEF x
    <3>4. x <= cached[u]
      BY <1>1, <3>3
    <3>5. QED
      BY <1>2, <3>1, <3>4 DEF x
  <2>2. CASE ~(end > start)
    BY <1>5, <2>2
  <2>3. QED
    BY <2>1, <2>2
<1>14. \A i \in d.pages : i <= WindowFrontier(cached[u])
  BY <1>2, <1>8, <1>10
<1>15. QED
  BY <1>10, <1>12, <1>13, <1>14

\* A row is processed and SWA pages of its request go back.
LEMMA ReleaseActiveKeeps ==
  ASSUME IInv, NEW u \in Requests, Processing, u \in DOMAIN Head(flight), RowDone(u),
         NEW len \in Nat, len <= cached[u], NEW from \in Nat, from * PageSize <= cached[u],
         \A i \in ownSwa[u] : i > from, NEW newest \in BOOLEAN,
         ReleaseActive(u, len, from, newest), UNCHANGED <<tree, stage, cached, handle, row>>,
         host' \in [Requests -> Nat], host'[u] >= host[u],
         \A v \in Requests : v # u => host'[v] = host[v], u \in Resident
  PROVE  IInv'
<1> DEFINE d == ActiveRelease(u, len, from)
<1>1. /\ TypeInv /\ BatchInv /\ TreeInv /\ RequestInv /\ FlightInv /\ PagesAreAccounted
      /\ SoundTree(Contents, tree, Holders) /\ RowInv(u)
  BY DEF IInv, TreeInv, RequestInv
<1>2. /\ free' = [free EXCEPT !.swa = @ + Cardinality(d.pages)]
      /\ ownSwa' = [ownSwa EXCEPT ![u] = @ \ d.pages]
      /\ evicted' = [evicted EXCEPT ![u] = IF newest THEN d.frontier ELSE @]
  BY DEF ReleaseActive
<1>3. /\ d.pages \subseteq ownSwa[u] /\ d.frontier \in Nat
      /\ d.frontier * PageSize <= cached[u]
      /\ \A i \in ownSwa[u] \ d.pages : i > d.frontier
  <2> DEFINE e == d
  <2>1. e = ActiveRelease(u, len, from)
    OBVIOUS
  <2> HIDE DEF e
  <2>2. /\ e.pages \subseteq ownSwa[u] /\ e.frontier \in Nat
        /\ e.frontier * PageSize <= cached[u]
        /\ \A i \in ownSwa[u] \ e.pages : i > e.frontier
    BY <1>1, <2>1, ActiveReleaseIs
  <2>3. QED
    BY <2>2 DEF e
<1> HIDE DEF d
<1>4. UNCHANGED <<kind, batch>> /\ flight' = FlightWithout(u)
      /\ pc' \in {"schedule", "process"}
  BY DEF RowDone
<1>5. flight' \in Seq(Forwards) /\ FlightFrom(u)
  BY <1>1, <1>4, RowDoneIs
<1>6. DOMAIN batch = {}
  BY <1>1 DEF Processing, BatchInv
<1>7. /\ ownSwa \in [Requests -> SUBSET Nat] /\ evicted \in [Requests -> Nat] /\ free \in Pools
  BY <1>1 DEF TypeInv
<1>8. /\ ownSwa'[u] = ownSwa[u] \ d.pages /\ ownSwa' \in [Requests -> SUBSET Nat]
      /\ evicted'[u] = (IF newest THEN d.frontier ELSE evicted[u]) /\ evicted' \in [Requests -> Nat]
      /\ \A v \in Requests : v # u => ownSwa'[v] = ownSwa[v] /\ evicted'[v] = evicted[v]
  <2>1. ownSwa'[u] = ownSwa[u] \ d.pages /\ ownSwa' \in [Requests -> SUBSET Nat]
    BY <1>2, <1>7
  <2>2. evicted'[u] = (IF newest THEN d.frontier ELSE evicted[u]) /\ evicted' \in [Requests -> Nat]
    BY <1>2, <1>3, <1>7
  <2>3. \A v \in Requests : v # u => ownSwa'[v] = ownSwa[v] /\ evicted'[v] = evicted[v]
    BY <1>2, <1>7
  <2>4. QED
    BY <2>1, <2>2, <2>3
<1>9. IsFiniteSet(ownSwa[u]) /\ IsFiniteSet(d.pages)
      /\ Cardinality(ownSwa[u] \ d.pages) = Cardinality(ownSwa[u]) - Cardinality(d.pages)
      /\ Cardinality(d.pages) \in Nat /\ Cardinality(ownSwa[u]) \in Nat
  <2>1. ownSwa[u] \subseteq 1..NumPages /\ IsFiniteSet(1..NumPages)
    BY <1>1, OwnersAre
  <2>2. IsFiniteSet(ownSwa[u])
    BY <2>1, FS_Subset
  <2>3. QED
    BY <1>3, <2>2, SubsetDifference
<1>10. /\ free'.full = free.full /\ free'.comp = free.comp
       /\ free'.swa = free.swa + Cardinality(d.pages) /\ free' \in Pools
       /\ free.swa \in Nat
  BY <1>2, <1>7, <1>9 DEF Pools
<1>11. TypeInv'
  BY <1>1, <1>4, <1>5, <1>8, <1>10 DEF TypeInv
<1>12. Others(u)
  BY <1>4, <1>8 DEF Others, Alike
<1>13. u \in Resident'
  BY DEF Resident
<1>14. RowInv(u)'
  <2>1. \A i \in ownSwa'[u] : i > evicted'[u]
    BY <1>1, <1>3, <1>8 DEF RowInv
  <2>2. evicted'[u] * PageSize <= cached[u]
    BY <1>1, <1>3, <1>8 DEF RowInv
  <2>3. handle[u] * PageSize <= host'[u]
    <3>1. handle[u] * PageSize <= host[u]
      BY <1>1, <1>6 DEF RowInv
    <3>2. handle[u] * PageSize \in Nat /\ host[u] \in Nat /\ host'[u] \in Nat
      <4>1. handle[u] \in Nat /\ host[u] \in Nat
        BY <1>1, TypesAre
      <4>2. QED
        BY <4>1, CacheAssumption, Products
    <3> DEFINE x == handle[u] * PageSize
    <3> HIDE DEF x
    <3>3. x <= host'[u]
      BY <3>1, <3>2 DEF x
    <3>4. QED
      BY <3>3 DEF x
  <2>4. ownSwa'[u] \subseteq (handle[u] + 1)..Len(row[u])
    BY <1>1, <1>8 DEF RowInv
  <2>5. QED
    BY <1>1, <1>4, <2>1, <2>2, <2>3, <2>4 DEF RowInv
<1>15. RequestInv'
  BY <1>1, <1>12, <1>13, <1>14, RequestsKept
<1>16. TreeInv'
  <2>1. HandlePath(u)' = HandlePath(u)
    BY <1>4 DEF HandlePath, Path
  <2>2. Holders' = Holders
    BY <1>12, <1>13, <2>1, HoldersKept
  <2>3. QED
    BY <1>1, <2>2 DEF TreeInv
<1>17. BatchInv'
  BY <1>4, <1>6 DEF BatchInv
<1>18. FlightInv'
  <2>1. ASSUME NEW j \in DOMAIN flight, NEW r, u \in DOMAIN flight[j], r = flight[j][u]
        PROVE  FlightRow(r, u)'
    <3>1. FlightRow(r, u)
      BY <1>1, <2>1 DEF FlightInv
    <3>2. QED
      BY <1>8, <1>13, <3>1 DEF FlightRow
  <2>2. QED
    BY <1>1, <1>5, <1>12, <2>1, FlightKept
<1>19. PagesAreAccounted'
  <2>1. Shape(Contents, tree) /\ Shape(Contents, tree')
    BY <1>1 DEF SoundTree
  <2>2. OwnPages(u)' = OwnPages(u)
    BY DEF OwnPages
  <2> DEFINE c == Cardinality(d.pages)
             o == Cardinality(ownSwa[u])
             s == SwaHeld(tree)
             x == free.swa
  <2>3. c \in Nat /\ o \in Nat /\ s \in Nat /\ x \in Nat /\ SwaHeld(tree') = s /\ free'.swa = x + c
        /\ Cardinality(ownSwa'[u]) = o - c
    BY <1>8, <1>9, <1>10, <2>1, HeldAreNumbers
  <2> HIDE DEF c, o, s, x
  <2>4. SwaHeld(tree') + free'.swa + Cardinality(ownSwa'[u]) = s + x + o
    BY <2>3
  <2>5. QED
    BY <1>1, <1>10, <1>11, <1>12, <1>15, <2>1, <2>2, <2>4, AccountOne DEF s, x, o
<1>20. QED
  BY <1>11, <1>15, <1>16, <1>17, <1>18, <1>19 DEF IInv

LEMMA HeadIs ==
  ASSUME TypeInv, FlightInv, flight # <<>>, NEW u \in DOMAIN Head(flight)
  PROVE  /\ FlightRow(Head(flight)[u], u) /\ u \in Requests /\ u \in Resident
         /\ Head(flight)[u].len \in Nat /\ Head(flight)[u].frontier \in Nat
<1>1. Head(flight) = flight[1] /\ 1 \in DOMAIN flight
  <2>1. Len(flight) # 0 /\ Len(flight) \in Nat /\ DOMAIN flight = 1..Len(flight)
    BY EmptySeq, LenProperties DEF TypeInv
  <2>2. Head(flight) = flight[1]
    BY DEF TypeInv
  <2>3. QED
    BY <2>1, <2>2
<1>2. FlightRow(flight[1][u], u)
  BY <1>1 DEF FlightInv
<1>3. flight[1][u].len \in Nat /\ flight[1][u].frontier \in Nat
  BY <1>1, ForwardIs
<1>4. QED
  BY <1>1, <1>2, <1>3 DEF FlightRow, Resident

LEMMA CompleteChunkKeeps ==
  ASSUME IInv, NEW u \in Requests, CompleteChunk(u)
  PROVE  IInv'
<1> DEFINE issued == Head(flight)[u]
<1>1. /\ Processing /\ u \in DOMAIN Head(flight) /\ RowDone(u)
      /\ ReleaseActive(u, issued.len, issued.frontier, ~OutstandingAfter(u))
      /\ UNCHANGED <<tree, stage, cached, host, handle, row>>
  BY DEF CompleteChunk
<1>2. TypeInv /\ FlightInv /\ flight # <<>>
  BY <1>1 DEF IInv, Processing
<1>3. /\ FlightRow(issued, u) /\ u \in Resident
      /\ issued.len \in Nat /\ issued.frontier \in Nat
  BY <1>1, <1>2, HeadIs
<1>4. /\ issued.len <= cached[u] /\ issued.frontier * PageSize <= cached[u]
      /\ \A i \in ownSwa[u] : i > issued.frontier
  BY <1>3 DEF FlightRow
<1>5. host' \in [Requests -> Nat] /\ host'[u] >= host[u] /\ \A v \in Requests : v # u => host'[v] = host[v]
  BY <1>1, <1>2 DEF TypeInv
<1>6. (~OutstandingAfter(u)) \in BOOLEAN
  OBVIOUS
<1> HIDE DEF issued
<1>7. QED
  BY <1>1, <1>3, <1>4, <1>5, <1>6, ReleaseActiveKeeps

-------------------------------------------------------------------------------
(* A request that gives everything back.                                      *)

LEMMA RetireKeeps ==
  ASSUME IInv, NEW u \in Resident, DOMAIN batch = {}, NEW length \in Nat,
         handle[u] * PageSize <= length, Retire(u, length), UNCHANGED <<kind, batch>>,
         pc' \in {"schedule", "process"}, flight' \in Seq(Forwards), FlightFrom(u),
         \A j \in DOMAIN flight : j > 1 => u \notin DOMAIN flight[j]
  PROVE  IInv'
<1> DEFINE r == CacheReq(u, length, TRUE)
           path == Path(u, FiledLen(u, length))
<1>1. /\ TypeInv /\ BatchInv /\ TreeInv /\ RequestInv /\ FlightInv /\ PagesAreAccounted
      /\ SoundTree(Contents, tree, Holders)
  BY DEF IInv, TreeInv
<1>2. u \in Requests /\ RowInv(u)
  BY <1>1, HandleIs, HoldersAre
<1>3. /\ tree' = r.tree /\ free' = Plus(free, r.freed)
      /\ stage' = [stage EXCEPT ![u] = "gone"]
      /\ row' = [row EXCEPT ![u] = <<>>] /\ ownSwa' = [ownSwa EXCEPT ![u] = {}]
      /\ handle' = [handle EXCEPT ![u] = 0] /\ cached' = [cached EXCEPT ![u] = 0]
      /\ host' = [host EXCEPT ![u] = 0] /\ evicted' = [evicted EXCEPT ![u] = 0]
  BY DEF Retire
<1>4. /\ ownSwa \in [Requests -> SUBSET Nat] /\ evicted \in [Requests -> Nat] /\ free \in Pools
      /\ cached \in [Requests -> Nat] /\ host \in [Requests -> Nat] /\ handle \in [Requests -> Nat]
      /\ stage \in [Requests -> Stages] /\ row \in [Requests -> Seq(Sources)]
  BY <1>1 DEF TypeInv
<1>5. /\ stage'[u] = "gone" /\ row'[u] = <<>> /\ ownSwa'[u] = {} /\ handle'[u] = 0
      /\ cached'[u] = 0 /\ host'[u] = 0 /\ evicted'[u] = 0
  BY <1>2, <1>3, <1>4
<1>6. Others(u)
  BY <1>3, <1>4 DEF Others, Alike
<1>7. u \notin Resident' /\ Empty(u)'
  BY <1>5 DEF Resident, Empty
<1>8. RequestInv'
  BY <1>1, <1>2, <1>6, <1>7, RequestsKept
<1>9. Without(Holders, Holders', u)
  <2>1. \A v \in Requests : v # u => (v \in Resident' <=> v \in Resident) /\ HandlePath(v)' = HandlePath(v)
    BY <1>6, AlikeIs DEF Others
  <2>2. Resident' = Resident \ {u}
    BY <1>7, <2>1 DEF Resident
  <2>3. DOMAIN Holders = Resident /\ \A v \in Resident : Holders[v] = HandlePath(v)
    BY DEF Holders
  <2>4. DOMAIN Holders' = Resident' /\ \A v \in Resident' : Holders'[v] = HandlePath(v)'
    BY DEF Holders
  <2>5. \A v \in Resident' : v \in Requests /\ v # u
    BY <1>7 DEF Resident
  <2>6. QED
    BY <2>1, <2>2, <2>3, <2>4, <2>5 DEF Without
<1>10. Handed(Holders', u, path, TRUE)
  BY <1>9 DEF Handed
<1>11. /\ SoundTree(Contents, tree', Holders')
  <2> HIDE DEF path, r
  <2>1. path = Path(u, FiledLen(u, length)) /\ r = CacheReq(u, length, TRUE)
    BY DEF path, r
  <2>2. SoundTree(Contents, r.tree, Holders')
    BY <1>1, <1>10, <2>1, CacheReqIsSound
  <2>3. QED
    BY <1>3, <2>2
<1>12. /\ r.freed \in Pools
       /\ FullHeld(r.tree) + r.freed.full = FullHeld(tree) + (Len(row[u]) - handle[u])
       /\ Held(r.tree) + r.freed.comp = Held(tree) + (Len(row[u]) - handle[u])
       /\ SwaHeld(r.tree) + r.freed.swa + 0 = SwaHeld(tree) + Cardinality(ownSwa[u])
  <2>1. path = Path(u, FiledLen(u, length)) /\ r = CacheReq(u, length, TRUE)
    OBVIOUS
  <2> HIDE DEF path, r
  <2>2. /\ r.freed \in Pools
        /\ FullHeld(r.tree) + r.freed.full = FullHeld(tree) + GivenUp(u, length, TRUE)
        /\ Held(r.tree) + r.freed.comp = Held(tree) + GivenUp(u, length, TRUE)
        /\ SwaHeld(r.tree) + r.freed.swa + Cardinality(SwaLeft(u, length, TRUE))
              = SwaHeld(tree) + Cardinality(ownSwa[u])
    BY <1>1, <1>10, <2>1, CacheReqCounts
  <2>3. GivenUp(u, length, TRUE) = Len(row[u]) - handle[u] /\ Cardinality(SwaLeft(u, length, TRUE)) = 0
    BY FS_EmptySet DEF GivenUp, SwaLeft
  <2>4. QED
    BY <2>2, <2>3
<1>13. /\ free'.full = free.full + r.freed.full /\ free'.comp = free.comp + r.freed.comp
       /\ free'.swa = free.swa + r.freed.swa /\ free' \in Pools
  <2> HIDE DEF r
  <2>1. QED
    BY <1>3, <1>4, <1>12, PlusIs
<1>14. TypeInv'
  <2>1. <<>> \in Seq(Sources) /\ {} \in SUBSET Nat /\ 0 \in Nat /\ "gone" \in Stages
    BY EmptySeq DEF Stages
  <2>2. /\ stage' \in [Requests -> Stages] /\ row' \in [Requests -> Seq(Sources)]
        /\ ownSwa' \in [Requests -> SUBSET Nat]
    BY <1>3, <1>4, <2>1
  <2>3. /\ cached' \in [Requests -> Nat] /\ host' \in [Requests -> Nat]
        /\ handle' \in [Requests -> Nat] /\ evicted' \in [Requests -> Nat]
    BY <1>3, <1>4, <2>1
  <2>4. QED
    BY <1>1, <1>13, <2>2, <2>3 DEF TypeInv
<1>15. BatchInv'
  BY DEF BatchInv
<1>16. FlightInv'
  BY <1>1, <1>2, <1>6, FlightKept
<1>17. PagesAreAccounted'
  <2>1. Shape(Contents, tree) /\ Shape(Contents, tree')
    BY <1>1, <1>11 DEF SoundTree
  <2> DEFINE w == Len(row[u]) - handle[u]
             c == Cardinality(OwnPages(u))
             o == Cardinality(ownSwa[u])
  <2>2. c = w /\ c \in Nat /\ o \in Nat
    <3>1. OwnPages(u) = (handle[u] + 1)..Len(row[u]) /\ handle[u] <= Len(row[u])
      BY <1>1, <1>2, RowIs
    <3>2. handle[u] \in Nat /\ Len(row[u]) \in Nat
      BY <1>1, <1>2, TypesAre
    <3>3. c = w /\ w \in Nat
      BY <3>1, <3>2, Interval
    <3>4. ownSwa[u] \subseteq 1..NumPages /\ IsFiniteSet(1..NumPages)
      BY <1>1, <1>2, OwnersAre
    <3>5. o \in Nat
      BY <3>4, FS_Subset, FS_CardinalityType
    <3>6. QED
      BY <3>3, <3>5
  <2>3. OwnPages(u)' = {} /\ ownSwa'[u] = {}
    <3>1. DOMAIN row'[u] = {}
      BY <1>5
    <3>2. QED
      BY <1>5, <3>1 DEF OwnPages
  <2>4. Cardinality(OwnPages(u)') = 0 /\ Cardinality(ownSwa'[u]) = 0
    BY <2>3, FS_EmptySet
  <2> DEFINE f == FullHeld(tree)
             g == FullHeld(r.tree)
             h == Held(tree)
             k == Held(r.tree)
             s == SwaHeld(tree)
             q == SwaHeld(r.tree)
             x == free.full
             y == free.comp
             z == free.swa
             a == r.freed.full
             b == r.freed.comp
             d == r.freed.swa
  <2>5. /\ f \in Nat /\ g \in Nat /\ h \in Nat /\ k \in Nat /\ s \in Nat /\ q \in Nat
    <3> HIDE DEF r
    <3>1. QED
      BY <1>3, <2>1, HeldAreNumbers
  <2>6. x \in Nat /\ y \in Nat /\ z \in Nat /\ a \in Nat /\ b \in Nat /\ d \in Nat
    <3> HIDE DEF r
    <3>1. QED
      BY <1>4, <1>12, PoolsAre
  <2>7. /\ g + a = f + w /\ k + b = h + w /\ q + d + 0 = s + o
        /\ free'.full = x + a /\ free'.comp = y + b /\ free'.swa = z + d
        /\ FullHeld(tree') = g /\ Held(tree') = k /\ SwaHeld(tree') = q
    BY <1>3, <1>12, <1>13
  <2> HIDE DEF f, g, h, k, s, q, x, y, z, a, b, d, w, c, o
  <2>8. /\ FullHeld(tree') + free'.full + 0 = f + x + c
        /\ Held(tree') + free'.comp + 0 = h + y + c
        /\ SwaHeld(tree') + free'.swa + 0 = s + z + o
    <3>0. g + a = f + c
      BY <2>2, <2>7
    <3>1. g + (x + a) + 0 = f + x + c
      BY <2>2, <2>5, <2>6, <3>0
    <3>2. k + (y + b) + 0 = h + y + c
      BY <2>2, <2>5, <2>6, <2>7
    <3>3. q + (z + d) + 0 = s + z + o
      BY <2>2, <2>5, <2>6, <2>7
    <3>4. QED
      BY <2>7, <3>1, <3>2, <3>3
  <2>9. QED
    BY <1>1, <1>2, <1>6, <1>8, <1>14, <2>1, <2>4, <2>8, AccountOne DEF f, h, s, x, y, z, c, o
<1>18. QED
  BY <1>8, <1>11, <1>14, <1>15, <1>16, <1>17 DEF IInv, TreeInv

\* The rows of a request in flight, other than the one in the oldest forward.
LEMMA NoneOutstanding ==
  ASSUME TypeInv, NEW u, ~OutstandingAfter(u)
  PROVE  \A j \in DOMAIN flight : j > 1 => u \notin DOMAIN flight[j]
<1>1. DOMAIN flight = 1..Len(flight) /\ Len(flight) \in Nat
  BY LenProperties DEF TypeInv
<1>2. \A j \in 1..Len(flight) : j > 1 => j \in 2..Len(flight)
  BY <1>1
<1>3. QED
  BY <1>1, <1>2 DEF OutstandingAfter

\* A row is processed whose request changes its stage to ended, or not at all.
LEMMA RowOnlyKeeps ==
  ASSUME IInv, NEW u \in Requests, Processing, u \in DOMAIN Head(flight), RowDone(u),
         u \in Resident, UNCHANGED <<tree, free, cached, handle, evicted, row, ownSwa>>,
         stage' \in [Requests -> Stages], stage'[u] = "ended",
         host' \in [Requests -> Nat], host'[u] >= host[u],
         \A v \in Requests : v # u => host'[v] = host[v] /\ stage'[v] = stage[v]
  PROVE  IInv'
<1>1. /\ TypeInv /\ BatchInv /\ TreeInv /\ RequestInv /\ FlightInv /\ PagesAreAccounted
      /\ SoundTree(Contents, tree, Holders) /\ RowInv(u)
  BY DEF IInv, TreeInv, RequestInv
<1>2. UNCHANGED <<kind, batch>> /\ flight' = FlightWithout(u)
      /\ pc' \in {"schedule", "process"}
  BY DEF RowDone
<1>3. flight' \in Seq(Forwards) /\ FlightFrom(u)
  BY <1>1, <1>2, RowDoneIs
<1>4. DOMAIN batch = {}
  BY <1>1 DEF Processing, BatchInv
<1>5. TypeInv'
  BY <1>1, <1>2, <1>3 DEF TypeInv
<1>6. Others(u)
  BY <1>2 DEF Others, Alike
<1>7. u \in Resident'
  BY DEF Resident
<1>8. RowInv(u)'
  <2>1. handle[u] * PageSize <= host'[u]
    <3>1. handle[u] * PageSize <= host[u]
      BY <1>1, <1>4 DEF RowInv
    <3>2. handle[u] * PageSize \in Nat /\ host[u] \in Nat /\ host'[u] \in Nat
      <4>1. handle[u] \in Nat /\ host[u] \in Nat
        BY <1>1, TypesAre
      <4>2. QED
        BY <4>1, CacheAssumption, Products
    <3> DEFINE x == handle[u] * PageSize
    <3> HIDE DEF x
    <3>3. x <= host'[u]
      BY <3>1, <3>2 DEF x
    <3>4. QED
      BY <3>3 DEF x
  <2>2. QED
    BY <1>1, <1>2, <2>1 DEF RowInv
<1>9. RequestInv'
  BY <1>1, <1>6, <1>7, <1>8, RequestsKept
<1>10. TreeInv'
  <2>1. HandlePath(u)' = HandlePath(u)
    BY <1>2 DEF HandlePath, Path
  <2>2. Holders' = Holders
    BY <1>6, <1>7, <2>1, HoldersKept
  <2>3. QED
    BY <1>1, <2>2 DEF TreeInv
<1>11. BatchInv'
  BY <1>2, <1>4 DEF BatchInv
<1>12. FlightInv'
  <2>1. ASSUME NEW j \in DOMAIN flight, NEW r, u \in DOMAIN flight[j], r = flight[j][u]
        PROVE  FlightRow(r, u)'
    <3>1. FlightRow(r, u)
      BY <1>1, <2>1 DEF FlightInv
    <3>2. QED
      BY <1>7, <3>1 DEF FlightRow
  <2>2. QED
    BY <1>1, <1>3, <1>6, <2>1, FlightKept
<1>13. PagesAreAccounted'
  <2>1. Shape(Contents, tree) /\ Shape(Contents, tree')
    BY <1>1 DEF SoundTree
  <2>2. OwnPages(u)' = OwnPages(u) /\ SameMarks(tree', tree)
    BY DEF OwnPages, SameMarks
  <2>3. QED
    BY <1>1, <1>5, <1>6, <1>9, <2>1, <2>2, AccountSame
<1>14. QED
  BY <1>5, <1>9, <1>10, <1>11, <1>12, <1>13 DEF IInv

LEMMA CompleteEndedKeeps ==
  ASSUME IInv, NEW u \in Requests, CompleteEnded(u)
  PROVE  IInv'
<1>1. /\ Processing /\ u \in DOMAIN Head(flight) /\ stage[u] = "ended" /\ RowDone(u)
      /\ IF OutstandingAfter(u)
           THEN UNCHANGED <<tree, free, stage, cached, host, handle, evicted, row, ownSwa>>
           ELSE Retire(u, host[u])
  BY DEF CompleteEnded
<1>2. TypeInv /\ BatchInv /\ RequestInv
  BY DEF IInv
<1>3. u \in Resident /\ RowInv(u)
  BY <1>1, <1>2 DEF Resident, RequestInv
<1>4. host[u] \in Nat /\ host \in [Requests -> Nat] /\ stage \in [Requests -> Stages]
  BY <1>2 DEF TypeInv
<1>5. CASE OutstandingAfter(u)
  <2>1. UNCHANGED <<tree, free, stage, cached, host, handle, evicted, row, ownSwa>>
    BY <1>1, <1>5
  <2>2. host'[u] >= host[u]
    BY <1>4, <2>1
  <2>3. QED
    BY <1>1, <1>3, <1>4, <2>1, <2>2, RowOnlyKeeps
<1>6. CASE ~OutstandingAfter(u)
  <2>1. Retire(u, host[u])
    BY <1>1, <1>6
  <2>2. DOMAIN batch = {}
    BY <1>1, <1>2 DEF Processing, BatchInv
  <2>3. handle[u] * PageSize <= host[u]
    BY <1>3, <2>2 DEF RowInv
  <2>4. UNCHANGED <<kind, batch>> /\ flight' = FlightWithout(u) /\ pc' \in {"schedule", "process"}
    BY <1>1 DEF RowDone
  <2>5. flight' \in Seq(Forwards) /\ FlightFrom(u)
    BY <1>1, <1>2, <2>4, RowDoneIs
  <2>6. \A j \in DOMAIN flight : j > 1 => u \notin DOMAIN flight[j]
    BY <1>2, <1>6, NoneOutstanding
  <2>7. QED
    BY <1>3, <1>4, <2>1, <2>2, <2>3, <2>4, <2>5, <2>6, RetireKeeps
<1>7. QED
  BY <1>5, <1>6

LEMMA CommitLastTokenKeeps ==
  ASSUME IInv, NEW u \in Requests, CommitLastToken(u)
  PROVE  IInv'
<1>1. /\ Processing /\ u \in DOMAIN Head(flight) /\ stage[u] = "decode" /\ RowDone(u)
      /\ IF OutstandingAfter(u)
           THEN /\ stage' = [stage EXCEPT ![u] = "ended"]
                /\ host' = [host EXCEPT ![u] = @ + 1]
                /\ UNCHANGED <<tree, free, cached, handle, evicted, row, ownSwa>>
           ELSE Retire(u, host[u] + 1)
  BY DEF CommitLastToken
<1>2. TypeInv /\ BatchInv /\ RequestInv
  BY DEF IInv
<1>3. u \in Resident /\ RowInv(u)
  BY <1>1, <1>2 DEF Resident, RequestInv
<1>4. host[u] \in Nat /\ host \in [Requests -> Nat] /\ stage \in [Requests -> Stages]
  BY <1>2 DEF TypeInv
<1>5. CASE OutstandingAfter(u)
  <2>1. /\ stage' = [stage EXCEPT ![u] = "ended"]
        /\ host' = [host EXCEPT ![u] = @ + 1]
        /\ UNCHANGED <<tree, free, cached, handle, evicted, row, ownSwa>>
    BY <1>1, <1>5
  <2>2. /\ host' \in [Requests -> Nat] /\ host'[u] >= host[u]
        /\ stage' \in [Requests -> Stages] /\ stage'[u] = "ended"
        /\ \A v \in Requests : v # u => host'[v] = host[v] /\ stage'[v] = stage[v]
    BY <1>4, <2>1 DEF Stages
  <2>3. QED
    BY <1>1, <1>3, <2>1, <2>2, RowOnlyKeeps
<1>6. CASE ~OutstandingAfter(u)
  <2>1. Retire(u, host[u] + 1) /\ host[u] + 1 \in Nat
    BY <1>1, <1>4, <1>6
  <2>2. DOMAIN batch = {}
    BY <1>1, <1>2 DEF Processing, BatchInv
  <2>3. handle[u] * PageSize <= host[u] + 1
    <3>1. handle[u] * PageSize <= host[u]
      BY <1>3, <2>2 DEF RowInv
    <3>2. handle[u] * PageSize \in Nat
      <4>1. handle[u] \in Nat
        BY <1>2, TypesAre
      <4>2. QED
        BY <4>1, CacheAssumption, Products
    <3> DEFINE x == handle[u] * PageSize
    <3>3. x \in Nat /\ x <= host[u]
      BY <3>1, <3>2
    <3> HIDE DEF x
    <3>4. x <= host[u] + 1
      BY <1>4, <3>3
    <3>5. QED
      BY <3>4 DEF x
  <2>4. UNCHANGED <<kind, batch>> /\ flight' = FlightWithout(u) /\ pc' \in {"schedule", "process"}
    BY <1>1 DEF RowDone
  <2>5. flight' \in Seq(Forwards) /\ FlightFrom(u)
    BY <1>1, <1>2, <2>4, RowDoneIs
  <2>6. \A j \in DOMAIN flight : j > 1 => u \notin DOMAIN flight[j]
    BY <1>2, <1>6, NoneOutstanding
  <2>7. QED
    BY <1>3, <2>1, <2>2, <2>3, <2>4, <2>5, <2>6, RetireKeeps
<1>7. QED
  BY <1>5, <1>6

-------------------------------------------------------------------------------
(* A token that does not end its request.                                     *)

\* r is the row s with its first n entries replaced by t.
Spliced(r, s, n, t) ==
  /\ s \in Seq(Sources) /\ n \in 0..Len(s) /\ t \in Seq(Sources) /\ Len(t) = n
  /\ r = t \o SubSeq(s, n + 1, Len(s))
NewHead(r, s, n, t) ==
  /\ r \in Seq(Sources) /\ Len(r) = Len(s)
  /\ \A i \in 1..n : r[i] = t[i]
  /\ \A i \in (n + 1)..Len(s) : r[i] = s[i]

LEMMA NewRow ==
  ASSUME NEW r, NEW s, NEW n, NEW t, Spliced(r, s, n, t)
  PROVE  NewHead(r, s, n, t)
<1>0. /\ s \in Seq(Sources) /\ n \in 0..Len(s) /\ t \in Seq(Sources) /\ Len(t) = n
      /\ r = t \o SubSeq(s, n + 1, Len(s))
  BY DEF Spliced
<1>1. Len(s) \in Nat /\ DOMAIN s = 1..Len(s) /\ n \in Nat /\ n <= Len(s)
  BY <1>0, LenProperties
<1>2. \A i \in 1..Len(s) : s[i] \in Sources
  BY <1>0, ElementOfSeq
<1> DEFINE x == SubSeq(s, n + 1, Len(s))
           l == Len(s)
<1>3. x \in Seq(Sources) /\ Len(x) = (IF n + 1 <= l THEN l - (n + 1) + 1 ELSE 0)
      /\ \A i \in 1..(l - (n + 1) + 1) : x[i] = s[n + 1 + i - 1]
  <2>1. n + 1 \in Int /\ l \in Int /\ \A i \in (n + 1)..l : s[i] \in Sources
    BY <1>1, <1>2
  <2> HIDE DEF l
  <2>2. /\ SubSeq(s, n + 1, l) \in Seq(Sources)
        /\ Len(SubSeq(s, n + 1, l)) = (IF n + 1 <= l THEN l - (n + 1) + 1 ELSE 0)
        /\ \A i \in 1..(l - (n + 1) + 1) : SubSeq(s, n + 1, l)[i] = s[n + 1 + i - 1]
    BY <1>0, <2>1, SubSeqProperties
  <2>3. QED
    BY <2>2 DEF l
<1> HIDE DEF x, l
<1>4. l \in Nat /\ n \in Nat /\ n <= l
  BY <1>1 DEF l
<1>5. Len(x) = l - n
  BY <1>3, <1>4
<1>6. r = t \o x
  BY <1>0 DEF x
<1>7. r \in Seq(Sources) /\ Len(r) = n + Len(x)
      /\ \A i \in 1..(n + Len(x)) : r[i] = IF i <= n THEN t[i] ELSE x[i - n]
  <2>1. /\ t \o x \in Seq(Sources) /\ Len(t \o x) = Len(t) + Len(x)
        /\ \A i \in 1..(Len(t) + Len(x)) : (t \o x)[i] = IF i <= Len(t) THEN t[i] ELSE x[i - Len(t)]
    BY <1>0, <1>3, ConcatProperties
  <2>2. Len(t) = n
    BY <1>0
  <2>3. QED
    BY <1>6, <2>1, <2>2
<1>8. Len(r) = l
  BY <1>4, <1>5, <1>7
<1>9. \A i \in 1..n : r[i] = t[i]
  BY <1>4, <1>5, <1>7
<1>10. ASSUME NEW i \in (n + 1)..l PROVE r[i] = s[i]
  <2>1. i \in Nat /\ i \in 1..(n + Len(x)) /\ ~(i <= n) /\ i - n \in 1..(l - (n + 1) + 1)
    BY <1>4, <1>5
  <2>2. r[i] = x[i - n]
    BY <1>7, <2>1
  <2>3. x[i - n] = s[n + 1 + (i - n) - 1]
    BY <1>3, <2>1
  <2>4. n + 1 + (i - n) - 1 = i
    BY <1>4, <2>1
  <2>5. QED
    BY <2>2, <2>3, <2>4
<1>11. QED
  BY <1>0, <1>7, <1>8, <1>9, <1>10 DEF l, NewHead

\* Pages of a row that leave it for the tree and the pool.
LEMMA Exchange ==
  ASSUME NEW g \in Nat, NEW f \in Nat, NEW a \in Nat, NEW m \in Nat, NEW x \in Nat, NEW k \in Nat,
         g + a = f + m
  PROVE  g + (x + a) + k = f + x + (k + m)
OBVIOUS

Moved(u, m, a, b, d) ==
  /\ Len(row'[u]) = Len(row[u]) /\ handle'[u] = handle[u] + m
  /\ FullHeld(tree') + a = FullHeld(tree) + m /\ Held(tree') + b = Held(tree) + m
  /\ SwaHeld(tree') + d + Cardinality(ownSwa'[u]) = SwaHeld(tree) + Cardinality(ownSwa[u])
  /\ free'.full = free.full + a /\ free'.comp = free.comp + b /\ free'.swa = free.swa + d

LEMMA AccountMoved ==
  ASSUME TypeInv, RequestInv, PagesAreAccounted, TypeInv', RequestInv',
         Shape(Contents, tree), Shape(Contents, tree'), NEW u \in Requests, Others(u),
         RowInv(u), RowInv(u)', NEW m \in Nat, NEW a \in Nat, NEW b \in Nat, NEW d \in Nat,
         Moved(u, m, a, b, d)
  PROVE  PagesAreAccounted'
<1>1. OwnPages(u) = (handle[u] + 1)..Len(row[u]) /\ handle[u] <= Len(row[u])
  BY RowIs
<1>2. OwnPages(u)' = (handle'[u] + 1)..Len(row'[u]) /\ handle'[u] <= Len(row'[u])
  <2>1. (TypeInv /\ RowInv(u) =>
            OwnPages(u) = (handle[u] + 1)..Len(row[u]) /\ handle[u] <= Len(row[u]))'
    BY RowIs, PTL
  <2>2. QED
    BY <2>1
<1> DEFINE w == Len(row[u])
           e == handle[u]
           c == Cardinality(OwnPages(u))
           k == Cardinality(OwnPages(u)')
           f == FullHeld(tree)
           g == FullHeld(tree')
           h == Held(tree)
           j == Held(tree')
           x == free.full
           y == free.comp
           z == free.swa
           s == SwaHeld(tree)
           q == SwaHeld(tree')
           o == Cardinality(ownSwa[u])
           p == Cardinality(ownSwa'[u])
<1>3. w \in Nat /\ e \in Nat /\ e + m <= w /\ e <= w /\ e + m \in Nat
  <2>1. w \in Nat /\ e \in Nat
    BY TypesAre
  <2>2. QED
    BY <1>1, <1>2, <2>1 DEF Moved
<1>4. c = w - e
  <2> HIDE DEF w, e
  <2>1. c = Cardinality((e + 1)..w)
    BY <1>1 DEF w, e
  <2>2. QED
    BY <1>3, <2>1, Interval
<1>5. k = w - (e + m)
  <2>1. k = Cardinality((e + m + 1)..w)
    BY <1>2 DEF Moved
  <2> DEFINE t == e + m
  <2>2. t \in Nat /\ t <= w /\ k = Cardinality((t + 1)..w)
    BY <1>3, <2>1
  <2> HIDE DEF w, e, t
  <2>3. k = w - t
    BY <1>3, <2>2, Interval
  <2>4. QED
    BY <2>3 DEF t
<1>6. f \in Nat /\ g \in Nat /\ h \in Nat /\ j \in Nat /\ s \in Nat /\ q \in Nat
  BY HeldAreNumbers
<1>7. x \in Nat /\ y \in Nat /\ z \in Nat
  BY PoolsAre DEF TypeInv
<1>8. o \in Nat /\ p \in Nat
  <2>1. OwnersFacts /\ OwnersFacts'
    BY OwnersState, OwnersNext
  <2>2. ownSwa[u] \subseteq 1..NumPages /\ ownSwa'[u] \subseteq 1..NumPages /\ IsFiniteSet(1..NumPages)
    BY <2>1 DEF OwnersFacts
  <2>3. IsFiniteSet(ownSwa[u]) /\ IsFiniteSet(ownSwa'[u])
    BY <2>2, FS_Subset
  <2>4. QED
    BY <2>3, FS_CardinalityType
<1>9. /\ g + a = f + m /\ j + b = h + m /\ q + d + p = s + o
      /\ free'.full = x + a /\ free'.comp = y + b /\ free'.swa = z + d
  BY DEF Moved
<1> HIDE DEF w, e, c, k, f, g, h, j, x, y, z, s, q, o, p
<1>a. c = k + m /\ c \in Nat /\ k \in Nat
  BY <1>3, <1>4, <1>5
<1>10. g + free'.full + k = f + x + c
  <2>1. g + (x + a) + k = f + x + (k + m)
    BY <1>a, <1>6, <1>7, <1>9, Exchange
  <2>2. QED
    BY <1>a, <1>9, <2>1
<1>11. j + free'.comp + k = h + y + c
  <2>1. j + (y + b) + k = h + y + (k + m)
    BY <1>a, <1>6, <1>7, <1>9, Exchange
  <2>2. QED
    BY <1>a, <1>9, <2>1
<1>12. q + free'.swa + p = s + z + o
  <2>1. q + d + p = s + o /\ free'.swa = z + d
    BY <1>9
  <2>2. q \in Nat /\ p \in Nat /\ s \in Nat /\ o \in Nat /\ z \in Nat /\ d \in Nat
    BY <1>6, <1>7, <1>8
  <2>3. q + (z + d) + p = s + z + o
    <3>1. d + q + p = s + o
      BY <2>1, <2>2
    <3>2. (q + d) + (z + p) + 0 = s + z + o
      BY <2>1, <2>2
    <3>3. QED
      BY <2>2, <3>2
  <2>4. QED
    BY <2>1, <2>3
<1>13. QED
  BY <1>10, <1>11, <1>12, AccountOne DEF c, k, f, g, h, j, x, y, z, s, q, o, p

\* After its prompt a request is cached and takes the indices of the tree.
FilesPrompt(u, r, n) ==
  /\ r = CacheReq(u, host[u] + 1, FALSE) /\ n = Len(r.path)
  /\ host' = [host EXCEPT ![u] = @ + 1]
  /\ tree' = r.tree /\ free' = Plus(free, r.freed)
  /\ handle' = [handle EXCEPT ![u] = n]
  /\ row' = [row EXCEPT ![u] = MatchedRow(r.tree, r.path) \o SubSeq(row[u], n + 1, Len(row[u]))]
  /\ ownSwa' = [ownSwa EXCEPT ![u] = @ \ 1..n]
  /\ UNCHANGED <<evicted, stage, cached>>

\* What the tree takes over: the path up to the last full page of what is known.
LEMMA FilesIs ==
  ASSUME TypeInv, RequestInv, NEW u \in Resident, DOMAIN batch = {},
         NEW r, NEW n, FilesPrompt(u, r, n)
  PROVE  /\ handle[u] * PageSize <= host[u] + 1
         /\ n = FiledLen(u, host[u] + 1) /\ r.path = Path(u, n)
         /\ Path(u, n) \in Seq(Contents) /\ Len(Path(u, n)) = n
         /\ n \in 0..Len(kind[u].text) /\ n \in 0..Len(row[u]) /\ handle[u] <= n
         /\ n <= cached[u] \div PageSize /\ n <= (host[u] + 1) \div PageSize
<1> DEFINE len == host[u] + 1
           path == Path(u, FiledLen(u, len))
<1>1. TypeInv
  OBVIOUS
<1>2. u \in Requests /\ RowInv(u)
  BY DEF RequestInv, Resident
<1>5. DOMAIN batch = {}
  OBVIOUS
<1>7. /\ host[u] \in Nat /\ handle[u] \in Nat /\ cached[u] \in Nat /\ Len(row[u]) \in Nat
      /\ PageSize \in Nat \ {0} /\ len \in Nat
  BY <1>1, <1>2, TypesAre, CacheAssumption
<1>8. handle[u] * PageSize <= len
  <2> DEFINE x == handle[u] * PageSize
  <2>1. x \in Nat /\ x <= host[u]
    BY <1>2, <1>5, <1>7, Products DEF RowInv
  <2> HIDE DEF x
  <2>2. x <= host[u] + 1
    BY <1>7, <2>1
  <2>3. QED
    BY <2>2 DEF x
<1>9. /\ FiledLen(u, len) \in 0..Len(kind[u].text) /\ FiledLen(u, len) \in 0..Len(row[u])
      /\ handle[u] <= FiledLen(u, len) /\ FiledLen(u, len) <= cached[u] \div PageSize
      /\ FiledLen(u, len) <= len \div PageSize
  <2> HIDE DEF len
  <2>1. QED
    BY <1>1, <1>2, <1>7, <1>8, FiledLenIs
<1>10. path \in Seq(Contents) /\ Len(path) = FiledLen(u, len)
  <2> HIDE DEF len
  <2>1. QED
    BY <1>1, <1>2, <1>9, PathIs
<1>11. r.path = path
  BY DEF CacheReq, FiledLen, FilesPrompt
<1>12. n = FiledLen(u, len) /\ path = Path(u, n)
  BY <1>10, <1>11 DEF FilesPrompt
<1>13. QED
  BY <1>8, <1>9, <1>10, <1>11, <1>12 DEF len, path

LEMMA PromptKeeps ==
  ASSUME IInv, NEW u \in Requests, Processing, u \in DOMAIN Head(flight), RowDone(u),
         stage[u] = "decode", NEW r, NEW n, FilesPrompt(u, r, n)
  PROVE  IInv'
<1> DEFINE len == host[u] + 1
           path == Path(u, FiledLen(u, len))
<1>1. /\ TypeInv /\ BatchInv /\ TreeInv /\ RequestInv /\ FlightInv /\ PagesAreAccounted
      /\ SoundTree(Contents, tree, Holders)
  BY DEF IInv, TreeInv
<1>2. u \in Resident /\ RowInv(u)
  BY <1>1 DEF Resident, RequestInv
<1>3. UNCHANGED <<kind, batch>> /\ flight' = FlightWithout(u)
      /\ pc' \in {"schedule", "process"}
  BY DEF RowDone
<1>4. flight' \in Seq(Forwards) /\ FlightFrom(u)
  BY <1>1, <1>3, RowDoneIs
<1>5. DOMAIN batch = {}
  BY <1>1 DEF Processing, BatchInv
<1>6. /\ ownSwa \in [Requests -> SUBSET Nat] /\ evicted \in [Requests -> Nat] /\ free \in Pools
      /\ cached \in [Requests -> Nat] /\ host \in [Requests -> Nat] /\ handle \in [Requests -> Nat]
      /\ stage \in [Requests -> Stages] /\ row \in [Requests -> Seq(Sources)]
  BY <1>1 DEF TypeInv
<1>7. /\ host[u] \in Nat /\ handle[u] \in Nat /\ cached[u] \in Nat /\ Len(row[u]) \in Nat
      /\ PageSize \in Nat \ {0} /\ len \in Nat
  BY <1>1, TypesAre, CacheAssumption
<1>8. /\ handle[u] * PageSize <= len /\ n = FiledLen(u, len) /\ path = Path(u, n) /\ r.path = path
      /\ path \in Seq(Contents) /\ Len(path) = n
      /\ n \in 0..Len(kind[u].text) /\ n \in 0..Len(row[u]) /\ handle[u] <= n
      /\ n <= cached[u] \div PageSize /\ n <= len \div PageSize
  BY <1>1, <1>2, <1>5, FilesIs
<1>9. /\ n \in 0..Len(row[u]) /\ handle[u] <= n
      /\ n <= cached[u] \div PageSize /\ n <= len \div PageSize
  BY <1>8
<1>10. path \in Seq(Contents) /\ Len(path) = n
  BY <1>8
<1>11. r.path = path
  BY <1>8
<1>12. n = FiledLen(u, len) /\ path = Path(u, n)
  BY <1>8
<1>13. n \in 0..Len(row[u]) /\ n \in Nat /\ handle[u] <= n /\ n <= Len(row[u])
  <2>1. n \in 0..Len(row[u]) /\ handle[u] <= n
    BY <1>9
  <2>2. QED
    BY <1>7, <2>1
<1>14. /\ stage'[u] = "decode" /\ cached'[u] = cached[u] /\ host'[u] = len /\ handle'[u] = n
       /\ evicted'[u] = evicted[u] /\ ownSwa'[u] = ownSwa[u] \ (1..n)
       /\ row'[u] = MatchedRow(r.tree, path) \o SubSeq(row[u], n + 1, Len(row[u]))
  BY <1>6, <1>11 DEF FilesPrompt
<1>15. /\ row'[u] \in Seq(Sources) /\ Len(row'[u]) = Len(row[u])
       /\ \A i \in 1..n : row'[u][i] # "own"
       /\ \A i \in (n + 1)..Len(row[u]) : row'[u][i] = row[u][i]
  <2> DEFINE t == MatchedRow(r.tree, path)
             q == row'[u]
  <2>1. t \in Seq(Sources) /\ Len(t) = n /\ \A i \in 1..n : t[i] # "own"
    <3> HIDE DEF path
    <3>1. Len(path) = n
      BY <1>10, <1>12
    <3>2. QED
      BY <1>10, <3>1, MatchedRowIs
  <2>2. q = t \o SubSeq(row[u], n + 1, Len(row[u]))
    BY <1>14
  <2>3. row[u] \in Seq(Sources)
    BY <1>6
  <2> HIDE DEF t, q
  <2>4. /\ q \in Seq(Sources) /\ Len(q) = Len(row[u])
        /\ \A i \in 1..n : q[i] = t[i]
        /\ \A i \in (n + 1)..Len(row[u]) : q[i] = row[u][i]
    <3>1. Spliced(q, row[u], n, t)
      BY <1>9, <2>1, <2>2, <2>3 DEF Spliced
    <3>2. NewHead(q, row[u], n, t)
      BY <3>1, NewRow
    <3>3. QED
      BY <3>2 DEF NewHead
  <2>5. QED
    BY <2>1, <2>4 DEF q
<1> HIDE DEF path, len
<1>16. Others(u)
  BY <1>3, <1>6 DEF Others, Alike, FilesPrompt
<1>17. u \in Resident' /\ HandlePath(u)' = path
  <2>1. u \in Resident'
    BY <1>14 DEF Resident
  <2>2. kind' = kind
    BY <1>3
  <2>3. QED
    BY <1>12, <1>14, <2>1, <2>2 DEF HandlePath, Path
<1>18. DOMAIN Holders' = DOMAIN Holders /\ Holders'[u] = path
       /\ \A v \in DOMAIN Holders \ {u} : Holders'[v] = Holders[v]
  <2>1. \A v \in Requests : v # u => (v \in Resident' <=> v \in Resident) /\ HandlePath(v)' = HandlePath(v)
    BY <1>16, AlikeIs DEF Others
  <2>2. Resident' = Resident
    BY <1>2, <1>17, <2>1 DEF Resident
  <2>3. DOMAIN Holders = Resident /\ \A v \in Resident : Holders[v] = HandlePath(v)
    BY DEF Holders
  <2>4. DOMAIN Holders' = Resident' /\ \A v \in Resident' : Holders'[v] = HandlePath(v)'
    BY DEF Holders
  <2>5. \A v \in Resident : v \in Requests
    BY DEF Resident
  <2>6. QED
    BY <1>2, <1>17, <2>1, <2>2, <2>3, <2>4, <2>5
<1>19. Handed(Holders', u, path, FALSE)
  BY <1>18 DEF Handed
<1>20. path = Path(u, FiledLen(u, len)) /\ r = CacheReq(u, len, FALSE) /\ FALSE \in BOOLEAN
  BY <1>12 DEF len, FilesPrompt
<1>21. SoundTree(Contents, tree', Holders')
  <2>1. SoundTree(Contents, r.tree, Holders')
    BY <1>1, <1>2, <1>7, <1>8, <1>19, <1>20, CacheReqIsSound
  <2>2. QED
    BY <2>1 DEF FilesPrompt
<1>22. /\ r.freed \in Pools
       /\ FullHeld(r.tree) + r.freed.full = FullHeld(tree) + (n - handle[u])
       /\ Held(r.tree) + r.freed.comp = Held(tree) + (n - handle[u])
       /\ SwaHeld(r.tree) + r.freed.swa + Cardinality(ownSwa'[u]) = SwaHeld(tree) + Cardinality(ownSwa[u])
  <2>a. /\ TypeInv /\ TreeInv /\ RequestInv /\ u \in Resident
        /\ len \in Nat /\ handle[u] * PageSize <= len /\ FALSE \in BOOLEAN
    BY <1>1, <1>2, <1>7, <1>8
  <2>b. \A q : q = CacheReq(u, len, FALSE) =>
          /\ q.freed \in Pools
          /\ FullHeld(q.tree) + q.freed.full = FullHeld(tree) + GivenUp(u, len, FALSE)
          /\ Held(q.tree) + q.freed.comp = Held(tree) + GivenUp(u, len, FALSE)
          /\ SwaHeld(q.tree) + q.freed.swa + Cardinality(SwaLeft(u, len, FALSE))
                = SwaHeld(tree) + Cardinality(ownSwa[u])
    <3>1. path = Path(u, FiledLen(u, len))
      BY <1>20
    <3>2. QED
      BY <2>a, <1>19, <3>1, CacheReqCounts
  <2>1. /\ r.freed \in Pools
        /\ FullHeld(r.tree) + r.freed.full = FullHeld(tree) + GivenUp(u, len, FALSE)
        /\ Held(r.tree) + r.freed.comp = Held(tree) + GivenUp(u, len, FALSE)
        /\ SwaHeld(r.tree) + r.freed.swa + Cardinality(SwaLeft(u, len, FALSE))
              = SwaHeld(tree) + Cardinality(ownSwa[u])
    <3>1. r = CacheReq(u, len, FALSE)
      BY <1>20
    <3>2. QED
      BY <2>b, <3>1
  <2>2. GivenUp(u, len, FALSE) = n - handle[u]
    BY <1>12 DEF GivenUp
  <2>3. SwaLeft(u, len, FALSE) = ownSwa'[u]
    BY <1>12, <1>14 DEF SwaLeft
  <2>4. QED
    BY <2>1, <2>2, <2>3
<1>23. /\ free'.full = free.full + r.freed.full /\ free'.comp = free.comp + r.freed.comp
       /\ free'.swa = free.swa + r.freed.swa /\ free' \in Pools
  BY <1>6, <1>22, PlusIs DEF FilesPrompt
<1>24. TypeInv'
  <2>1. ownSwa[u] \ (1..n) \in SUBSET Nat
    BY <1>6
  <2>2. row' \in [Requests -> Seq(Sources)]
    <3>1. row' = [row EXCEPT ![u] = row'[u]]
      BY <1>6, <1>14 DEF FilesPrompt
    <3>2. QED
      BY <1>6, <1>15, <3>1
  <2>3. ownSwa' \in [Requests -> SUBSET Nat]
    BY <1>6, <2>1 DEF FilesPrompt
  <2>4. host' \in [Requests -> Nat] /\ handle' \in [Requests -> Nat]
    <3>1. host' = [host EXCEPT ![u] = host[u] + 1] /\ handle' = [handle EXCEPT ![u] = n]
      BY DEF FilesPrompt
    <3>2. host[u] + 1 \in Nat /\ n \in Nat
      BY <1>7, <1>13
    <3>3. QED
      BY <1>6, <3>1, <3>2
  <2>5. UNCHANGED <<evicted, stage, cached>>
    BY DEF FilesPrompt
  <2>6. QED
    BY <1>1, <1>3, <1>4, <1>23, <2>2, <2>3, <2>4, <2>5 DEF TypeInv
<1>25. RowInv(u)'
  <2>1. Len(row'[u]) = DivCeil(cached'[u], PageSize)
    BY <1>2, <1>14, <1>15 DEF RowInv
  <2>2. \A i \in 1..Len(row'[u]) : row'[u][i] = "own" <=> i > handle'[u]
    <3>1. ASSUME NEW i \in 1..Len(row[u]) PROVE row'[u][i] = "own" <=> i > n
      <4>1. CASE i > n
        <5>1. i \in (n + 1)..Len(row[u]) /\ i > handle[u]
          BY <1>7, <1>13, <4>1
        <5>2. QED
          BY <1>2, <1>15, <4>1, <5>1 DEF RowInv
      <4>2. CASE ~(i > n)
        <5>1. i \in 1..n
          BY <1>7, <1>13, <4>2
        <5>2. QED
          BY <1>15, <4>2, <5>1
      <4>3. QED
        BY <4>1, <4>2
    <3>2. QED
      BY <1>14, <1>15, <3>1
  <2>3. ownSwa'[u] \subseteq (handle'[u] + 1)..Len(row'[u])
    <3>1. ownSwa[u] \subseteq (handle[u] + 1)..Len(row[u])
      BY <1>2 DEF RowInv
    <3>2. \A i \in ownSwa[u] \ (1..n) : i \in (n + 1)..Len(row[u])
      BY <1>7, <1>13, <3>1
    <3>3. QED
      BY <1>14, <1>15, <3>2
  <2>4. handle'[u] * PageSize <= cached'[u] /\ handle'[u] * PageSize <= host'[u]
    <3>1. n <= cached[u] \div PageSize /\ n <= len \div PageSize
      BY <1>9, <1>12
    <3>2. n * PageSize <= cached[u] /\ n * PageSize <= len
      BY <1>7, <1>13, <3>1, FloorMost
    <3>3. QED
      BY <1>14, <3>2
  <2>5. cached'[u] < kind'[u].input + kind'[u].output
    BY <1>2, <1>3, <1>14 DEF RowInv
  <2>6. evicted'[u] * PageSize <= cached'[u]
    BY <1>2, <1>14 DEF RowInv
  <2>7. \A i \in ownSwa'[u] : i > evicted'[u]
    BY <1>2, <1>14 DEF RowInv
  <2>8. QED
    BY <2>1, <2>2, <2>3, <2>4, <2>5, <2>6, <2>7 DEF RowInv
<1>26. RequestInv'
  BY <1>1, <1>16, <1>17, <1>25, RequestsKept
<1>27. BatchInv'
  BY <1>3, <1>5 DEF BatchInv
<1>28. FlightInv'
  <2>1. ASSUME NEW j \in DOMAIN flight, NEW s, u \in DOMAIN flight[j], s = flight[j][u]
        PROVE  FlightRow(s, u)'
    <3>1. FlightRow(s, u)
      BY <1>1, <2>1 DEF FlightInv
    <3>2. QED
      BY <1>14, <1>17, <3>1 DEF FlightRow
  <2>2. QED
    BY <1>1, <1>4, <1>16, <2>1, FlightKept
<1>29. PagesAreAccounted'
  <2> DEFINE m == n - handle[u]
             a == r.freed.full
             b == r.freed.comp
             d == r.freed.swa
  <2>1. Shape(Contents, tree) /\ Shape(Contents, tree') /\ RowInv(u) /\ RowInv(u)'
    BY <1>1, <1>2, <1>21, <1>25 DEF SoundTree
  <2>2. Len(row'[u]) = Len(row[u])
    BY <1>15
  <2>3. m \in Nat /\ handle'[u] = handle[u] + m
    BY <1>7, <1>13, <1>14
  <2>4. a \in Nat /\ b \in Nat /\ d \in Nat
    BY <1>22, PoolsAre
  <2>5. /\ FullHeld(tree') + a = FullHeld(tree) + m /\ Held(tree') + b = Held(tree) + m
        /\ SwaHeld(tree') + d + Cardinality(ownSwa'[u]) = SwaHeld(tree) + Cardinality(ownSwa[u])
        /\ free'.full = free.full + a /\ free'.comp = free.comp + b /\ free'.swa = free.swa + d
    <3>1. tree' = r.tree
      BY DEF FilesPrompt
    <3>2. QED
      BY <1>22, <1>23, <3>1
  <2>6. Moved(u, m, a, b, d)
    BY <2>2, <2>3, <2>5 DEF Moved
  <2> HIDE DEF m, a, b, d
  <2>7. QED
    BY <1>1, <1>16, <1>24, <1>26, <2>1, <2>3, <2>4, <2>6, AccountMoved
<1>30. QED
  BY <1>21, <1>24, <1>26, <1>27, <1>28, <1>29 DEF IInv, TreeInv

LEMMA CommitTokenKeeps ==
  ASSUME IInv, NEW u \in Requests, CommitToken(u)
  PROVE  IInv'
<1> DEFINE r == CacheReq(u, host[u] + 1, FALSE)
           n == Len(r.path)
<1>1. /\ Processing /\ u \in DOMAIN Head(flight) /\ RowDone(u) /\ stage[u] = "decode"
      /\ host' = [host EXCEPT ![u] = @ + 1] /\ UNCHANGED <<stage, cached>>
      /\ IF Head(flight)[u].kind = "prompt"
           THEN /\ tree' = r.tree /\ free' = Plus(free, r.freed)
                /\ handle' = [handle EXCEPT ![u] = n]
                /\ row' = [row EXCEPT ![u] = MatchedRow(r.tree, r.path) \o SubSeq(row[u], n + 1, Len(row[u]))]
                /\ ownSwa' = [ownSwa EXCEPT ![u] = @ \ 1..n]
                /\ UNCHANGED evicted
           ELSE /\ ReleaseActive(u, cached[u], evicted[u], TRUE)
                /\ UNCHANGED <<tree, handle, row>>
  BY DEF CommitToken
<1>2. r = CacheReq(u, host[u] + 1, FALSE) /\ n = Len(r.path)
  OBVIOUS
<1> HIDE DEF r, n
<1>3. CASE Head(flight)[u].kind = "prompt"
  <2>1. /\ tree' = r.tree /\ free' = Plus(free, r.freed)
        /\ handle' = [handle EXCEPT ![u] = n]
        /\ row' = [row EXCEPT ![u] = MatchedRow(r.tree, r.path) \o SubSeq(row[u], n + 1, Len(row[u]))]
        /\ ownSwa' = [ownSwa EXCEPT ![u] = @ \ 1..n]
        /\ UNCHANGED <<evicted, stage, cached>>
    BY <1>1, <1>3
  <2>2. FilesPrompt(u, r, n)
    BY <1>1, <1>2, <2>1 DEF FilesPrompt
  <2>3. QED
    BY <1>1, <2>2, PromptKeeps
<1>4. CASE Head(flight)[u].kind # "prompt"
  <2>1. ReleaseActive(u, cached[u], evicted[u], TRUE) /\ UNCHANGED <<tree, stage, cached, handle, row>>
    BY <1>1, <1>4
  <2>2. TypeInv /\ RequestInv /\ u \in Resident
    BY <1>1 DEF IInv, Resident
  <2>3. RowInv(u) /\ cached[u] \in Nat /\ evicted[u] \in Nat /\ host \in [Requests -> Nat] /\ host[u] \in Nat
    BY <2>2 DEF RequestInv, TypeInv
  <2>4. /\ cached[u] <= cached[u] /\ evicted[u] * PageSize <= cached[u]
        /\ \A i \in ownSwa[u] : i > evicted[u]
    BY <2>3 DEF RowInv
  <2>5. host' \in [Requests -> Nat] /\ host'[u] >= host[u] /\ \A v \in Requests : v # u => host'[v] = host[v]
    BY <1>1, <2>3
  <2>6. TRUE \in BOOLEAN
    OBVIOUS
  <2>7. QED
    BY <1>1, <2>1, <2>2, <2>3, <2>4, <2>5, <2>6, ReleaseActiveKeeps
<1>5. QED
  BY <1>3, <1>4

-------------------------------------------------------------------------------
(* An abort.                                                                  *)

\* Only the stage of a request changes, and it keeps what it has.
LEMMA StageOnlyKeeps ==
  ASSUME IInv, NEW u \in Requests, DOMAIN batch = {},
         UNCHANGED <<pc, tree, free, kind, cached, host, handle, evicted, row, ownSwa, batch, flight>>,
         NEW x \in Stages, stage' = [stage EXCEPT ![u] = x], u \in Resident' <=> u \in Resident
  PROVE  IInv'
<1>1. /\ TypeInv /\ BatchInv /\ TreeInv /\ RequestInv /\ FlightInv /\ PagesAreAccounted
      /\ SoundTree(Contents, tree, Holders)
  BY DEF IInv, TreeInv
<1>2. stage \in [Requests -> Stages]
  BY <1>1 DEF TypeInv
<1>3. stage' \in [Requests -> Stages] /\ \A v \in Requests : v # u => stage'[v] = stage[v]
  BY <1>2
<1>4. TypeInv'
  BY <1>1, <1>3 DEF TypeInv
<1>5. Others(u)
  BY <1>3 DEF Others, Alike
<1>6. u \in Resident' => RowInv(u)'
  <2>1. u \in Resident => RowInv(u)
    BY <1>1 DEF RequestInv
  <2>2. RowInv(u) => RowInv(u)'
    BY DEF RowInv
  <2>3. QED
    BY <2>1, <2>2
<1>7. u \notin Resident' => Empty(u)'
  <2>1. u \notin Resident => Empty(u)
    BY <1>1 DEF RequestInv
  <2>2. Empty(u) => Empty(u)'
    BY DEF Empty
  <2>3. QED
    BY <2>1, <2>2
<1>8. RequestInv'
  BY <1>1, <1>5, <1>6, <1>7, RequestsKept
<1>9. TreeInv'
  <2>1. HandlePath(u)' = HandlePath(u)
    BY DEF HandlePath, Path
  <2>2. Holders' = Holders
    BY <1>5, <2>1, HoldersKept
  <2>3. QED
    BY <1>1, <2>2 DEF TreeInv
<1>10. BatchInv'
  BY DEF BatchInv
<1>11. FlightInv'
  <2>1. ASSUME NEW j \in DOMAIN flight, NEW r, u \in DOMAIN flight[j], r = flight[j][u]
        PROVE  FlightRow(r, u)'
    <3>1. FlightRow(r, u)
      BY <1>1, <2>1 DEF FlightInv
    <3>2. QED
      BY <3>1 DEF FlightRow
  <2>2. QED
    BY <1>1, <1>5, <2>1, FlightStays
<1>12. PagesAreAccounted'
  <2>1. Shape(Contents, tree) /\ Shape(Contents, tree')
    BY <1>1 DEF SoundTree
  <2>2. OwnPages(u)' = OwnPages(u) /\ SameMarks(tree', tree)
    BY DEF OwnPages, SameMarks
  <2>3. QED
    BY <1>1, <1>4, <1>5, <1>8, <2>1, <2>2, AccountSame
<1>13. QED
  BY <1>4, <1>8, <1>9, <1>10, <1>11, <1>12 DEF IInv

LEMMA AbortKeeps ==
  ASSUME IInv, NEW u \in Requests, Abort(u)
  PROVE  IInv'
<1>1. /\ pc = "schedule" /\ DOMAIN batch = {} /\ stage[u] \in {"waiting", "prefill", "decode"}
      /\ IF stage[u] = "waiting"
           THEN /\ stage' = [stage EXCEPT ![u] = "gone"]
                /\ UNCHANGED <<tree, free, cached, host, handle, evicted, row, ownSwa>>
         ELSE IF Issued(u)
           THEN /\ stage' = [stage EXCEPT ![u] = "ended"]
                /\ UNCHANGED <<tree, free, cached, host, handle, evicted, row, ownSwa>>
         ELSE Retire(u, host[u])
      /\ UNCHANGED <<pc, kind, batch, flight>>
  BY DEF Abort
<1>2. TypeInv /\ RequestInv
  BY DEF IInv
<1>3. stage \in [Requests -> Stages]
  BY <1>2 DEF TypeInv
<1>4. CASE stage[u] = "waiting"
  <2>1. /\ stage' = [stage EXCEPT ![u] = "gone"]
        /\ UNCHANGED <<pc, tree, free, kind, cached, host, handle, evicted, row, ownSwa, batch, flight>>
    BY <1>1, <1>4
  <2>2. "gone" \in Stages /\ u \notin Resident /\ u \notin Resident'
    BY <1>3, <1>4, <2>1 DEF Stages, Resident
  <2>3. QED
    BY <1>1, <2>1, <2>2, StageOnlyKeeps
<1>5. CASE stage[u] # "waiting" /\ Issued(u)
  <2>1. /\ stage' = [stage EXCEPT ![u] = "ended"]
        /\ UNCHANGED <<pc, tree, free, kind, cached, host, handle, evicted, row, ownSwa, batch, flight>>
    BY <1>1, <1>5
  <2>2. "ended" \in Stages /\ u \in Resident /\ u \in Resident'
    BY <1>1, <1>3, <1>5, <2>1 DEF Stages, Resident
  <2>3. QED
    BY <1>1, <2>1, <2>2, StageOnlyKeeps
<1>6. CASE stage[u] # "waiting" /\ ~Issued(u)
  <2>1. Retire(u, host[u]) /\ UNCHANGED <<pc, kind, batch, flight>>
    BY <1>1, <1>6
  <2>2. u \in Resident /\ RowInv(u) /\ host[u] \in Nat
    BY <1>1, <1>2, <1>6 DEF Resident, RequestInv, TypeInv
  <2>3. handle[u] * PageSize <= host[u]
    BY <1>1, <2>2 DEF RowInv
  <2>4. flight' \in Seq(Forwards)
    BY <1>2, <2>1 DEF TypeInv
  <2>5. \A j \in DOMAIN flight : u \notin DOMAIN flight[j]
    BY <1>6 DEF Issued
  <2>6. FlightFrom(u)
    BY <2>1, <2>5 DEF FlightFrom
  <2>7. pc' \in {"schedule", "process"}
    BY <1>1, <2>1
  <2>8. QED
    BY <1>1, <2>1, <2>2, <2>3, <2>4, <2>5, <2>6, <2>7, RetireKeeps
<1>7. QED
  BY <1>4, <1>5, <1>6

-------------------------------------------------------------------------------
(* A forward is issued: its requests take their pages.                        *)

\* A row with entries of its own at its end.
EndsOwn(r, s, n) ==
  /\ r \in Seq(Sources) /\ Len(r) = n
  /\ \A i \in 1..Len(s) : r[i] = s[i]
  /\ \A i \in (Len(s) + 1)..n : r[i] = "own"

LEMMA LongerRow ==
  ASSUME NEW s \in Seq(Sources), NEW k \in Nat, NEW t \in [1..k -> {"own"}],
         NEW r, r = s \o t, NEW n, n = Len(s) + k
  PROVE  EndsOwn(r, s, n)
<1> DEFINE l == Len(s)
<1>1. t \in Seq(Sources) /\ Len(t) = k /\ \A i \in 1..k : t[i] = "own"
  <2>1. t \in [1..k -> Sources]
    BY DEF Sources
  <2>2. t \in Seq(Sources)
    BY <2>1, SeqDef
  <2>3. DOMAIN t = 1..k /\ DOMAIN t = 1..Len(t) /\ Len(t) \in Nat
    BY <2>2, LenProperties
  <2>4. QED
    BY <2>2, <2>3
<1>2. l \in Nat
  BY LenProperties
<1>3. r = s \o t
  OBVIOUS
<1>4. /\ s \o t \in Seq(Sources) /\ Len(s \o t) = Len(s) + Len(t)
      /\ \A i \in 1..(Len(s) + Len(t)) : (s \o t)[i] = IF i <= Len(s) THEN s[i] ELSE t[i - Len(s)]
  BY <1>1, ConcatProperties
<1>5. /\ r \in Seq(Sources) /\ Len(r) = l + k
      /\ \A i \in 1..(l + k) : r[i] = IF i <= l THEN s[i] ELSE t[i - l]
  BY <1>1, <1>3, <1>4
<1> HIDE DEF l
<1>6. \A i \in 1..l : r[i] = s[i]
  BY <1>2, <1>5
<1>7. ASSUME NEW i \in (l + 1)..(l + k) PROVE r[i] = "own"
  <2>1. i \in 1..(l + k) /\ ~(i <= l) /\ i - l \in 1..k
    BY <1>2
  <2>2. r[i] = t[i - l]
    BY <1>5, <2>1
  <2>3. QED
    BY <1>1, <2>1, <2>2
<1>8. QED
  BY <1>2, <1>5, <1>6, <1>7 DEF l, EndsOwn

\* What happens to a request of the batch.
Extended(u) ==
  /\ kind' = kind /\ cached'[u] = batch[u]
  /\ host'[u] = (IF stage[u] = "prefill" THEN batch[u] ELSE host[u])
  /\ stage[u] \in {"prefill", "decode"} /\ stage'[u] \in {"prefill", "decode"}
  /\ handle'[u] = handle[u] /\ evicted'[u] = evicted[u]
  /\ row'[u] \in Seq(Sources) /\ Len(row'[u]) = DivCeil(batch[u], PageSize)
  /\ Len(row[u]) <= Len(row'[u]) /\ Len(row'[u]) \in Nat
  /\ \A i \in 1..Len(row[u]) : row'[u][i] = row[u][i]
  /\ \A i \in (Len(row[u]) + 1)..Len(row'[u]) : row'[u][i] = "own"
  /\ NewPages(u) = (Len(row[u]) + 1)..Len(row'[u])
  /\ ownSwa'[u] = ownSwa[u] \cup NewPages(u)
  /\ cached[u] < batch[u] /\ batch[u] \in Nat /\ batch[u] < kind[u].input + kind[u].output

LEMMA IssueExtends ==
  ASSUME TypeInv, RequestInv, BatchInv, Issue, NEW u \in DOMAIN batch
  PROVE  u \in Requests /\ RowInv(u) /\ Extended(u)
<1>1. u \in Requests /\ batch[u] \in Nat
  BY BatchIs
<1>2. /\ stage[u] \in {"prefill", "decode"} /\ cached[u] < batch[u]
      /\ batch[u] < kind[u].input + kind[u].output
  BY DEF BatchInv, BatchRow
<1>3. RowInv(u)
  BY <1>1, <1>2 DEF RequestInv, Resident
<1>4. PageSize \in Nat \ {0} /\ cached[u] \in Nat /\ row[u] \in Seq(Sources) /\ Len(row[u]) \in Nat
  BY <1>1, CacheAssumption, TypesAre
<1> DEFINE a == DivCeil(cached[u], PageSize)
           b == DivCeil(batch[u], PageSize)
<1>5. a \in Nat /\ b \in Nat /\ a <= b /\ a = Len(row[u])
  <2>1. a \in Nat /\ b \in Nat
    BY <1>1, <1>4, Ceiling
  <2>2. cached[u] <= batch[u]
    BY <1>1, <1>2, <1>4
  <2>3. a <= b
    BY <1>1, <1>4, <2>2, Ceilings
  <2>4. QED
    BY <1>3, <2>1, <2>3 DEF RowInv
<1>6. NewPages(u) = (a + 1)..b
  BY DEF NewPages
<1> HIDE DEF a, b
<1>7. Cardinality(NewPages(u)) = b - a /\ b - a \in Nat
  BY <1>5, <1>6, Interval
<1>8. /\ row'[u] = row[u] \o [i \in 1..Cardinality(NewPages(u)) |-> "own"]
      /\ ownSwa'[u] = ownSwa[u] \cup NewPages(u) /\ cached'[u] = batch[u]
      /\ host'[u] = (IF stage[u] = "prefill" THEN batch[u] ELSE host[u])
      /\ stage'[u] = (IF batch[u] >= kind[u].input THEN "decode" ELSE stage[u])
      /\ kind' = kind /\ handle' = handle /\ evicted' = evicted
  BY <1>1 DEF Issue
<1>9. /\ row'[u] \in Seq(Sources) /\ Len(row'[u]) = Len(row[u]) + (b - a)
      /\ \A i \in 1..Len(row[u]) : row'[u][i] = row[u][i]
      /\ \A i \in (Len(row[u]) + 1)..(Len(row[u]) + (b - a)) : row'[u][i] = "own"
  <2> DEFINE r == row'[u]
             k == Cardinality(NewPages(u))
             t == [i \in 1..k |-> "own"]
             s == row[u]
             n == Len(s) + k
  <2>1. r = s \o t /\ k \in Nat /\ t \in [1..k -> {"own"}] /\ s \in Seq(Sources) /\ n = Len(s) + k
    BY <1>4, <1>7, <1>8
  <2>2. n = Len(row[u]) + (b - a)
    BY <1>7
  <2> HIDE DEF r, k, t, s, n
  <2>3. EndsOwn(r, s, n)
    BY <2>1, LongerRow
  <2>4. QED
    BY <2>2, <2>3 DEF r, s, EndsOwn
<1>10. Len(row[u]) + (b - a) = b
  BY <1>5
<1>11. /\ Len(row'[u]) = b /\ Len(row[u]) <= Len(row'[u]) /\ Len(row'[u]) \in Nat
       /\ NewPages(u) = (Len(row[u]) + 1)..Len(row'[u])
  BY <1>5, <1>6, <1>9, <1>10
<1>12. stage'[u] \in {"prefill", "decode"}
  BY <1>2, <1>8
<1>13. QED
  BY <1>1, <1>2, <1>3, <1>8, <1>9, <1>10, <1>11, <1>12 DEF Extended, b

LEMMA IssueLeaves ==
  ASSUME TypeInv, Issue, NEW u \in Requests, u \notin DOMAIN batch
  PROVE  Alike(u)
BY DEF Issue, Alike

\* The request keeps its invariant, and so do its rows in flight.
LEMMA ExtendedIs ==
  ASSUME TypeInv, NEW u \in Requests, RowInv(u), Extended(u)
  PROVE  /\ RowInv(u)' /\ u \in Resident' /\ u \in Resident /\ HandlePath(u)' = HandlePath(u)
         /\ OwnPages(u)' = OwnPages(u) \cup NewPages(u)
         /\ NewPages(u) \cap OwnPages(u) = {} /\ NewPages(u) \cap ownSwa[u] = {}
         /\ \A r : FlightRow(r, u) /\ r.len \in Nat /\ r.frontier \in Nat => FlightRow(r, u)'
         /\ \A r : r.len = batch[u] /\ r.frontier = evicted[u] => FlightRow(r, u)'
<1> DEFINE l == Len(row[u])
           m == Len(row'[u])
           h == handle[u]
           n == cached[u]
           b == batch[u]
<1>1. /\ l \in Nat /\ h \in Nat /\ n \in Nat /\ b \in Nat /\ m \in Nat /\ l <= m /\ n < b
      /\ PageSize \in Nat \ {0} /\ host[u] \in Nat /\ evicted[u] \in Nat /\ ownSwa[u] \subseteq Nat
  BY TypesAre, CacheAssumption DEF Extended
<1>2. /\ h <= l /\ OwnPages(u) = (h + 1)..l /\ ownSwa[u] \subseteq (h + 1)..l
      /\ n \div PageSize <= l
  BY RowIs DEF RowInv
<1>3. u \in Resident /\ u \in Resident' /\ HandlePath(u)' = HandlePath(u)
  BY DEF Extended, Resident, HandlePath, Path
<1>4. /\ NewPages(u) = (l + 1)..m /\ ownSwa'[u] = ownSwa[u] \cup NewPages(u)
      /\ \A i \in 1..l : row'[u][i] = row[u][i]
      /\ \A i \in (l + 1)..m : row'[u][i] = "own"
      /\ row'[u] \in Seq(Sources)
  BY DEF Extended
<1> HIDE DEF l, m, h, n, b
<1>5. \A i \in 1..m : row'[u][i] = "own" <=> i > h
  <2>1. ASSUME NEW i \in 1..m PROVE row'[u][i] = "own" <=> i > h
    <3>1. CASE i <= l
      <4>1. i \in 1..l
        BY <1>1, <3>1
      <4>2. row[u][i] = "own" <=> i > h
        BY <4>1 DEF RowInv, l, h
      <4>3. QED
        BY <1>4, <4>1, <4>2
    <3>2. CASE ~(i <= l)
      <4>1. i \in (l + 1)..m /\ i > h
        BY <1>1, <1>2, <3>2
      <4>2. QED
        BY <1>4, <4>1
    <3>3. QED
      BY <3>1, <3>2
  <2>2. QED
    BY <2>1
<1>6. OwnPages(u)' = (h + 1)..m
  <2>1. DOMAIN row'[u] = 1..m
    BY <1>4, LenProperties DEF m
  <2>2. OwnPages(u)' = {i \in 1..m : row'[u][i] = "own"}
    BY <2>1 DEF OwnPages
  <2>3. OwnPages(u)' = {i \in 1..m : i > h}
    BY <1>5, <2>2
  <2>4. {i \in 1..m : i > h} = (h + 1)..m
    BY <1>1
  <2>5. QED
    BY <2>3, <2>4
<1>7. OwnPages(u)' = OwnPages(u) \cup NewPages(u)
      /\ NewPages(u) \cap OwnPages(u) = {} /\ NewPages(u) \cap ownSwa[u] = {}
  <2>1. (h + 1)..m = ((h + 1)..l) \cup ((l + 1)..m)
    BY <1>1, <1>2
  <2>2. ((l + 1)..m) \cap ((h + 1)..l) = {}
    BY <1>1
  <2>3. QED
    BY <1>2, <1>4, <1>6, <2>1, <2>2
<1>8. \A x \in Nat : x * PageSize <= n => x <= l /\ x * PageSize <= b
  <2>1. TAKE x \in Nat
  <2>2. HAVE x * PageSize <= n
  <2>3. x <= n \div PageSize /\ n \div PageSize \in Nat /\ x * PageSize \in Nat
    BY <1>1, <2>2, FloorMost, Floor, Products
  <2>4. x <= l
    BY <1>1, <1>2, <2>3
  <2> DEFINE y == x * PageSize
  <2>5. y \in Nat /\ y <= n
    BY <2>2, <2>3
  <2> HIDE DEF y
  <2>6. y <= b
    BY <1>1, <2>5
  <2>7. QED
    BY <2>4, <2>6 DEF y
<1>9. \A x \in Nat : x * PageSize <= n /\ (\A i \in ownSwa[u] : i > x) => \A i \in ownSwa'[u] : i > x
  <2>1. TAKE x \in Nat
  <2>2. HAVE x * PageSize <= n /\ (\A i \in ownSwa[u] : i > x)
  <2>3. x <= l
    BY <1>8, <2>2
  <2>4. \A i \in NewPages(u) : i > x
    BY <1>1, <1>4, <2>3
  <2>5. QED
    BY <1>4, <2>2, <2>4
<1>10. h * PageSize <= n /\ evicted[u] * PageSize <= n /\ \A i \in ownSwa[u] : i > evicted[u]
  BY DEF RowInv, h, n
<1>11. h * PageSize <= b /\ evicted[u] * PageSize <= b /\ \A i \in ownSwa'[u] : i > evicted[u]
  BY <1>1, <1>8, <1>9, <1>10
<1>12. RowInv(u)'
  <2>1. Len(row'[u]) = DivCeil(cached'[u], PageSize)
    BY DEF Extended
  <2>2. handle'[u] = h /\ cached'[u] = b /\ evicted'[u] = evicted[u] /\ kind' = kind
    BY DEF Extended, h, b
  <2>3. \A i \in 1..Len(row'[u]) : row'[u][i] = "own" <=> i > handle'[u]
    BY <1>5, <2>2 DEF m
  <2>4. ownSwa'[u] \subseteq (handle'[u] + 1)..Len(row'[u])
    <3>1. ownSwa'[u] \subseteq ((h + 1)..l) \cup ((l + 1)..m)
      BY <1>2, <1>4
    <3>2. ((h + 1)..l) \cup ((l + 1)..m) \subseteq (h + 1)..m
      BY <1>1, <1>2
    <3>3. QED
      BY <2>2, <3>1, <3>2 DEF m
  <2>5. cached'[u] < kind'[u].input + kind'[u].output
    BY DEF Extended
  <2>6. h * PageSize <= host'[u]
    <3>1. CASE stage[u] = "prefill"
      <4>1. host'[u] = b
        BY <3>1 DEF Extended, b
      <4>2. QED
        BY <1>11, <4>1
    <3>2. CASE stage[u] # "prefill"
      <4>1. host'[u] = host[u]
        BY <3>2 DEF Extended
      <4>2. h * PageSize <= host[u]
        BY <3>2 DEF RowInv, h
      <4>3. QED
        BY <4>1, <4>2
    <3>3. QED
      BY <3>1, <3>2
  <2>7. QED
    BY <1>11, <2>1, <2>2, <2>3, <2>4, <2>5, <2>6 DEF RowInv
<1>13. ASSUME NEW r, FlightRow(r, u), r.len \in Nat, r.frontier \in Nat PROVE FlightRow(r, u)'
  <2>1. r.len <= n /\ r.frontier * PageSize <= n /\ \A i \in ownSwa[u] : i > r.frontier
    BY <1>13 DEF FlightRow, n
  <2> DEFINE x == r.frontier
             y == r.len
  <2>2. x \in Nat /\ y \in Nat /\ y <= n /\ x * PageSize <= n /\ \A i \in ownSwa[u] : i > x
    BY <1>13, <2>1
  <2> HIDE DEF x, y
  <2>3. x * PageSize <= b /\ (\A i \in ownSwa'[u] : i > x)
    BY <1>8, <1>9, <2>2
  <2>4. y <= b
    BY <1>1, <2>2
  <2>5. cached'[u] = b
    BY DEF Extended, b
  <2>6. QED
    BY <1>3, <2>3, <2>4, <2>5 DEF FlightRow, x, y
<1>14. ASSUME NEW r, r.len = batch[u], r.frontier = evicted[u] PROVE FlightRow(r, u)'
  <2>1. cached'[u] = b /\ r.len = b
    BY <1>14 DEF Extended, b
  <2>2. r.len <= cached'[u]
    BY <1>1, <2>1
  <2>3. QED
    BY <1>3, <1>11, <1>14, <2>1, <2>2 DEF FlightRow
<1>15. QED
  BY <1>3, <1>7, <1>12, <1>13, <1>14

LEMMA EnoughIs ==
  ASSUME TypeInv, Enough, Needed \in Nat
  PROVE  Needed <= free.full /\ Needed <= free.comp /\ Needed <= free.swa
<1>1. free.full \in Nat /\ free.comp \in Nat /\ free.swa \in Nat
  BY PoolsAre DEF TypeInv
<1>2. Minus(Needed, free.full) = 0 /\ Minus(Needed, free.comp) = 0 /\ Minus(Needed, free.swa) = 0
  BY DEF Enough, Deficit, NoPages
<1>3. \A a, b \in Nat : Minus(a, b) = 0 => a <= b
  BY DEF Minus
<1>4. QED
  BY <1>1, <1>2, <1>3

\* Every request's pages grow by what is added.
LEMMA PairsGrow ==
  ASSUME NEW f, NEW g, NEW a, NEW S, IsFiniteSet(DOMAIN f), IsFiniteSet(S),
         DOMAIN g = DOMAIN f, DOMAIN a = DOMAIN f,
         \A v \in DOMAIN f : g[v] = f[v] \cup a[v] /\ f[v] \cap a[v] = {} /\ g[v] \subseteq S
  PROVE  /\ Cardinality(PairsOf(g)) = Cardinality(PairsOf(f)) + Cardinality(PairsOf(a))
         /\ Cardinality(PairsOf(f)) \in Nat /\ Cardinality(PairsOf(a)) \in Nat
<1>1. IsFiniteSet(PairsOf(g))
  BY PairsAreFinite
<1>2. PairsOf(g) = PairsOf(f) \cup PairsOf(a)
  <2>1. ASSUME NEW p PROVE p \in PairsOf(g) <=> p \in PairsOf(f) \cup PairsOf(a)
    <3>1. \A h : p \in PairsOf(h) <=> \E v \in DOMAIN h : p \in {v} \X h[v]
      BY DEF PairsOf
    <3>2. \A v \in DOMAIN f : {v} \X g[v] = ({v} \X f[v]) \cup ({v} \X a[v])
      OBVIOUS
    <3>3. QED
      BY <3>1, <3>2
  <2>2. QED
    BY <2>1
<1>3. PairsOf(f) \cap PairsOf(a) = {}
  <2>1. ASSUME NEW p \in PairsOf(f), p \in PairsOf(a) PROVE FALSE
    <3>1. PICK v \in DOMAIN f : p \in {v} \X f[v]
      BY DEF PairsOf
    <3>2. PICK w \in DOMAIN f : p \in {w} \X a[w]
      BY <2>1 DEF PairsOf
    <3>3. p[1] = v /\ p[1] = w /\ p[2] \in f[v] /\ p[2] \in a[w]
      BY <3>1, <3>2
    <3>4. QED
      BY <3>3
  <2>2. QED
    BY <2>1
<1>4. IsFiniteSet(PairsOf(f)) /\ IsFiniteSet(PairsOf(a))
  BY <1>1, <1>2, FS_Subset
<1>5. QED
  BY <1>2, <1>3, <1>4, DisjointSum

\* The pages that a forward adds to the requests.
Added == [u \in Requests |-> IF u \in DOMAIN batch THEN NewPages(u) ELSE {}]

LEMMA NeededIs ==
  ASSUME TypeInv
  PROVE  Needed = Cardinality(PairsOf(Added)) /\ DOMAIN Added = Requests
<1>1. DOMAIN batch \subseteq Requests
  BY BatchIs
<1>2. DOMAIN Added = Requests
  BY DEF Added
<1>3. UNION {{u} \X NewPages(u) : u \in DOMAIN batch} = UNION {{u} \X Added[u] : u \in Requests}
  <2>1. \A u \in DOMAIN batch : {u} \X NewPages(u) = {u} \X Added[u]
    BY <1>1 DEF Added
  <2>2. \A u \in Requests : u \notin DOMAIN batch => {u} \X Added[u] = {}
    <3>1. \A u \in Requests : u \notin DOMAIN batch => Added[u] = {}
      BY DEF Added
    <3>2. \A u : {u} \X {} = {}
      OBVIOUS
    <3>3. QED
      BY <3>1, <3>2
  <2>3. \A p : (\E u \in DOMAIN batch : p \in {u} \X NewPages(u)) <=> (\E u \in Requests : p \in {u} \X Added[u])
    <3>1. TAKE p
    <3>2. (\E u \in DOMAIN batch : p \in {u} \X NewPages(u)) => (\E u \in Requests : p \in {u} \X Added[u])
      BY <1>1, <2>1
    <3>3. (\E u \in Requests : p \in {u} \X Added[u]) => (\E u \in DOMAIN batch : p \in {u} \X NewPages(u))
      <4>1. ASSUME NEW u \in Requests, p \in {u} \X Added[u]
            PROVE  \E v \in DOMAIN batch : p \in {v} \X NewPages(v)
        <5>1. u \in DOMAIN batch
          BY <2>2, <4>1
        <5>2. p \in {u} \X NewPages(u)
          BY <2>1, <4>1, <5>1
        <5>3. QED
          BY <5>1, <5>2
      <4>2. QED
        BY <4>1
    <3>4. QED
      BY <3>2, <3>3
  <2>4. QED
    BY <2>3
<1>4. QED
  BY <1>2, <1>3 DEF Needed, PairsOf

LEMMA NewPagesFit ==
  ASSUME TypeInv, NEW u \in Requests, Extended(u)
  PROVE  NewPages(u) \subseteq 1..NumPages
<1> DEFINE b == batch[u]
           m == DivCeil(b, PageSize)
<1>1. /\ NewPages(u) = (Len(row[u]) + 1)..Len(row'[u]) /\ Len(row'[u]) = m /\ b \in Nat
      /\ b < kind[u].input + kind[u].output
  BY DEF Extended
<1>2. /\ PageSize \in Nat \ {0} /\ NumPages \in Nat /\ Len(row[u]) \in Nat
      /\ kind[u].input + kind[u].output <= PageSize * NumPages
      /\ kind[u].input \in Nat /\ kind[u].output \in Nat
  BY CacheAssumption, TypesAre, KindIs
<1>3. PageSize * NumPages = NumPages * PageSize /\ NumPages * PageSize \in Nat
  BY <1>2, Products
<1> HIDE DEF b
<1>4. b <= NumPages * PageSize
  <2> DEFINE x == NumPages * PageSize
             y == kind[u].input + kind[u].output
  <2>1. x \in Nat /\ y \in Nat /\ b < y /\ y <= x
    BY <1>1, <1>2, <1>3
  <2> HIDE DEF x, y
  <2>2. b <= x
    BY <1>1, <2>1
  <2>3. QED
    BY <2>2 DEF x
<1>5. m \in Nat /\ m <= NumPages
  BY <1>1, <1>2, <1>4, Ceiling, CeilingLeast
<1> HIDE DEF m
<1>6. (Len(row[u]) + 1)..m \subseteq 1..NumPages
  BY <1>2, <1>5
<1>7. QED
  BY <1>1, <1>6

LEMMA IssueKeeps ==
  ASSUME IInv, Issue
  PROVE  IInv'
<1>1. /\ TypeInv /\ BatchInv /\ TreeInv /\ RequestInv /\ FlightInv /\ PagesAreAccounted
      /\ SoundTree(Contents, tree, Holders)
  BY DEF IInv, TreeInv
<1>2. \A u \in DOMAIN batch : u \in Requests /\ RowInv(u) /\ Extended(u)
  BY <1>1, IssueExtends
<1>3. \A u \in Requests : u \notin DOMAIN batch => Alike(u)
  BY <1>1, IssueLeaves
<1>4. ASSUME NEW u \in DOMAIN batch
      PROVE  /\ RowInv(u)' /\ u \in Resident' /\ u \in Resident /\ HandlePath(u)' = HandlePath(u)
             /\ OwnPages(u)' = OwnPages(u) \cup NewPages(u)
             /\ NewPages(u) \cap OwnPages(u) = {} /\ NewPages(u) \cap ownSwa[u] = {}
             /\ \A r : FlightRow(r, u) /\ r.len \in Nat /\ r.frontier \in Nat => FlightRow(r, u)'
             /\ \A r : r.len = batch[u] /\ r.frontier = evicted[u] => FlightRow(r, u)'
  BY <1>1, <1>2, ExtendedIs
<1>5. ASSUME NEW u \in Requests
      PROVE  /\ (IF u \in Resident THEN RowInv(u) ELSE Empty(u))'
             /\ u \in Resident' <=> u \in Resident
             /\ HandlePath(u)' = HandlePath(u)
  <2>1. CASE u \in DOMAIN batch
    BY <1>4, <2>1
  <2>2. CASE u \notin DOMAIN batch
    <3>1. Alike(u)
      BY <1>3, <2>2
    <3>2. (IF u \in Resident THEN RowInv(u) ELSE Empty(u))
      BY <1>1 DEF RequestInv
    <3>3. QED
      BY <3>1, <3>2, AlikeIs
  <2>3. QED
    BY <2>1, <2>2
<1>6. RequestInv'
  BY <1>5 DEF RequestInv
<1>7. Holders' = Holders
  <2>1. Resident' = Resident
    BY <1>5 DEF Resident
  <2>2. \A v \in Resident : HandlePath(v)' = HandlePath(v)
    BY <1>5 DEF Resident
  <2>3. QED
    BY <2>1, <2>2 DEF Holders
<1>8. TreeInv'
  <2>1. tree' = tree
    BY DEF Issue
  <2>2. QED
    BY <1>1, <1>7, <2>1 DEF TreeInv
<1>9. OwnersFacts
  BY <1>1, OwnersState
<1>10. \A u \in Requests : Added[u] \subseteq 1..NumPages
  <2>1. \A u \in DOMAIN batch : Added[u] \subseteq 1..NumPages
    BY <1>1, <1>2, NewPagesFit DEF Added
  <2>2. \A u \in Requests : u \notin DOMAIN batch => Added[u] = {}
    BY DEF Added
  <2>3. QED
    BY <2>1, <2>2
<1>11. Needed = Cardinality(PairsOf(Added)) /\ DOMAIN Added = Requests /\ Needed \in Nat
  <2>1. Needed = Cardinality(PairsOf(Added)) /\ DOMAIN Added = Requests
    BY <1>1, NeededIs
  <2>2. IsFiniteSet(Requests) /\ IsFiniteSet(1..NumPages)
    BY <1>9 DEF OwnersFacts
  <2>3. Cardinality(PairsOf(Added)) \in Nat
    BY <1>10, <2>1, <2>2, PairsAreFinite
  <2>4. QED
    BY <2>1, <2>3
<1>12. /\ Needed <= free.full /\ Needed <= free.comp /\ Needed <= free.swa
       /\ free.full \in Nat /\ free.comp \in Nat /\ free.swa \in Nat
  <2>1. Enough
    BY DEF Issue
  <2>2. QED
    BY <1>1, <1>11, <2>1, EnoughIs, PoolsAre DEF TypeInv
<1>13. /\ free'.full = free.full - Needed /\ free'.comp = free.comp - Needed
       /\ free'.swa = free.swa - Needed
  BY DEF Issue
<1>14. free' \in Pools
  <2>1. free' = [full |-> free.full - Needed, comp |-> free.comp - Needed, swa |-> free.swa - Needed]
    BY DEF Issue
  <2> DEFINE x == free.full - Needed
             y == free.comp - Needed
             z == free.swa - Needed
  <2>2. x \in Nat
    BY <1>11, <1>12
  <2>3. y \in Nat
    BY <1>11, <1>12
  <2>4. z \in Nat
    BY <1>11, <1>12
  <2> HIDE DEF x, y, z
  <2>5. [full |-> x, comp |-> y, swa |-> z] \in Pools
    BY <2>2, <2>3, <2>4 DEF Pools
  <2>6. QED
    BY <2>1, <2>5 DEF x, y, z
<1>15. /\ flight' \in Seq(Forwards) /\ Len(flight') = Len(flight) + 1 /\ Len(flight) \in Nat
       /\ DOMAIN flight' = 1..(Len(flight) + 1) /\ DOMAIN flight = 1..Len(flight)
       /\ \A i \in 1..Len(flight) : flight'[i] = flight[i]
       /\ flight'[Len(flight) + 1] = [u \in DOMAIN batch |-> IssuedRow(u)]
  <2> DEFINE f == [u \in DOMAIN batch |-> IssuedRow(u)]
  <2>1. flight' = Append(flight, f)
    BY DEF Issue
  <2>2. f \in Forwards
    <3>1. \A u \in DOMAIN batch : IssuedRow(u) \in FlightRows
      <4>1. \A u \in DOMAIN batch : batch[u] \in Nat /\ evicted[u] \in Nat
        BY <1>1, <1>2, BatchIs, TypesAre
      <4>2. QED
        BY <4>1 DEF IssuedRow, FlightRows
    <3>2. f \in [DOMAIN batch -> FlightRows]
      BY <3>1
    <3>3. DOMAIN batch \in SUBSET Requests
      BY <1>2
    <3>4. QED
      BY <3>2, <3>3 DEF Forwards
  <2>3. flight \in Seq(Forwards)
    BY <1>1 DEF TypeInv
  <2> HIDE DEF f
  <2>4. /\ flight' \in Seq(Forwards) /\ Len(flight') = Len(flight) + 1
        /\ \A i \in 1..Len(flight) : flight'[i] = flight[i]
        /\ flight'[Len(flight) + 1] = f
    BY <2>1, <2>2, <2>3, AppendProperties
  <2>5. DOMAIN flight' = 1..Len(flight') /\ DOMAIN flight = 1..Len(flight) /\ Len(flight) \in Nat
    BY <2>3, <2>4, LenProperties
  <2>6. QED
    BY <2>4, <2>5 DEF f
<1>16. TypeInv'
  <2>1. /\ cached \in [Requests -> Nat] /\ host \in [Requests -> Nat] /\ stage \in [Requests -> Stages]
        /\ row \in [Requests -> Seq(Sources)] /\ ownSwa \in [Requests -> SUBSET Nat]
    BY <1>1 DEF TypeInv
  <2>2. /\ cached' = [u \in Requests |-> IF u \in DOMAIN batch THEN batch[u] ELSE cached[u]]
        /\ host' = [u \in Requests |-> IF u \in DOMAIN batch /\ stage[u] = "prefill"
                     THEN batch[u] ELSE host[u]]
        /\ stage' = [u \in Requests |-> IF u \in DOMAIN batch /\ batch[u] >= kind[u].input
                       THEN "decode" ELSE stage[u]]
        /\ DOMAIN row' = Requests /\ row' = [u \in Requests |-> row'[u]]
        /\ DOMAIN ownSwa' = Requests /\ ownSwa' = [u \in Requests |-> ownSwa'[u]]
        /\ batch' = [u \in {} |-> 0] /\ pc' \in {"schedule", "process"}
        /\ UNCHANGED <<tree, kind, handle, evicted>>
    BY DEF Issue
  <2>3. \A u \in DOMAIN batch : batch[u] \in Nat
    BY <1>1, BatchIs
  <2>4. cached' \in [Requests -> Nat] /\ host' \in [Requests -> Nat]
    BY <2>1, <2>2, <2>3
  <2>5. stage' \in [Requests -> Stages]
    BY <2>1, <2>2 DEF Stages
  <2>6. row' \in [Requests -> Seq(Sources)]
    <3>1. \A u \in Requests : row'[u] \in Seq(Sources)
      BY <1>2, <1>3, <2>1 DEF Extended, Alike
    <3>2. QED
      BY <2>2, <3>1
  <2>7. ownSwa' \in [Requests -> SUBSET Nat]
    <3>1. \A u \in Requests : ownSwa'[u] \in SUBSET Nat
      <4>1. TAKE u \in Requests
      <4>2. CASE u \in DOMAIN batch
        <5>1. ownSwa'[u] = ownSwa[u] \cup NewPages(u)
          BY <1>2, <4>2 DEF Extended
        <5>2. NewPages(u) \subseteq 1..NumPages
          BY <1>1, <1>2, <4>2, NewPagesFit
        <5>3. 1..NumPages \subseteq Nat
          BY CacheAssumption
        <5>4. QED
          BY <2>1, <5>1, <5>2, <5>3
      <4>3. CASE u \notin DOMAIN batch
        BY <1>3, <2>1, <4>3 DEF Alike
      <4>4. QED
        BY <4>2, <4>3
    <3>2. QED
      BY <2>2, <3>1
  <2>8. batch' \in Batches
    <3>1. batch' \in [{} -> Nat]
      BY <2>2
    <3>2. QED
      BY <3>1 DEF Batches
  <2>9. QED
    BY <1>1, <1>14, <1>15, <2>2, <2>4, <2>5, <2>6, <2>7, <2>8 DEF TypeInv
<1>17. BatchInv'
  <2>1. batch' = [u \in {} |-> 0]
    BY DEF Issue
  <2>2. DOMAIN batch' = {}
    BY <2>1
  <2>3. QED
    BY <2>2 DEF BatchInv
<1>18. FlightInv'
  <2>1. ASSUME NEW i \in DOMAIN flight', NEW v \in DOMAIN flight'[i], NEW r, r = flight'[i][v]
        PROVE  FlightRow(r, v)'
    <3>1. CASE i = Len(flight) + 1
      <4>1. v \in DOMAIN batch /\ r = IssuedRow(v)
        BY <1>15, <2>1, <3>1
      <4>2. r.len = batch[v] /\ r.frontier = evicted[v]
        BY <4>1 DEF IssuedRow
      <4>3. QED
        BY <1>4, <4>1, <4>2
    <3>2. CASE i # Len(flight) + 1
      <4>1. i \in DOMAIN flight /\ flight'[i] = flight[i]
        BY <1>15, <3>2
      <4>2. FlightRow(r, v)
        BY <1>1, <2>1, <4>1 DEF FlightInv
      <4>3. r.len \in Nat /\ r.frontier \in Nat /\ v \in Requests
        BY <1>1, <2>1, <4>1, ForwardIs
      <4>4. CASE v \in DOMAIN batch
        BY <1>4, <4>2, <4>3, <4>4
      <4>5. CASE v \notin DOMAIN batch
        BY <1>3, <4>2, <4>3, <4>5, AlikeIs
      <4>6. QED
        BY <4>4, <4>5
    <3>3. QED
      BY <3>1, <3>2
  <2>2. \A i \in DOMAIN flight' : \A v \in DOMAIN flight'[i] : FlightRow(flight[i][v], v)'
    BY <2>1
  <2>3. QED
    BY <2>2 DEF FlightInv
<1>19. /\ Cardinality(Owned') = Cardinality(Owned) + Needed /\ Cardinality(Owned) \in Nat
       /\ Cardinality(OwnedSwa') = Cardinality(OwnedSwa) + Needed /\ Cardinality(OwnedSwa) \in Nat
  <2> DEFINE f == Own
             g == Own'
             a == Added
             S == 1..NumPages
             s == ownSwa
             t == ownSwa'
  <2>1. OwnersFacts'
    BY <1>6, <1>16, OwnersNext
  <2>2. /\ Owned = PairsOf(f) /\ OwnedSwa = PairsOf(s) /\ DOMAIN f = Requests /\ DOMAIN s = Requests
        /\ IsFiniteSet(Requests) /\ IsFiniteSet(S)
        /\ \A v \in Requests : f[v] = OwnPages(v)
    BY <1>9 DEF OwnersFacts
  <2>3. /\ Owned' = PairsOf(g) /\ OwnedSwa' = PairsOf(t) /\ DOMAIN g = Requests /\ DOMAIN t = Requests
        /\ \A v \in Requests : g[v] = OwnPages(v)' /\ g[v] \subseteq S /\ t[v] \subseteq S
    BY <2>1 DEF OwnersFacts
  <2>4. \A v \in Requests : /\ OwnPages(v)' = OwnPages(v) \cup a[v] /\ OwnPages(v) \cap a[v] = {}
                            /\ ownSwa'[v] = ownSwa[v] \cup a[v] /\ ownSwa[v] \cap a[v] = {}
    <3>1. TAKE v \in Requests
    <3>2. CASE v \in DOMAIN batch
      <4>1. a[v] = NewPages(v)
        BY <3>2 DEF Added
      <4>2. ownSwa'[v] = ownSwa[v] \cup NewPages(v)
        BY <1>2, <3>2 DEF Extended
      <4>3. /\ OwnPages(v)' = OwnPages(v) \cup NewPages(v)
            /\ NewPages(v) \cap OwnPages(v) = {} /\ NewPages(v) \cap ownSwa[v] = {}
        BY <1>4, <3>2
      <4> HIDE DEF a
      <4>4. QED
        BY <4>1, <4>2, <4>3
    <3>3. CASE v \notin DOMAIN batch
      <4>1. a[v] = {}
        BY <3>3 DEF Added
      <4>2. OwnPages(v)' = OwnPages(v) /\ ownSwa'[v] = ownSwa[v]
        BY <1>3, <3>3, AlikeIs DEF Alike
      <4> HIDE DEF a
      <4>3. QED
        BY <4>1, <4>2
    <3>4. QED
      BY <3>2, <3>3
  <2>5. DOMAIN a = Requests /\ Needed = Cardinality(PairsOf(a))
    BY <1>11
  <2> HIDE DEF f, g, a, S
  <2>6. \A v \in Requests : /\ g[v] = f[v] \cup a[v] /\ f[v] \cap a[v] = {} /\ g[v] \subseteq S
    BY <2>2, <2>3, <2>4
  <2>7. Cardinality(PairsOf(g)) = Cardinality(PairsOf(f)) + Cardinality(PairsOf(a))
        /\ Cardinality(PairsOf(f)) \in Nat
    <3>1. DOMAIN g = DOMAIN f /\ DOMAIN a = DOMAIN f /\ IsFiniteSet(DOMAIN f) /\ IsFiniteSet(S)
      BY <2>2, <2>3, <2>5
    <3>2. \A v \in DOMAIN f : g[v] = f[v] \cup a[v] /\ f[v] \cap a[v] = {} /\ g[v] \subseteq S
      BY <2>2, <2>6
    <3> HIDE DEF s, t
    <3>3. QED
      BY <3>1, <3>2, PairsGrow
  <2>8. \A v \in Requests : /\ t[v] = s[v] \cup a[v] /\ s[v] \cap a[v] = {} /\ t[v] \subseteq S
    BY <2>3, <2>4
  <2> HIDE DEF s, t
  <2>9. Cardinality(PairsOf(t)) = Cardinality(PairsOf(s)) + Cardinality(PairsOf(a))
        /\ Cardinality(PairsOf(s)) \in Nat
    <3>1. DOMAIN t = DOMAIN s /\ DOMAIN a = DOMAIN s /\ IsFiniteSet(DOMAIN s) /\ IsFiniteSet(S)
      BY <2>2, <2>3, <2>5
    <3>2. \A v \in DOMAIN s : t[v] = s[v] \cup a[v] /\ s[v] \cap a[v] = {} /\ t[v] \subseteq S
      BY <2>2, <2>8
    <3> HIDE DEF s, t
    <3>3. QED
      BY <3>1, <3>2, PairsGrow
  <2>10. QED
    BY <2>2, <2>3, <2>5, <2>7, <2>9
<1>20. PagesAreAccounted'
  <2>1. tree' = tree
    BY DEF Issue
  <2> DEFINE f == FullHeld(tree)
             h == Held(tree)
             s == SwaHeld(tree)
             x == free.full
             y == free.comp
             z == free.swa
             o == Cardinality(Owned)
             w == Cardinality(OwnedSwa)
             k == Needed
  <2>2. f \in Nat /\ h \in Nat /\ s \in Nat
    <3>1. Shape(Contents, tree)
      BY <1>1 DEF SoundTree
    <3>2. QED
      BY <3>1, HeldAreNumbers
  <2>3. NumPages = x + f + o /\ NumPages = y + h + o /\ NumSwaPages = z + s + w
    BY <1>1, AccountIs
  <2>4. /\ x \in Nat /\ y \in Nat /\ z \in Nat /\ k \in Nat /\ o \in Nat /\ w \in Nat
    BY <1>11, <1>12, <1>19
  <2>5. /\ free'.full = x - k /\ free'.comp = y - k /\ free'.swa = z - k
        /\ Cardinality(Owned') = o + k /\ Cardinality(OwnedSwa') = w + k
        /\ FullHeld(tree') = f /\ Held(tree') = h /\ SwaHeld(tree') = s
    BY <1>13, <1>19, <2>1
  <2> HIDE DEF f, h, s, x, y, z, o, w, k
  <2>6. NumPages = (x - k) + f + (o + k)
    BY <2>2, <2>3, <2>4
  <2>7. NumPages = (y - k) + h + (o + k)
    BY <2>2, <2>3, <2>4
  <2>8. NumSwaPages = (z - k) + s + (w + k)
    BY <2>2, <2>3, <2>4
  <2>9. QED
    BY <2>5, <2>6, <2>7, <2>8, AccountNext
<1>21. QED
  BY <1>6, <1>8, <1>16, <1>17, <1>18, <1>20 DEF IInv

LEMMA EmptyTreeIsSound ==
  ASSUME NEW C, NEW H, DOMAIN H = {}
  PROVE  /\ SoundTree(C, EmptyTree, H)
         /\ Held(EmptyTree) = 0 /\ FullHeld(EmptyTree) = 0 /\ SwaHeld(EmptyTree) = 0
<1> DEFINE t == EmptyTree
<1>1. /\ DOMAIN t = Fields /\ t.page = [p \in {} |-> 0] /\ t.ends = {}
      /\ t.evictable = 0 /\ t.protected = 0
  BY DEF EmptyTree, Fields
<1> HIDE DEF t
<1>2. DOMAIN t.page = {} /\ t.page \in [{} -> PageRecords]
  BY <1>1
<1>3. IsFiniteSet({}) /\ Cardinality({}) = 0
  BY FS_EmptySet
<1>4. Shape(C, t)
  BY <1>1, <1>2, <1>3 DEF Shape
<1>5. Locks(C, t, H)
  BY <1>2, <1>3 DEF Locks
<1>6. EvictablePages(t) = {} /\ DOMAIN t.page \ EvictablePages(t) = {}
  BY <1>2 DEF EvictablePages
<1>7. Sized(t)
  BY <1>1, <1>3, <1>6 DEF Sized
<1>8. FullPagesIn(t, DOMAIN t.page) = {} /\ SwaPagesIn(t, DOMAIN t.page) = {}
  BY <1>2 DEF FullPagesIn, SwaPagesIn
<1>9. Held(t) = 0 /\ FullHeld(t) = 0 /\ SwaHeld(t) = 0
  BY <1>2, <1>3, <1>8 DEF Held, FullHeld, SwaHeld
<1>10. QED
  BY <1>4, <1>5, <1>7, <1>9 DEF SoundTree, t

LEMMA SwaPagesAreThere == NumSwaPages \in Nat
<1> DEFINE a == DivCeil(MaxForwardLen, PageSize)
           b == DivCeil(Window, PageSize)
           tails == MaxRunning * (b + 1)
           planned == a + tails + 1
           total == IF PageOverride THEN NumPages ELSE NumPages + 1
<1>1. a \in Nat /\ b \in Nat
  BY Ceiling, CacheAssumption
<1>2. MaxRunning \in Nat /\ NumPages \in Nat \ {0}
  BY CacheAssumption
<1>3. tails \in Nat
  BY <1>1, <1>2
<1> HIDE DEF a, b, tails
<1>4. planned \in Nat \ {0} /\ 8 * MaxRunning \in Nat /\ total \in Nat \ {0}
  BY <1>1, <1>2, <1>3
<1> HIDE DEF planned, total
<1>5. Greatest(planned, 8 * MaxRunning) \in Nat \ {0}
  BY <1>4 DEF Greatest
<1>6. PlannedSwaPages = IF MaxRunning >= 16 THEN Greatest(planned, 8 * MaxRunning) ELSE planned
  BY DEF PlannedSwaPages, planned, tails, a, b
<1>7. PlannedSwaPages \in Nat \ {0}
  BY <1>4, <1>5, <1>6
<1>8. Least(PlannedSwaPages, total) \in Nat \ {0}
  BY <1>4, <1>7 DEF Least
<1>9. QED
  BY <1>8 DEF NumSwaPages, total

LEMMA InitIsSound == Init => IInv
<1> SUFFICES ASSUME Init PROVE IInv
  OBVIOUS
<1>1. /\ pc = "schedule" /\ tree = EmptyTree
      /\ free = [full |-> NumPages, comp |-> NumPages, swa |-> NumSwaPages]
      /\ kind \in Workloads
      /\ stage = [u \in Requests |-> "waiting"]
      /\ cached = [u \in Requests |-> 0] /\ host = [u \in Requests |-> 0]
      /\ handle = [u \in Requests |-> 0] /\ evicted = [u \in Requests |-> 0]
      /\ row = [u \in Requests |-> <<>>] /\ ownSwa = [u \in Requests |-> {}]
      /\ batch = [u \in {} |-> 0] /\ flight = <<>>
  BY DEF Init
<1>2. NumPages \in Nat /\ NumSwaPages \in Nat /\ 0 \in Nat
  BY SwaPagesAreThere, CacheAssumption
<1>3. TypeInv
  <2>1. free \in Pools
    BY <1>1, <1>2 DEF Pools
  <2>2. stage \in [Requests -> Stages]
    BY <1>1 DEF Stages
  <2>3. batch \in Batches
    <3>1. batch \in [{} -> Nat]
      BY <1>1
    <3>2. QED
      BY <3>1 DEF Batches
  <2>4. flight \in Seq(Forwards)
    BY <1>1
  <2>5. row \in [Requests -> Seq(Sources)] /\ ownSwa \in [Requests -> SUBSET Nat]
    BY <1>1
  <2>6. QED
    BY <1>1, <1>2, <2>1, <2>2, <2>3, <2>4, <2>5 DEF TypeInv
<1>4. Resident = {}
  BY <1>1 DEF Resident
<1>5. DOMAIN Holders = {}
  BY <1>4 DEF Holders
<1>6. TreeInv /\ Held(tree) = 0 /\ FullHeld(tree) = 0 /\ SwaHeld(tree) = 0
  BY <1>1, <1>5, EmptyTreeIsSound DEF TreeInv
<1>7. RequestInv
  <2>1. \A u \in Requests : Empty(u)
    BY <1>1 DEF Empty
  <2>2. QED
    BY <1>4, <2>1 DEF RequestInv
<1>8. BatchInv
  BY <1>1 DEF BatchInv
<1>9. FlightInv
  <2>1. DOMAIN flight = {}
    BY <1>1
  <2>2. QED
    BY <2>1 DEF FlightInv
<1>10. Cardinality(Owned) = 0 /\ Cardinality(OwnedSwa) = 0
  <2>1. \A u \in Requests : OwnPages(u) = {} /\ ownSwa[u] = {}
    BY <1>1 DEF OwnPages
  <2>2. Owned = {} /\ OwnedSwa = {}
    BY <2>1 DEF Owned, OwnedSwa
  <2>3. QED
    BY <2>2, FS_EmptySet
<1>11. PagesAreAccounted
  <2>1. free.full = NumPages /\ free.comp = NumPages /\ free.swa = NumSwaPages
    BY <1>1
  <2>2. QED
    BY <2>1, <1>2, <1>6, <1>10, AccountIs
<1>12. QED
  BY <1>3, <1>6, <1>7, <1>8, <1>9, <1>11 DEF IInv

LEMMA StepIsSound == IInv /\ [Next]_vars => IInv'
<1> SUFFICES ASSUME IInv, [Next]_vars PROVE IInv'
  OBVIOUS
<1>1. CASE \E u \in Requests : TryAllocateOne(u)
  BY <1>1, TryAllocateOneKeeps
<1>2. CASE \E u \in Requests : PrepareChunk(u)
  BY <1>2, PrepareChunkKeeps
<1>3. CASE BeginPrefill
  BY <1>3, BeginPrefillKeeps
<1>4. CASE BeginDecode
  BY <1>4, BeginDecodeKeeps
<1>5. CASE ReleaseEvictableSwa
  BY <1>5, ReleaseEvictableSwaKeeps
<1>6. CASE EvictNodes
  BY <1>6, EvictNodesKeeps
<1>7. CASE AllocationFails
  BY <1>7, AllocationFailsKeeps
<1>8. CASE Issue
  BY <1>8, IssueKeeps
<1>9. CASE \E u \in Requests : CompleteEnded(u)
  BY <1>9, CompleteEndedKeeps
<1>10. CASE \E u \in Requests : CompleteChunk(u)
  BY <1>10, CompleteChunkKeeps
<1>11. CASE \E u \in Requests : CommitToken(u)
  BY <1>11, CommitTokenKeeps
<1>12. CASE \E u \in Requests : CommitLastToken(u)
  BY <1>12, CommitLastTokenKeeps
<1>13. CASE \E u \in Requests : Abort(u)
  BY <1>13, AbortKeeps
<1>14. CASE Quiescent \/ UNCHANGED vars
  BY <1>14, StutterKeeps DEF Quiescent
<1>15. QED
  BY <1>1, <1>2, <1>3, <1>4, <1>5, <1>6, <1>7, <1>8, <1>9, <1>10, <1>11, <1>12, <1>13, <1>14
     DEF Next, Schedule, Allocate, Process

-------------------------------------------------------------------------------
(* The theorems.                                                              *)

(* The inductive invariant holds in every reachable state. *)
THEOREM InvariantHolds == Spec => []IInv
<1>1. Init => IInv
  BY InitIsSound
<1>2. IInv /\ [Next]_vars => IInv'
  BY StepIsSound
<1>3. QED
  BY <1>1, <1>2, PTL DEF Spec

(* Every page of each pool is free, held by exactly one row, or in the tree, *)
(* through matches, splits, chunks, evictions, early releases, duplicate     *)
(* insertions, aborts and the overlap of forwards (check_integrity).         *)
THEOREM PagesStayAccounted == Spec => []PagesAreAccounted
<1>1. IInv => PagesAreAccounted
  BY DEF IInv
<1>2. QED
  BY <1>1, InvariantHolds, PTL

LEMMA StateIsSound == IInv => CacheIsSound
<1> SUFFICES ASSUME IInv PROVE CacheIsSound
  OBVIOUS
<1>1. /\ TypeInv /\ TreeInv /\ RequestInv /\ BatchInv /\ FlightInv
      /\ SoundTree(Contents, tree, Holders)
  BY DEF IInv, TreeInv
<1>2. Shape(Contents, tree) /\ Locks(Contents, tree, Holders) /\ Sized(tree)
  BY <1>1 DEF SoundTree
<1>3. \A u \in Resident : /\ u \in Requests /\ RowInv(u) /\ Names(tree, HandlePath(u))
                          /\ PagesOn(HandlePath(u)) \subseteq DOMAIN tree.page
                          /\ Len(HandlePath(u)) = handle[u]
  BY <1>1, HandleIs DEF Resident
<1>4. TypeOK
  <2>1. \A p \in DOMAIN tree.page : tree.page[p] \in [ref : Nat, full : BOOLEAN, swa : BOOLEAN]
    BY <1>2, PageTypes DEF PageRecords
  <2>2. tree.ends \subseteq DOMAIN tree.page
    BY <1>2 DEF Shape
  <2>3. tree.evictable \in Nat /\ tree.protected \in Nat
    <3>1. IsFiniteSet(EvictablePages(tree)) /\ IsFiniteSet(DOMAIN tree.page \ EvictablePages(tree))
      BY <1>2, EvictableIsFinite
    <3>2. QED
      BY <3>1, <1>2, FS_CardinalityType DEF Sized
  <2>4. ASSUME NEW u \in Requests
        PROVE  row[u] \in [1..Len(row[u]) -> Sources] /\ ownSwa[u] \subseteq 1..Len(row[u])
    <3>1. row[u] \in Seq(Sources)
      BY <1>1, TypesAre
    <3>2. row[u] \in [1..Len(row[u]) -> Sources]
      BY <3>1, LenProperties
    <3>3. ownSwa[u] \subseteq OwnPages(u) /\ OwnPages(u) \subseteq DOMAIN row[u]
      BY <1>1, OwnersAre DEF OwnPages
    <3>4. QED
      BY <3>2, <3>3
  <2>5. DOMAIN batch \subseteq Requests /\ \A u \in DOMAIN batch : batch[u] \in Nat
    BY <1>1, BatchIs
  <2>6. ASSUME NEW i \in DOMAIN flight
        PROVE  /\ DOMAIN flight[i] \subseteq Requests
               /\ \A u \in DOMAIN flight[i] : flight[i][u] \in FlightRows
    BY <1>1, ForwardIs
  <2>7. QED
    BY <1>1, <2>1, <2>2, <2>3, <2>4, <2>5, <2>6 DEF TypeOK, TypeInv, Pools
<1>5. RefsCountHolders
  <2> SUFFICES ASSUME NEW p \in DOMAIN tree.page \cup UNION {PagesOn(HandlePath(u)) : u \in Resident}
               PROVE  /\ p \in DOMAIN tree.page
                      /\ tree.page[p].ref = Cardinality({u \in Resident : IsPrefixOf(p, HandlePath(u))})
    BY DEF RefsCountHolders
  <2>1. p \in DOMAIN tree.page
    BY <1>3
  <2>2. Above(Holders, p) = {u \in Resident : IsPrefixOf(p, HandlePath(u))}
    BY DEF Above, Holders
  <2>3. QED
    BY <2>1, <2>2, <1>2 DEF Locks
<1>6. TreeIsRadix
  <2>1. \A p \in DOMAIN tree.page : InTree(tree, p)
    BY <1>2 DEF Shape, InTree
  <2>2. \A p \in DOMAIN tree.page : \E e \in tree.ends : p \in NodePages(tree, e)
    BY <1>2, NodeOfPage
  <2>3. \A e \in tree.ends : \A p \in NodePages(tree, e) : tree.page[p].ref = tree.page[e].ref
    BY <1>1, NodeIsLockedAlike
  <2>4. \A p, q \in DOMAIN tree.page :
          /\ Len(p) = Len(q) /\ p # q /\ Len(p) > 1
          /\ Prefix(p, Len(p) - 1) = Prefix(q, Len(q) - 1)
          => Prefix(p, Len(p) - 1) \in tree.ends
    BY <1>2 DEF Shape
  <2>5. \A u \in Resident : handle[u] > 0 => HandlePath(u) \in tree.ends
    <3> SUFFICES ASSUME NEW u \in Resident, handle[u] > 0 PROVE HandlePath(u) \in tree.ends
      OBVIOUS
    <3>1. Names(tree, HandlePath(u)) /\ Len(HandlePath(u)) = handle[u]
      BY <1>3
    <3>2. HandlePath(u) # <<>>
      BY <3>1
    <3>3. QED
      BY <3>1, <3>2 DEF Names
  <2>6. QED
    BY <2>1, <2>2, <2>3, <2>4, <2>5 DEF TreeIsRadix
<1>7. SizesAreExact
  BY <1>2 DEF SizesAreExact, Sized
<1>8. FrontierIsReleased
  BY <1>3 DEF FrontierIsReleased, RowInv
<1>9. QED
  BY <1>4, <1>5, <1>6, <1>7, <1>8 DEF CacheIsSound

(* The reference counts, the shape of the radix tree, its two sizes and the  *)
(* eviction frontiers agree with the requests in every state.                *)
THEOREM CacheStaysSound == Spec => []CacheIsSound
<1>1. QED
  BY StateIsSound, InvariantHolds, PTL

LEMMA ShortOf ==
  ASSUME NEW a \in Nat, NEW b \in Nat, NEW c \in Nat, NEW d \in Nat,
         Minus(a, b) > c, d <= c
  PROVE  a > b + d
<1>1. CASE a >= b
  BY <1>1 DEF Minus
<1>2. CASE ~(a >= b)
  BY <1>2 DEF Minus
<1>3. QED
  BY <1>1, <1>2

LEMMA OnlyFailuresRaise ==
  ASSUME Next, pc' = "raised"
  PROVE  AllocationFails \/ UNCHANGED vars
<1>1. CASE Schedule
  BY <1>1 DEF Schedule, TryAllocateOne, PrepareChunk, BeginPrefill, BeginDecode
<1>2. CASE Allocate
  BY <1>2 DEF Allocate, ReleaseEvictableSwa, EvictNodes, Issue
<1>3. CASE Process
  BY <1>3 DEF Process, CompleteEnded, CompleteChunk, CommitToken, CommitLastToken, RowDone
<1>4. CASE \E u \in Requests : Abort(u)
  BY <1>4 DEF Abort
<1>5. CASE Quiescent
  BY <1>5 DEF Quiescent
<1>6. QED
  BY <1>1, <1>2, <1>3, <1>4, <1>5 DEF Next

LEMMA NeededIsNumber ==
  ASSUME IInv
  PROVE  Needed \in Nat
<1>1. TypeInv /\ BatchInv
  BY DEF IInv
<1>2. PageSize \in Nat \ {0} /\ NumPages \in Nat /\ IsFiniteSet(Requests)
  BY CacheAssumption
<1>3. ASSUME NEW u \in DOMAIN batch
      PROVE  NewPages(u) \subseteq 1..NumPages
  <2> DEFINE a == DivCeil(cached[u], PageSize)
             b == DivCeil(batch[u], PageSize)
             total == kind[u].input + kind[u].output
             x == NumPages * PageSize
  <2>1. u \in Requests /\ batch[u] \in Nat /\ cached[u] \in Nat /\ batch[u] < total
    BY <1>1, BatchIs, TypesAre DEF BatchInv, BatchRow
  <2>2. total \in Nat /\ total <= PageSize * NumPages
    BY <1>1, <2>1, KindIs
  <2>3. PageSize * NumPages = x /\ x \in Nat
    BY <1>2, Products
  <2>4. NewPages(u) = (a + 1)..b
    BY DEF NewPages
  <2> HIDE DEF total
  <2>5. batch[u] <= x
    <3> HIDE DEF x
    <3>1. QED
      BY <2>1, <2>2, <2>3
  <2>6. a \in Nat /\ b \in Nat /\ b <= NumPages
    BY <1>2, <2>1, <2>5, Ceiling, CeilingLeast
  <2> HIDE DEF a, b
  <2>7. QED
    BY <1>2, <2>4, <2>6
<1>4. \A u \in DOMAIN Added : Added[u] \subseteq 1..NumPages
  BY <1>3 DEF Added
<1>5. Needed = Cardinality(PairsOf(Added)) /\ DOMAIN Added = Requests
  BY <1>1, NeededIs
<1>6. IsFiniteSet(1..NumPages)
  BY <1>2, FS_Interval
<1>7. QED
  BY <1>2, <1>4, <1>5, <1>6, PairsAreFinite

TooFewPages ==
  \/ Needed > free.full + Cardinality(FullPagesIn(tree, EvictablePages(tree)))
  \/ Needed > free.comp + Cardinality(EvictablePages(tree))
  \/ Needed > free.swa + Cardinality(SwaPagesIn(tree, EvictablePages(tree)))

LEMMA GivesUpWhenShort ==
  ASSUME IInv, AllocationFails
  PROVE  TooFewPages
<1> DEFINE N == Needed
           E == EvictablePages(tree)
           F == FullPagesIn(tree, E)
           S == SwaPagesIn(tree, E)
           df == Minus(N, free.full)
           dc == Minus(N, free.comp)
           ds == Minus(N, free.swa)
           e == Cardinality(E)
           f == Cardinality(F)
           s == Cardinality(S)
<1>1. TypeInv /\ SoundTree(Contents, tree, Holders)
  BY DEF IInv, TreeInv
<1>2. Shape(Contents, tree) /\ tree.evictable = e
  BY <1>1 DEF SoundTree, Sized
<1>3. free.full \in Nat /\ free.comp \in Nat /\ free.swa \in Nat
  BY <1>1, PoolsAre DEF TypeInv
<1>4. N \in Nat
  BY NeededIsNumber
<1>5. IsFiniteSet(E)
  BY <1>2, EvictableIsFinite
<1>6. /\ IsFiniteSet(F) /\ IsFiniteSet(S) /\ F \subseteq E /\ S \subseteq E
  BY <1>2, <1>5, HeldAreNumbers
<1>7. /\ e \in Nat /\ f \in Nat /\ s \in Nat /\ f <= e /\ s <= e
  <2>1. f <= e /\ s <= e
    BY <1>5, <1>6, FS_Subset
  <2>2. QED
    BY <2>1, <1>5, <1>6, FS_CardinalityType
<1>8. /\ Deficit = [full |-> df, comp |-> dc, swa |-> ds]
      /\ Deficit # NoPages
      /\ Greatest(Greatest(Deficit.full, Deficit.comp), Greatest(Deficit.swa, 1)) > e
  BY <1>2 DEF AllocationFails, Enough, RoundSize, Deficit
<1>9. TooFewPages <=> N > free.full + f \/ N > free.comp + e \/ N > free.swa + s
  BY DEF TooFewPages
<1> HIDE DEF N, E, F, S, e, f, s
<1>10. df \in Nat /\ dc \in Nat /\ ds \in Nat
  BY <1>3, <1>4 DEF Minus
<1>11. df # 0 \/ dc # 0 \/ ds # 0
  BY <1>8 DEF NoPages
<1>12. Greatest(Greatest(df, dc), Greatest(ds, 1)) > e
  BY <1>8
<1>13. df > e => N > free.full + f
  BY <1>3, <1>4, <1>7, ShortOf
<1>14. dc > e => N > free.comp + e
  <2>1. free.comp \in Nat /\ N \in Nat /\ e \in Nat /\ e <= e
    BY <1>3, <1>4, <1>7
  <2>2. QED
    BY <2>1, ShortOf
<1>15. ds > e => N > free.swa + s
  BY <1>3, <1>4, <1>7, ShortOf
<1> HIDE DEF df, dc, ds
<1>16. df > e \/ dc > e \/ ds > e
  BY <1>7, <1>10, <1>11, <1>12 DEF Greatest
<1>17. QED
  BY <1>9, <1>13, <1>14, <1>15, <1>16

(* _evict_for_dsv4_component_capacity gives up only if, for some pool, the   *)
(* free pages and those of all unlocked nodes do not suffice.                *)
THEOREM EvictionStaysComplete == Spec => EvictionIsComplete
<1> DEFINE Short == pc' = "raised" => TooFewPages
<1>1. IInv /\ [Next]_vars => [Short]_vars
  BY OnlyFailuresRaise, GivesUpWhenShort
<1>2. Spec => [][Short]_vars
  BY <1>1, InvariantHolds, PTL DEF Spec
<1>3. QED
  BY <1>2 DEF EvictionIsComplete, TooFewPages

-------------------------------------------------------------------------------
(* What a forward reads.  The invariant of the pages that a request needs for *)
(* its window, on top of IInv.                                                *)

\* The SWA pages of its own that a request has given up lie behind the window.
KeptRow(u) ==
  \A i \in (handle[u] + 1)..Len(row[u]) : i \in ownSwa[u] \/ i <= WindowFrontier(cached[u])
KeptInv == \A u \in Resident : KeptRow(u)

\* Where a chunk may end.
Boundary(u, n) == n % PageSize = 0 \/ n = kind[u].input

\* A prompt that is half read ends at a page; the SWA page of a prefix that has
\* just been matched is there until the forward that reads it is issued.
ChunkRow(u) ==
  /\ cached[u] % PageSize = 0
  /\ u \in DOMAIN batch => Boundary(u, batch[u])
  /\ handle[u] > 0 /\ cached[u] = handle[u] * PageSize =>
       u \in DOMAIN batch /\ tree.page[HandlePath(u)].swa
PrefillInv == \A u \in Requests : stage[u] = "prefill" => ChunkRow(u)

\* Before a prompt in flight come only its chunks, and the host is behind by as
\* many tokens as forwards have been issued since.
OrderRow(i, u) ==
  /\ stage[u] = "prefill" => flight[i][u].kind = "chunk"
  /\ flight[i][u].kind = "prompt" /\ stage[u] = "decode" =>
       cached[u] + i <= host[u] + Len(flight)
  /\ \A j \in DOMAIN flight : i < j /\ u \in DOMAIN flight[j] /\ flight[j][u].kind = "prompt"
       => flight[i][u].kind = "chunk"
OrderInv ==
  /\ Len(flight) <= 2 /\ (pc # "process" => Len(flight) <= 1)
  /\ \A u \in DOMAIN batch : stage[u] = "decode" => batch[u] = cached[u] + 1
  /\ \A i \in DOMAIN flight : \A u \in DOMAIN flight[i] : OrderRow(i, u)

\* A request whose prompt begins with a page that no other request has: nothing
\* of it is in the tree before its prompt is cached, and then the last page of
\* its handle is there for its row.
Alone(u) == Len(kind[u].text) > 0 /\ \A v \in Requests \ {u} : Path(v, 1) # Path(u, 1)
PromptIssued(u) ==
  \E i \in DOMAIN flight : u \in DOMAIN flight[i] /\ flight[i][u].kind = "prompt"
Uncached(u) == stage[u] \in {"waiting", "prefill"} \/ (stage[u] = "decode" /\ PromptIssued(u))
Unread(u) == \A p \in DOMAIN tree.page : Prefix(p, 1) # Path(u, 1)
Readable(u) ==
  row[u][handle[u]] = "tree" /\ tree.page[HandlePath(u)].full /\ tree.page[HandlePath(u)].swa
AloneRow(u) ==
  /\ Uncached(u) => Unread(u)
  /\ stage[u] = "decode" /\ ~PromptIssued(u) /\ handle[u] > 0 => Readable(u)
AloneInv == \A u \in Requests : Alone(u) => AloneRow(u)

WindowInv == KeptInv /\ PrefillInv /\ OrderInv /\ AloneInv

-------------------------------------------------------------------------------
(* The pages of a window.                                                     *)

LEMMA Whole ==
  ASSUME NEW k \in Nat \ {0}, NEW n \in Nat
  PROVE  n % k = 0 <=> n = (n \div k) * k
<1>1. n \div k \in Nat /\ n % k \in 0..(k - 1) /\ n = k * (n \div k) + (n % k)
  OBVIOUS
<1> DEFINE q == n \div k
           r == n % k
<1>2. q \in Nat /\ r \in Nat /\ n = k * q + r
  BY <1>1
<1> HIDE DEF q, r
<1>3. r = 0 <=> n = q * k
  <2>1. k * q \in Nat /\ q * k = k * q
    BY <1>2
  <2> DEFINE x == k * q
  <2>2. x \in Nat /\ n = x + r
    BY <1>2, <2>1
  <2> HIDE DEF x
  <2>3. r = 0 <=> n = x
    BY <1>2, <2>2
  <2>4. QED
    BY <2>1, <2>3 DEF x
<1>4. QED
  BY <1>3 DEF q, r

LEMMA WindowIs ==
  ASSUME NEW pos \in Nat, NEW i \in WindowPages(pos)
  PROVE  /\ i \in Nat /\ i > 0
         /\ i * PageSize < pos + PageSize
         /\ i > WindowFrontier(pos)
         /\ Window <= PageSize + 1 => pos < i * PageSize + PageSize
<1> DEFINE low == Minus(pos + 1, Window)
           far == Minus(pos + 1, Window + PageSize)
           a == low \div PageSize
           b == (pos - 1) \div PageSize
<1>1. PageSize \in Nat \ {0} /\ Window \in Nat \ {0}
  BY CacheAssumption
<1>2. pos # 0 /\ i \in (a + 1)..(b + 1)
  BY DEF WindowPages
<1>3. low \in Nat /\ far \in Nat /\ pos - 1 \in Nat /\ far <= low
  BY <1>1, <1>2 DEF Minus
<1>4. /\ a \in Nat /\ a * PageSize <= low /\ low < a * PageSize + PageSize
      /\ b \in Nat /\ b * PageSize <= pos - 1
  <2> HIDE DEF low, far
  <2>1. QED
    BY <1>1, <1>3, Floor
<1>5. far \div PageSize <= a /\ far \div PageSize \in Nat
  <2> HIDE DEF low, far
  <2>1. QED
    BY <1>1, <1>3, Ceilings, Floor
<1>6. i \in Nat /\ i > 0 /\ i <= b + 1 /\ a + 1 <= i
  <2> HIDE DEF a, b
  <2>1. QED
    BY <1>2, <1>4
<1>7. i > WindowFrontier(pos)
  <2> DEFINE f == far \div PageSize
  <2>1. f <= a /\ f \in Nat
    BY <1>5
  <2>2. WindowFrontier(pos) = f
    BY DEF WindowFrontier
  <2> HIDE DEF f, a
  <2>3. QED
    BY <1>4, <1>6, <2>1, <2>2
<1>8. i * PageSize < pos + PageSize
  <2> HIDE DEF a, b, low, far
  <2>1. i * PageSize <= (b + 1) * PageSize /\ (b + 1) * PageSize = b * PageSize + PageSize
        /\ i * PageSize \in Nat /\ b * PageSize \in Nat
    <3>1. i \in Int /\ b + 1 \in Int /\ b \in Int
      BY <1>4, <1>6
    <3>2. QED
      BY <1>1, <1>4, <1>6, <3>1, Products
  <2> DEFINE x == i * PageSize
             y == b * PageSize
  <2>2. x \in Nat /\ y \in Nat /\ x <= y + PageSize /\ y <= pos - 1
    BY <1>4, <2>1
  <2> HIDE DEF x, y
  <2>3. x < pos + PageSize
    BY <1>1, <2>2
  <2>4. QED
    BY <2>3 DEF x
<1>9. ASSUME Window <= PageSize + 1 PROVE pos < i * PageSize + PageSize
  <2>0. pos <= low + PageSize
    BY <1>1, <1>9 DEF Minus
  <2> HIDE DEF a, b, low, far
  <2>1. (a + 1) * PageSize <= i * PageSize /\ (a + 1) * PageSize = a * PageSize + PageSize
        /\ i * PageSize \in Nat /\ a * PageSize \in Nat
    <3>1. i \in Int /\ a + 1 \in Int /\ a \in Int
      BY <1>4, <1>6
    <3>2. QED
      BY <1>1, <1>4, <1>6, <3>1, Products
  <2> DEFINE x == i * PageSize
             y == a * PageSize
  <2>2. x \in Nat /\ y \in Nat /\ y + PageSize <= x /\ low < y + PageSize
    BY <1>4, <2>1
  <2> HIDE DEF x, y
  <2>3. pos < x + PageSize
    BY <1>1, <1>3, <2>0, <2>2
  <2>4. QED
    BY <2>3 DEF x
<1>10. QED
  BY <1>6, <1>7, <1>8, <1>9
-------------------------------------------------------------------------------
(* The invariant is enough.                                                   *)

LEMMA OwnPageIsThere ==
  ASSUME TypeInv, NEW u \in Requests, RowInv(u), KeptRow(u),
         NEW i \in WindowPages(cached[u]), i > handle[u]
  PROVE  FoundByRow(u, i)
<1>1. cached[u] \in Nat /\ handle[u] \in Nat /\ Len(row[u]) \in Nat /\ PageSize \in Nat \ {0}
  BY TypesAre, CacheAssumption
<1>2. i \in Nat /\ i > 0 /\ i * PageSize < cached[u] + PageSize /\ i > WindowFrontier(cached[u])
  BY <1>1, WindowIs
<1>3. WindowFrontier(cached[u]) \in Nat
  BY <1>1, FrontierIs
<1>4. i <= Len(row[u])
  <2> DEFINE m == i - 1
             c == cached[u]
  <2>1. m \in Nat /\ c \in Nat /\ i * PageSize = m * PageSize + PageSize /\ m * PageSize \in Nat
    <3>1. m \in Nat /\ m \in Int /\ m + 1 = i
      BY <1>2
    <3>2. (m + 1) * PageSize = m * PageSize + PageSize /\ m * PageSize \in Nat
      BY <1>1, <3>1, Products
    <3>3. QED
      BY <1>1, <3>1, <3>2
  <2>2. ~(c <= m * PageSize)
    <3> DEFINE x == m * PageSize
    <3>1. x \in Nat /\ x + PageSize < c + PageSize
      BY <1>2, <2>1
    <3> HIDE DEF x, m, c
    <3>2. ~(c <= x)
      BY <1>1, <2>1, <3>1
    <3>3. QED
      BY <3>2 DEF x
  <2>3. ~(DivCeil(c, PageSize) <= m)
    <3> HIDE DEF m, c
    <3>1. QED
      BY <1>1, <2>1, <2>2, CeilingLeast
  <2>4. Len(row[u]) = DivCeil(c, PageSize)
    BY DEF RowInv
  <2>5. QED
    BY <1>1, <1>2, <2>3, <2>4
<1>5. i \in (handle[u] + 1)..Len(row[u]) /\ i \in 1..Len(row[u])
  BY <1>1, <1>2, <1>4
<1>6. row[u][i] = "own"
  BY <1>5 DEF RowInv
<1>7. i \in ownSwa[u]
  <2>1. i \in ownSwa[u] \/ i <= WindowFrontier(cached[u])
    BY <1>5 DEF KeptRow
  <2>2. QED
    BY <1>2, <1>3, <2>1
<1>8. QED
  BY <1>6, <1>7 DEF FoundByRow

\* A page of the handle that is in the window is its last one.
LEMMA OnlyLastOfHandle ==
  ASSUME Window <= PageSize + 1, TypeInv, NEW u \in Requests, RowInv(u),
         NEW i \in WindowPages(cached[u]), i <= handle[u]
  PROVE  i = handle[u] /\ i > 0
<1>1. cached[u] \in Nat /\ handle[u] \in Nat /\ PageSize \in Nat \ {0}
  BY TypesAre, CacheAssumption
<1>2. i \in Nat /\ i > 0 /\ cached[u] < i * PageSize + PageSize
  BY <1>1, WindowIs
<1>3. handle[u] * PageSize <= cached[u]
  BY DEF RowInv
<1>4. handle[u] * PageSize < i * PageSize + PageSize
  <2> DEFINE x == handle[u] * PageSize
             y == i * PageSize
  <2>1. x \in Nat /\ y \in Nat /\ x <= cached[u] /\ cached[u] < y + PageSize
    BY <1>1, <1>2, <1>3, Products
  <2> HIDE DEF x, y
  <2>2. x < y + PageSize
    BY <1>1, <2>1
  <2>3. QED
    BY <2>2 DEF x, y
<1>5. handle[u] <= i
  <2>1. handle[u] \in Int /\ i \in Int
    BY <1>1, <1>2
  <2>2. QED
    BY <1>1, <1>4, <2>1, Products
<1>6. QED
  BY <1>1, <1>2, <1>5

LEMMA ChunksRead ==
  ASSUME Window <= PageSize + 1, IInv, KeptInv, PrefillInv
  PROVE  PrefillReadsItsWindow
<1> SUFFICES ASSUME NEW u \in Requests, stage[u] = "prefill", NEW i \in WindowPages(cached[u])
             PROVE  FoundByHandle(u, i) \/ FoundByRow(u, i)
  BY DEF PrefillReadsItsWindow
<1>1. TypeInv /\ RequestInv /\ u \in Resident /\ ChunkRow(u)
  BY DEF IInv, Resident, PrefillInv
<1>2. RowInv(u) /\ KeptRow(u)
  BY <1>1 DEF RequestInv, KeptInv
<1>3. cached[u] \in Nat /\ handle[u] \in Nat /\ PageSize \in Nat \ {0}
  BY <1>1, TypesAre, CacheAssumption
<1>4. i \in Nat /\ i * PageSize < cached[u] + PageSize
  BY <1>3, WindowIs
<1>5. CASE i > handle[u]
  BY <1>1, <1>2, <1>5, OwnPageIsThere
<1>6. CASE i <= handle[u]
  <2>1. i = handle[u] /\ i > 0
    BY <1>1, <1>2, <1>6, OnlyLastOfHandle
  <2>2. cached[u] = handle[u] * PageSize
    <3> DEFINE c == cached[u] \div PageSize
               h == handle[u]
    <3>1. cached[u] = c * PageSize /\ c \in Nat
      BY <1>1, <1>3, Whole, Floor DEF ChunkRow
    <3>2. h * PageSize <= c * PageSize
      BY <1>2, <3>1 DEF RowInv
    <3>3. cached[u] < i * PageSize + PageSize
      BY <1>3, WindowIs
    <3>4. c * PageSize < h * PageSize + PageSize /\ h \in Nat /\ i = h
      BY <2>1, <3>1, <3>3, <1>3
    <3> HIDE DEF c, h
    <3>5. c <= h
      <4>1. c \in Int /\ h \in Int
        BY <3>1, <3>4
      <4>2. QED
        BY <1>3, <3>4, <4>1, Products
    <3>6. c * PageSize <= h * PageSize
      <4>1. c \in Int /\ h \in Int
        BY <3>1, <3>4
      <4>2. QED
        BY <1>3, <3>5, <4>1, Products
    <3>7. c * PageSize = h * PageSize
      <4> DEFINE x == c * PageSize
                 y == h * PageSize
      <4>1. x \in Nat /\ y \in Nat /\ x <= y /\ y <= x
        BY <1>3, <3>1, <3>2, <3>4, <3>6, Products
      <4> HIDE DEF x, y
      <4>2. x = y
        BY <4>1
      <4>3. QED
        BY <4>2 DEF x, y
    <3>8. QED
      BY <3>1, <3>7 DEF h
  <2>3. tree.page[HandlePath(u)].swa
    BY <1>1, <2>1, <2>2 DEF ChunkRow
  <2>4. QED
    BY <1>3, <2>1, <2>3 DEF FoundByHandle, HandlePath
<1>7. QED
  BY <1>3, <1>4, <1>5, <1>6

LEMMA HandleIsCached ==
  ASSUME TypeInv, TreeInv, RequestInv, NEW u \in Resident, handle[u] > 0
  PROVE  /\ HandlePath(u) \in DOMAIN tree.page /\ Prefix(HandlePath(u), 1) = Path(u, 1)
         /\ Len(kind[u].text) > 0
<1>1. /\ HandlePath(u) \in Seq(Contents) /\ Len(HandlePath(u)) = handle[u]
      /\ PagesOn(HandlePath(u)) \subseteq DOMAIN tree.page
      /\ handle[u] \in 0..Len(kind[u].text)
  BY HandleIs
<1>2. u \in Requests
  BY DEF Resident
<1>3. Len(kind[u].text) \in Nat
  BY <1>2, KindIs
<1>4. 1 \in 0..handle[u]
  BY <1>1, <1>3
<1>5. Prefix(HandlePath(u), 1) = Path(u, 1)
  BY <1>1, <1>2, <1>4, PathIs DEF HandlePath
<1>6. HandlePath(u) \in PagesOn(HandlePath(u))
  BY <1>1, PagesAre, PrefixReflexive
<1>7. QED
  BY <1>1, <1>3, <1>5, <1>6

LEMMA DecodesRead ==
  ASSUME Window <= PageSize + 1, IInv, KeptInv, AloneInv
  PROVE  DecodeFindsItsOwnPages
<1> SUFFICES ASSUME NEW u \in Running, NEW i \in WindowPages(cached[u]),
                    ~(i <= handle[u] /\ \E v \in Requests \ {u} : Path(v, 1) = Path(u, 1))
             PROVE  FoundByRow(u, i)
  BY DEF DecodeFindsItsOwnPages
<1>1. u \in Requests /\ stage[u] = "decode" /\ TypeInv /\ TreeInv /\ RequestInv
  BY DEF Running, IInv
<1>2. u \in Resident
  BY <1>1 DEF Resident
<1>3. RowInv(u) /\ KeptRow(u)
  BY <1>1, <1>2 DEF RequestInv, KeptInv
<1>4. cached[u] \in Nat /\ handle[u] \in Nat
  BY <1>1, TypesAre
<1>5. i \in Nat
  BY <1>4, WindowIs
<1>6. CASE i > handle[u]
  BY <1>1, <1>3, <1>6, OwnPageIsThere
<1>7. CASE i <= handle[u]
  <2>1. i = handle[u] /\ i > 0 /\ handle[u] > 0
    BY <1>1, <1>3, <1>7, OnlyLastOfHandle
  <2>2. /\ HandlePath(u) \in DOMAIN tree.page /\ Prefix(HandlePath(u), 1) = Path(u, 1)
        /\ Len(kind[u].text) > 0
    BY <1>1, <1>2, <2>1, HandleIsCached
  <2>3. Alone(u)
    BY <1>7, <2>2 DEF Alone
  <2>4. AloneRow(u)
    BY <1>1, <2>3 DEF AloneInv
  <2>5. ~Uncached(u)
    BY <2>2, <2>4 DEF AloneRow, Unread
  <2>6. ~PromptIssued(u)
    BY <1>1, <2>5 DEF Uncached
  <2>7. Readable(u)
    BY <1>1, <2>1, <2>4, <2>6 DEF AloneRow
  <2>8. QED
    BY <2>1, <2>7 DEF Readable, FoundByRow, HandlePath
<1>8. QED
  BY <1>4, <1>5, <1>6, <1>7

-------------------------------------------------------------------------------
(* The kinds of steps, as far as the window is concerned.                     *)

\* The first forward loses the row of u; k forwards are complete by that.
Shifted(k, u) ==
  /\ Len(flight) \in Nat /\ Len(flight') = Len(flight) - k
  /\ DOMAIN flight = 1..Len(flight) /\ DOMAIN flight' = 1..Len(flight')
  /\ \A i \in DOMAIN flight' : \A v \in DOMAIN flight'[i] :
       /\ i + k \in DOMAIN flight /\ v \in DOMAIN flight[i + k]
       /\ flight'[i][v] = flight[i + k][v]
       /\ v = u => i + k > 1
  /\ \A j \in DOMAIN flight : \A v \in DOMAIN flight[j] : v # u \/ j > 1 =>
       /\ j - k \in DOMAIN flight' /\ v \in DOMAIN flight'[j - k]
       /\ flight'[j - k][v] = flight[j][v]
  /\ pc' # "process" => k = 1

Drops(u) == Processing /\ u \in DOMAIN Head(flight) /\ RowDone(u)

LEMMA DropsIs ==
  ASSUME TypeInv, NEW u, Drops(u)
  PROVE  \E k \in {0, 1} : Shifted(k, u)
<1>1. flight # <<>> /\ u \in DOMAIN Head(flight) /\ flight' = FlightWithout(u)
  BY DEF Drops, Processing, RowDone
<1>2. /\ Head(flight) = flight[1] /\ Len(flight) \in Nat \ {0} /\ DOMAIN flight = 1..Len(flight)
      /\ flight' \in Seq(Forwards) /\ DOMAIN flight' = 1..Len(flight') /\ Len(flight') \in Nat
      /\ \/ /\ DOMAIN flight[1] = {u} /\ Len(flight') = Len(flight) - 1
            /\ \A i \in 1..Len(flight') : flight'[i] = flight[i + 1]
         \/ /\ DOMAIN flight[1] # {u} /\ Len(flight') = Len(flight) /\ DOMAIN flight'[1] = DOMAIN flight[1] \ {u}
            /\ \A v \in DOMAIN flight'[1] : flight'[1][v] = flight[1][v]
            /\ \A i \in 2..Len(flight') : flight'[i] = flight[i]
  BY <1>1, FlightWithoutIs
<1>3. CASE /\ DOMAIN flight[1] = {u} /\ Len(flight') = Len(flight) - 1
           /\ \A i \in 1..Len(flight') : flight'[i] = flight[i + 1]
  <2>1. Len(flight) \in Nat /\ Len(flight') \in Nat
    BY <1>2
  <2>2. \A i \in DOMAIN flight' : i + 1 \in DOMAIN flight /\ i + 1 > 1 /\ flight'[i] = flight[i + 1]
    BY <1>2, <1>3, <2>1
  <2>3. \A j \in DOMAIN flight : j > 1 => j - 1 \in DOMAIN flight' /\ flight'[j - 1] = flight[j]
    <3>1. ASSUME NEW j \in DOMAIN flight, j > 1
          PROVE  j - 1 \in DOMAIN flight' /\ flight'[j - 1] = flight[j]
      <4>1. j \in Nat /\ j - 1 \in 1..Len(flight') /\ j - 1 + 1 = j
        BY <1>2, <1>3, <2>1, <3>1
      <4>2. flight'[j - 1] = flight[j - 1 + 1]
        BY <1>3, <4>1
      <4>3. QED
        BY <1>2, <4>1, <4>2
    <3>2. QED
      BY <3>1
  <2>4. \A j \in DOMAIN flight : \A v \in DOMAIN flight[j] : v # u \/ j > 1 => j > 1
    <3>1. \A j \in DOMAIN flight : j = 1 \/ j > 1
      <4>1. DOMAIN flight = 1..Len(flight)
        BY <1>2
      <4>2. QED
        BY <2>1, <4>1
    <3>2. QED
      BY <1>3, <3>1
  <2>5. Len(flight') = Len(flight) - 1
    BY <1>3
  <2>6. DOMAIN flight = 1..Len(flight) /\ DOMAIN flight' = 1..Len(flight')
    BY <1>2
  <2>7. Shifted(1, u)
    BY <2>1, <2>2, <2>3, <2>4, <2>5, <2>6 DEF Shifted
  <2>8. QED
    BY <2>7
<1>4. CASE /\ DOMAIN flight[1] # {u} /\ Len(flight') = Len(flight)
           /\ DOMAIN flight'[1] = DOMAIN flight[1] \ {u}
           /\ \A v \in DOMAIN flight'[1] : flight'[1][v] = flight[1][v]
           /\ \A i \in 2..Len(flight') : flight'[i] = flight[i]
  <2>0. Len(flight) \in Nat /\ Len(flight') \in Nat /\ DOMAIN flight' = 1..Len(flight')
    BY <1>2
  <2>1. Len(flight) \in Nat /\ DOMAIN flight' = DOMAIN flight /\ DOMAIN flight = 1..Len(flight)
        /\ Len(flight') = Len(flight) /\ Len(flight) = Len(flight) - 0
    <3>1. Len(flight') = Len(flight) /\ DOMAIN flight = 1..Len(flight)
      BY <1>2, <1>4
    <3>2. QED
      BY <2>0, <3>1
  <2>2. ASSUME NEW i \in DOMAIN flight', NEW v \in DOMAIN flight'[i]
        PROVE  /\ i + 0 = i /\ i - 0 = i /\ i \in DOMAIN flight /\ v \in DOMAIN flight[i]
               /\ flight'[i][v] = flight[i][v]
               /\ v = u => i + 0 > 1
    <3>1. i \in Nat /\ i + 0 = i /\ i - 0 = i /\ i > 0 /\ (i = 1 \/ i \in 2..Len(flight'))
      BY <2>0
    <3>2. QED
      BY <1>4, <2>1, <3>1
  <2>3. ASSUME NEW j \in DOMAIN flight, NEW v \in DOMAIN flight[j], v # u \/ j > 1
        PROVE  j - 0 = j /\ j \in DOMAIN flight' /\ v \in DOMAIN flight'[j] /\ flight'[j][v] = flight[j][v]
    <3>1. j \in Nat /\ j - 0 = j /\ ((j = 1 /\ v # u) \/ j \in 2..Len(flight'))
      BY <2>0, <2>1, <2>3
    <3>2. QED
      BY <1>4, <2>1, <3>1
  <2>4. pc' = "process"
    <3>1. DOMAIN Head(flight) # {u}
      BY <1>2, <1>4
    <3>2. pc' = IF DOMAIN Head(flight) = {u} THEN "schedule" ELSE "process"
      BY DEF Drops, RowDone
    <3>3. QED
      BY <3>1, <3>2
  <2>5. Len(flight') = Len(flight) - 0
    BY <2>1
  <2>6. DOMAIN flight' = 1..Len(flight')
    BY <2>0
  <2>7. \A i \in DOMAIN flight' : \A v \in DOMAIN flight'[i] :
          /\ i + 0 \in DOMAIN flight /\ v \in DOMAIN flight[i + 0]
          /\ flight'[i][v] = flight[i + 0][v]
          /\ v = u => i + 0 > 1
    BY <2>2
  <2>8. \A j \in DOMAIN flight : \A v \in DOMAIN flight[j] : v # u \/ j > 1 =>
          /\ j - 0 \in DOMAIN flight' /\ v \in DOMAIN flight'[j - 0]
          /\ flight'[j - 0][v] = flight[j][v]
    BY <2>3
  <2>9. Shifted(0, u)
    BY <2>1, <2>4, <2>5, <2>6, <2>7, <2>8, Zenon DEF Shifted
  <2>10. QED
    BY <2>9
<1>5. QED
  BY <1>2, <1>3, <1>4

\* A row that is new in the batch.
Picked(u) ==
  \/ stage[u] = "prefill" /\ Boundary(u, batch'[u])
  \/ stage[u] = "decode" /\ batch'[u] = cached[u] + 1

\* Pages that nobody holds may go.
Shrinks ==
  /\ DOMAIN tree'.page \subseteq DOMAIN tree.page
  /\ \A p \in DOMAIN tree.page : tree.page[p].ref # 0 =>
       /\ p \in DOMAIN tree'.page /\ tree'.page[p].full = tree.page[p].full
       /\ tree'.page[p].swa = tree.page[p].swa

\* Requests and flight stay as they are.
Quiet ==
  /\ UNCHANGED <<reqVars, flight>> /\ Shrinks
  /\ pc = "process" => pc' = "process"
  /\ DOMAIN batch \subseteq DOMAIN batch' /\ DOMAIN batch' \subseteq Requests
  /\ \A u \in DOMAIN batch : batch'[u] = batch[u]
  /\ \A u \in DOMAIN batch' \ DOMAIN batch : Picked(u)

\* A request is admitted.
Admits(u) ==
  /\ stage[u] = "waiting" /\ stage'[u] = "prefill" /\ Others(u) /\ UNCHANGED <<pc, flight>>
  /\ SameMarks(tree', tree) /\ kind' = kind
  /\ DOMAIN batch' = DOMAIN batch \cup {u} /\ Boundary(u, batch'[u])
  /\ \A v \in DOMAIN batch \ {u} : batch'[v] = batch[v]
  /\ cached'[u] = handle'[u] * PageSize /\ handle'[u] \in Nat
  /\ handle'[u] > 0 => tree'.page[HandlePath(u)'].swa

\* Only u changes, by the processing of its row or an abort.
Alters(u) ==
  /\ Others(u) /\ UNCHANGED <<kind, batch>> /\ DOMAIN batch = {}
  /\ Drops(u) \/ UNCHANGED <<pc, flight>>

ReleasesOwn(u) ==
  /\ Alters(u) /\ Drops(u) /\ u \in Resident
  /\ tree' = tree /\ stage'[u] = stage[u] /\ cached'[u] = cached[u]
  /\ handle'[u] = handle[u] /\ row'[u] = row[u] /\ host'[u] >= host[u] /\ host'[u] \in Nat
  /\ \A i \in ownSwa[u] : i \in ownSwa'[u] \/ i <= WindowFrontier(cached[u])
  /\ Head(flight)[u].kind # "prompt"

Files(u) ==
  /\ Alters(u) /\ Drops(u) /\ stage[u] = "decode"
  /\ Head(flight)[u].kind = "prompt" /\ \E r, n : FilesPrompt(u, r, n)

Retires(u) ==
  /\ Alters(u) /\ u \in Resident /\ stage'[u] = "gone"
  /\ \E n \in Nat : handle[u] * PageSize <= n /\ tree' = CacheReq(u, n, TRUE).tree

\* u has ended, or leaves before it was admitted.
Ends(u) ==
  /\ Alters(u) /\ tree' = tree
  /\ stage'[u] = "ended" \/ (stage'[u] = "gone" /\ u \notin Resident)
  /\ cached'[u] = cached[u] /\ handle'[u] = handle[u]
  /\ row'[u] = row[u] /\ ownSwa'[u] = ownSwa[u]

LEMMA SameTreeShrinks == SameMarks(tree', tree) => Shrinks
BY DEF SameMarks, Shrinks

LEMMA TreeStays == tree' = tree => Shrinks
BY SameTreeShrinks DEF SameMarks

LEMMA QuietAllocation ==
  ASSUME TypeInv, UNCHANGED <<pc, reqVars, batch, flight>>, Shrinks
  PROVE  Quiet
<1>1. DOMAIN batch \subseteq Requests
  BY BatchIs
<1>2. QED
  BY <1>1 DEF Quiet

LEMMA QuietSteps ==
  ASSUME IInv,
         \/ \E u \in Requests : PrepareChunk(u)
         \/ BeginPrefill \/ BeginDecode \/ ReleaseEvictableSwa \/ EvictNodes
         \/ AllocationFails \/ Quiescent \/ UNCHANGED vars
  PROVE  Quiet
<1>1. TypeInv /\ DOMAIN batch \subseteq Requests
  BY BatchIs DEF IInv
<1>2. SoundTree(Contents, tree, Holders) /\ Shape(Contents, tree)
  BY DEF IInv, TreeInv, SoundTree
<1>3. ASSUME NEW u \in Requests, PrepareChunk(u) PROVE Quiet
  <2>1. PICK n \in ChunkEnds(u, cached[u]) :
          batch' = [v \in DOMAIN batch \cup {u} |-> IF v = u THEN n ELSE batch[v]]
    BY <1>3 DEF PrepareChunk
  <2>2. UNCHANGED <<pc, tree, free, reqVars, flight>> /\ stage[u] = "prefill"
        /\ pc = "schedule" /\ u \notin DOMAIN batch
    BY <1>3 DEF PrepareChunk
  <2>3. Boundary(u, n)
    BY DEF ChunkEnds, Boundary
  <2>4. DOMAIN batch' = DOMAIN batch \cup {u} /\ batch'[u] = n
        /\ \A v \in DOMAIN batch : batch'[v] = batch[v]
    BY <2>1, <2>2
  <2>5. \A v \in DOMAIN batch' \ DOMAIN batch : Picked(v)
    BY <2>2, <2>3, <2>4 DEF Picked
  <2>6. Shrinks
    BY <2>2, TreeStays
  <2>7. QED
    BY <1>1, <2>2, <2>4, <2>5, <2>6 DEF Quiet
<1>4. CASE BeginPrefill
  <2>1. UNCHANGED <<tree, free, reqVars, batch, flight>> /\ pc = "schedule"
    BY <1>4 DEF BeginPrefill
  <2>2. QED
    BY <1>1, <2>1, TreeStays DEF Quiet
<1>5. CASE BeginDecode
  <2>1. /\ UNCHANGED <<tree, free, reqVars, flight>> /\ pc = "schedule" /\ DOMAIN batch = {}
        /\ batch' = [u \in Running |-> cached[u] + 1]
    BY <1>5 DEF BeginDecode
  <2>2. DOMAIN batch' \subseteq Requests /\ \A v \in DOMAIN batch' : Picked(v)
    BY <2>1 DEF Running, Picked
  <2>3. QED
    BY <1>1, <2>1, <2>2, TreeStays DEF Quiet
<1>6. CASE ReleaseEvictableSwa
  <2>1. PICK L \in SwaReleaseSets(tree, Deficit.swa) : tree' = ReleaseLeafSwa(tree, L)
    BY <1>6 DEF ReleaseEvictableSwa
  <2>2. UNCHANGED <<pc, reqVars, batch, flight>>
    BY <1>6 DEF ReleaseEvictableSwa
  <2>3. L \subseteq tree.ends /\ L \subseteq Unlocked(tree)
    BY <2>1 DEF SwaReleaseSets, Leaves, Unlocked
  <2>4. /\ DOMAIN tree'.page = DOMAIN tree.page
        /\ \A p \in DOMAIN tree.page :
             /\ tree'.page[p].full = tree.page[p].full
             /\ tree'.page[p].swa = (tree.page[p].swa /\ p \notin PagesOf(tree, L))
    BY <1>2, <2>1, <2>3, ReleaseLeafIsSound
  <2>5. ASSUME NEW p \in PagesOf(tree, L) PROVE tree.page[p].ref = 0
    <3>1. PICK e \in L : p \in NodePages(tree, e)
      BY <2>5 DEF PagesOf
    <3>2. e \in tree.ends /\ tree.page[e].ref = 0
      BY <2>3 DEF Unlocked
    <3>3. tree.page[p].ref = tree.page[e].ref
      BY <1>2, <3>1, <3>2, NodeIsLockedAlike
    <3>4. QED
      BY <3>2, <3>3
  <2>6. \A p \in DOMAIN tree.page : tree.page[p].swa \in BOOLEAN
    BY <1>2, PageTypes
  <2>7. ASSUME NEW p \in DOMAIN tree.page, tree.page[p].ref # 0
        PROVE  tree'.page[p].swa = tree.page[p].swa
    <3>1. p \notin PagesOf(tree, L)
      BY <2>5, <2>7
    <3>2. tree'.page[p].swa = (tree.page[p].swa /\ TRUE)
      BY <2>4, <3>1
    <3>3. QED
      BY <2>6, <3>2
  <2>8. Shrinks
    BY <2>4, <2>7 DEF Shrinks
  <2>9. QED
    BY <1>1, <2>2, <2>8, QuietAllocation
<1>7. CASE EvictNodes
  <2>1. PICK E \in EvictableSets(tree, RoundSize) : tree' = Evict(tree, E)
    BY <1>7 DEF EvictNodes
  <2>2. UNCHANGED <<pc, reqVars, batch, flight>>
    BY <1>7 DEF EvictNodes
  <2>3. E \in SUBSET Unlocked(tree) /\ ChildrenFirst(tree, E)
    BY <2>1 DEF EvictableSets
  <2>4. /\ DOMAIN Evict(tree, E).page = DOMAIN tree.page \ PagesOf(tree, E)
        /\ \A p \in DOMAIN tree.page \ PagesOf(tree, E) : Evict(tree, E).page[p] = tree.page[p]
        /\ PagesOf(tree, E) \subseteq EvictablePages(tree)
    BY <1>2, <2>3, EvictIsSound
  <2>5. \A p \in DOMAIN tree.page : tree.page[p].ref # 0 => p \notin PagesOf(tree, E)
    BY <2>4 DEF EvictablePages
  <2>6. Shrinks
    BY <2>1, <2>4, <2>5 DEF Shrinks
  <2>7. QED
    BY <1>1, <2>2, <2>6, QuietAllocation
<1>8. CASE AllocationFails
  <2>1. UNCHANGED <<tree, free, reqVars, batch, flight>> /\ pc = "allocate"
    BY <1>8 DEF AllocationFails
  <2>2. QED
    BY <1>1, <2>1, TreeStays DEF Quiet
<1>9. CASE Quiescent \/ UNCHANGED vars
  <2>1. UNCHANGED <<pc, reqVars, batch, flight>> /\ tree' = tree
    BY <1>9 DEF Quiescent, vars
  <2>2. QED
    BY <1>1, <2>1, TreeStays, QuietAllocation
<1>10. QED
  BY <1>3, <1>4, <1>5, <1>6, <1>7, <1>8, <1>9

\* A lock changes no mark.
LEMMA LockMarks ==
  ASSUME NEW C, NEW t, Shape(C, t), NEW path, PagesOn(path) \subseteq DOMAIN t.page
  PROVE  SameMarks(LockHandle(t, path), t)
<1> DEFINE r == LockHandle(t, path)
           n == Cardinality({p \in PagesOn(path) : t.page[p].ref = 0})
<1>1. /\ DOMAIN r = Fields
      /\ r.page = [p \in DOMAIN t.page |->
                     IF p \in PagesOn(path) THEN [t.page[p] EXCEPT !.ref = @ + 1] ELSE t.page[p]]
      /\ r.ends = t.ends
      /\ r.evictable = t.evictable - n /\ r.protected = t.protected + n
  BY LockFields
<1>2. \A p \in DOMAIN t.page : t.page[p] \in PageRecords
  BY PageTypes
<1> HIDE DEF r
<1>3. DOMAIN r.page = DOMAIN t.page
  BY <1>1
<1>4. ASSUME NEW p \in DOMAIN t.page
      PROVE  r.page[p].full = t.page[p].full /\ r.page[p].swa = t.page[p].swa
  BY <1>1, <1>2 DEF PageRecords
<1>5. QED
  BY <1>3, <1>4 DEF SameMarks, r

LEMMA AdmissionSteps ==
  ASSUME IInv, NEW u \in Requests, TryAllocateOne(u)
  PROVE  Quiet \/ Admits(u)
<1> DEFINE m == (kind[u].input - 1) \div PageSize
           key == Path(u, m)
           walked == TreeWalk(tree, key)
           have == MatchPrefix(tree, key)
           path == Path(u, have)
           locked == LockHandle(walked, path)
           hit == have * PageSize
<1>1. /\ pc = "schedule" /\ stage[u] = "waiting"
      /\ \/ \E n \in ChunkEnds(u, hit) :
              /\ tree' = locked
              /\ stage' = [stage EXCEPT ![u] = "prefill"]
              /\ cached' = [cached EXCEPT ![u] = hit]
              /\ handle' = [handle EXCEPT ![u] = have]
              /\ row' = [row EXCEPT ![u] = MatchedRow(locked, path)]
              /\ batch' = [v \in DOMAIN batch \cup {u} |-> IF v = u THEN n ELSE batch[v]]
         \/ /\ tree' = walked
            /\ UNCHANGED <<stage, cached, handle, row, batch>>
      /\ UNCHANGED <<pc, free, kind, host, evicted, ownSwa, flight>>
  BY DEF TryAllocateOne
<1>2. TypeInv /\ RequestInv /\ SoundTree(Contents, tree, Holders)
  BY DEF IInv, TreeInv
<1>3. /\ SoundTree(Contents, walked, Holders) /\ walked.page = tree.page
      /\ have \in Nat /\ path \in Seq(Contents) /\ Names(walked, path)
      /\ have > 0 => walked.page[path].swa
  BY <1>2, MatchedPathIs
<1>4. SameMarks(walked, tree)
  BY <1>3 DEF SameMarks
<1>5. CASE tree' = walked /\ UNCHANGED <<stage, cached, handle, row, batch>>
  <2>1. UNCHANGED <<pc, reqVars, batch, flight>>
    BY <1>1, <1>5 DEF reqVars
  <2>2. Shrinks
    BY <1>4, <1>5, SameTreeShrinks
  <2>3. QED
    BY <1>2, <2>1, <2>2, QuietAllocation
<1> HIDE DEF walked, have
<1>6. ASSUME NEW n \in ChunkEnds(u, hit), tree' = locked,
             stage' = [stage EXCEPT ![u] = "prefill"],
             cached' = [cached EXCEPT ![u] = hit],
             handle' = [handle EXCEPT ![u] = have],
             row' = [row EXCEPT ![u] = MatchedRow(locked, path)],
             batch' = [v \in DOMAIN batch \cup {u} |-> IF v = u THEN n ELSE batch[v]]
      PROVE  Admits(u)
  <2>1. UNCHANGED <<pc, free, kind, host, evicted, ownSwa, flight>>
    BY <1>1
  <2>2. /\ cached \in [Requests -> Nat] /\ stage \in [Requests -> Stages] /\ handle \in [Requests -> Nat]
        /\ row \in [Requests -> Seq(Sources)]
    BY <1>2 DEF TypeInv
  <2>3. /\ stage'[u] = "prefill" /\ cached'[u] = handle'[u] * PageSize /\ handle'[u] = have
        /\ handle'[u] \in Nat
    BY <1>3, <1>6, <2>2
  <2>4. Boundary(u, n)
    BY DEF ChunkEnds, Boundary
  <2>5. /\ DOMAIN batch' = DOMAIN batch \cup {u} /\ batch'[u] = n
        /\ \A v \in DOMAIN batch \ {u} : batch'[v] = batch[v]
    BY <1>6
  <2>6. Others(u)
    BY <1>6, <2>1, <2>2, <2>5 DEF Others, Alike
  <2>7. PagesOn(path) \subseteq DOMAIN walked.page /\ Shape(Contents, walked)
    BY <1>3, NamesInTree DEF SoundTree
  <2>8. SameMarks(locked, walked)
    BY <2>7, LockMarks
  <2>9. SameMarks(tree', tree)
    BY <1>4, <1>6, <2>8 DEF SameMarks
  <2>10. ASSUME handle'[u] > 0 PROVE tree'.page[HandlePath(u)'].swa
    <3>1. walked.page[path].swa /\ HandlePath(u)' = path /\ path # <<>>
      <4>1. have # 0
        BY <2>3, <2>10
      <4>2. have > 0
        BY <1>3, <4>1
      <4>3. HandlePath(u)' = path
        BY <2>1, <2>3 DEF HandlePath, Path
      <4>4. path # <<>>
        <5>1. Len(path) = have
          BY <1>2, MatchedPathIs DEF have
        <5>2. QED
          BY <4>1, <5>1
      <4>5. QED
        BY <1>3, <4>2, <4>3, <4>4
    <3>2. path \in DOMAIN walked.page
      <4>1. path \in walked.ends
        BY <1>3, <3>1 DEF Names
      <4>2. QED
        BY <2>7, <4>1 DEF Shape
    <3>3. QED
      BY <1>6, <2>8, <3>1, <3>2 DEF SameMarks
  <2>11. Boundary(u, batch'[u])
    BY <2>4, <2>5
  <2>12. QED
    BY <1>1, <2>1, <2>3, <2>5, <2>6, <2>9, <2>10, <2>11 DEF Admits
<1>7. QED
  BY <1>1, <1>5, <1>6

\* Processing a row changes its own request only.
LEMMA RowAlters ==
  ASSUME IInv, NEW u \in Requests, Drops(u), Others(u)
  PROVE  Alters(u) /\ u \in Resident /\ RowInv(u) /\ DOMAIN batch = {}
<1>1. TypeInv /\ BatchInv /\ FlightInv /\ RequestInv
  BY DEF IInv
<1>2. flight # <<>> /\ u \in DOMAIN Head(flight) /\ UNCHANGED <<kind, batch>>
  BY DEF Drops, Processing, RowDone
<1>3. DOMAIN batch = {}
  BY <1>1 DEF Drops, Processing, BatchInv
<1>4. u \in Resident
  BY <1>1, <1>2, HeadIs
<1>5. RowInv(u)
  BY <1>1, <1>4 DEF RequestInv
<1>6. QED
  BY <1>2, <1>3, <1>4, <1>5 DEF Alters

LEMMA RetireAlters ==
  ASSUME TypeInv, NEW u \in Requests, NEW n, Retire(u, n), UNCHANGED <<kind, batch>>
  PROVE  Others(u) /\ stage'[u] = "gone" /\ tree' = CacheReq(u, n, TRUE).tree
<1>1. /\ tree' = CacheReq(u, n, TRUE).tree
      /\ stage' = [stage EXCEPT ![u] = "gone"]
      /\ row' = [row EXCEPT ![u] = <<>>] /\ ownSwa' = [ownSwa EXCEPT ![u] = {}]
      /\ handle' = [handle EXCEPT ![u] = 0] /\ cached' = [cached EXCEPT ![u] = 0]
      /\ host' = [host EXCEPT ![u] = 0] /\ evicted' = [evicted EXCEPT ![u] = 0]
  BY DEF Retire
<1>2. \A v \in Requests \ {u} : Alike(v)
  BY <1>1 DEF Alike, TypeInv
<1>3. QED
  BY <1>1, <1>2 DEF Others, TypeInv

\* The length up to which a request that gives up its pages is cached.
LEMMA RetireLength ==
  ASSUME IInv, NEW u \in Resident, DOMAIN batch = {}, NEW n \in Nat,
         n = host[u] \/ n = host[u] + 1
  PROVE  handle[u] * PageSize <= n
<1>1. TypeInv /\ RequestInv /\ u \in Requests
  BY DEF IInv, Resident
<1>2. host[u] \in Nat /\ handle[u] \in Nat /\ PageSize \in Nat \ {0}
  BY <1>1, TypesAre, CacheAssumption
<1>3. handle[u] * PageSize <= host[u]
  BY <1>1 DEF RequestInv, RowInv
<1> DEFINE x == handle[u] * PageSize
<1>4. x \in Nat /\ x <= host[u]
  BY <1>2, <1>3, Products
<1> HIDE DEF x
<1>5. x <= n
  BY <1>2, <1>4
<1>6. QED
  BY <1>5 DEF x

LEMMA EndedSteps ==
  ASSUME IInv, NEW u \in Requests, CompleteEnded(u)
  PROVE  Ends(u) \/ Retires(u)
<1>1. /\ Drops(u) /\ stage[u] = "ended" /\ UNCHANGED <<kind, batch>>
      /\ IF OutstandingAfter(u)
           THEN UNCHANGED <<tree, free, stage, cached, host, handle, evicted, row, ownSwa>>
           ELSE Retire(u, host[u])
  BY DEF CompleteEnded, Drops, RowDone
<1>2. TypeInv
  BY DEF IInv
<1>3. CASE OutstandingAfter(u)
  <2>1. UNCHANGED <<tree, stage, cached, host, handle, evicted, row, ownSwa>>
    BY <1>1, <1>3
  <2>2. Others(u)
    BY <1>1, <2>1 DEF Others, Alike
  <2>3. Alters(u)
    BY <1>1, <2>2, RowAlters
  <2>4. QED
    BY <1>1, <2>1, <2>3 DEF Ends
<1>4. CASE ~OutstandingAfter(u)
  <2>1. Retire(u, host[u]) /\ host[u] \in Nat
    BY <1>1, <1>2, <1>4, TypesAre
  <2>2. Others(u) /\ stage'[u] = "gone" /\ tree' = CacheReq(u, host[u], TRUE).tree
    BY <1>1, <1>2, <2>1, RetireAlters
  <2>3. Alters(u) /\ u \in Resident /\ DOMAIN batch = {}
    BY <1>1, <2>2, RowAlters
  <2>4. handle[u] * PageSize <= host[u]
    BY <2>1, <2>3, RetireLength
  <2>5. QED
    BY <2>1, <2>2, <2>3, <2>4 DEF Retires
<1>5. QED
  BY <1>3, <1>4

LEMMA LastTokenSteps ==
  ASSUME IInv, NEW u \in Requests, CommitLastToken(u)
  PROVE  Ends(u) \/ Retires(u)
<1>1. /\ Drops(u) /\ UNCHANGED <<kind, batch>>
      /\ IF OutstandingAfter(u)
           THEN /\ stage' = [stage EXCEPT ![u] = "ended"]
                /\ host' = [host EXCEPT ![u] = @ + 1]
                /\ UNCHANGED <<tree, free, cached, handle, evicted, row, ownSwa>>
           ELSE Retire(u, host[u] + 1)
  BY DEF CommitLastToken, Drops, RowDone
<1>2. TypeInv
  BY DEF IInv
<1>3. CASE OutstandingAfter(u)
  <2>1. /\ stage' = [stage EXCEPT ![u] = "ended"] /\ host' = [host EXCEPT ![u] = host[u] + 1]
        /\ UNCHANGED <<tree, cached, handle, evicted, row, ownSwa>>
    BY <1>1, <1>3
  <2>2. Others(u) /\ stage'[u] = "ended"
    BY <1>1, <1>2, <2>1 DEF Others, Alike, TypeInv
  <2>3. Alters(u)
    BY <1>1, <2>2, RowAlters
  <2>4. QED
    BY <2>1, <2>2, <2>3 DEF Ends
<1>4. CASE ~OutstandingAfter(u)
  <2>1. Retire(u, host[u] + 1) /\ host[u] + 1 \in Nat
    <3>1. host[u] \in Nat
      BY <1>2, TypesAre
    <3>2. QED
      BY <1>1, <1>4, <3>1
  <2>2. Others(u) /\ stage'[u] = "gone" /\ tree' = CacheReq(u, host[u] + 1, TRUE).tree
    BY <1>1, <1>2, <2>1, RetireAlters
  <2>3. Alters(u) /\ u \in Resident /\ DOMAIN batch = {}
    BY <1>1, <2>2, RowAlters
  <2>4. handle[u] * PageSize <= host[u] + 1
    BY <2>1, <2>3, RetireLength
  <2>5. QED
    BY <2>1, <2>2, <2>3, <2>4 DEF Retires
<1>5. QED
  BY <1>3, <1>4

LEMMA AbortSteps ==
  ASSUME IInv, NEW u \in Requests, Abort(u)
  PROVE  Ends(u) \/ Retires(u)
<1>1. /\ DOMAIN batch = {} /\ stage[u] \in {"waiting", "prefill", "decode"}
      /\ IF stage[u] = "waiting"
           THEN /\ stage' = [stage EXCEPT ![u] = "gone"]
                /\ UNCHANGED <<tree, free, cached, host, handle, evicted, row, ownSwa>>
         ELSE IF Issued(u)
           THEN /\ stage' = [stage EXCEPT ![u] = "ended"]
                /\ UNCHANGED <<tree, free, cached, host, handle, evicted, row, ownSwa>>
         ELSE Retire(u, host[u])
      /\ UNCHANGED <<pc, kind, batch, flight>>
  BY DEF Abort
<1>2. TypeInv
  BY DEF IInv
<1>3. CASE stage[u] = "waiting" \/ Issued(u)
  <2>1. UNCHANGED <<tree, free, cached, host, handle, evicted, row, ownSwa>>
    BY <1>1, <1>3
  <2>2. \/ stage' = [stage EXCEPT ![u] = "gone"] /\ stage[u] = "waiting"
        \/ stage' = [stage EXCEPT ![u] = "ended"]
    BY <1>1, <1>3
  <2>3. Others(u)
    BY <1>1, <1>2, <2>1, <2>2 DEF Others, Alike, TypeInv
  <2>4. stage'[u] = "ended" \/ (stage'[u] = "gone" /\ u \notin Resident)
    BY <1>2, <2>2 DEF TypeInv, Resident
  <2>5. QED
    BY <1>1, <2>1, <2>3, <2>4 DEF Ends, Alters
<1>4. CASE ~(stage[u] = "waiting" \/ Issued(u))
  <2>1. Retire(u, host[u]) /\ host[u] \in Nat /\ u \in Resident
    BY <1>1, <1>2, <1>4, TypesAre DEF Resident
  <2>2. Others(u) /\ stage'[u] = "gone" /\ tree' = CacheReq(u, host[u], TRUE).tree
    BY <1>1, <1>2, <2>1, RetireAlters
  <2>3. handle[u] * PageSize <= host[u]
    BY <1>1, <2>1, RetireLength
  <2>4. Alters(u)
    BY <1>1, <2>2 DEF Alters
  <2>5. QED
    BY <2>1, <2>2, <2>3, <2>4 DEF Retires
<1>5. QED
  BY <1>3, <1>4

\* What ReleaseActive gives up lies behind the window.
LEMMA ReleaseSteps ==
  ASSUME IInv, NEW u \in Requests, Drops(u), Others(u), NEW len \in Nat, len <= cached[u],
         NEW from \in Nat, from * PageSize <= cached[u], \A i \in ownSwa[u] : i > from,
         NEW newest, ReleaseActive(u, len, from, newest),
         UNCHANGED <<tree, stage, cached, handle, row>>,
         host'[u] >= host[u], host'[u] \in Nat, Head(flight)[u].kind # "prompt"
  PROVE  ReleasesOwn(u)
<1> DEFINE d == ActiveRelease(u, len, from)
<1>1. TypeInv
  BY DEF IInv
<1>2. Alters(u) /\ u \in Resident /\ RowInv(u)
  BY RowAlters
<1>3. \A i \in d.pages : i <= WindowFrontier(cached[u])
  <2> DEFINE e == d
  <2>1. e = ActiveRelease(u, len, from)
    OBVIOUS
  <2> HIDE DEF e
  <2>2. \A i \in e.pages : i <= WindowFrontier(cached[u])
    BY <1>1, <1>2, <2>1, ActiveReleaseIs
  <2>3. QED
    BY <2>2 DEF e
<1>4. ownSwa'[u] = ownSwa[u] \ d.pages
  BY <1>1 DEF ReleaseActive, TypeInv
<1> HIDE DEF d
<1>5. \A i \in ownSwa[u] : i \in ownSwa'[u] \/ i <= WindowFrontier(cached[u])
  BY <1>3, <1>4
<1>6. QED
  BY <1>2, <1>5 DEF ReleasesOwn

LEMMA ChunkSteps ==
  ASSUME IInv, NEW u \in Requests, CompleteChunk(u)
  PROVE  ReleasesOwn(u)
<1> DEFINE issued == Head(flight)[u]
<1>1. /\ Drops(u) /\ issued.kind = "chunk"
      /\ ReleaseActive(u, issued.len, issued.frontier, ~OutstandingAfter(u))
      /\ UNCHANGED <<kind, batch, tree, stage, cached, host, handle, row>>
  BY DEF CompleteChunk, Drops, RowDone
<1>2. TypeInv /\ FlightInv /\ flight # <<>> /\ u \in DOMAIN Head(flight)
  BY <1>1 DEF IInv, Drops, Processing
<1>3. FlightRow(issued, u) /\ issued.len \in Nat /\ issued.frontier \in Nat
  BY <1>2, HeadIs
<1>4. /\ issued.len <= cached[u] /\ issued.frontier * PageSize <= cached[u]
      /\ \A i \in ownSwa[u] : i > issued.frontier
  BY <1>3 DEF FlightRow
<1>5. host[u] \in Nat /\ host'[u] = host[u] /\ host'[u] >= host[u]
  BY <1>1, <1>2, TypesAre
<1>6. Others(u)
  BY <1>1, <1>2 DEF Others, Alike, ReleaseActive, TypeInv
<1>7. issued.kind # "prompt"
  BY <1>1
<1>8. QED
  <2> DEFINE len == issued.len
             from == issued.frontier
             newest == ~OutstandingAfter(u)
  <2>1. /\ len \in Nat /\ len <= cached[u] /\ from \in Nat /\ from * PageSize <= cached[u]
        /\ \A i \in ownSwa[u] : i > from
        /\ ReleaseActive(u, len, from, newest)
    BY <1>1, <1>3, <1>4
  <2>2. UNCHANGED <<tree, stage, cached, handle, row>> /\ host'[u] \in Nat
        /\ Head(flight)[u].kind # "prompt"
    BY <1>1, <1>5, <1>7
  <2> HIDE DEF len, from, newest, issued
  <2>3. QED
    BY <1>1, <1>5, <1>6, <2>1, <2>2, ReleaseSteps

LEMMA TokenSteps ==
  ASSUME IInv, NEW u \in Requests, CommitToken(u)
  PROVE  ReleasesOwn(u) \/ Files(u)
<1> DEFINE r == CacheReq(u, host[u] + 1, FALSE)
           n == Len(r.path)
<1>1. /\ Drops(u) /\ stage[u] = "decode" /\ UNCHANGED <<kind, batch>>
      /\ host' = [host EXCEPT ![u] = @ + 1] /\ UNCHANGED <<stage, cached>>
      /\ IF Head(flight)[u].kind = "prompt"
           THEN /\ tree' = r.tree /\ free' = Plus(free, r.freed)
                /\ handle' = [handle EXCEPT ![u] = n]
                /\ row' = [row EXCEPT ![u] = MatchedRow(r.tree, r.path) \o SubSeq(row[u], n + 1, Len(row[u]))]
                /\ ownSwa' = [ownSwa EXCEPT ![u] = @ \ 1..n]
                /\ UNCHANGED evicted
           ELSE /\ ReleaseActive(u, cached[u], evicted[u], TRUE)
                /\ UNCHANGED <<tree, handle, row>>
  BY DEF CommitToken, Drops, RowDone
<1>2. TypeInv /\ RequestInv /\ u \in Resident
  BY <1>1 DEF IInv, Resident
<1>3. r = CacheReq(u, host[u] + 1, FALSE) /\ n = Len(r.path)
  OBVIOUS
<1> HIDE DEF r, n
<1>4. CASE Head(flight)[u].kind = "prompt"
  <2>1. /\ tree' = r.tree /\ free' = Plus(free, r.freed)
        /\ handle' = [handle EXCEPT ![u] = n]
        /\ row' = [row EXCEPT ![u] = MatchedRow(r.tree, r.path) \o SubSeq(row[u], n + 1, Len(row[u]))]
        /\ ownSwa' = [ownSwa EXCEPT ![u] = @ \ 1..n]
        /\ UNCHANGED <<evicted, stage, cached>>
    BY <1>1, <1>4
  <2>2. FilesPrompt(u, r, n)
    BY <1>1, <1>3, <2>1 DEF FilesPrompt
  <2>3. Others(u)
    BY <1>1, <1>2, <2>1 DEF Others, Alike, TypeInv
  <2>4. Alters(u)
    BY <1>1, <2>3, RowAlters
  <2>5. QED
    BY <1>1, <1>4, <2>2, <2>4 DEF Files
<1>5. CASE Head(flight)[u].kind # "prompt"
  <2>1. ReleaseActive(u, cached[u], evicted[u], TRUE) /\ UNCHANGED <<tree, stage, cached, handle, row>>
    BY <1>1, <1>5
  <2>2. RowInv(u) /\ cached[u] \in Nat /\ evicted[u] \in Nat /\ host[u] \in Nat
    BY <1>2, TypesAre DEF RequestInv
  <2>3. /\ cached[u] <= cached[u] /\ evicted[u] * PageSize <= cached[u]
        /\ \A i \in ownSwa[u] : i > evicted[u]
    BY <2>2 DEF RowInv
  <2>4. host'[u] \in Nat /\ host'[u] >= host[u]
    <3>1. host'[u] = host[u] + 1
      BY <1>1, <1>2 DEF TypeInv
    <3>2. QED
      BY <2>2, <3>1
  <2>5. Others(u)
    BY <1>1, <1>2, <2>1 DEF Others, Alike, ReleaseActive, TypeInv
  <2>6. QED
    BY <1>1, <1>2, <1>5, <2>1, <2>2, <2>3, <2>4, <2>5, ReleaseSteps
<1>6. QED
  BY <1>4, <1>5

LEMMA Steps ==
  ASSUME IInv, [Next]_vars
  PROVE  \/ Quiet \/ Issue
         \/ \E u \in Requests : Admits(u) \/ ReleasesOwn(u) \/ Files(u) \/ Retires(u) \/ Ends(u)
<1>1. CASE \E u \in Requests : TryAllocateOne(u)
  BY <1>1, AdmissionSteps
<1>2. CASE \/ \E u \in Requests : PrepareChunk(u)
           \/ BeginPrefill \/ BeginDecode \/ ReleaseEvictableSwa \/ EvictNodes
           \/ AllocationFails \/ Quiescent \/ UNCHANGED vars
  BY <1>2, QuietSteps
<1>3. CASE \E u \in Requests : CompleteEnded(u) \/ CommitLastToken(u) \/ Abort(u)
  BY <1>3, EndedSteps, LastTokenSteps, AbortSteps
<1>4. CASE \E u \in Requests : CompleteChunk(u) \/ CommitToken(u)
  BY <1>4, ChunkSteps, TokenSteps
<1>5. QED
  BY <1>1, <1>2, <1>3, <1>4 DEF Next, Schedule, Allocate, Process

-------------------------------------------------------------------------------
(* The invariant of the windows is kept: the SWA pages of a request.          *)

LEMMA QuietAlike == Quiet => \A v \in Requests : Alike(v)
BY DEF Quiet, Alike, reqVars

LEMMA KeptAlike == ASSUME NEW v, Alike(v), KeptRow(v) PROVE KeptRow(v)'
BY DEF Alike, KeptRow

LEMMA KeptOthers ==
  ASSUME KeptInv, NEW u \in Requests, Others(u), u \in Resident' => KeptRow(u)'
  PROVE  KeptInv'
<1>1. ASSUME NEW v \in Resident' PROVE KeptRow(v)'
  <2>1. v \in Requests
    BY DEF Resident
  <2>2. CASE v = u
    BY <1>1, <2>2
  <2>3. CASE v # u
    <3>1. Alike(v)
      BY <2>1, <2>3 DEF Others
    <3>2. v \in Resident
      BY <1>1, <2>1, <3>1, AlikeIs
    <3>3. QED
      BY <3>1, <3>2, KeptAlike DEF KeptInv
  <2>4. QED
    BY <2>2, <2>3
<1>2. QED
  BY <1>1 DEF KeptInv

LEMMA KeptQuiet == ASSUME KeptInv, Quiet PROVE KeptInv'
<1>1. ASSUME NEW v \in Resident' PROVE KeptRow(v)'
  <2>1. v \in Requests
    BY DEF Resident
  <2>2. Alike(v)
    BY <2>1, QuietAlike
  <2>3. v \in Resident
    BY <1>1, <2>1, <2>2, AlikeIs
  <2>4. QED
    BY <2>2, <2>3, KeptAlike DEF KeptInv
<1>2. QED
  BY <1>1 DEF KeptInv

LEMMA KeptIssue ==
  ASSUME IInv, KeptInv, Issue
  PROVE  KeptInv'
<1>1. TypeInv /\ RequestInv /\ BatchInv
  BY DEF IInv
<1>2. ASSUME NEW u \in Resident', u \notin DOMAIN batch PROVE KeptRow(u)'
  <2>1. u \in Requests
    BY DEF Resident
  <2>2. Alike(u)
    BY <1>1, <1>2, <2>1, IssueLeaves
  <2>3. u \in Resident
    BY <1>2, <2>1, <2>2, AlikeIs
  <2>4. QED
    BY <2>2, <2>3, KeptAlike DEF KeptInv
<1>3. ASSUME NEW u \in DOMAIN batch PROVE KeptRow(u)'
  <2>1. u \in Requests /\ RowInv(u) /\ Extended(u)
    BY <1>1, IssueExtends
  <2>2. u \in Resident /\ KeptRow(u)
    BY <1>1, <2>1, ExtendedIs DEF KeptInv
  <2>3. /\ cached'[u] = batch[u] /\ batch[u] \in Nat /\ cached[u] < batch[u] /\ cached[u] \in Nat
        /\ Len(row[u]) \in Nat /\ Len(row'[u]) \in Nat
        /\ handle[u] \in Nat /\ handle'[u] = handle[u]
        /\ ownSwa'[u] = ownSwa[u] \cup ((Len(row[u]) + 1)..Len(row'[u]))
    BY <1>1, <2>1, TypesAre DEF Extended
  <2>4. cached[u] <= batch[u]
    BY <2>3
  <2>5. /\ WindowFrontier(cached[u]) <= WindowFrontier(batch[u])
        /\ WindowFrontier(cached[u]) \in Nat /\ WindowFrontier(batch[u]) \in Nat
    BY <2>3, <2>4, FrontierIs
  <2>6. ASSUME NEW i \in (handle[u] + 1)..Len(row'[u])
        PROVE  i \in ownSwa'[u] \/ i <= WindowFrontier(batch[u])
    <3>1. CASE i > Len(row[u])
      BY <2>3, <3>1
    <3>2. CASE ~(i > Len(row[u]))
      <4>1. i \in (handle[u] + 1)..Len(row[u]) /\ i \in Nat
        BY <2>3, <3>2
      <4>2. i \in ownSwa[u] \/ i <= WindowFrontier(cached[u])
        BY <2>2, <4>1 DEF KeptRow
      <4>3. QED
        BY <2>3, <2>5, <4>1, <4>2
    <3>3. QED
      BY <3>1, <3>2
  <2>7. QED
    BY <2>3, <2>6 DEF KeptRow
<1>4. QED
  BY <1>2, <1>3 DEF KeptInv

LEMMA AdmittedRow ==
  ASSUME TypeInv', RequestInv', NEW u \in Requests, Admits(u)
  PROVE  /\ RowInv(u)' /\ u \in Resident' /\ handle'[u] \in Nat
         /\ Len(row'[u]) = handle'[u]
<1>1. stage'[u] = "prefill" /\ cached'[u] = handle'[u] * PageSize /\ handle'[u] \in Nat
  BY DEF Admits
<1>2. u \in Resident'
  BY <1>1 DEF Resident
<1>3. RowInv(u)'
  BY <1>2 DEF RequestInv
<1>4. Len(row'[u]) = DivCeil(cached'[u], PageSize)
  BY <1>3 DEF RowInv
<1>5. DivCeil(handle'[u] * PageSize, PageSize) = handle'[u]
  <2> DEFINE m == handle'[u]
  <2>1. m \in Nat /\ PageSize \in Nat \ {0}
    BY <1>1, CacheAssumption
  <2> HIDE DEF m
  <2>2. DivCeil(m * PageSize, PageSize) = m
    BY <2>1, Ceilings
  <2>3. QED
    BY <2>2 DEF m
<1>6. QED
  BY <1>1, <1>2, <1>3, <1>4, <1>5

LEMMA FiledRow ==
  ASSUME IInv, NEW u \in Requests, Alters(u), stage[u] = "decode", NEW r, NEW n, FilesPrompt(u, r, n)
  PROVE  /\ handle'[u] = n /\ n \in Nat /\ handle[u] <= n /\ handle[u] \in Nat
         /\ stage'[u] = "decode" /\ cached'[u] = cached[u] /\ cached[u] \in Nat
         /\ host'[u] = host[u] + 1 /\ host[u] \in Nat
         /\ Len(row'[u]) = Len(row[u]) /\ Len(row[u]) \in Nat /\ n <= Len(row[u])
         /\ \A i \in 1..n : row'[u][i] = MatchedRow(r.tree, Path(u, n))[i]
         /\ ownSwa'[u] = ownSwa[u] \ (1..n)
         /\ n = FiledLen(u, host[u] + 1) /\ r.path = Path(u, n) /\ u \in Resident
         /\ Path(u, n) \in Seq(Contents) /\ Len(Path(u, n)) = n /\ n \in 0..Len(kind[u].text)
<1>1. TypeInv /\ RequestInv /\ u \in Resident /\ DOMAIN batch = {}
  BY DEF IInv, Resident, Alters
<1>2. /\ n = FiledLen(u, host[u] + 1) /\ r.path = Path(u, n)
      /\ Path(u, n) \in Seq(Contents) /\ Len(Path(u, n)) = n
      /\ n \in 0..Len(kind[u].text) /\ n \in 0..Len(row[u]) /\ handle[u] <= n
  BY <1>1, FilesIs
<1>3. /\ handle[u] \in Nat /\ cached[u] \in Nat /\ host[u] \in Nat /\ Len(row[u]) \in Nat
      /\ row[u] \in Seq(Sources)
  BY <1>1, TypesAre
<1>4. /\ handle \in [Requests -> Nat] /\ row \in [Requests -> Seq(Sources)]
      /\ host \in [Requests -> Nat] /\ ownSwa \in [Requests -> SUBSET Nat]
  BY <1>1 DEF TypeInv
<1>5. /\ handle'[u] = n /\ stage'[u] = "decode" /\ cached'[u] = cached[u]
      /\ host'[u] = host[u] + 1 /\ ownSwa'[u] = ownSwa[u] \ (1..n)
      /\ row'[u] = MatchedRow(r.tree, Path(u, n)) \o SubSeq(row[u], n + 1, Len(row[u]))
  BY <1>2, <1>4 DEF FilesPrompt
<1>6. Len(row'[u]) = Len(row[u]) /\ \A i \in 1..n : row'[u][i] = MatchedRow(r.tree, Path(u, n))[i]
  <2> DEFINE t == MatchedRow(r.tree, Path(u, n))
             q == row'[u]
  <2>1. t \in Seq(Sources) /\ Len(t) = n
    <3> DEFINE p == Path(u, n)
    <3>1. p \in Seq(Contents) /\ Len(p) = n
      BY <1>2
    <3> HIDE DEF p
    <3>2. MatchedRow(r.tree, p) \in Seq(Sources) /\ Len(MatchedRow(r.tree, p)) = n
      BY <3>1, MatchedRowIs
    <3>3. QED
      BY <3>2 DEF p
  <2>2. q = t \o SubSeq(row[u], n + 1, Len(row[u]))
    BY <1>5
  <2> HIDE DEF t, q
  <2>3. Spliced(q, row[u], n, t)
    BY <1>2, <1>3, <2>1, <2>2 DEF Spliced
  <2>4. NewHead(q, row[u], n, t)
    BY <2>3, NewRow
  <2>5. QED
    BY <2>4 DEF NewHead, t, q
<1>7. n \in Nat /\ n <= Len(row[u])
  BY <1>2, <1>3
<1>8. QED
  BY <1>1, <1>2, <1>3, <1>5, <1>6, <1>7

LEMMA KeptKept ==
  ASSUME IInv, IInv', KeptInv, [Next]_vars
  PROVE  KeptInv'
<1>1. TypeInv' /\ RequestInv' /\ TypeInv /\ RequestInv
  BY DEF IInv
<1>2. ASSUME NEW u \in Requests, Admits(u) PROVE KeptInv'
  <2>1. Others(u)
    BY <1>2 DEF Admits
  <2>2. Len(row'[u]) = handle'[u] /\ handle'[u] \in Nat
    BY <1>1, <1>2, AdmittedRow
  <2>3. KeptRow(u)'
    BY <2>2 DEF KeptRow
  <2>4. QED
    BY <2>1, <2>3, KeptOthers
<1>3. ASSUME NEW u \in Requests, ReleasesOwn(u) PROVE KeptInv'
  <2>1. /\ Others(u) /\ u \in Resident /\ cached'[u] = cached[u] /\ handle'[u] = handle[u]
        /\ row'[u] = row[u]
        /\ \A i \in ownSwa[u] : i \in ownSwa'[u] \/ i <= WindowFrontier(cached[u])
    BY <1>3 DEF ReleasesOwn, Alters
  <2>2. KeptRow(u)
    BY <2>1 DEF KeptInv
  <2>3. KeptRow(u)'
    BY <2>1, <2>2 DEF KeptRow
  <2>4. QED
    BY <2>1, <2>3, KeptOthers
<1>4. ASSUME NEW u \in Requests, Files(u) PROVE KeptInv'
  <2>1. Alters(u) /\ Others(u) /\ stage[u] = "decode"
    BY <1>4 DEF Files, Alters
  <2>2. PICK r, n : FilesPrompt(u, r, n)
    BY <1>4 DEF Files
  <2>3. /\ handle'[u] = n /\ n \in Nat /\ handle[u] <= n /\ handle[u] \in Nat
        /\ cached'[u] = cached[u] /\ Len(row'[u]) = Len(row[u]) /\ Len(row[u]) \in Nat
        /\ ownSwa'[u] = ownSwa[u] \ (1..n) /\ u \in Resident
    BY <2>1, <2>2, FiledRow
  <2>4. KeptRow(u)
    BY <2>3 DEF KeptInv
  <2>5. ASSUME NEW i \in (n + 1)..Len(row[u])
        PROVE  i \in ownSwa'[u] \/ i <= WindowFrontier(cached[u])
    <3>1. i \in (handle[u] + 1)..Len(row[u]) /\ i \notin 1..n
      BY <2>3
    <3>2. QED
      BY <2>3, <2>4, <3>1 DEF KeptRow
  <2>6. KeptRow(u)'
    BY <2>3, <2>5 DEF KeptRow
  <2>7. QED
    BY <2>1, <2>6, KeptOthers
<1>5. ASSUME NEW u \in Requests, Retires(u) PROVE KeptInv'
  <2>1. Others(u) /\ u \notin Resident'
    BY <1>5 DEF Retires, Alters, Resident
  <2>2. QED
    BY <2>1, KeptOthers
<1>6. ASSUME NEW u \in Requests, Ends(u) PROVE KeptInv'
  <2>1. Others(u) /\ cached'[u] = cached[u] /\ handle'[u] = handle[u] /\ row'[u] = row[u]
        /\ ownSwa'[u] = ownSwa[u]
    BY <1>6 DEF Ends, Alters
  <2>2. ASSUME u \in Resident' PROVE KeptRow(u)'
    <3>1. CASE u \in Resident
      BY <2>1, <3>1 DEF KeptInv, KeptRow
    <3>2. CASE u \notin Resident
      <4>1. Empty(u)
        BY <1>1, <3>2 DEF RequestInv
      <4>2. Len(row'[u]) = 0 /\ handle'[u] = 0
        BY <2>1, <4>1 DEF Empty
      <4>3. QED
        BY <4>2 DEF KeptRow
    <3>3. QED
      BY <3>1, <3>2
  <2>3. QED
    BY <2>1, <2>2, KeptOthers
<1>7. QED
  BY <1>2, <1>3, <1>4, <1>5, <1>6, Steps, KeptQuiet, KeptIssue

-------------------------------------------------------------------------------
(* The invariant of the windows is kept: the chunks of a prompt.              *)

\* What a handle names is locked.
LEMMA HandleIsLocked ==
  ASSUME TypeInv, TreeInv, RequestInv, NEW u \in Resident, handle[u] > 0
  PROVE  HandlePath(u) \in DOMAIN tree.page /\ tree.page[HandlePath(u)].ref # 0
<1> DEFINE p == HandlePath(u)
<1>1. p \in DOMAIN tree.page
  BY HandleIsCached
<1>2. p \in Seq(Contents) /\ Holders[u] = p /\ u \in DOMAIN Holders
  BY HandleIs, HoldersAre
<1>3. Locks(Contents, tree, Holders)
  BY DEF TreeInv, SoundTree
<1> HIDE DEF p
<1>4. u \in Above(Holders, p)
  BY <1>2, PrefixReflexive DEF Above
<1>5. IsFiniteSet(Above(Holders, p)) /\ tree.page[p].ref = Cardinality(Above(Holders, p))
  BY <1>1, <1>3, AboveIsFinite DEF Locks
<1>6. tree.page[p].ref # 0
  BY <1>4, <1>5, FS_EmptySet
<1>7. QED
  BY <1>1, <1>6 DEF p

LEMMA ChunkAlike ==
  ASSUME NEW v \in Requests, Alike(v), ChunkRow(v),
         v \in DOMAIN batch' => Boundary(v, batch'[v]),
         handle[v] > 0 => tree'.page[HandlePath(v)].swa = tree.page[HandlePath(v)].swa
  PROVE  ChunkRow(v)'
<1>1. /\ kind' = kind /\ cached'[v] = cached[v] /\ handle'[v] = handle[v]
      /\ HandlePath(v)' = HandlePath(v) /\ (v \in DOMAIN batch => v \in DOMAIN batch')
  BY AlikeIs DEF Alike
<1>2. v \in DOMAIN batch' => Boundary(v, batch[v])'
  BY <1>1 DEF Boundary
<1>3. handle'[v] > 0 /\ cached'[v] = handle'[v] * PageSize =>
        v \in DOMAIN batch' /\ tree'.page[HandlePath(v)'].swa
  BY <1>1 DEF ChunkRow
<1>4. cached'[v] % PageSize = 0
  BY <1>1 DEF ChunkRow
<1>5. QED
  BY <1>2, <1>3, <1>4 DEF ChunkRow

\* Once it has no row in a batch, a prompt needs nothing of the tree.
LEMMA ChunkStill ==
  ASSUME NEW v \in Requests, ChunkRow(v), v \notin DOMAIN batch, v \notin DOMAIN batch',
         cached'[v] = cached[v], handle'[v] = handle[v]
  PROVE  ChunkRow(v)'
<1>1. cached'[v] % PageSize = 0 /\ ~(handle'[v] > 0 /\ cached'[v] = handle'[v] * PageSize)
  BY DEF ChunkRow
<1>2. QED
  BY <1>1 DEF ChunkRow

LEMMA PrefillQuiet == ASSUME IInv, PrefillInv, Quiet PROVE PrefillInv'
<1> SUFFICES ASSUME NEW v \in Requests, stage'[v] = "prefill" PROVE ChunkRow(v)'
  BY DEF PrefillInv
<1>1. TypeInv /\ TreeInv /\ RequestInv /\ Alike(v) /\ Shrinks
  BY QuietAlike DEF IInv, Quiet
<1>2. stage[v] = "prefill" /\ v \in Resident /\ ChunkRow(v)
  BY <1>1 DEF Alike, Resident, PrefillInv
<1>3. handle[v] > 0 => tree'.page[HandlePath(v)].swa = tree.page[HandlePath(v)].swa
  BY <1>1, <1>2, HandleIsLocked DEF Shrinks
<1>4. v \in DOMAIN batch' => Boundary(v, batch'[v])
  BY <1>2 DEF Quiet, Picked, ChunkRow
<1>5. QED
  BY <1>1, <1>2, <1>3, <1>4, ChunkAlike

LEMMA PrefillAdmits ==
  ASSUME IInv, IInv', PrefillInv, NEW u \in Requests, Admits(u)
  PROVE  PrefillInv'
<1> SUFFICES ASSUME NEW v \in Requests, stage'[v] = "prefill" PROVE ChunkRow(v)'
  BY DEF PrefillInv
<1>1. CASE v # u
  <2>1. TypeInv /\ TreeInv /\ RequestInv /\ Alike(v) /\ SameMarks(tree', tree)
    BY <1>1 DEF IInv, Admits, Others
  <2>2. stage[v] = "prefill" /\ v \in Resident /\ ChunkRow(v)
    BY <2>1 DEF Alike, Resident, PrefillInv
  <2>3. handle[v] > 0 => tree'.page[HandlePath(v)].swa = tree.page[HandlePath(v)].swa
    BY <2>1, <2>2, HandleIsLocked DEF SameMarks
  <2>4. v \in DOMAIN batch' => Boundary(v, batch'[v])
    BY <1>1, <2>2 DEF Admits, ChunkRow
  <2>5. QED
    BY <2>1, <2>2, <2>3, <2>4, ChunkAlike
<1>2. CASE v = u
  <2>1. /\ kind' = kind /\ u \in DOMAIN batch' /\ Boundary(u, batch'[u])
        /\ cached'[u] = handle'[u] * PageSize /\ handle'[u] \in Nat
        /\ handle'[u] > 0 => tree'.page[HandlePath(u)'].swa
    BY DEF Admits
  <2>2. cached'[u] % PageSize = 0
    <3> DEFINE m == handle'[u]
               c == m * PageSize
    <3>1. m \in Nat /\ c \in Nat /\ PageSize \in Nat \ {0} /\ c \div PageSize = m
      <4>1. m \in Nat /\ PageSize \in Nat \ {0}
        BY <2>1, CacheAssumption
      <4> HIDE DEF m
      <4>2. QED
        BY <4>1, Ceilings, Products
    <3>2. c = (c \div PageSize) * PageSize
      BY <3>1
    <3> HIDE DEF c
    <3>3. c % PageSize = 0
      BY <3>1, <3>2, Whole
    <3>4. QED
      BY <2>1, <3>3 DEF c
  <2>3. Boundary(u, batch[u])'
    BY <2>1 DEF Boundary
  <2>4. ChunkRow(u)'
    BY <2>1, <2>2, <2>3 DEF ChunkRow
  <2>5. QED
    BY <1>2, <2>4
<1>3. QED
  BY <1>1, <1>2

LEMMA PrefillIssue ==
  ASSUME IInv, PrefillInv, Issue
  PROVE  PrefillInv'
<1> SUFFICES ASSUME NEW v \in Requests, stage'[v] = "prefill" PROVE ChunkRow(v)'
  BY DEF PrefillInv
<1>1. TypeInv /\ RequestInv /\ BatchInv /\ DOMAIN batch' = {}
  BY DEF IInv, Issue
<1>2. CASE v \notin DOMAIN batch
  <2>1. Alike(v)
    BY <1>1, <1>2, IssueLeaves
  <2>2. stage[v] = "prefill" /\ ChunkRow(v) /\ cached'[v] = cached[v] /\ handle'[v] = handle[v]
    BY <2>1 DEF Alike, PrefillInv
  <2>3. QED
    BY <1>1, <1>2, <2>2, ChunkStill
<1>3. CASE v \in DOMAIN batch
  <2>1. RowInv(v) /\ Extended(v)
    BY <1>1, <1>3, IssueExtends
  <2>2. stage'[v] = IF batch[v] >= kind[v].input THEN "decode" ELSE stage[v]
    BY <1>3 DEF Issue
  <2>3. stage[v] = "prefill" /\ ~(batch[v] >= kind[v].input) /\ ChunkRow(v)
    BY <2>2 DEF PrefillInv
  <2>4. /\ cached'[v] = batch[v] /\ handle'[v] = handle[v] /\ cached[v] < batch[v]
        /\ batch[v] \in Nat /\ cached[v] \in Nat /\ handle[v] \in Nat /\ PageSize \in Nat \ {0}
        /\ handle[v] * PageSize <= cached[v] /\ kind[v].input \in Nat
    BY <1>1, <2>1, TypesAre, KindIs, CacheAssumption DEF Extended, RowInv
  <2>5. batch[v] # kind[v].input
    BY <2>3, <2>4
  <2>6. batch[v] % PageSize = 0
    BY <1>3, <2>3, <2>5 DEF ChunkRow, Boundary
  <2>7. batch[v] # handle[v] * PageSize
    <3> DEFINE x == handle[v] * PageSize
    <3>1. x \in Nat /\ x <= cached[v]
      BY <2>4, Products
    <3> HIDE DEF x
    <3>2. batch[v] # x
      BY <2>4, <3>1
    <3>3. QED
      BY <3>2 DEF x
  <2>8. QED
    BY <1>1, <2>4, <2>6, <2>7 DEF ChunkRow
<1>4. QED
  BY <1>2, <1>3

LEMMA PrefillAlters ==
  ASSUME PrefillInv, NEW u \in Requests, Alters(u),
         stage'[u] = "prefill" =>
           stage[u] = "prefill" /\ cached'[u] = cached[u] /\ handle'[u] = handle[u]
  PROVE  PrefillInv'
<1> SUFFICES ASSUME NEW v \in Requests, stage'[v] = "prefill" PROVE ChunkRow(v)'
  BY DEF PrefillInv
<1>1. v \notin DOMAIN batch /\ v \notin DOMAIN batch' /\ Others(u)
  BY DEF Alters
<1>2. stage[v] = "prefill" /\ cached'[v] = cached[v] /\ handle'[v] = handle[v]
  BY <1>1 DEF Others, Alike
<1>3. ChunkRow(v)
  BY <1>2 DEF PrefillInv
<1>4. QED
  BY <1>1, <1>2, <1>3, ChunkStill

LEMMA PrefillKept ==
  ASSUME IInv, IInv', PrefillInv, [Next]_vars
  PROVE  PrefillInv'
<1>1. ASSUME NEW u \in Requests, ReleasesOwn(u) PROVE PrefillInv'
  BY <1>1, PrefillAlters DEF ReleasesOwn
<1>2. ASSUME NEW u \in Requests, Files(u) PROVE PrefillInv'
  <2>1. PICK r, n : FilesPrompt(u, r, n)
    BY <1>2 DEF Files
  <2>2. stage' = stage /\ stage[u] = "decode" /\ Alters(u)
    BY <1>2, <2>1 DEF FilesPrompt, Files
  <2>3. QED
    BY <2>2, PrefillAlters
<1>3. ASSUME NEW u \in Requests, Retires(u) \/ Ends(u) PROVE PrefillInv'
  BY <1>3, PrefillAlters DEF Retires, Ends
<1>4. QED
  BY <1>1, <1>2, <1>3, Steps, PrefillQuiet, PrefillAdmits, PrefillIssue

-------------------------------------------------------------------------------
(* The invariant of the windows is kept: the order of what is in flight.      *)

LEMMA FlightIs ==
  ASSUME TypeInv
  PROVE  /\ Len(flight) \in Nat /\ DOMAIN flight = 1..Len(flight)
         /\ \A i \in DOMAIN flight : i \in Nat /\ i > 0 /\ i <= Len(flight)
BY DEF TypeInv

LEMMA OrderRowAlike ==
  ASSUME NEW i, NEW v, OrderRow(i, v), Alike(v), flight' = flight
  PROVE  OrderRow(i, v)'
BY DEF OrderRow, Alike

LEMMA OrderQuiet == ASSUME IInv, OrderInv, Quiet PROVE OrderInv'
<1>1. TypeInv /\ flight' = flight /\ (pc = "process" => pc' = "process")
      /\ \A v \in Requests : Alike(v)
  BY QuietAlike DEF IInv, Quiet
<1>2. ASSUME NEW i \in DOMAIN flight, NEW v \in DOMAIN flight[i] PROVE OrderRow(i, v)'
  <2>1. v \in Requests /\ OrderRow(i, v)
    BY <1>1, ForwardIs DEF OrderInv
  <2>2. QED
    BY <1>1, <2>1, OrderRowAlike
<1>3. ASSUME NEW v \in DOMAIN batch', stage'[v] = "decode" PROVE batch'[v] = cached'[v] + 1
  <2>1. v \in Requests
    BY DEF Quiet
  <2>2. stage[v] = "decode" /\ cached'[v] = cached[v]
    BY <1>1, <1>3, <2>1 DEF Alike
  <2>3. CASE v \in DOMAIN batch
    BY <2>2, <2>3 DEF OrderInv, Quiet
  <2>4. CASE v \notin DOMAIN batch
    BY <2>2, <2>4 DEF Quiet, Picked
  <2>5. QED
    BY <2>3, <2>4
<1>4. Len(flight') <= 2 /\ (pc' # "process" => Len(flight') <= 1)
  BY <1>1 DEF OrderInv
<1>5. \A i \in DOMAIN flight' : \A v \in DOMAIN flight'[i] : OrderRow(i, v)'
  BY <1>1, <1>2
<1>6. QED
  BY <1>3, <1>4, <1>5 DEF OrderInv

LEMMA OrderAdmits ==
  ASSUME IInv, OrderInv, NEW u \in Requests, Admits(u)
  PROVE  OrderInv'
<1>1. /\ TypeInv /\ FlightInv /\ flight' = flight /\ pc' = pc /\ Others(u)
      /\ stage[u] = "waiting" /\ stage'[u] = "prefill"
  BY DEF IInv, Admits
<1>2. ASSUME NEW i \in DOMAIN flight, NEW v \in DOMAIN flight[i] PROVE OrderRow(i, v)'
  <2>1. v \in Requests /\ OrderRow(i, v) /\ v \in Resident
    BY <1>1, ForwardIs DEF OrderInv, FlightInv, FlightRow
  <2>2. v # u
    BY <1>1, <2>1 DEF Resident
  <2>3. QED
    BY <1>1, <2>1, <2>2, OrderRowAlike DEF Others
<1>3. ASSUME NEW v \in DOMAIN batch', stage'[v] = "decode" PROVE batch'[v] = cached'[v] + 1
  <2>1. v \in DOMAIN batch \ {u} /\ v \in Requests
    BY <1>1, <1>3, BatchIs DEF Admits
  <2>2. stage[v] = "decode" /\ cached'[v] = cached[v] /\ batch'[v] = batch[v]
    BY <1>1, <1>3, <2>1 DEF Others, Alike, Admits
  <2>3. QED
    BY <2>1, <2>2 DEF OrderInv
<1>4. Len(flight') <= 2 /\ (pc' # "process" => Len(flight') <= 1)
  BY <1>1 DEF OrderInv
<1>5. \A i \in DOMAIN flight' : \A v \in DOMAIN flight'[i] : OrderRow(i, v)'
  BY <1>1, <1>2
<1>6. QED
  BY <1>3, <1>4, <1>5 DEF OrderInv

\* What Issue puts behind the forwards in flight.
Follows ==
  /\ Len(flight) \in Nat /\ Len(flight') = Len(flight) + 1
  /\ DOMAIN flight = 1..Len(flight) /\ DOMAIN flight' = 1..Len(flight')
  /\ \A i \in DOMAIN flight : flight'[i] = flight[i]
  /\ DOMAIN flight'[Len(flight')] = DOMAIN batch
  /\ \A u \in DOMAIN batch : flight'[Len(flight')][u] = IssuedRow(u)

LEMMA IssueFollows == ASSUME TypeInv, Issue PROVE Follows
<1> DEFINE new == [u \in DOMAIN batch |-> IssuedRow(u)]
<1>1. flight' = Append(flight, new) /\ flight \in Seq(Forwards)
  BY DEF Issue, TypeInv
<1>2. DOMAIN new = DOMAIN batch /\ \A u \in DOMAIN batch : new[u] = IssuedRow(u)
  OBVIOUS
<1> HIDE DEF new
<1>3. /\ Len(flight) \in Nat /\ Len(flight') = Len(flight) + 1
      /\ DOMAIN flight = 1..Len(flight) /\ DOMAIN flight' = 1..Len(flight')
      /\ \A i \in DOMAIN flight : flight'[i] = flight[i]
      /\ flight'[Len(flight')] = new
  BY <1>1
<1>4. QED
  BY <1>2, <1>3 DEF Follows

LEMMA OrderIssue ==
  ASSUME IInv, OrderInv, Issue
  PROVE  OrderInv'
<1>1. TypeInv /\ RequestInv /\ BatchInv /\ Follows /\ DOMAIN batch' = {}
  BY IssueFollows DEF IInv, Issue
<1>2. /\ Len(flight) \in Nat /\ Len(flight') = Len(flight) + 1
      /\ DOMAIN flight = 1..Len(flight) /\ DOMAIN flight' = 1..Len(flight')
      /\ \A i \in DOMAIN flight : flight'[i] = flight[i]
      /\ DOMAIN flight'[Len(flight')] = DOMAIN batch
      /\ \A u \in DOMAIN batch : flight'[Len(flight')][u] = IssuedRow(u)
  BY <1>1 DEF Follows
<1>3. Len(flight') <= 2 /\ (pc' # "process" => Len(flight') <= 1)
  <2>1. Len(flight) <= 1
    BY DEF Issue, OrderInv
  <2>2. pc' # "process" => Len(flight) = 0
    BY DEF Issue
  <2>3. QED
    BY <1>2, <2>1, <2>2
\* The row of a request in the new forward, and what becomes of the request.
<1>4. ASSUME NEW u \in DOMAIN batch
      PROVE  /\ u \in Requests /\ stage[u] \in {"prefill", "decode"}
             /\ stage'[u] = "prefill" => stage[u] = "prefill" /\ IssuedRow(u).kind = "chunk"
             /\ IssuedRow(u).kind = "prompt" => stage[u] = "prefill"
             /\ stage[u] = "prefill" => host'[u] = cached'[u]
             /\ stage[u] = "decode" => cached'[u] = cached[u] + 1 /\ host'[u] = host[u]
             /\ cached'[u] \in Nat
  <2>1. u \in Requests /\ Extended(u)
    BY <1>1, IssueExtends
  <2>2. stage'[u] = IF batch[u] >= kind[u].input THEN "decode" ELSE stage[u]
    BY <2>1 DEF Issue
  <2>3. batch[u] \in Nat /\ kind[u].input \in Nat
    BY <1>1, <2>1, KindIs DEF Extended
  <2>4. stage'[u] = "prefill" => stage[u] = "prefill" /\ IssuedRow(u).kind = "chunk"
    BY <2>2, <2>3 DEF IssuedRow
  <2>5. IssuedRow(u).kind = "prompt" => stage[u] = "prefill"
    BY <2>1 DEF IssuedRow, Extended
  <2>6. stage[u] = "decode" => batch[u] = cached[u] + 1
    BY DEF OrderInv
  <2>7. QED
    BY <2>1, <2>3, <2>4, <2>5, <2>6 DEF Extended
<1>5. ASSUME NEW i \in DOMAIN flight, NEW u \in DOMAIN flight[i] PROVE OrderRow(i, u)'
  <2>1. u \in Requests /\ OrderRow(i, u) /\ i \in Nat /\ i <= Len(flight)
    BY <1>1, FlightIs, ForwardIs DEF OrderInv
  <2>2. flight'[i] = flight[i] /\ cached[u] \in Nat /\ host[u] \in Nat
    BY <1>1, <1>2, <2>1, TypesAre
  <2>3. u \notin DOMAIN batch => Alike(u)
    BY <1>1, <2>1, IssueLeaves
  <2>4. stage'[u] = "prefill" => flight'[i][u].kind = "chunk"
    <3>1. stage'[u] = "prefill" => stage[u] = "prefill"
      BY <1>4, <2>3 DEF Alike
    <3>2. QED
      BY <2>1, <2>2, <3>1 DEF OrderRow
  <2>5. ASSUME flight'[i][u].kind = "prompt", stage'[u] = "decode"
        PROVE  cached'[u] + i <= host'[u] + Len(flight')
    <3>1. flight[i][u].kind = "prompt" /\ stage[u] # "prefill"
      BY <2>1, <2>2, <2>5 DEF OrderRow
    <3>2. CASE u \in DOMAIN batch
      <4>1. stage[u] = "decode" /\ cached'[u] = cached[u] + 1 /\ host'[u] = host[u]
        BY <1>4, <3>1, <3>2
      <4>2. cached[u] + i <= host[u] + Len(flight)
        BY <2>1, <3>1, <4>1 DEF OrderRow
      <4>3. QED
        BY <1>2, <2>1, <2>2, <4>1, <4>2
    <3>3. CASE u \notin DOMAIN batch
      <4>1. stage[u] = "decode" /\ cached'[u] = cached[u] /\ host'[u] = host[u]
        BY <2>3, <2>5, <3>3 DEF Alike
      <4>2. cached[u] + i <= host[u] + Len(flight)
        BY <2>1, <3>1, <4>1 DEF OrderRow
      <4>3. QED
        BY <1>2, <2>1, <2>2, <4>1, <4>2
    <3>4. QED
      BY <3>2, <3>3
  <2>6. ASSUME NEW j \in DOMAIN flight', i < j, u \in DOMAIN flight'[j],
               flight'[j][u].kind = "prompt"
        PROVE  flight'[i][u].kind = "chunk"
    <3>1. CASE j \in DOMAIN flight
      BY <1>2, <2>1, <2>2, <2>6, <3>1 DEF OrderRow
    <3>2. CASE j = Len(flight')
      <4>1. u \in DOMAIN batch /\ IssuedRow(u).kind = "prompt"
        BY <1>2, <2>6, <3>2
      <4>2. stage[u] = "prefill"
        BY <1>4, <4>1
      <4>3. QED
        BY <2>1, <2>2, <4>2 DEF OrderRow
    <3>3. j \in DOMAIN flight \/ j = Len(flight')
      BY <1>2
    <3>4. QED
      BY <3>1, <3>2, <3>3
  <2>7. QED
    BY <2>4, <2>5, <2>6 DEF OrderRow
<1>6. ASSUME NEW i, i = Len(flight'), NEW u \in DOMAIN batch PROVE OrderRow(i, u)'
  <2>1. flight'[i][u] = IssuedRow(u) /\ i \in Nat
    BY <1>2, <1>6
  <2>2. stage'[u] = "prefill" => flight'[i][u].kind = "chunk"
    BY <1>4, <2>1
  <2>3. flight'[i][u].kind = "prompt" => cached'[u] + i <= host'[u] + Len(flight')
    <3>1. CASE flight'[i][u].kind = "prompt"
      <4>1. host'[u] = cached'[u] /\ cached'[u] \in Nat
        BY <1>4, <2>1, <3>1
      <4>2. QED
        BY <1>6, <2>1, <4>1
    <3>2. QED
      BY <3>1
  <2>4. \A j \in DOMAIN flight' : ~(i < j)
    BY <1>2, <1>6
  <2>5. QED
    BY <2>2, <2>3, <2>4 DEF OrderRow
<1>7. ASSUME NEW i \in DOMAIN flight', NEW u \in DOMAIN flight'[i] PROVE OrderRow(i, u)'
  <2>1. i \in DOMAIN flight \/ i = Len(flight')
    BY <1>2
  <2>2. QED
    BY <1>2, <1>5, <1>6, <2>1
<1>8. QED
  BY <1>1, <1>3, <1>7 DEF OrderInv

\* k forwards have been processed to the end.
Later(k) ==
  /\ Len(flight) \in Nat /\ Len(flight') = Len(flight) - k
  /\ DOMAIN flight' = 1..Len(flight')
  /\ \A i \in DOMAIN flight' : \A v \in DOMAIN flight'[i] :
       /\ i + k \in DOMAIN flight /\ v \in DOMAIN flight[i + k]
       /\ flight'[i][v] = flight[i + k][v]
  /\ pc' = "process" \/ pc # "process" \/ k = 1

\* What a request may do while forwards are processed.
GoesOn(v) ==
  /\ stage'[v] = "prefill" => stage[v] = "prefill"
  /\ stage'[v] = "decode" =>
       stage[v] = "decode" /\ cached'[v] = cached[v] /\ host'[v] \in Nat /\ host[v] <= host'[v]

LEMMA OrderLater ==
  ASSUME TypeInv, OrderInv, DOMAIN batch' = {}, NEW k \in {0, 1}, Later(k),
         \A v \in Requests : GoesOn(v)
  PROVE  OrderInv'
<1>1. /\ Len(flight) \in Nat /\ Len(flight') = Len(flight) - k
      /\ DOMAIN flight' = 1..Len(flight')
      /\ pc' = "process" \/ pc # "process" \/ k = 1
  BY DEF Later
<1>2. Len(flight') <= 2 /\ (pc' # "process" => Len(flight') <= 1)
  <2>1. Len(flight) <= 2 /\ (pc # "process" => Len(flight) <= 1)
    BY DEF OrderInv
  <2>2. QED
    BY <1>1, <2>1
<1>3. ASSUME NEW i \in DOMAIN flight', NEW v \in DOMAIN flight'[i] PROVE OrderRow(i, v)'
  <2>1. i + k \in DOMAIN flight /\ v \in DOMAIN flight[i + k] /\ flight'[i][v] = flight[i + k][v]
    BY DEF Later
  <2>2. v \in Requests /\ OrderRow(i + k, v)
    BY <2>1, ForwardIs DEF OrderInv
  <2>3. GoesOn(v) /\ cached[v] \in Nat /\ host[v] \in Nat /\ i \in Nat
    BY <1>1, <2>2, TypesAre
  <2>4. stage'[v] = "prefill" => flight'[i][v].kind = "chunk"
    BY <2>1, <2>2, <2>3 DEF GoesOn, OrderRow
  <2>5. ASSUME flight'[i][v].kind = "prompt", stage'[v] = "decode"
        PROVE  cached'[v] + i <= host'[v] + Len(flight')
    <3>1. /\ stage[v] = "decode" /\ cached'[v] = cached[v] /\ host'[v] \in Nat
          /\ host[v] <= host'[v]
      BY <2>3, <2>5 DEF GoesOn
    <3>2. cached[v] + (i + k) <= host[v] + Len(flight)
      BY <2>1, <2>2, <2>5, <3>1 DEF OrderRow
    <3>3. QED
      BY <1>1, <2>3, <3>1, <3>2
  <2>6. ASSUME NEW j \in DOMAIN flight', i < j, v \in DOMAIN flight'[j],
               flight'[j][v].kind = "prompt"
        PROVE  flight'[i][v].kind = "chunk"
    <3>1. /\ j + k \in DOMAIN flight /\ v \in DOMAIN flight[j + k]
          /\ flight'[j][v] = flight[j + k][v]
      BY <2>6 DEF Later
    <3>2. i + k < j + k
      BY <1>1, <2>6
    <3>3. QED
      BY <2>1, <2>2, <2>6, <3>1, <3>2 DEF OrderRow
  <2>7. QED
    BY <2>4, <2>5, <2>6 DEF OrderRow
<1>4. QED
  BY <1>2, <1>3 DEF OrderInv

LEMMA OrderAlters ==
  ASSUME IInv, OrderInv, NEW u \in Requests, Alters(u), GoesOn(u)
  PROVE  OrderInv'
<1>1. TypeInv /\ Others(u) /\ DOMAIN batch' = {}
  BY DEF IInv, Alters
<1>2. ASSUME NEW v \in Requests PROVE GoesOn(v)
  <2>1. CASE v = u
    BY <2>1
  <2>2. CASE v # u
    <3>1. Alike(v) /\ host[v] \in Nat
      BY <1>1, <2>2, TypesAre DEF Others
    <3>2. host'[v] = host[v] /\ host[v] <= host'[v]
      BY <3>1 DEF Alike
    <3>3. QED
      BY <3>1, <3>2 DEF Alike, GoesOn
  <2>3. QED
    BY <2>1, <2>2
<1>3. \E k \in {0, 1} : Later(k)
  <2>1. CASE Drops(u)
    <3>1. PICK k \in {0, 1} : Shifted(k, u)
      BY <1>1, <2>1, DropsIs
    <3>2. Later(k)
      BY <3>1 DEF Shifted, Later
    <3>3. QED
      BY <3>2
  <2>2. CASE UNCHANGED <<pc, flight>>
    <3>1. Len(flight) \in Nat /\ Len(flight) = Len(flight) - 0
      BY <1>1, FlightIs
    <3>2. \A i \in DOMAIN flight : i + 0 = i
      BY <1>1, FlightIs
    <3>3. Later(0)
      BY <1>1, <2>2, <3>1, <3>2, FlightIs DEF Later
    <3>4. QED
      BY <3>3
  <2>3. QED
    BY <2>1, <2>2 DEF Alters
<1>4. QED
  BY <1>1, <1>2, <1>3, OrderLater

LEMMA OrderKept ==
  ASSUME IInv, IInv', OrderInv, [Next]_vars
  PROVE  OrderInv'
<1>1. TypeInv
  BY DEF IInv
<1>2. ASSUME NEW u \in Requests, ReleasesOwn(u) PROVE OrderInv'
  <2>1. host[u] \in Nat /\ host'[u] \in Nat /\ host'[u] >= host[u]
    BY <1>1, <1>2, TypesAre DEF ReleasesOwn
  <2>2. host[u] <= host'[u]
    BY <2>1
  <2>3. GoesOn(u) /\ Alters(u)
    BY <1>2, <2>1, <2>2 DEF ReleasesOwn, GoesOn
  <2>4. QED
    BY <2>3, OrderAlters
<1>3. ASSUME NEW u \in Requests, Files(u) PROVE OrderInv'
  <2>1. PICK r, n : FilesPrompt(u, r, n)
    BY <1>3 DEF Files
  <2>2. stage[u] = "decode" /\ Alters(u)
    BY <1>3 DEF Files
  <2>3. /\ stage'[u] = "decode" /\ cached'[u] = cached[u]
        /\ host'[u] = host[u] + 1 /\ host[u] \in Nat
    BY <2>1, <2>2, FiledRow
  <2>4. host'[u] \in Nat /\ host[u] <= host'[u]
    BY <2>3
  <2>5. GoesOn(u)
    BY <2>2, <2>3, <2>4 DEF GoesOn
  <2>6. QED
    BY <2>2, <2>5, OrderAlters
<1>4. ASSUME NEW u \in Requests, Retires(u) \/ Ends(u) PROVE OrderInv'
  <2>1. GoesOn(u) /\ Alters(u)
    BY <1>4 DEF Retires, Ends, GoesOn
  <2>2. QED
    BY <2>1, OrderAlters
<1>5. QED
  BY <1>2, <1>3, <1>4, Steps, OrderQuiet, OrderAdmits, OrderIssue

-------------------------------------------------------------------------------
(* The invariant of the windows is kept: requests that share no page.         *)

LEMMA FirstPage ==
  ASSUME TypeInv, NEW v \in Requests, NEW m \in 0..Len(kind[v].text), NEW p \in PagesOn(Path(v, m))
  PROVE  Prefix(p, 1) = Path(v, 1)
<1> DEFINE path == Path(v, m)
<1>1. path \in Seq(Contents) /\ Len(path) = m /\ \A i \in 0..m : Prefix(path, i) = Path(v, i)
  BY PathIs
<1>2. Len(kind[v].text) \in Nat
  BY KindIs
<1> HIDE DEF path
<1>3. p \in Seq(Contents) /\ Len(p) > 0 /\ Len(p) \in Nat /\ IsPrefixOf(p, path)
  BY <1>1, PagesType DEF path
<1>4. Len(p) <= m /\ p = Prefix(path, Len(p))
  BY <1>1, <1>3, PrefixOrder
<1>5. 1 \in 0..Len(p) /\ Len(p) \in 0..Len(path) /\ 1 \in 0..m
  BY <1>1, <1>2, <1>3, <1>4
<1>6. Prefix(Prefix(path, Len(p)), 1) = Prefix(path, 1)
  BY <1>1, <1>5, PrefixOfPrefix
<1>7. QED
  BY <1>1, <1>4, <1>5, <1>6

LEMMA HandedOver ==
  ASSUME NEW u \in DOMAIN Holders, NEW path, NEW finished \in BOOLEAN
  PROVE  \E G : Handed(G, u, path, finished)
<1> DEFINE G1 == [w \in DOMAIN Holders \ {u} |-> Holders[w]]
           G2 == [w \in DOMAIN Holders |-> IF w = u THEN path ELSE Holders[w]]
<1>1. Without(Holders, G1, u)
  BY DEF Without
<1>2. DOMAIN G2 = DOMAIN Holders /\ G2[u] = path /\ \A v \in DOMAIN Holders \ {u} : G2[v] = Holders[v]
  OBVIOUS
<1> HIDE DEF G1, G2
<1>3. finished => Handed(G1, u, path, finished)
  BY <1>1 DEF Handed
<1>4. ~finished => Handed(G2, u, path, finished)
  BY <1>2 DEF Handed
<1>5. QED
  BY <1>3, <1>4

\* No page that begins like the text of u comes into the tree, and the end of
\* its handle stays as it is.
Apart(u) ==
  /\ \A p \in DOMAIN tree'.page : p \in DOMAIN tree.page \/ Prefix(p, 1) # Path(u, 1)
  /\ u \in Resident /\ handle[u] > 0 =>
       /\ tree'.page[HandlePath(u)].full = tree.page[HandlePath(u)].full
       /\ tree'.page[HandlePath(u)].swa = tree.page[HandlePath(u)].swa

LEMMA ShrinksApart == ASSUME IInv, NEW u \in Requests, Shrinks PROVE Apart(u)
<1>1. TypeInv /\ TreeInv /\ RequestInv
  BY DEF IInv
<1>2. QED
  BY <1>1, HandleIsLocked DEF Shrinks, Apart

LEMMA FiledApart ==
  ASSUME IInv, NEW u \in Requests, NEW v \in Resident, v # u, Alone(u),
         NEW length \in Nat, handle[v] * PageSize <= length, NEW finished \in BOOLEAN,
         tree' = CacheReq(v, length, finished).tree
  PROVE  Apart(u)
<1> DEFINE n == FiledLen(v, length)
           path == Path(v, n)
           m == Grown(v, length, finished)
           A == PagesOn(Path(v, SwaCut(v, length)))
           B == PagesOn(Path(v, FullCut(v, length)))
<1>1. TypeInv /\ TreeInv /\ RequestInv /\ v \in Requests /\ RowInv(v)
  BY DEF IInv, Resident, RequestInv
<1>2. v \in DOMAIN Holders
  BY <1>1, HoldersAre
<1>3. PICK G : Handed(G, v, path, finished)
  BY <1>2, HandedOver
<1>4. /\ GrownBy(m, tree, path, ownSwa[v]) /\ Gives(tree', m, A, B)
      /\ A \subseteq PagesOn(path) /\ B \subseteq PagesOn(path)
  <2> DEFINE q == CacheReq(v, length, finished)
  <2>1. tree' = q.tree /\ q = CacheReq(v, length, finished)
    OBVIOUS
  <2> HIDE DEF q
  <2>2. path = Path(v, FiledLen(v, length))
    OBVIOUS
  <2> HIDE DEF path
  <2>3. /\ GrownBy(Grown(v, length, finished), tree, path, ownSwa[v])
        /\ Gives(q.tree, Grown(v, length, finished),
                 PagesOn(Path(v, SwaCut(v, length))), PagesOn(Path(v, FullCut(v, length))))
        /\ PagesOn(Path(v, SwaCut(v, length))) \subseteq PagesOn(path)
        /\ PagesOn(Path(v, FullCut(v, length))) \subseteq PagesOn(path)
    BY <1>1, <1>3, <2>1, <2>2, CacheReqIsSound
  <2>4. QED
    BY <2>1, <2>3
<1>5. n \in 0..Len(kind[v].text)
  BY <1>1, FiledLenIs
<1>6. \A p \in PagesOn(path) : Prefix(p, 1) # Path(u, 1)
  <2>1. Path(v, 1) # Path(u, 1)
    BY <1>1 DEF Alone
  <2> HIDE DEF n
  <2>2. QED
    BY <1>1, <1>5, <2>1, FirstPage
<1> HIDE DEF m, A, B, path, n
<1>7. \A p \in DOMAIN tree'.page : p \in DOMAIN tree.page \/ p \in PagesOn(path)
  BY <1>4 DEF GrownBy, Gives, Lacks
<1>8. ASSUME u \in Resident, handle[u] > 0
      PROVE  /\ tree'.page[HandlePath(u)].full = tree.page[HandlePath(u)].full
             /\ tree'.page[HandlePath(u)].swa = tree.page[HandlePath(u)].swa
  <2> DEFINE p == HandlePath(u)
  <2>1. p \in DOMAIN tree.page /\ Prefix(p, 1) = Path(u, 1)
    BY <1>1, <1>8, HandleIsCached
  <2> HIDE DEF p
  <2>2. p \notin A /\ p \notin B
    BY <1>4, <1>6, <2>1
  <2>3. /\ p \in DOMAIN m.page /\ m.page[p].full = tree.page[p].full
        /\ m.page[p].swa = tree.page[p].swa
    BY <1>4, <2>1 DEF GrownBy
  <2>4. tree.page[p].full \in BOOLEAN /\ tree.page[p].swa \in BOOLEAN
    BY <1>1, <2>1, PageTypes DEF TreeInv, SoundTree
  <2>5. tree'.page[p].swa = (m.page[p].swa /\ p \notin A)
        /\ tree'.page[p].full = (m.page[p].full /\ p \notin B)
    BY <1>4, <2>3 DEF Gives
  <2>6. tree'.page[p].swa = tree.page[p].swa /\ tree'.page[p].full = tree.page[p].full
    BY <2>2, <2>3, <2>4, <2>5
  <2>7. QED
    BY <2>6 DEF p
<1>9. QED
  BY <1>6, <1>7, <1>8 DEF Apart

\* What u may do while its page stays as it is.
Keeps(u) ==
  /\ Uncached(u)' => Uncached(u)
  /\ stage'[u] = "decode" /\ ~PromptIssued(u)' /\ handle'[u] > 0 =>
       /\ stage[u] = "decode" /\ ~PromptIssued(u) /\ handle'[u] = handle[u]
       /\ row'[u][handle[u]] = row[u][handle[u]]

LEMMA AloneApart ==
  ASSUME NEW u \in Requests, AloneRow(u), kind' = kind, Apart(u), Keeps(u)
  PROVE  AloneRow(u)'
<1>1. \A n : Path(u, n)' = Path(u, n)
  BY DEF Path
<1>2. ASSUME Uncached(u)' PROVE Unread(u)'
  <2>1. Unread(u)
    BY <1>2 DEF Keeps, AloneRow
  <2>2. QED
    BY <1>1, <2>1 DEF Unread, Apart
<1>3. ASSUME stage'[u] = "decode", ~PromptIssued(u)', handle'[u] > 0 PROVE Readable(u)'
  <2>1. /\ stage[u] = "decode" /\ ~PromptIssued(u) /\ handle'[u] = handle[u]
        /\ row'[u][handle[u]] = row[u][handle[u]]
    BY <1>3 DEF Keeps
  <2>2. u \in Resident /\ Readable(u) /\ HandlePath(u)' = HandlePath(u)
    BY <1>1, <1>3, <2>1 DEF AloneRow, Resident, HandlePath
  <2>3. QED
    BY <1>3, <2>1, <2>2 DEF Readable, Apart
<1>4. QED
  BY <1>2, <1>3 DEF AloneRow

LEMMA AlikeKeeps ==
  ASSUME NEW u \in Requests, Alike(u), PromptIssued(u)' <=> PromptIssued(u)
  PROVE  Keeps(u)
BY DEF Alike, Keeps, Uncached

LEMMA SameFlightIssued == ASSUME NEW u, flight' = flight PROVE PromptIssued(u)' <=> PromptIssued(u)
BY DEF PromptIssued

LEMMA IssueKeepsRow ==
  ASSUME IInv, Issue, NEW u \in Requests
  PROVE  Keeps(u)
<1>1. TypeInv /\ RequestInv /\ BatchInv /\ Follows
  BY IssueFollows DEF IInv
<1>2. /\ DOMAIN flight' = 1..Len(flight') /\ DOMAIN flight = 1..Len(flight)
      /\ Len(flight) \in Nat /\ Len(flight') = Len(flight) + 1
      /\ \A i \in DOMAIN flight : flight'[i] = flight[i]
      /\ DOMAIN flight'[Len(flight')] = DOMAIN batch
      /\ \A v \in DOMAIN batch : flight'[Len(flight')][v] = IssuedRow(v)
  BY <1>1 DEF Follows
<1>3. PromptIssued(u) => PromptIssued(u)'
  <2>1. \A i \in DOMAIN flight : i \in DOMAIN flight'
    BY <1>2
  <2>2. QED
    BY <1>2, <2>1 DEF PromptIssued
<1>4. CASE u \notin DOMAIN batch
  <2>1. Alike(u)
    BY <1>1, <1>4, IssueLeaves
  <2>2. PromptIssued(u)' => PromptIssued(u)
    <3>1. \A i \in DOMAIN flight' : i \in DOMAIN flight \/ i = Len(flight')
      BY <1>2
    <3>2. QED
      BY <1>2, <1>4, <3>1 DEF PromptIssued
  <2>3. QED
    BY <1>3, <2>1, <2>2, AlikeKeeps
<1>5. CASE u \in DOMAIN batch
  <2>1. RowInv(u) /\ Extended(u)
    BY <1>1, <1>5, IssueExtends
  <2>2. stage'[u] = IF batch[u] >= kind[u].input THEN "decode" ELSE stage[u]
    BY <1>5 DEF Issue
  <2>3. batch[u] \in Nat /\ kind[u].input \in Nat /\ stage[u] \in {"prefill", "decode"}
    BY <1>1, <2>1, KindIs DEF Extended
  <2>4. CASE stage[u] = "prefill"
    <3>1. Uncached(u)
      BY <2>4 DEF Uncached
    <3>2. stage'[u] = "decode" => PromptIssued(u)'
      <4>1. stage'[u] = "decode" => IssuedRow(u).kind = "prompt"
        BY <2>2, <2>3, <2>4 DEF IssuedRow
      <4>2. Len(flight') \in DOMAIN flight'
        BY <1>2
      <4>3. QED
        BY <1>2, <1>5, <4>1, <4>2 DEF PromptIssued
    <3>3. QED
      BY <3>1, <3>2 DEF Keeps
  <2>5. CASE stage[u] = "decode"
    <3>1. stage'[u] = "decode"
      BY <2>2, <2>5
    <3>2. PromptIssued(u)' => PromptIssued(u)
      <4>1. IssuedRow(u).kind # "prompt"
        BY <2>5 DEF IssuedRow
      <4>2. \A i \in DOMAIN flight' : i \in DOMAIN flight \/ i = Len(flight')
        BY <1>2
      <4>3. QED
        BY <1>2, <1>5, <4>1, <4>2 DEF PromptIssued
    <3>3. handle'[u] = handle[u] /\ (handle[u] > 0 => row'[u][handle[u]] = row[u][handle[u]])
      <4>1. handle[u] \in Nat /\ Len(row[u]) \in Nat /\ handle[u] <= Len(row[u])
        BY <1>1, <2>1, TypesAre, RowIs
      <4>2. QED
        BY <2>1, <4>1 DEF Extended
    <3>4. QED
      BY <1>3, <2>5, <3>1, <3>2, <3>3 DEF Keeps, Uncached
  <2>6. QED
    BY <2>3, <2>4, <2>5
<1>6. QED
  BY <1>4, <1>5

\* Processing a row of u takes no prompt of another request out of flight.
LEMMA AltersIssued ==
  ASSUME TypeInv, NEW u \in Requests, Alters(u), NEW v \in Requests,
         v # u \/ (Drops(u) /\ Head(flight)[u].kind # "prompt")
  PROVE  PromptIssued(v)' <=> PromptIssued(v)
<1>1. CASE UNCHANGED <<pc, flight>>
  BY <1>1, SameFlightIssued
<1>2. CASE Drops(u)
  <2>1. PICK k \in {0, 1} : Shifted(k, u)
    BY <1>2, DropsIs
  <2>2. PromptIssued(v)' => PromptIssued(v)
    BY <2>1 DEF PromptIssued, Shifted
  <2>3. ASSUME NEW j \in DOMAIN flight, v \in DOMAIN flight[j], flight[j][v].kind = "prompt"
        PROVE  PromptIssued(v)'
    <3>1. v # u \/ j > 1
      <4>1. j = 1 \/ j > 1
        BY FlightIs
      <4>2. j = 1 /\ v = u => flight[j][v].kind # "prompt"
        BY <1>2 DEF Drops, Processing, TypeInv
      <4>3. QED
        BY <2>3, <4>1, <4>2
    <3>2. /\ j - k \in DOMAIN flight' /\ v \in DOMAIN flight'[j - k]
          /\ flight'[j - k][v] = flight[j][v]
      BY <2>1, <2>3, <3>1 DEF Shifted
    <3>3. QED
      BY <2>3, <3>2 DEF PromptIssued
  <2>4. QED
    BY <2>2, <2>3 DEF PromptIssued
<1>3. QED
  BY <1>1, <1>2 DEF Alters

\* A request that is alone finds nothing of its prompt in the tree when the
\* prompt is cached, so all pages of it are its own.
LEMMA FilesReadable ==
  ASSUME IInv, KeptInv, OrderInv, NEW u \in Requests, Alone(u), AloneRow(u), Files(u)
  PROVE  AloneRow(u)'
<1>1. /\ TypeInv /\ TreeInv /\ RequestInv /\ Alters(u) /\ Drops(u) /\ stage[u] = "decode"
      /\ Head(flight)[u].kind = "prompt"
  BY DEF IInv, Files
<1>2. PICK r, n : FilesPrompt(u, r, n)
  BY DEF Files
<1>3. /\ handle'[u] = n /\ n \in Nat /\ handle[u] <= n /\ handle[u] \in Nat
      /\ stage'[u] = "decode" /\ cached[u] \in Nat /\ host[u] \in Nat
      /\ Len(row[u]) \in Nat /\ n <= Len(row[u])
      /\ \A i \in 1..n : row'[u][i] = MatchedRow(r.tree, Path(u, n))[i]
      /\ n = FiledLen(u, host[u] + 1) /\ u \in Resident
      /\ Path(u, n) \in Seq(Contents) /\ Len(Path(u, n)) = n /\ n \in 0..Len(kind[u].text)
  BY <1>1, <1>2, FiledRow
<1>4. 1 \in DOMAIN flight /\ flight[1] = Head(flight) /\ u \in DOMAIN flight[1] /\ OrderRow(1, u)
  <2>1. flight # <<>> /\ u \in DOMAIN Head(flight)
    BY <1>1 DEF Drops, Processing
  <2>2. Head(flight) = flight[1] /\ 1 \in DOMAIN flight
    BY <1>1, <2>1 DEF TypeInv
  <2>3. QED
    BY <2>1, <2>2 DEF OrderInv
<1>5. PromptIssued(u) /\ Unread(u)
  <2>1. PromptIssued(u)
    BY <1>1, <1>4 DEF PromptIssued
  <2>2. QED
    BY <1>1, <2>1 DEF Uncached, AloneRow
<1>6. ~PromptIssued(u)'
  <2>1. PICK k \in {0, 1} : Shifted(k, u)
    BY <1>1, DropsIs
  <2>2. ASSUME NEW i \in DOMAIN flight', u \in DOMAIN flight'[i], flight'[i][u].kind = "prompt"
        PROVE  FALSE
    <3>1. /\ i + k \in DOMAIN flight /\ u \in DOMAIN flight[i + k]
          /\ flight[i + k][u].kind = "prompt" /\ i + k > 1
      BY <2>1, <2>2 DEF Shifted
    <3>2. 1 < i + k
      BY <1>1, <3>1, FlightIs
    <3>3. flight[1][u].kind = "chunk"
      BY <1>4, <3>1, <3>2 DEF OrderRow
    <3>4. QED
      BY <1>1, <1>4, <3>3
  <2>3. QED
    BY <2>2 DEF PromptIssued
\* The last page of its handle.
<1>7. ASSUME n > 0 PROVE Readable(u)'
  <2> DEFINE len == host[u] + 1
             path == Path(u, n)
             m == Grown(u, len, FALSE)
             A == PagesOn(Path(u, SwaCut(u, len)))
             B == PagesOn(Path(u, FullCut(u, len)))
  <2>1. handle[u] = 0
    <3>1. ~(handle[u] > 0)
      BY <1>1, <1>3, <1>5, HandleIsCached DEF Unread
    <3>2. QED
      BY <1>3, <3>1
  <2>2. path \in PagesOn(path) /\ path \notin DOMAIN tree.page /\ path \in Lacks(tree, path)
    <3>1. path \in PagesOn(path)
      <4> DEFINE p == path
      <4>1. p \in Seq(Contents) /\ Len(p) > 0
        BY <1>3, <1>7
      <4> HIDE DEF p
      <4>2. p \in PagesOn(p)
        BY <4>1, PagesAre, PrefixReflexive
      <4>3. QED
        BY <4>2 DEF p
    <3>2. Prefix(path, 1) = Path(u, 1)
      BY <1>1, <1>3, <3>1, FirstPage
    <3>3. QED
      BY <1>5, <3>1, <3>2 DEF Unread, Lacks
  <2>3. PICK G : Handed(G, u, path, FALSE)
    <3>1. u \in DOMAIN Holders
      BY <1>1, <1>3, HoldersAre
    <3>2. QED
      BY <3>1, HandedOver
  <2>4. /\ GrownBy(m, tree, path, ownSwa[u]) /\ Gives(tree', m, A, B)
    <3>1. r = CacheReq(u, len, FALSE) /\ tree' = r.tree
      BY <1>2 DEF FilesPrompt
    <3>2. path = Path(u, FiledLen(u, len)) /\ len \in Nat /\ handle[u] * PageSize <= len
      <4>1. 0 * PageSize <= len /\ len \in Nat
        BY <1>3, CacheAssumption
      <4>2. QED
        BY <1>3, <2>1, <4>1
    <3> HIDE DEF path, len
    <3>3. /\ GrownBy(Grown(u, len, FALSE), tree, path, ownSwa[u])
          /\ Gives(r.tree, Grown(u, len, FALSE),
                   PagesOn(Path(u, SwaCut(u, len))), PagesOn(Path(u, FullCut(u, len))))
      BY <1>1, <1>3, <2>3, <3>1, <3>2, CacheReqIsSound
    <3>4. QED
      BY <3>1, <3>3
  <2>5. path \notin A /\ path \notin B
    <3>1. SwaCut(u, len) = Minus(n, SwaTail) /\ FullCut(u, len) = Minus(n, 1)
      BY <1>3 DEF SwaCut, FullCut
    <3>2. ASSUME NEW a \in 0..(n - 1) PROVE path \notin PagesOn(Path(u, a))
      <4>1. Len(kind[u].text) \in Nat
        BY <1>1, KindIs
      <4>2. a \in 0..Len(kind[u].text)
        BY <1>3, <1>7, <4>1
      <4> DEFINE s == Path(u, a)
      <4>3. s \in Seq(Contents) /\ Len(s) = a
        BY <1>1, <4>2, PathIs
      <4> HIDE DEF s
      <4>4. \A p \in PagesOn(s) : Len(p) <= a
        <5>1. \A p \in PagesOn(s) : p \in Seq(Contents) /\ IsPrefixOf(p, s)
          BY <4>3, PagesType
        <5>2. QED
          BY <4>3, <5>1, PrefixOrder
      <4>5. path \notin PagesOn(s)
        BY <1>3, <1>7, <4>4
      <4>6. QED
        BY <4>5 DEF s
    <3>3. Minus(n, SwaTail) \in 0..(n - 1) /\ Minus(n, 1) \in 0..(n - 1)
      <4>1. SwaTail \in Nat \ {0}
        BY <1>3, CutsAre
      <4>2. QED
        BY <1>3, <1>7, <4>1 DEF Minus
    <3>4. QED
      BY <3>1, <3>2, <3>3
  <2>6. n \in ownSwa[u]
    <3>1. KeptRow(u) /\ n \in (handle[u] + 1)..Len(row[u])
      BY <1>3, <1>7, <2>1 DEF KeptInv
    <3>2. n = cached[u] \div PageSize
      <4>1. cached[u] + 1 <= host[u] + Len(flight) /\ Len(flight) <= 2 /\ Len(flight) \in Nat
        BY <1>1, <1>4, FlightIs DEF OrderRow, OrderInv
      <4>2. cached[u] <= host[u] + 1
        BY <1>3, <4>1
      <4>3. QED
        BY <1>3, <4>2 DEF FiledLen, Least
    <3>3. ~(n <= WindowFrontier(cached[u]))
      <4> DEFINE far == Minus(cached[u] + 1, Window + PageSize)
                 f == far \div PageSize
                 c == cached[u]
      <4>1. PageSize \in Nat \ {0} /\ Window \in Nat \ {0} /\ c \in Nat
        BY <1>3, CacheAssumption
      <4>2. far \in Nat /\ (far = 0 \/ far + PageSize <= c)
        BY <4>1 DEF Minus
      <4>3. f \in Nat /\ f * PageSize <= far /\ (far = 0 => f = 0)
        <5> HIDE DEF far
        <5>1. f \in Nat /\ f * PageSize <= far
          BY <4>1, <4>2, Floor
        <5>2. far = 0 => f = 0
          BY <4>1
        <5>3. QED
          BY <5>1, <5>2
      <4>4. n \in Nat /\ n = c \div PageSize
        BY <1>3, <3>2
      <4>5. WindowFrontier(c) = f
        BY DEF WindowFrontier
      <4> HIDE DEF far, f, c
      <4>6. CASE far = 0
        BY <1>7, <4>3, <4>4, <4>5, <4>6 DEF c
      <4>7. CASE far + PageSize <= c
        <5>1. (f + 1) * PageSize = f * PageSize + PageSize /\ f + 1 \in Nat /\ f * PageSize \in Nat
          <6>1. f \in Int
            BY <4>3
          <6>2. QED
            BY <4>1, <4>3, <6>1, Products
        <5>2. (f + 1) * PageSize <= c
          BY <4>1, <4>2, <4>3, <4>7, <5>1
        <5>3. f + 1 <= n
          BY <4>1, <4>4, <5>1, <5>2, FloorMost
        <5>4. QED
          BY <4>3, <4>4, <4>5, <5>3 DEF c
      <4>8. QED
        BY <4>2, <4>6, <4>7
    <3>4. QED
      BY <3>1, <3>3 DEF KeptRow
  <2>7. tree'.page[path].full /\ tree'.page[path].swa
    <3>1. path \in DOMAIN m.page /\ m.page[path].full = TRUE /\ m.page[path].swa = (Len(path) \in ownSwa[u])
      BY <2>2, <2>4 DEF GrownBy
    <3>2. Len(path) = n
      BY <1>3
    <3> HIDE DEF path, m, A, B
    <3>3. /\ tree'.page[path].swa = (m.page[path].swa /\ path \notin A)
          /\ tree'.page[path].full = (m.page[path].full /\ path \notin B)
      BY <2>4, <3>1 DEF Gives
    <3>4. QED
      BY <2>5, <2>6, <3>1, <3>2, <3>3
  <2>8. HandlePath(u)' = path
    BY <1>1, <1>3 DEF HandlePath, Path, Alters
  <2>9. row'[u][n] = "tree"
    <3>1. tree' = r.tree
      BY <1>2 DEF FilesPrompt
    <3>2. n \in 1..n /\ row'[u][n] = MatchedRow(r.tree, path)[n]
      BY <1>3, <1>7
    <3> DEFINE p == path
    <3>3. p \in Seq(Contents) /\ Len(p) = n /\ r.tree.page[p].full
      BY <1>3, <2>7, <3>1
    <3> HIDE DEF p
    <3>4. Prefix(p, n) = p
      BY <3>3, WholePrefix
    <3>5. MatchedRow(r.tree, p)[n] = "tree"
      BY <3>2, <3>3, <3>4, MatchedRowIs
    <3>6. QED
      BY <3>2, <3>5 DEF p
  <2>10. QED
    BY <1>3, <2>7, <2>8, <2>9 DEF Readable
<1>8. QED
  BY <1>3, <1>6, <1>7 DEF AloneRow, Uncached

LEMMA AloneAlters ==
  ASSUME IInv, NEW u \in Requests, Alters(u), NEW v \in Requests, v # u,
         AloneRow(v), Apart(v)
  PROVE  AloneRow(v)'
<1>1. Alike(v) /\ kind' = kind /\ TypeInv
  BY DEF Alters, Others, IInv
<1>2. PromptIssued(v)' <=> PromptIssued(v)
  BY <1>1, AltersIssued
<1>3. QED
  BY <1>1, <1>2, AlikeKeeps, AloneApart

LEMMA AloneKept ==
  ASSUME IInv, IInv', KeptInv, OrderInv, AloneInv, [Next]_vars
  PROVE  AloneInv'
<1>1. TypeInv /\ TreeInv /\ RequestInv
  BY DEF IInv
<1>2. ASSUME kind' = kind, NEW v \in Requests, Alone(v)' PROVE Alone(v) /\ AloneRow(v)
  BY <1>2 DEF Alone, Path, AloneInv
<1>3. CASE Quiet
  <2>1. kind' = kind /\ flight' = flight /\ Shrinks
    BY <1>3 DEF Quiet, reqVars
  <2>2. ASSUME NEW v \in Requests, Alone(v)' PROVE AloneRow(v)'
    <3>1. Alike(v) /\ AloneRow(v) /\ Apart(v)
      BY <1>2, <1>3, <2>1, <2>2, QuietAlike, ShrinksApart
    <3>2. QED
      BY <2>1, <3>1, SameFlightIssued, AlikeKeeps, AloneApart
  <2>3. QED
    BY <2>2 DEF AloneInv
<1>4. CASE Issue
  <2>1. kind' = kind /\ tree' = tree
    BY <1>4 DEF Issue
  <2>2. ASSUME NEW v \in Requests, Alone(v)' PROVE AloneRow(v)'
    <3>1. AloneRow(v) /\ Apart(v) /\ Keeps(v)
      BY <1>2, <1>4, <2>1, <2>2, TreeStays, ShrinksApart, IssueKeepsRow
    <3>2. QED
      BY <2>1, <3>1, AloneApart
  <2>3. QED
    BY <2>2 DEF AloneInv
<1>5. ASSUME NEW u \in Requests, Admits(u) PROVE AloneInv'
  <2>1. /\ kind' = kind /\ flight' = flight /\ SameMarks(tree', tree) /\ Others(u)
        /\ stage[u] = "waiting" /\ stage'[u] = "prefill"
    BY <1>5 DEF Admits
  <2>2. ASSUME NEW v \in Requests, Alone(v)' PROVE AloneRow(v)'
    <3>1. AloneRow(v) /\ Apart(v)
      BY <1>2, <2>1, <2>2, SameTreeShrinks, ShrinksApart
    <3>2. Keeps(v)
      <4>1. CASE v = u
        BY <2>1, <4>1 DEF Keeps, Uncached
      <4>2. CASE v # u
        BY <2>1, <4>2, SameFlightIssued, AlikeKeeps DEF Others
      <4>3. QED
        BY <4>1, <4>2
    <3>3. QED
      BY <2>1, <3>1, <3>2, AloneApart
  <2>3. QED
    BY <2>2 DEF AloneInv
<1>6. ASSUME NEW u \in Requests, Alters(u),
             \A v \in Requests \ {u} : Alone(v) => Apart(v),
             Alone(u) /\ AloneRow(u) => AloneRow(u)'
      PROVE  AloneInv'
  <2>1. kind' = kind
    BY <1>6 DEF Alters
  <2>2. ASSUME NEW v \in Requests, Alone(v)' PROVE AloneRow(v)'
    <3>1. Alone(v) /\ AloneRow(v)
      BY <1>2, <2>1, <2>2
    <3>2. CASE v = u
      BY <1>6, <3>1, <3>2
    <3>3. CASE v # u
      BY <1>6, <3>1, <3>3, AloneAlters
    <3>4. QED
      BY <3>2, <3>3
  <2>3. QED
    BY <2>2 DEF AloneInv
<1>7. ASSUME NEW u \in Requests, ReleasesOwn(u) PROVE AloneInv'
  <2>1. /\ Alters(u) /\ Drops(u) /\ tree' = tree /\ stage'[u] = stage[u]
        /\ handle'[u] = handle[u] /\ row'[u] = row[u] /\ Head(flight)[u].kind # "prompt"
        /\ kind' = kind
    BY <1>7 DEF ReleasesOwn, Alters
  <2>2. \A v \in Requests : Apart(v)
    BY <2>1, TreeStays, ShrinksApart
  <2>3. PromptIssued(u)' <=> PromptIssued(u)
    BY <1>1, <2>1, AltersIssued
  <2>4. Keeps(u)
    BY <2>1, <2>3 DEF Keeps, Uncached
  <2>5. AloneRow(u) => AloneRow(u)'
    BY <2>1, <2>2, <2>4, AloneApart
  <2>6. QED
    BY <1>6, <2>1, <2>2, <2>5
<1>8. ASSUME NEW u \in Requests, Files(u) PROVE AloneInv'
  <2>1. PICK r, n : FilesPrompt(u, r, n)
    BY <1>8 DEF Files
  <2>2. Alters(u) /\ stage[u] = "decode" /\ DOMAIN batch = {} /\ u \in Resident
    BY <1>8 DEF Files, Alters, Resident
  <2>3. handle[u] * PageSize <= host[u] + 1 /\ host[u] + 1 \in Nat
    BY <1>1, <2>1, <2>2, FilesIs, TypesAre
  <2>4. tree' = CacheReq(u, host[u] + 1, FALSE).tree
    BY <2>1 DEF FilesPrompt
  <2>5. \A v \in Requests \ {u} : Alone(v) => Apart(v)
    BY <2>2, <2>3, <2>4, FiledApart
  <2>6. Alone(u) /\ AloneRow(u) => AloneRow(u)'
    BY <1>8, FilesReadable
  <2>7. QED
    BY <1>6, <2>2, <2>5, <2>6
<1>9. ASSUME NEW u \in Requests, Retires(u) PROVE AloneInv'
  <2>1. Alters(u) /\ stage'[u] = "gone" /\ u \in Resident
    BY <1>9 DEF Retires
  <2>2. PICK n \in Nat : handle[u] * PageSize <= n /\ tree' = CacheReq(u, n, TRUE).tree
    BY <1>9 DEF Retires
  <2>3. \A v \in Requests \ {u} : Alone(v) => Apart(v)
    BY <2>1, <2>2, FiledApart
  <2>4. AloneRow(u)'
    BY <2>1 DEF AloneRow, Uncached
  <2>5. QED
    BY <1>6, <2>1, <2>3, <2>4
<1>10. ASSUME NEW u \in Requests, Ends(u) PROVE AloneInv'
  <2>1. Alters(u) /\ tree' = tree /\ stage'[u] \in {"ended", "gone"}
    BY <1>10 DEF Ends
  <2>2. \A v \in Requests : Apart(v)
    BY <2>1, TreeStays, ShrinksApart
  <2>3. AloneRow(u)'
    BY <2>1 DEF AloneRow, Uncached
  <2>4. QED
    BY <1>6, <2>1, <2>2, <2>3
<1>11. QED
  BY <1>3, <1>4, <1>5, <1>7, <1>8, <1>9, <1>10, Steps

-------------------------------------------------------------------------------
(* The windows are always there.                                              *)

LEMMA WindowsStart == Init => WindowInv
<1> SUFFICES ASSUME Init PROVE WindowInv
  OBVIOUS
<1>1. /\ pc = "schedule" /\ tree = EmptyTree /\ flight = <<>> /\ batch = [u \in {} |-> 0]
      /\ stage = [u \in Requests |-> "waiting"]
  BY DEF Init
<1>2. \A u \in Requests : stage[u] = "waiting"
  BY <1>1
<1>3. KeptInv /\ PrefillInv
  BY <1>2 DEF KeptInv, PrefillInv, Resident
<1>4. OrderInv
  <2>1. Len(flight) = 0 /\ DOMAIN flight = {} /\ DOMAIN batch = {}
    BY <1>1
  <2>2. QED
    BY <2>1 DEF OrderInv
<1>5. AloneInv
  <2>1. DOMAIN tree.page = {}
    BY <1>1 DEF EmptyTree
  <2>2. QED
    BY <1>2, <2>1 DEF AloneInv, AloneRow, Unread
<1>6. QED
  BY <1>3, <1>4, <1>5 DEF WindowInv

LEMMA WindowsStay == IInv /\ IInv' /\ WindowInv /\ [Next]_vars => WindowInv'
<1> SUFFICES ASSUME IInv, IInv', WindowInv, [Next]_vars PROVE WindowInv'
  OBVIOUS
<1>1. KeptInv /\ PrefillInv /\ OrderInv /\ AloneInv
  BY DEF WindowInv
<1>2. KeptInv'
  BY <1>1, KeptKept
<1>3. PrefillInv'
  BY <1>1, PrefillKept
<1>4. OrderInv'
  BY <1>1, OrderKept
<1>5. AloneInv'
  BY <1>1, AloneKept
<1>6. QED
  BY <1>2, <1>3, <1>4, <1>5 DEF WindowInv

(* The invariant of the windows holds in every reachable state. *)
THEOREM WindowInvariantHolds == Spec => []WindowInv
<1>1. Init => WindowInv
  BY WindowsStart
<1>2. IInv /\ IInv' /\ WindowInv /\ [Next]_vars => WindowInv'
  BY WindowsStay
<1>3. QED
  BY <1>1, <1>2, InvariantHolds, PTL DEF Spec

(* When the next chunk of a prompt is prepared, every page of its window is  *)
(* mapped: _build_swa_page_table_row never raises "missing active page       *)
(* mapping".  The page size of the code is twice its window.                 *)
THEOREM ChunksAlwaysReadTheirWindow ==
  ASSUME Window <= PageSize + 1
  PROVE  Spec => []PrefillReadsItsWindow
<1>1. IInv /\ WindowInv => PrefillReadsItsWindow
  BY ChunksRead DEF WindowInv
<1>2. QED
  BY <1>1, InvariantHolds, WindowInvariantHolds, PTL

(* A decode finds the SWA page of every token in its window in a page of its *)
(* own, or of a prompt whose first page nobody else has.                     *)
THEOREM DecodesAlwaysFindTheirOwnPages ==
  ASSUME Window <= PageSize + 1
  PROVE  Spec => []DecodeFindsItsOwnPages
<1>1. IInv /\ WindowInv => DecodeFindsItsOwnPages
  BY DecodesRead DEF WindowInv
<1>2. QED
  BY <1>1, InvariantHolds, WindowInvariantHolds, PTL
===============================================================================

------------------------------- MODULE TopKProofs -------------------------------
(* What the radix selection and the canonical choice return, for every number *)
(* of slots, radix, number of digits, staging buffer and row, and every order *)
(* of the threads; and what the kernels that route tokens to their top-k      *)
(* experts plan and sum, for every gate, size and order of the programs.      *)
EXTENDS TopK, MoERoutes, FiniteSetTheorems, TLAPS

-------------------------------------------------------------------------------
(* Finite sets.                                                               *)

\* A transitive and irreflexive relation has a least element in a finite set.
LEMMA LeastOf ==
  ASSUME NEW S, IsFiniteSet(S), S # {}, NEW R,
         \A x \in S : <<x, x>> \notin R,
         \A x, y, z \in S : <<x, y>> \in R /\ <<y, z>> \in R => <<x, z>> \in R
  PROVE  \E m \in S : \A y \in S : <<y, m>> \notin R
<1> DEFINE Under(m) == {x \in S : <<x, m>> \in R}
           T == {Under(m) : m \in S}
<1>1. FiniteSubsetsOf(S) = SUBSET S
  BY FS_FiniteSubsetsOfFinite
<1>2. T \subseteq FiniteSubsetsOf(S) /\ T # {}
  <2>1. \A m \in S : Under(m) \in SUBSET S
    OBVIOUS
  <2> HIDE DEF Under
  <2>2. T \subseteq SUBSET S /\ T # {}
    BY <2>1
  <2>3. QED
    BY <1>1, <2>2
<1>3. PICK D \in T : \A U \in T : <<U, D>> \notin StrictSubsetOrdering(S)
  <2>1. IsWellFoundedOn(StrictSubsetOrdering(S), FiniteSubsetsOf(S))
    BY FS_StrictSubsetOrderingWellFounded
  <2>2. QED
    BY <1>2, <2>1, WFMin, Zenon
<1>4. PICK m \in S : D = Under(m)
  BY <1>3
<1>5. ASSUME NEW y \in S, <<y, m>> \in R PROVE FALSE
  <2>1. Under(y) \subseteq Under(m) /\ y \in Under(m) /\ y \notin Under(y)
    BY <1>5
  <2>2. Under(y) # Under(m)
    BY <2>1
  <2>3. <<Under(y), D>> \in StrictSubsetOrdering(S)
    BY <2>1, <2>2, <1>4 DEF StrictSubsetOrdering
  <2>4. Under(y) \in T
    BY <1>5
  <2>5. QED
    BY <1>3, <2>3, <2>4
<1>6. QED
  BY <1>5

\* The number of the elements before it numbers the elements of a finite set.
RankIn(S, R) == [x \in S |-> Cardinality({y \in S : <<y, x>> \in R})]

LEMMA Ranks ==
  ASSUME NEW S, IsFiniteSet(S), NEW R,
         \A x \in S : <<x, x>> \notin R,
         \A x, y, z \in S : <<x, y>> \in R /\ <<y, z>> \in R => <<x, z>> \in R,
         \A x, y \in S : x = y \/ <<x, y>> \in R \/ <<y, x>> \in R,
         NEW f, f = RankIn(S, R)
  PROVE  /\ f \in [S -> 0 .. Cardinality(S) - 1]
         /\ \A x, y \in S : <<x, y>> \in R <=> f[x] < f[y]
         /\ \A n \in 0 .. Cardinality(S) - 1 : \E x \in S : f[x] = n
<1> DEFINE Under(x) == {y \in S : <<y, x>> \in R}
<1> USE DEF RankIn
<1>0. Cardinality(S) \in Nat
  BY FS_CardinalityType
<1>1. ASSUME NEW x \in S
      PROVE  IsFiniteSet(Under(x)) /\ Cardinality(Under(x)) \in 0 .. Cardinality(S) - 1
  <2>1. Under(x) \in SUBSET S /\ Under(x) # S
    BY <1>1
  <2>2. IsFiniteSet(Under(x)) /\ Cardinality(Under(x)) <= Cardinality(S)
        /\ Cardinality(Under(x)) # Cardinality(S)
    BY <2>1, FS_Subset
  <2>3. QED
    BY <2>2, <1>0, FS_CardinalityType
<1>2. f \in [S -> 0 .. Cardinality(S) - 1]
  BY <1>1
<1>3. ASSUME NEW x \in S, NEW y \in S, <<x, y>> \in R PROVE f[x] < f[y]
  <2>1. Under(x) \in SUBSET Under(y) /\ x \in Under(y) /\ x \notin Under(x)
    BY <1>3
  <2>2. Cardinality(Under(x)) <= Cardinality(Under(y))
        /\ Cardinality(Under(x)) # Cardinality(Under(y))
    BY <2>1, <1>1, FS_Subset
  <2>4. f[x] = Cardinality(Under(x)) /\ f[y] = Cardinality(Under(y))
    OBVIOUS
  <2> HIDE DEF Under
  <2>3. Cardinality(Under(x)) \in Int /\ Cardinality(Under(y)) \in Int
    BY <1>0, <1>1, <1>3
  <2>5. QED
    BY <2>2, <2>3, <2>4
<1>4. \A x, y \in S : <<x, y>> \in R <=> f[x] < f[y]
  <2>1. SUFFICES ASSUME NEW x \in S, NEW y \in S, f[x] < f[y] PROVE <<x, y>> \in R
    BY <1>3
  <2>2. x # y /\ ~(f[y] < f[x])
    <3>1. f[x] \in Int /\ f[y] \in Int
      BY <1>2, <1>0
    <3>2. QED
      BY <2>1, <3>1
  <2>3. QED
    BY <2>2, <1>3
<1>5. f \in Injection(S, 0 .. Cardinality(S) - 1)
  <2>1. \A x, y \in S : f[x] = f[y] => x = y
    BY <1>2, <1>4
  <2>2. QED
    BY <2>1, <1>2 DEF Injection, IsInjective
<1>6. f \in Surjection(S, 0 .. Cardinality(S) - 1)
  <2>1. /\ IsFiniteSet(0 .. Cardinality(S) - 1)
        /\ Cardinality(0 .. Cardinality(S) - 1) = Cardinality(S)
    BY <1>0, FS_Interval, SMTT(30)
  <2>2. QED
    BY <2>1, <1>5, FS_Injection
<1>7. QED
  BY <1>2, <1>4, <1>6 DEF Surjection

-------------------------------------------------------------------------------
(* The order of keys and of entries.                                          *)

LEMMA LessIsStrict ==
  ASSUME Sensible
  PROVE  /\ \A a \in Keys : ~Less(a, a)
         /\ \A a, b, c \in Keys : Less(a, b) /\ Less(b, c) => Less(a, c)
<1>1. \A a \in Keys : \A r \in 1 .. Rounds : a[r] \in Int
  BY DEF Keys, Sensible
<1>2. \A a \in Keys : ~Less(a, a)
  BY <1>1 DEF Less
<1>3. ASSUME NEW a \in Keys, NEW b \in Keys, NEW c \in Keys, Less(a, b), Less(b, c)
      PROVE  Less(a, c)
  <2>1. PICK r \in 1 .. Rounds : a[r] < b[r] /\ \A s \in 1 .. r - 1 : a[s] = b[s]
    BY <1>3 DEF Less
  <2>2. PICK q \in 1 .. Rounds : b[q] < c[q] /\ \A s \in 1 .. q - 1 : b[s] = c[s]
    BY <1>3 DEF Less
  <2>3. Rounds \in Nat
    BY DEF Sensible
  <2>4. CASE r <= q
    <3>1. a[r] < c[r] /\ \A s \in 1 .. r - 1 : a[s] = c[s]
      BY <2>1, <2>2, <2>3, <2>4, <1>1
    <3>2. QED
      BY <3>1 DEF Less
  <2>5. CASE q < r
    <3>1. a[q] < c[q] /\ \A s \in 1 .. q - 1 : a[s] = c[s]
      BY <2>1, <2>2, <2>3, <2>5, <1>1
    <3>2. QED
      BY <3>1 DEF Less
  <2>6. QED
    BY <2>3, <2>4, <2>5
<1>4. QED
  BY <1>2, <1>3

LEMMA LessIsTotal ==
  ASSUME Sensible, NEW a \in Keys, NEW b \in Keys
  PROVE  a = b \/ Less(a, b) \/ Less(b, a)
<1> DEFINE D == {r \in 1 .. Rounds : a[r] # b[r]}
           R == {p \in (1 .. Rounds) \X (1 .. Rounds) : p[1] < p[2]}
<1>0. Rounds \in Nat
  BY DEF Sensible
<1>1. CASE D = {}
  <2>1. \A r \in 1 .. Rounds : a[r] = b[r]
    BY <1>1
  <2>2. a = [r \in 1 .. Rounds |-> a[r]] /\ b = [r \in 1 .. Rounds |-> b[r]]
    BY DEF Keys
  <2>3. QED
    BY <2>1, <2>2
<1>2. CASE D # {}
  <2>1. IsFiniteSet(D)
    <3>1. IsFiniteSet(1 .. Rounds) /\ D \in SUBSET (1 .. Rounds)
      BY <1>0, FS_Interval
    <3>2. QED
      BY <3>1, FS_Subset
  <2>2. \A x, y \in D : <<x, y>> \in R <=> x < y
    OBVIOUS
  <2>3. PICK m \in D : \A y \in D : <<y, m>> \notin R
    <3>1. \A x \in D : <<x, x>> \notin R
      BY <1>0, <2>2
    <3>2. \A x, y, z \in D : <<x, y>> \in R /\ <<y, z>> \in R => <<x, z>> \in R
      BY <1>0, <2>2
    <3> HIDE DEF D, R
    <3>3. QED
      BY <3>1, <3>2, <2>1, <1>2, LeastOf
  <2>4. \A s \in 1 .. m - 1 : a[s] = b[s]
    <3>1. ASSUME NEW s \in 1 .. m - 1, a[s] # b[s] PROVE FALSE
      <4>1. s \in D /\ s < m
        BY <3>1, <1>0
      <4>2. QED
        BY <4>1, <2>2, <2>3
    <3>2. QED
      BY <3>1
  <2>5. a[m] \in Int /\ b[m] \in Int /\ a[m] # b[m]
    BY DEF Keys, Sensible
  <2>6. a[m] < b[m] \/ b[m] < a[m]
    BY <2>5
  <2>7. QED
    BY <2>4, <2>6 DEF Less
<1>3. QED
  BY <1>1, <1>2

LEMMA CanonicalIsMonotone ==
  ASSUME Sensible, NEW a \in Keys, NEW b \in Keys, ~Less(a, b)
  PROVE  Canonical(a) \in Keys /\ ~Less(Canonical(a), Canonical(b))
<1>1. PosZero \in Keys /\ NegZero \in Keys /\ Less(NegZero, PosZero)
      /\ \A c \in Keys : Less(c, PosZero) => c = NegZero \/ Less(c, NegZero)
  BY DEF Sensible
<1>2. QED
  BY <1>1, LessIsStrict DEF Canonical

LEMMA BeforeIsStrictOrder ==
  ASSUME Sensible, NEW w \in Rows
  PROVE  /\ \A i \in Items(w) : ~Before(w, i, i)
         /\ \A i, j, k \in Items(w) : Before(w, i, j) /\ Before(w, j, k) => Before(w, i, k)
         /\ \A i, j \in Items(w) : i = j \/ Before(w, i, j) \/ Before(w, j, i)
<1>1. Items(w) \subseteq Int /\ \A i \in Items(w) : Score(w, i) \in Keys
  BY DEF Sensible, Legal, Items, Score, Canonical
<1>2. \A i \in Items(w) : ~Before(w, i, i)
  BY <1>1, LessIsStrict DEF Before
<1>3. ASSUME NEW i \in Items(w), NEW j \in Items(w), NEW k \in Items(w),
             Before(w, i, j), Before(w, j, k)
      PROVE  Before(w, i, k)
  <2>1. i \in Int /\ j \in Int /\ k \in Int
    BY <1>1
  <2>2. i < j /\ j < k => i < k
    BY <2>1
  <2>3. QED
    BY <1>1, <1>3, <2>2, LessIsStrict DEF Before
<1>4. ASSUME NEW i \in Items(w), NEW j \in Items(w)
      PROVE  i = j \/ Before(w, i, j) \/ Before(w, j, i)
  <2>1. i \in Int /\ j \in Int
    BY <1>1
  <2>2. i = j \/ i < j \/ j < i
    BY <2>1
  <2>3. QED
    BY <1>1, <2>2, LessIsTotal DEF Before
<1>5. QED
  BY <1>2, <1>3, <1>4

-------------------------------------------------------------------------------
(* What a row returns once its entries are chosen.                            *)

LEMMA RowIsLegal ==
  ASSUME Sensible, NEW w \in Rows
  PROVE  /\ w.len \in Nat /\ K \in Nat \ {0} /\ Items(w) = 0 .. w.len - 1
         /\ IsFiniteSet(Items(w)) /\ Cardinality(Items(w)) = w.len
         /\ \A i \in Items(w) : w.key[i] \in Keys /\ Score(w, i) \in Keys
<1>1. Legal(w) /\ K \in Nat \ {0} /\ NegZero \in Keys /\ PosZero \in Keys
  BY DEF Sensible
<1>2. w.len \in Nat /\ w.key \in [Items(w) -> Keys]
  BY <1>1 DEF Legal
<1>3. IsFiniteSet(Items(w)) /\ Cardinality(Items(w)) = w.len
  BY <1>2, FS_Interval DEF Items
<1>4. QED
  BY <1>1, <1>2, <1>3 DEF Items, Score, Canonical

Exact(w, o) ==
  LET best == {o.raw[s] : s \in 0 .. o.len - 1}
  IN  /\ best \subseteq Items(w) /\ Cardinality(best) = o.len
      /\ \A i \in best, j \in Items(w) \ best : Before(w, i, j)
      /\ \A s, t \in 0 .. o.len - 1 : s < t => Before(w, o.raw[s], o.raw[t])
      /\ \A s \in o.len .. K - 1 : o.raw[s] = NoItem

\* Sorting the best entries of a row gives its exact selection.
LEMMA SortedIsExact ==
  ASSUME Sensible, NEW w \in Rows, NEW c \in SUBSET Items(w),
         Cardinality(c) = IF w.len < K THEN w.len ELSE K,
         \A i \in c, j \in Items(w) \ c : Before(w, i, j)
  PROVE  Exact(w, Output(w, Ordered(w, c)))
<1> DEFINE n == IF w.len < K THEN w.len ELSE K
           R == {p \in c \X c : Before(w, p[1], p[2])}
           f == RankIn(c, R)
           raw == Ordered(w, c)
<1>1. n \in Nat /\ n <= K /\ K \in Nat /\ Cardinality(c) = n /\ Items(w) \subseteq Int
  BY RowIsLegal
<1>2. IsFiniteSet(c)
  BY RowIsLegal, FS_Subset
<1>3. \A i, j \in c : <<i, j>> \in R <=> Before(w, i, j)
  OBVIOUS
<1>4. /\ f \in [c -> 0 .. n - 1]
      /\ \A i, j \in c : <<i, j>> \in R <=> f[i] < f[j]
      /\ \A s \in 0 .. n - 1 : \E i \in c : f[i] = s
  <2>1. /\ \A i \in c : <<i, i>> \notin R
        /\ \A i, j, k \in c : <<i, j>> \in R /\ <<j, k>> \in R => <<i, k>> \in R
        /\ \A i, j \in c : i = j \/ <<i, j>> \in R \/ <<j, i>> \in R
    BY <1>3, BeforeIsStrictOrder
  <2> HIDE DEF R, n
  <2>2. /\ f \in [c -> 0 .. Cardinality(c) - 1]
        /\ \A i, j \in c : <<i, j>> \in R <=> f[i] < f[j]
        /\ \A s \in 0 .. Cardinality(c) - 1 : \E i \in c : f[i] = s
    BY <2>1, <1>2, Ranks
  <2>4. QED
    BY <2>2, <1>1
<1>5. ASSUME NEW i \in c PROVE Rank(w, c, i) = f[i]
  <2>1. {j \in c : <<j, i>> \in R} = {j \in c : Before(w, j, i)}
    BY <1>3
  <2>2. QED
    BY <2>1 DEF Rank, RankIn
<1> HIDE DEF f, R, n
<1>6. \A i, j \in c : f[i] = f[j] => i = j
  <2>1. SUFFICES ASSUME NEW i \in c, NEW j \in c, f[i] = f[j] PROVE i = j
    OBVIOUS
  <2>2. ~(f[i] < f[j]) /\ ~(f[j] < f[i])
    BY <2>1, <1>4
  <2>3. QED
    BY <2>2, <1>3, <1>4, BeforeIsStrictOrder
<1>7. ASSUME NEW s \in 0 .. n - 1 PROVE raw[s] \in c /\ f[raw[s]] = s
  <2>1. PICK i \in c : f[i] = s
    BY <1>4
  <2>2. s \in Slots
    BY <1>1 DEF Slots
  <2>3. raw[s] = CHOOSE j \in c : Rank(w, c, j) = s
    BY <2>1, <2>2, <1>5 DEF Ordered
  <2>4. \E j \in c : Rank(w, c, j) = s
    BY <2>1, <1>5
  <2>5. raw[s] \in c /\ Rank(w, c, raw[s]) = s
    BY <2>3, <2>4
  <2>6. QED
    BY <2>5, <1>5
<1>8. ASSUME NEW s \in n .. K - 1 PROVE raw[s] = NoItem
  <2>1. s \in Slots /\ \A i \in c : Rank(w, c, i) # s
    BY <1>1, <1>4, <1>5 DEF Slots
  <2>2. QED
    BY <2>1 DEF Ordered
<1>9. {raw[s] : s \in 0 .. n - 1} = c
  <2>1. ASSUME NEW i \in c PROVE \E s \in 0 .. n - 1 : raw[s] = i
    <3>1. f[i] \in 0 .. n - 1
      BY <1>4
    <3>2. raw[f[i]] = i
      BY <3>1, <1>6, <1>7
    <3>3. QED
      BY <3>1, <3>2
  <2>2. QED
    BY <2>1, <1>7
<1>10. \A s, t \in 0 .. n - 1 : s < t => Before(w, raw[s], raw[t])
  BY <1>3, <1>4, <1>7
<1>11. Output(w, raw).raw = raw /\ Output(w, raw).len = n
  BY DEF Output, n
<1> HIDE DEF raw
<1>12. QED
  BY <1>1, <1>8, <1>9, <1>10, <1>11 DEF Exact, raw

-------------------------------------------------------------------------------
(* The canonical choice is the best of the row, whatever its threshold.       *)

LEMMA ChosenIsBest ==
  ASSUME Sensible, NEW w \in Rows, NEW k \in Keys
  PROVE  /\ Chosen(w, k) \in SUBSET Items(w)
         /\ \A i \in Chosen(w, k), j \in Items(w) \ Chosen(w, k) : Before(w, i, j)
<1>1. Chosen(w, k) \in SUBSET Items(w)
  BY DEF Chosen, Greater, Equal
<1>2. SUFFICES ASSUME NEW i \in Chosen(w, k), NEW j \in Items(w) \ Chosen(w, k)
               PROVE  Before(w, i, j)
  BY <1>1
<1>3. i \in Items(w) /\ Score(w, i) \in Keys /\ Score(w, j) \in Keys
  BY <1>1, RowIsLegal
<1>4. Score(w, j) = k \/ Less(Score(w, j), k)
  <2>1. ~Less(k, Score(w, j))
    BY DEF Chosen, Greater
  <2>2. QED
    BY <2>1, <1>3, LessIsTotal
<1>5. CASE i \in Greater(w, k)
  <2>1. Less(k, Score(w, i))
    BY <1>5 DEF Greater
  <2>2. Less(Score(w, j), Score(w, i))
    BY <1>3, <1>4, <2>1, LessIsStrict
  <2>3. QED
    BY <2>2 DEF Before
<1>6. CASE i \notin Greater(w, k)
  <2>1. Score(w, i) = k /\ Ordinal(w, i) < Need(w, k)
    BY <1>6 DEF Chosen, Equal
  <2>2. CASE Less(Score(w, j), k)
    BY <2>1, <2>2 DEF Before
  <2>3. CASE Score(w, j) = k
    <3>1. ~(Ordinal(w, j) < Need(w, k)) /\ j \in Equal(w, k) /\ i \in Equal(w, k)
      BY <2>1, <2>3, <1>3 DEF Chosen, Equal
    <3>2. i # j
      BY <2>1, <3>1
    <3>3. ASSUME j < i PROVE FALSE
      <4> DEFINE O(x) == {y \in Equal(w, k) : y < x}
      <4>1. IsFiniteSet(O(i)) /\ O(j) \in SUBSET O(i)
        <5>1. O(i) \in SUBSET Items(w) /\ Items(w) \subseteq Int
          BY RowIsLegal DEF Equal
        <5>2. \A y \in O(j) : y < i
          BY <5>1, <1>3, <3>3, RowIsLegal DEF Equal
        <5>3. QED
          BY <5>1, <5>2, RowIsLegal, FS_Subset
      <4>2. Cardinality(O(j)) <= Cardinality(O(i)) /\ Cardinality(O(i)) \in Nat
            /\ Cardinality(O(j)) \in Nat
        BY <4>1, FS_Subset, FS_CardinalityType
      <4>3. Ordinal(w, i) = Cardinality(O(i)) /\ Ordinal(w, j) = Cardinality(O(j))
        BY <2>1, <2>3 DEF Ordinal
      <4>4. Need(w, k) \in Int
        <5>1. Greater(w, k) \in SUBSET Items(w)
          BY DEF Greater
        <5>2. Cardinality(Greater(w, k)) \in Nat
          BY <5>1, RowIsLegal, FS_Subset, FS_CardinalityType
        <5>3. QED
          BY <5>2, RowIsLegal DEF Need
      <4> HIDE DEF O
      <4>5. QED
        BY <2>1, <3>1, <4>2, <4>3, <4>4
    <3>4. i < j
      BY <3>2, <3>3, <1>3, RowIsLegal
    <3>5. QED
      BY <2>1, <2>3, <3>4 DEF Before
  <2>4. QED
    BY <1>4, <2>2, <2>3
<1>7. QED
  BY <1>5, <1>6

-------------------------------------------------------------------------------
(* The slots.  The head of the slots is written from s_counter, the tail from *)
(* s_last_remain; what is left of the pass and of the bin fills the rest.     *)

TypeInv ==
  /\ row \in Rows /\ pc \in {"start", "find", "place", "choose", "done"}
  /\ round \in 0 .. Rounds /\ remain \in 0 .. K /\ bin \in 0 .. Radix - 1
  /\ input \in SUBSET Entries /\ todo \in SUBSET input /\ staged \in SUBSET input
  /\ count \in Nat /\ taken \in 0 .. K /\ ties \in Int
  /\ selected \in [Slots -> Entries \cup {NoItem}]

Ahead == Above(bin) \cap todo
Looked == AtBin(bin) \ todo
LastPass == remain # 0 /\ round = Rounds
Tail == IF pc = "place" /\ LastPass THEN (K - remain) .. (K - 1 - (IF ties > 0 THEN ties ELSE 0)) ELSE {}
WrittenInv ==
  /\ \A s \in Slots : selected[s] # NoItem <=> s < taken \/ s \in Tail
  /\ \A s, t \in Slots : selected[s] = selected[t] /\ selected[s] # NoItem => s = t

FindInv ==
  pc = "find" =>
    /\ taken + remain = K /\ Cardinality(input) > remain
    /\ Placed \cap input = {}
PlaceInv ==
  pc = "place" =>
    /\ taken + Cardinality(Ahead) + remain = K
    /\ Cardinality(AtBin(bin)) > remain
    /\ Placed \cap todo = {}
    /\ (remain # 0 /\ round < Rounds) =>
         /\ staged \subseteq Looked /\ Placed \cap AtBin(bin) = {}
         /\ count = Cardinality(Looked)
         /\ Cardinality(staged) = IF count < Staging THEN count ELSE Staging
    /\ LastPass => ties = remain - Cardinality(Looked)
SlotsInv ==
  /\ TypeInv
  /\ pc \in {"start", "find", "place"} => WrittenInv
  /\ pc = "start" => taken = 0 /\ remain = K /\ round = 0
  /\ FindInv /\ PlaceInv
  /\ pc = "choose" => \A s \in Slots : selected[s] \in Entries
                      /\ \A s2, t \in Slots : selected[s2] = selected[t] => s2 = t

LEMMA DisjointUnion ==
  ASSUME NEW S, NEW T, IsFiniteSet(S), IsFiniteSet(T), S \cap T = {}
  PROVE  /\ IsFiniteSet(S \cup T) /\ Cardinality(S) \in Nat /\ Cardinality(T) \in Nat
         /\ Cardinality(S \cup T) = Cardinality(S) + Cardinality(T)
<1>1. Cardinality(S \cap T) = 0
  BY FS_EmptySet
<1>2. Cardinality(S) \in Nat /\ Cardinality(T) \in Nat
  BY FS_CardinalityType
<1>3. IsFiniteSet(S \cup T)
      /\ Cardinality(S \cup T) = Cardinality(S) + Cardinality(T) - Cardinality(S \cap T)
  BY FS_Union
<1>4. QED
  BY <1>1, <1>2, <1>3

LEMMA FinitePart ==
  ASSUME Sensible, TypeInv, NEW T \in SUBSET Entries
  PROVE  IsFiniteSet(T) /\ Cardinality(T) \in Nat
BY RowIsLegal, FS_Subset, FS_CardinalityType DEF TypeInv, Entries

\* Some bin is where the cumulative histogram passes what remains.
LEMMA SomeBinCrosses ==
  ASSUME Sensible, TypeInv, Cardinality(input) > remain, round < Rounds + 1,
         \A i \in input : Digit(i) \in 0 .. Radix - 1
  PROVE  \E t \in 0 .. Radix - 1 : Crosses(t)
<1> DEFINE B == {t \in 0 .. Radix - 1 : Cardinality(Above(t)) <= remain}
           R == {p \in B \X B : p[1] < p[2]}
<1>1. Radix \in Nat \ {0} /\ remain \in Nat /\ input \in SUBSET Entries
  BY DEF Sensible, TypeInv
<1>2. \A t \in Int : IsFiniteSet(Above(t)) /\ Cardinality(Above(t)) \in Nat
                     /\ IsFiniteSet(AtBin(t)) /\ Cardinality(AtBin(t)) \in Nat
  <2>1. \A t \in Int : Above(t) \in SUBSET Entries /\ AtBin(t) \in SUBSET Entries
    BY <1>1 DEF Above, AtBin
  <2>2. QED
    BY <2>1, FinitePart
<1>3. Radix - 1 \in B
  <2>1. Above(Radix - 1) = {}
    BY <1>1 DEF Above
  <2>2. QED
    BY <1>1, <2>1, FS_EmptySet
<1>4. IsFiniteSet(B)
  <2>1. IsFiniteSet(0 .. Radix - 1) /\ B \in SUBSET (0 .. Radix - 1)
    BY <1>1, FS_Interval
  <2>2. QED
    BY <2>1, FS_Subset
<1>5. PICK t \in B : \A u \in B : ~(u < t)
  <2>1. \A x, y \in B : <<x, y>> \in R <=> x < y
    OBVIOUS
  <2>2. \A x \in B : <<x, x>> \notin R
    BY <1>1, <2>1
  <2>3. \A x, y, z \in B : <<x, y>> \in R /\ <<y, z>> \in R => <<x, z>> \in R
    BY <1>1, <2>1
  <2> HIDE DEF R, B
  <2>4. \E m \in B : \A y \in B : <<y, m>> \notin R
    BY <1>3, <1>4, <2>2, <2>3, LeastOf
  <2>5. QED
    BY <2>1, <2>4
<1>6. t \in 0 .. Radix - 1 /\ t \in Int /\ Cardinality(Above(t)) <= remain
  BY <1>1
<1>7. Cardinality(Above(t)) + Cardinality(AtBin(t)) > remain
  <2>1. Cardinality(Above(t) \cup AtBin(t)) = Cardinality(Above(t)) + Cardinality(AtBin(t))
    <3>1. Above(t) \cap AtBin(t) = {}
      BY <1>1, <1>6 DEF Above, AtBin
    <3>2. QED
      BY <3>1, <1>2, <1>6, DisjointUnion
  <2>2. CASE t = 0
    <3>1. Above(t) \cup AtBin(t) = input
      BY <2>2, <1>1 DEF Above, AtBin
    <3>2. QED
      BY <3>1, <2>1
  <2>3. CASE t # 0
    <3>1. t - 1 \in 0 .. Radix - 1 /\ t - 1 < t /\ t - 1 \in Int
      BY <2>3, <1>1, <1>6
    <3>2. ~(Cardinality(Above(t - 1)) <= remain)
      BY <3>1, <1>5
    <3>3. Above(t - 1) = Above(t) \cup AtBin(t)
      BY <1>1, <1>6 DEF Above, AtBin
    <3>4. Cardinality(Above(t - 1)) \in Nat
      BY <3>1, <1>2
    <3>5. Cardinality(Above(t - 1)) = Cardinality(Above(t)) + Cardinality(AtBin(t))
      BY <3>3, <2>1
    <3> HIDE DEF B
    <3>6. QED
      BY <3>2, <3>4, <3>5, <1>1
  <2>4. QED
    BY <2>2, <2>3
<1>8. QED
  BY <1>6, <1>7 DEF Crosses

LEMMA DigitType ==
  ASSUME Sensible, TypeInv, NEW i \in Entries
  PROVE  Digit(i) \in 0 .. Radix - 1
<1>1. row.key[i] \in Keys /\ Coarse \in [Keys -> 0 .. Radix - 1] /\ Rounds \in Nat
  BY RowIsLegal DEF TypeInv, Entries, Sensible
<1>2. round \in 0 .. Rounds
  BY DEF TypeInv
<1>3. CASE round = 0
  BY <1>1, <1>3 DEF Digit
<1>4. CASE round # 0
  <2>1. round \in 1 .. Rounds
    BY <1>1, <1>2, <1>4
  <2>2. row.key[i][round] \in 0 .. Radix - 1
    BY <1>1, <2>1 DEF Keys
  <2>3. QED
    BY <1>4, <2>2 DEF Digit
<1>5. QED
  BY <1>3, <1>4

LEMMA SlotsInit ==
  ASSUME Sensible, Init
  PROVE  SlotsInv
<1>1. K \in Nat \ {0} /\ Radix \in Nat \ {0} /\ Rounds \in Nat \ {0}
  BY DEF Sensible
<1>2. TypeInv
  BY <1>1 DEF Init, TypeInv
<1>3. WrittenInv
  BY <1>1 DEF Init, WrittenInv, Tail, Slots
<1>4. QED
  BY <1>1, <1>2, <1>3 DEF Init, SlotsInv, FindInv, PlaceInv

LEMMA StartKeepsSlots ==
  ASSUME Sensible, SlotsInv, Start
  PROVE  SlotsInv'
<1>1. K \in Nat \ {0} /\ TypeInv /\ WrittenInv /\ taken = 0 /\ remain = K
  BY DEF SlotsInv, Start, Sensible
<1>2. TypeInv'
  BY <1>1 DEF Start, TypeInv, Finish, Entries
<1>3. CASE pc' = "find"
  <2>1. input' = Entries /\ row.len > K
    BY <1>3 DEF Start, Finish
  <2>2. Cardinality(input') > remain'
    BY <1>1, <2>1, RowIsLegal DEF Start, Entries, TypeInv
  <2>3. \A s \in Slots : selected[s] = NoItem
    BY <1>1 DEF WrittenInv, Tail, Start, Slots
  <2>4. Placed' = {}
    BY <2>3 DEF Placed, Start
  <2>5. WrittenInv'
    BY <1>1, <1>3 DEF WrittenInv, Tail, Start
  <2>6. QED
    BY <1>1, <1>2, <1>3, <2>2, <2>4, <2>5 DEF SlotsInv, FindInv, PlaceInv, Start
<1>4. CASE pc' = "done"
  BY <1>2, <1>4 DEF SlotsInv, FindInv, PlaceInv
<1>5. QED
  BY <1>3, <1>4 DEF Start, Finish

LEMMA FindBinKeepsSlots ==
  ASSUME Sensible, SlotsInv, FindBin
  PROVE  SlotsInv'
<1>1. /\ K \in Nat \ {0} /\ Radix \in Nat \ {0} /\ TypeInv /\ WrittenInv /\ pc = "find"
      /\ taken + remain = K /\ Cardinality(input) > remain /\ Placed \cap input = {}
  BY DEF SlotsInv, FindInv, FindBin, Sensible
<1>2. \E t \in 0 .. Radix - 1 : Crosses(t)
  <2>1. \A i \in input : Digit(i) \in 0 .. Radix - 1
    BY <1>1, DigitType DEF TypeInv
  <2>2. round < Rounds + 1
    BY DEF SlotsInv, TypeInv, Sensible
  <2>3. QED
    BY <1>1, <2>1, <2>2, SomeBinCrosses
<1>3. PICK t \in 0 .. Radix - 1 :
        /\ Crosses(t) /\ bin' = t /\ count' = 0 /\ staged' = {}
        /\ ties' = remain - Cardinality(Above(t)) /\ remain' = remain - Cardinality(Above(t))
  BY <1>2 DEF FindBin
<1>4. pc' = "place" /\ todo' = input
      /\ UNCHANGED <<row, round, input, taken, selected, out>>
  BY DEF FindBin
<1>5. Above(t) \in SUBSET input /\ AtBin(t) \in SUBSET input /\ input \in SUBSET Entries
  BY <1>1 DEF Above, AtBin, TypeInv
<1>6. Cardinality(Above(t)) \in Nat /\ Cardinality(AtBin(t)) \in Nat
  BY <1>1, <1>5, FinitePart
<1>7. AtBin(bin)' = AtBin(t) /\ Above(bin)' = Above(t)
  BY <1>3, <1>4 DEF AtBin, Above, Digit
<1>8. Ahead' = Above(t) /\ Looked' = {}
  BY <1>4, <1>5, <1>7 DEF Ahead, Looked
<1>9. remain' \in 0 .. K /\ ties' \in Int /\ taken' + Cardinality(Ahead') + remain' = K
      /\ Cardinality(AtBin(bin)') > remain'
  BY <1>1, <1>3, <1>4, <1>6, <1>7, <1>8 DEF TypeInv, Crosses
<1>10. TypeInv'
  BY <1>1, <1>3, <1>4, <1>9 DEF TypeInv, Entries
<1>11. Placed' = Placed
  BY <1>4 DEF Placed
<1>12. Tail' = {}
  BY <1>1, <1>3, <1>4, <1>9 DEF Tail, LastPass
<1>13. WrittenInv'
  BY <1>1, <1>4, <1>12 DEF WrittenInv, Tail
<1>14. PlaceInv'
  BY <1>1, <1>3, <1>4, <1>5, <1>7, <1>8, <1>9, <1>11, FS_EmptySet
  DEF PlaceInv, LastPass, Sensible
<1>15. QED
  BY <1>4, <1>10, <1>13, <1>14 DEF SlotsInv, FindInv

\* What a look at an entry leaves alone, and what is known of the entry.
LEMMA LookFacts ==
  ASSUME Sensible, SlotsInv, NEW i \in todo, Look(i), UNCHANGED <<row, pc, round, remain, bin, input>>
  PROVE  /\ K \in Nat \ {0} /\ TypeInv /\ WrittenInv /\ PlaceInv /\ pc = "place" /\ pc' = "place"
         /\ i \in input /\ i \in Entries /\ i # NoItem /\ i \notin Placed /\ todo' = todo \ {i}
         /\ Above(bin)' = Above(bin) /\ AtBin(bin)' = AtBin(bin) /\ (LastPass' <=> LastPass)
         /\ Digit(i) \in Int /\ bin \in Int
         /\ IsFiniteSet(Ahead) /\ Cardinality(Ahead) \in Nat
         /\ IsFiniteSet(Looked) /\ Cardinality(Looked) \in Nat
         /\ IsFiniteSet(staged) /\ Cardinality(staged) \in Nat
<1>1. K \in Nat \ {0} /\ TypeInv /\ WrittenInv /\ PlaceInv /\ pc = "place"
  BY DEF SlotsInv, Look, Sensible
<1>2. i \in input /\ i \in Entries /\ i \notin Placed
  BY <1>1 DEF TypeInv, PlaceInv
<1>3. i # NoItem
  BY <1>1, <1>2, RowIsLegal DEF TypeInv, Entries, NoItem
<1>4. Above(bin)' = Above(bin) /\ AtBin(bin)' = AtBin(bin) /\ (LastPass' <=> LastPass)
  BY DEF Above, AtBin, Digit, LastPass
<1>5. Ahead \in SUBSET Entries /\ Looked \in SUBSET Entries /\ staged \in SUBSET Entries
  BY <1>1 DEF Ahead, Looked, Above, AtBin, TypeInv
<1>6. Digit(i) \in Int /\ bin \in Int
  BY <1>1, <1>2, DigitType DEF TypeInv, Sensible
<1>7. QED
  BY <1>1, <1>2, <1>3, <1>4, <1>5, <1>6, FinitePart DEF Look

LEMMA PlaceGreaterKeepsSlots ==
  ASSUME Sensible, SlotsInv, NEW i \in todo, PlaceGreater(i)
  PROVE  SlotsInv' /\ Placed' = Placed \cup {i}
<1>1. Look(i) /\ UNCHANGED <<row, pc, round, remain, bin, input>>
  BY DEF PlaceGreater
<1> USE LookFacts, <1>1
<1>2. /\ Digit(i) > bin /\ selected' = [selected EXCEPT ![taken] = i] /\ taken' = taken + 1
      /\ UNCHANGED <<row, pc, round, remain, bin, input, staged, count, ties, out>>
  BY DEF PlaceGreater
<1>3. taken \in 0 .. K /\ remain \in 0 .. K /\ ties \in Int
      /\ selected \in [Slots -> Entries \cup {NoItem}]
  BY DEF TypeInv
<1>4. Ahead' = Ahead \ {i} /\ i \in Ahead /\ Looked' = Looked
  <2>1. i \in Above(bin) /\ i \notin AtBin(bin)
    BY <1>2 DEF Above, AtBin
  <2>2. QED
    BY <2>1 DEF Ahead, Looked
<1>5. Cardinality(Ahead') = Cardinality(Ahead) - 1 /\ Cardinality(Ahead') \in Nat
  BY <1>4, FS_RemoveElement, FS_CardinalityType
<1>6. taken + Cardinality(Ahead) + remain = K
  BY DEF PlaceInv
<1>7. taken \in Slots /\ taken < K - remain /\ taken' \in 0 .. K
  BY <1>2, <1>3, <1>5, <1>6 DEF Slots
<1>8. taken \notin Tail /\ Tail' = Tail
  BY <1>2, <1>3, <1>7 DEF Tail, LastPass
<1>9. selected[taken] = NoItem
  BY <1>3, <1>7, <1>8 DEF WrittenInv
<1>10. selected' \in [Slots -> Entries \cup {NoItem}]
  BY <1>2, <1>3, <1>7
<1>11. TypeInv'
  BY <1>2, <1>7, <1>10 DEF TypeInv, Entries
<1>12. Placed' = Placed \cup {i}
  BY <1>2, <1>3, <1>7, <1>9 DEF Placed
<1>13. WrittenInv'
  <2>1. \A s \in Slots : selected'[s] = IF s = taken THEN i ELSE selected[s]
    BY <1>2, <1>3
  <2>2. \A s \in Slots : selected[s] # NoItem <=> s < taken \/ s \in Tail
    BY DEF WrittenInv
  <2>3. \A s \in Slots : s < taken' <=> s < taken \/ s = taken
    BY <1>2, <1>3 DEF Slots
  <2>4. \A s \in Slots : selected'[s] # NoItem <=> s < taken' \/ s \in Tail'
    BY <2>1, <2>2, <2>3, <1>8
  <2>5. \A s \in Slots : selected[s] # i
    BY DEF Placed
  <2>6. \A s, t \in Slots : selected'[s] = selected'[t] /\ selected'[s] # NoItem => s = t
    BY <2>1, <2>5 DEF WrittenInv
  <2>7. QED
    BY <2>4, <2>6 DEF WrittenInv
<1>14. PlaceInv'
  <2>1. taken' + Cardinality(Ahead') + remain' = K
    BY <1>2, <1>3, <1>5, <1>6
  <2>2. Placed' \cap todo' = {}
    BY <1>12 DEF PlaceInv
  <2>3. i \notin AtBin(bin)
    BY <1>2 DEF AtBin
  <2>4. QED
    BY <1>2, <1>4, <1>12, <2>1, <2>2, <2>3 DEF PlaceInv, LastPass
<1>15. QED
  BY <1>11, <1>12, <1>13, <1>14 DEF SlotsInv, FindInv

LEMMA StageKeepsSlots ==
  ASSUME Sensible, SlotsInv, NEW i \in todo, Stage(i)
  PROVE  SlotsInv' /\ Placed' = Placed /\ Looked' = Looked \cup {i} /\ i \notin Looked
<1>1. Look(i) /\ UNCHANGED <<row, pc, round, remain, bin, input>>
  BY DEF Stage
<1> USE LookFacts, <1>1
<1>2. /\ Digit(i) = bin /\ remain # 0 /\ round < Rounds /\ count' = count + 1
      /\ staged' = IF count < Staging THEN staged \cup {i} ELSE staged
      /\ UNCHANGED <<row, pc, round, remain, bin, input, taken, ties, selected, out>>
  BY DEF Stage
<1>3. i \in AtBin(bin) /\ i \notin Above(bin)
  BY <1>2 DEF AtBin, Above
<1>4. Ahead' = Ahead /\ Looked' = Looked \cup {i} /\ i \notin Looked
  BY <1>3 DEF Ahead, Looked
<1>5. /\ staged \subseteq Looked /\ Placed \cap AtBin(bin) = {}
      /\ count = Cardinality(Looked)
      /\ Cardinality(staged) = IF count < Staging THEN count ELSE Staging
  BY <1>2 DEF PlaceInv
<1>6. Cardinality(Looked') = Cardinality(Looked) + 1
  BY <1>4, FS_AddElement
<1>7. Cardinality(staged') = IF count' < Staging THEN count' ELSE Staging
  <2>1. Cardinality(staged \cup {i}) = Cardinality(staged) + 1
    BY <1>4, <1>5, FS_AddElement
  <2>2. count \in Nat /\ Staging \in Nat
    BY DEF TypeInv, Sensible
  <2>3. QED
    BY <1>2, <1>5, <2>1, <2>2
<1>8. staged' \subseteq Looked'
  BY <1>2, <1>4, <1>5
<1>9. TypeInv'
  BY <1>2 DEF TypeInv, Entries
<1>10. WrittenInv'
  BY <1>2 DEF WrittenInv, Tail, LastPass
<1>11. Placed' = Placed
  BY <1>2 DEF Placed
<1>12. ~LastPass /\ remain \in Int /\ round \in Int
  BY <1>2 DEF LastPass, TypeInv, Sensible
<1>13. PlaceInv'
  BY <1>2, <1>4, <1>5, <1>6, <1>7, <1>8, <1>11, <1>12 DEF PlaceInv, LastPass
<1>14. QED
  BY <1>4, <1>9, <1>10, <1>11, <1>13 DEF SlotsInv, FindInv

LEMMA PlaceTieKeepsSlots ==
  ASSUME Sensible, SlotsInv, NEW i \in todo, PlaceTie(i)
  PROVE  SlotsInv' /\ (Placed' = Placed \/ Placed' = Placed \cup {i})
<1>1. Look(i) /\ UNCHANGED <<row, pc, round, remain, bin, input>>
  BY DEF PlaceTie
<1> USE LookFacts, <1>1
<1>2. /\ Digit(i) = bin /\ remain # 0 /\ round = Rounds /\ ties' = ties - 1
      /\ selected' = IF ties > 0 THEN [selected EXCEPT ![K - ties] = i] ELSE selected
      /\ UNCHANGED <<row, pc, round, remain, bin, input, staged, count, taken, out>>
  BY DEF PlaceTie
<1>3. i \in AtBin(bin) /\ i \notin Above(bin)
  BY <1>2 DEF AtBin, Above
<1>4. Ahead' = Ahead /\ Looked' = Looked \cup {i} /\ i \notin Looked
  BY <1>3 DEF Ahead, Looked
<1>5. Cardinality(Looked') = Cardinality(Looked) + 1
  BY <1>4, FS_AddElement
<1>6. LastPass /\ LastPass' /\ ties = remain - Cardinality(Looked)
      /\ taken + Cardinality(Ahead) + remain = K
  BY <1>2 DEF LastPass, PlaceInv
<1>7. taken \in 0 .. K /\ remain \in 0 .. K /\ ties \in Int /\ ties <= remain
      /\ taken <= K - remain /\ selected \in [Slots -> Entries \cup {NoItem}]
  <2>1. taken \in 0 .. K /\ remain \in 0 .. K /\ ties \in Int
        /\ selected \in [Slots -> Entries \cup {NoItem}]
    BY DEF TypeInv
  <2>2. Cardinality(Looked) \in Nat /\ Cardinality(Ahead) \in Nat
    OBVIOUS
  <2>3. QED
    BY <1>6, <2>1, <2>2
<1>8. WrittenInv' /\ (Placed' = Placed \/ Placed' = Placed \cup {i})
       /\ selected' \in [Slots -> Entries \cup {NoItem}]
  <2>1. CASE ties > 0
    <3>0. Tail = (K - remain) .. (K - 1 - ties) /\ Tail' = (K - remain) .. (K - ties)
      <4>1. Tail = (K - remain) .. (K - 1 - ties)
        BY <1>6, <1>7, <2>1 DEF Tail
      <4>2. Tail' = (K - remain) .. (K - 1 - (ties - 1))
        <5>1. ties - 1 = IF ties' > 0 THEN ties' ELSE 0
          BY <1>2, <1>7, <2>1
        <5>2. QED
          BY <1>2, <1>6, <5>1 DEF Tail
      <4>3. K - 1 - (ties - 1) = K - ties
        BY <1>7
      <4>4. QED
        BY <4>1, <4>2, <4>3
    <3>1. K - ties \in Slots /\ ~(K - ties < taken) /\ K - ties \notin Tail
      BY <1>7, <2>1, <3>0 DEF Slots
    <3>2. Tail' = Tail \cup {K - ties}
      BY <1>7, <2>1, <3>0, SMTT(30)
    <3>3. \A s \in Slots : selected'[s] = IF s = K - ties THEN i ELSE selected[s]
      BY <1>2, <1>7, <2>1
    <3>4. \A s \in Slots : selected'[s] # NoItem <=> s < taken' \/ s \in Tail'
      BY <1>2, <3>1, <3>2, <3>3 DEF WrittenInv
    <3>5. \A s \in Slots : selected[s] # i
      BY DEF Placed
    <3>6. \A s, t \in Slots : selected'[s] = selected'[t] /\ selected'[s] # NoItem => s = t
      BY <3>3, <3>5 DEF WrittenInv
    <3>7. Placed' = Placed \cup {i}
      <4>1. selected[K - ties] = NoItem
        BY <3>1 DEF WrittenInv
      <4>2. QED
        BY <3>1, <3>3, <4>1 DEF Placed
    <3>8. selected' \in [Slots -> Entries \cup {NoItem}]
      BY <1>2, <1>7, <2>1, <3>1
    <3>9. QED
      BY <3>4, <3>6, <3>7, <3>8 DEF WrittenInv
  <2>2. CASE ~(ties > 0)
    <3>1. selected' = selected /\ Tail' = Tail
      BY <1>2, <1>6, <1>7, <2>2 DEF Tail
    <3>2. Placed' = Placed
      BY <3>1 DEF Placed
    <3>3. WrittenInv'
      BY <1>2, <3>1 DEF WrittenInv
    <3>4. QED
      BY <1>7, <3>1, <3>2, <3>3
  <2>3. QED
    BY <2>1, <2>2
<1>9. TypeInv'
  BY <1>2, <1>7, <1>8 DEF TypeInv, Entries
<1>10. PlaceInv'
  <2>1. taken' + Cardinality(Ahead') + remain' = K
    BY <1>2, <1>4, <1>6
  <2>2. Placed' \cap todo' = {}
    BY <1>8 DEF PlaceInv
  <2>3. ties' = remain' - Cardinality(Looked')
    <3>1. Cardinality(Looked) \in Nat
      OBVIOUS
    <3>2. QED
      BY <1>2, <1>5, <1>6, <1>7, <3>1
  <2>4. ~(remain' # 0 /\ round' < Rounds)
    BY <1>2 DEF Sensible
  <2>5. QED
    BY <1>2, <2>1, <2>2, <2>3, <2>4 DEF PlaceInv
<1>11. QED
  BY <1>8, <1>9, <1>10 DEF SlotsInv, FindInv

LEMMA PassKeepsSlots ==
  ASSUME Sensible, SlotsInv, NEW i \in todo, Pass(i)
  PROVE  SlotsInv' /\ Placed' = Placed /\ Ahead' = Ahead /\ (remain # 0 => Looked' = Looked)
<1>1. Look(i) /\ UNCHANGED <<row, pc, round, remain, bin, input>>
  BY DEF Pass
<1> USE LookFacts, <1>1
<1>2. UNCHANGED <<row, pc, round, remain, bin, input, staged, count, taken, ties, selected, out>>
  BY DEF Pass
<1>3. i \notin Above(bin) /\ (remain # 0 => i \notin AtBin(bin))
  BY DEF Pass, Above, AtBin
<1>4. Ahead' = Ahead /\ (remain # 0 => Looked' = Looked) /\ Placed' = Placed
  BY <1>2, <1>3 DEF Ahead, Looked, Placed
<1>5. TypeInv' /\ WrittenInv'
  BY <1>2 DEF TypeInv, WrittenInv, Tail, LastPass, Entries
<1>6. PlaceInv'
  BY <1>2, <1>4 DEF PlaceInv, LastPass
<1>7. QED
  BY <1>4, <1>5, <1>6 DEF SlotsInv, FindInv

LEMMA EndPassKeepsSlots ==
  ASSUME Sensible, SlotsInv, EndPass
  PROVE  SlotsInv'
<1>1. /\ K \in Nat \ {0} /\ Staging \in Nat /\ K < Staging /\ Rounds \in Nat
      /\ TypeInv /\ WrittenInv /\ PlaceInv /\ pc = "place" /\ todo = {}
  BY DEF SlotsInv, EndPass, Sensible
<1>2. UNCHANGED <<row, remain, bin, todo, staged, count, taken, ties, selected, out>>
  BY DEF EndPass
<1>3. Ahead = {} /\ Looked = AtBin(bin)
  BY <1>1 DEF Ahead, Looked
<1>4. taken \in 0 .. K /\ remain \in 0 .. K /\ taken + remain = K
      /\ Cardinality(AtBin(bin)) \in Nat /\ Cardinality(AtBin(bin)) > remain
  <2>1. AtBin(bin) \in SUBSET Entries
    BY <1>1 DEF AtBin, TypeInv
  <2>2. QED
    BY <1>1, <1>3, <2>1, FinitePart, FS_EmptySet DEF TypeInv, PlaceInv
<1>5. CASE remain = 0 \/ round = Rounds
  <2>1. pc' = "choose" /\ UNCHANGED <<round, input>>
    BY <1>5 DEF EndPass
  <2>2. TypeInv'
    BY <1>1, <1>2, <2>1 DEF TypeInv, Entries
  <2>3. \A s \in Slots : s < taken \/ s \in Tail
    <3>1. CASE remain = 0
      BY <1>1, <1>4, <3>1 DEF Slots
    <3>2. CASE remain # 0
      <4>1. LastPass /\ ties \in Int /\ ~(ties > 0)
        BY <1>1, <1>3, <1>4, <1>5, <3>2 DEF LastPass, PlaceInv
      <4>2. Tail = (K - remain) .. (K - 1)
        BY <1>1, <1>4, <4>1 DEF Tail
      <4>3. QED
        BY <1>1, <1>4, <4>2 DEF Slots
    <3>3. QED
      BY <3>1, <3>2
  <2>4. \A s \in Slots : selected[s] \in Entries
    BY <2>3, <1>1 DEF WrittenInv, TypeInv
  <2>5. \A s, t \in Slots : selected[s] = selected[t] => s = t
    BY <2>3, <1>1 DEF WrittenInv
  <2>6. QED
    BY <1>2, <2>1, <2>2, <2>4, <2>5 DEF SlotsInv, FindInv, PlaceInv, Entries
<1>6. CASE ~(remain = 0 \/ round = Rounds)
  <2>1. pc' = "find" /\ round' = round + 1 /\ input' = staged
    BY <1>6 DEF EndPass
  <2>2. round < Rounds /\ round' \in 0 .. Rounds
    BY <1>1, <1>6, <2>1 DEF TypeInv
  <2>3. TypeInv'
    BY <1>1, <1>2, <2>1, <2>2 DEF TypeInv, Entries
  <2>4. /\ staged \subseteq AtBin(bin) /\ Placed \cap AtBin(bin) = {}
        /\ count = Cardinality(AtBin(bin))
        /\ Cardinality(staged) = IF count < Staging THEN count ELSE Staging
    BY <1>1, <1>3, <1>6, <2>2 DEF PlaceInv
  <2>5. Cardinality(input') > remain'
    BY <1>1, <1>2, <1>4, <2>1, <2>4
  <2>6. Placed' = Placed /\ Placed' \cap input' = {}
    BY <1>2, <2>1, <2>4 DEF Placed
  <2>7. WrittenInv'
    BY <1>1, <1>2, <1>6, <2>1 DEF WrittenInv, Tail, LastPass
  <2>8. QED
    BY <1>2, <1>4, <2>1, <2>3, <2>5, <2>6, <2>7 DEF SlotsInv, FindInv, PlaceInv
<1>7. QED
  BY <1>5, <1>6

\* The invariant of the slots.
LEMMA SlotsStep ==
  ASSUME Sensible, SlotsInv, [Next \/ Done]_vars
  PROVE  SlotsInv'
<1>1. CASE UNCHANGED vars
  BY <1>1 DEF vars, SlotsInv, TypeInv, WrittenInv, FindInv, PlaceInv, Tail, LastPass, Ahead,
       Looked, Above, AtBin, Digit, Placed, Entries
<1>2. CASE Choose
  <2>1. pc' = "done" /\ UNCHANGED <<row, round, remain, bin, input, todo, staged, count, taken,
                                    ties, selected>>
    BY <1>2 DEF Choose, Finish
  <2>2. QED
    BY <2>1 DEF SlotsInv, TypeInv, FindInv, PlaceInv, Entries
<1>3. QED
  BY <1>1, <1>2, StartKeepsSlots, FindBinKeepsSlots, PlaceGreaterKeepsSlots, StageKeepsSlots,
     PlaceTieKeepsSlots, PassKeepsSlots, EndPassKeepsSlots DEF Next, Done

LEMMA SlotsInvariance == ASSUME Sensible PROVE Spec => []SlotsInv
<1>1. Init => SlotsInv
  BY SlotsInit
<1>2. SlotsInv /\ [Next \/ Done]_vars => SlotsInv'
  BY SlotsStep
<1>3. QED
  BY <1>1, <1>2, PTL DEF Spec

(* The head and the tail of the slots are filled from two counters, and every *)
(* slot is written exactly once by the time the threshold is read from them,  *)
(* also when the staging buffer overflowed.                                   *)
THEOREM EverySlotIsFilled == ASSUME Sensible PROVE Spec => []SlotsAreFilled
<1>1. SlotsInv => SlotsAreFilled
  BY DEF SlotsInv, TypeInv, SlotsAreFilled
<1>2. QED
  BY <1>1, SlotsInvariance, PTL

-------------------------------------------------------------------------------
(* What the block returns.                                                    *)

\* The provisional choice has K entries, and the threshold is its least score.
LEMMA ThresholdIsLeast ==
  ASSUME Sensible, SlotsInv, pc = "choose"
  PROVE  /\ Placed \in SUBSET Entries /\ Cardinality(Placed) = K /\ Threshold \in Keys
         /\ \E m \in Placed : Score(row, m) = Threshold
         /\ \A i \in Placed : ~Less(Score(row, i), Threshold)
<1>1. /\ row \in Rows /\ selected \in [Slots -> Entries \cup {NoItem}] /\ K \in Nat \ {0}
      /\ \A s \in Slots : selected[s] \in Entries
      /\ \A s, t \in Slots : selected[s] = selected[t] => s = t
  BY DEF SlotsInv, TypeInv, Sensible
<1>2. \A i \in Entries : i # NoItem /\ Score(row, i) \in Keys
  BY <1>1, RowIsLegal DEF Entries, NoItem
<1>3. Placed \in SUBSET Entries /\ \A s \in Slots : selected[s] \in Placed
  BY <1>1, <1>2 DEF Placed
<1>4. IsFiniteSet(Slots) /\ Cardinality(Slots) = K
  BY <1>1, FS_Interval DEF Slots
<1>5. Cardinality(Placed) = K
  <2>1. selected \in Surjection(Slots, Placed) /\ selected \in Injection(Slots, Placed)
    <3>1. selected \in [Slots -> Placed]
      BY <1>1, <1>3
    <3>2. \A i \in Placed : \E s \in Slots : selected[s] = i
      BY DEF Placed
    <3>3. QED
      BY <1>1, <3>1, <3>2 DEF Surjection, Injection, IsInjective
  <2>2. QED
    BY <1>4, <2>1, FS_Surjection
<1>6. Placed # {} /\ IsFiniteSet(Placed)
  <2>1. 0 \in Slots
    BY <1>1 DEF Slots
  <2>2. IsFiniteSet(Entries)
    BY <1>1, RowIsLegal DEF Entries
  <2>3. QED
    BY <1>3, <2>1, <2>2, FS_Subset
<1> DEFINE R == {p \in Placed \X Placed : Less(Score(row, p[1]), Score(row, p[2]))}
<1>7. PICK m \in Placed : \A i \in Placed : <<i, m>> \notin R
  <2>1. \A i, j \in Placed : <<i, j>> \in R <=> Less(Score(row, i), Score(row, j))
    OBVIOUS
  <2>2. \A i \in Placed : <<i, i>> \notin R
    BY <2>1, <1>2, <1>3, LessIsStrict
  <2>3. \A i, j, k \in Placed : <<i, j>> \in R /\ <<j, k>> \in R => <<i, k>> \in R
    BY <2>1, <1>2, <1>3, LessIsStrict
  <2> HIDE DEF R
  <2>4. QED
    BY <1>6, <2>2, <2>3, LeastOf
<1>8. \A i \in Placed : ~Less(Score(row, i), Score(row, m))
  BY <1>7
<1>9. /\ Threshold \in {Score(row, i) : i \in Placed}
      /\ \A i \in Placed : ~Less(Score(row, i), Threshold)
  BY <1>8 DEF Threshold
<1>10. PICK n \in Placed : Score(row, n) = Threshold
  BY <1>9
<1>11. QED
  BY <1>2, <1>3, <1>5, <1>9, <1>10

ExactInv == pc = "done" /\ out.valid => Exact(row, out)

LEMMA ExactStep ==
  ASSUME Sensible, SlotsInv, ExactInv, [Next \/ Done]_vars
  PROVE  ExactInv'
<1>1. row \in Rows /\ row' = row /\ ~Rejected.valid /\ K \in Nat \ {0}
  BY DEF SlotsInv, TypeInv, Rejected, Next, Done, vars, Start, FindBin, EndPass, Choose,
     PlaceGreater, Stage, PlaceTie, Pass, Sensible
<1>2. CASE Start
  <2>1. CASE row.bad # {}
    BY <1>1, <1>2, <2>1 DEF Start, Finish, ExactInv
  <2>2. CASE row.bad = {} /\ row.len <= K
    <3>1. out' = Output(row, Ordered(row, Entries))
      BY <1>1, <1>2, <2>2, RowIsLegal DEF Start, Finish
    <3>2. Cardinality(Entries) = IF row.len < K THEN row.len ELSE K
      BY <1>1, <2>2, RowIsLegal DEF Entries
    <3>3. QED
      BY <1>1, <3>1, <3>2, SortedIsExact DEF ExactInv, Entries
  <2>3. CASE row.bad = {} /\ row.len > K
    BY <1>1, <1>2, <2>3, RowIsLegal DEF Start, Finish, ExactInv
  <2>4. QED
    BY <1>1, <2>1, <2>2, <2>3, RowIsLegal
<1>3. CASE Choose
  <2>1. CASE CountsFit(row, Threshold)
    <3> DEFINE c == Chosen(row, Threshold)
    <3>1. out' = Output(row, Ordered(row, c)) /\ Cardinality(c) = K
      BY <1>3, <2>1 DEF Choose, Finish, CountsFit
    <3>2. Threshold \in Keys
      BY <1>3, ThresholdIsLeast DEF Choose
    <3>3. c \in SUBSET Items(row) /\ \A i \in c, j \in Items(row) \ c : Before(row, i, j)
      BY <1>1, <3>2, ChosenIsBest
    <3> HIDE DEF c
    <3>4. Cardinality(c) <= row.len
      BY <1>1, <3>3, RowIsLegal, FS_Subset
    <3>5. Cardinality(c) = IF row.len < K THEN row.len ELSE K
      BY <1>1, <3>1, <3>4, RowIsLegal
    <3>6. Exact(row, out')
      BY <1>1, <3>1, <3>3, <3>5, SortedIsExact
    <3>7. QED
      BY <1>1, <3>6 DEF ExactInv, Exact
  <2>2. CASE ~CountsFit(row, Threshold)
    BY <1>1, <1>3, <2>2 DEF Choose, Finish, ExactInv
  <2>3. QED
    BY <2>1, <2>2
<1>4. CASE FindBin \/ EndPass \/ \E i \in todo : PlaceGreater(i) \/ Stage(i) \/ PlaceTie(i) \/ Pass(i)
  BY <1>4 DEF FindBin, EndPass, PlaceGreater, Stage, PlaceTie, Pass, Look, ExactInv
<1>5. CASE UNCHANGED vars
  BY <1>5 DEF vars, ExactInv, Exact
<1>6. QED
  BY <1>2, <1>3, <1>4, <1>5 DEF Next, Done

(* Whatever order the threads ran in, and whether or not the staging buffer   *)
(* dropped entries, a row that is returned as valid holds the best entries.   *)
THEOREM ValidRowsAreExact == ASSUME Sensible PROVE Spec => []SelectionIsExact
<1>1. Init => ExactInv
  BY DEF Init, ExactInv
<1>2. SlotsInv /\ ExactInv /\ [Next \/ Done]_vars => ExactInv'
  BY ExactStep
<1>3. ExactInv => SelectionIsExact
  BY DEF ExactInv, Exact, SelectionIsExact, Entries
<1>4. QED
  BY <1>1, <1>2, <1>3, SlotsInvariance, PTL DEF Spec

-------------------------------------------------------------------------------
(* When a row is rejected.  As long as nothing is dropped, no entry outside   *)
(* the provisional choice has a larger key than one inside.                   *)

Key(i) == row.key[i]
NotBelow(S, T) == \A i \in S, j \in T : ~Less(Key(i), Key(j))
Agree == \A i, j \in input : \A s \in 1 .. round - 1 : Key(i)[s] = Key(j)[s]
Won == Placed \cup Above(bin)

FindOrder ==
  pc = "find" =>
    /\ Agree /\ NotBelow(Placed, Entries \ Placed)
    /\ NotBelow(input, Entries \ (Placed \cup input))
PlaceOrder ==
  pc = "place" =>
    /\ Agree /\ NotBelow(Won, Entries \ Won)
    /\ NotBelow(AtBin(bin), Entries \ (Won \cup AtBin(bin)))
    /\ Above(bin) \ todo \subseteq Placed
    /\ (remain # 0 /\ round < Rounds => staged = Looked)
OrderInv ==
  row.len <= Staging =>
    /\ FindOrder /\ PlaceOrder
    /\ pc = "choose" => NotBelow(Placed, Entries \ Placed)
    /\ pc = "done" /\ row.bad = {} => out.valid

\* The first n of a finite set of numbers are n.
LEMMA FirstOnes ==
  ASSUME NEW S \in SUBSET Int, IsFiniteSet(S), NEW n \in 0 .. Cardinality(S)
  PROVE  Cardinality({x \in S : Cardinality({y \in S : y < x}) < n}) = n
<1> DEFINE R == {p \in S \X S : p[1] < p[2]}
           f == RankIn(S, R)
           F == {x \in S : f[x] < n}
           g == [x \in F |-> f[x]]
<1>0. Cardinality(S) \in Nat
  BY FS_CardinalityType
<1>1. \A x, y \in S : <<x, y>> \in R <=> x < y
  OBVIOUS
<1>2. /\ f \in [S -> 0 .. Cardinality(S) - 1]
      /\ \A x, y \in S : <<x, y>> \in R <=> f[x] < f[y]
      /\ \A m \in 0 .. Cardinality(S) - 1 : \E x \in S : f[x] = m
  <2>1. /\ \A x \in S : <<x, x>> \notin R
        /\ \A x, y, z \in S : <<x, y>> \in R /\ <<y, z>> \in R => <<x, z>> \in R
        /\ \A x, y \in S : x = y \/ <<x, y>> \in R \/ <<y, x>> \in R
    BY <1>1
  <2> HIDE DEF R
  <2>2. QED
    BY <2>1, Ranks
<1>3. \A x \in S : f[x] = Cardinality({y \in S : y < x})
  <2>1. \A x \in S : {y \in S : <<y, x>> \in R} = {y \in S : y < x}
    BY <1>1
  <2>2. QED
    BY <2>1 DEF RankIn
<1> HIDE DEF f, R
<1>4. F = {x \in S : Cardinality({y \in S : y < x}) < n}
  BY <1>3
<1>5. g \in [F -> 0 .. n - 1]
  <2>1. ASSUME NEW x \in F PROVE f[x] \in 0 .. n - 1
    <3>1. f[x] \in 0 .. Cardinality(S) - 1 /\ f[x] < n
      BY <1>2
    <3>2. QED
      BY <1>0, <3>1
  <2> HIDE DEF F
  <2>2. QED
    BY <2>1
<1>6. g \in Injection(F, 0 .. n - 1)
  <2>1. ASSUME NEW x \in S, NEW y \in S, f[x] = f[y] PROVE x = y
    <3>1. ~(f[x] < f[y]) /\ ~(f[y] < f[x])
      BY <1>0, <1>2, <2>1
    <3>2. ~(x < y) /\ ~(y < x)
      BY <1>1, <1>2, <3>1
    <3>3. QED
      BY <3>2
  <2>3. QED
    BY <1>5, <2>1 DEF Injection, IsInjective
<1>7. g \in Surjection(F, 0 .. n - 1)
  <2>1. \A m \in 0 .. n - 1 : \E x \in F : g[x] = m
    BY <1>0, <1>2
  <2>3. QED
    BY <1>5, <2>1 DEF Surjection
<1>8. IsFiniteSet(F)
  <2>1. F \in SUBSET S
    OBVIOUS
  <2>2. QED
    BY <2>1, FS_Subset
<1>9. Cardinality(0 .. n - 1) = n
  BY <1>0, FS_Interval
<1> HIDE DEF F, g
<1>10. QED
  BY <1>4, <1>6, <1>7, <1>8, <1>9, FS_Surjection

\* A provisional choice of the largest keys passes the checks of the scans.
LEMMA BestChoiceFits ==
  ASSUME Sensible, SlotsInv, pc = "choose", NotBelow(Placed, Entries \ Placed)
  PROVE  CountsFit(row, Threshold)
<1> DEFINE k == Threshold
           G == Greater(row, k)
           E == Equal(row, k)
           First == {i \in E : Ordinal(row, i) < Need(row, k)}
<1>1. /\ row \in Rows /\ K \in Nat \ {0} /\ IsFiniteSet(Entries) /\ Entries \subseteq Int
      /\ \A i \in Entries : Key(i) \in Keys /\ Score(row, i) \in Keys
  BY RowIsLegal DEF SlotsInv, TypeInv, Entries, Key
<1>2. /\ Placed \in SUBSET Entries /\ Cardinality(Placed) = K /\ k \in Keys
      /\ \A i \in Placed : ~Less(Score(row, i), k)
  BY ThresholdIsLeast
<1>3. PICK m \in Placed : Score(row, m) = k
  BY ThresholdIsLeast
<1>4. IsFiniteSet(Placed) /\ G \in SUBSET Entries /\ E \in SUBSET Entries
      /\ IsFiniteSet(G) /\ IsFiniteSet(E) /\ Cardinality(G) \in Nat /\ Cardinality(E) \in Nat
  <2>1. G \in SUBSET Entries /\ E \in SUBSET Entries
    BY DEF Greater, Equal, Entries
  <2> HIDE DEF G, E
  <2>2. QED
    BY <1>1, <1>2, <2>1, FS_Subset, FS_CardinalityType
<1>5. G \in SUBSET (Placed \ {m})
  <2>1. ASSUME NEW i \in G PROVE i \in Placed /\ i # m
    <3>1. i \in Entries /\ Less(k, Score(row, i))
      BY <1>4 DEF Greater
    <3>2. i # m
      BY <1>2, <1>3, <3>1, LessIsStrict
    <3>3. ASSUME i \notin Placed PROVE FALSE
      <4>1. ~Less(Key(m), Key(i))
        BY <3>1, <3>3 DEF NotBelow
      <4>2. ~Less(Score(row, m), Score(row, i))
        BY <1>1, <1>2, <3>1, <4>1, CanonicalIsMonotone DEF Score, Key
      <4>3. QED
        BY <1>3, <3>1, <4>2
    <3>4. QED
      BY <3>2, <3>3
  <2>2. QED
    BY <2>1
<1>6. Cardinality(G) <= K - 1
  <2>1. Cardinality(Placed \ {m}) = K - 1 /\ IsFiniteSet(Placed \ {m})
    BY <1>2, <1>4, FS_RemoveElement
  <2> HIDE DEF G
  <2>2. QED
    BY <1>5, <2>1, FS_Subset
<1>7. G \cap E = {} /\ Placed \subseteq G \cup E
  <2>1. \A i \in Placed : Score(row, i) = k \/ Less(k, Score(row, i))
    BY <1>1, <1>2, LessIsTotal
  <2>2. \A i \in G : Score(row, i) # k
    BY <1>2, LessIsStrict DEF Greater
  <2>3. QED
    BY <1>2, <2>1, <2>2 DEF Greater, Equal, Entries
<1>8. K <= Cardinality(G) + Cardinality(E)
  <2> HIDE DEF G, E
  <2>1. IsFiniteSet(G \cup E) /\ Cardinality(G \cup E) = Cardinality(G) + Cardinality(E)
    BY <1>4, <1>7, DisjointUnion
  <2>2. Placed \in SUBSET (G \cup E)
    BY <1>7
  <2>3. Cardinality(Placed) <= Cardinality(G \cup E)
    BY <2>1, <2>2, FS_Subset
  <2>4. QED
    BY <1>2, <2>1, <2>3
<1>9. Need(row, k) \in 0 .. Cardinality(E)
  BY <1>1, <1>4, <1>6, <1>8 DEF Need
<1>10. Cardinality(First) = Need(row, k)
  <2>1. First = {x \in E : Cardinality({y \in E : y < x}) < Need(row, k)}
    BY DEF Ordinal, Equal
  <2> HIDE DEF First, E
  <2>2. E \in SUBSET Int
    BY <1>1, <1>4
  <2>3. Cardinality({x \in E : Cardinality({y \in E : y < x}) < Need(row, k)}) = Need(row, k)
    BY <1>4, <1>9, <2>2, FirstOnes
  <2>4. QED
    BY <2>1, <2>3
<1>11. Chosen(row, k) = G \cup First /\ G \cap First = {} /\ IsFiniteSet(First)
  <2>1. First \in SUBSET E
    OBVIOUS
  <2>2. Chosen(row, k) = G \cup First
    BY DEF Chosen
  <2> HIDE DEF First, E, G
  <2>3. QED
    BY <1>4, <1>7, <2>1, <2>2, FS_Subset
<1>12. Cardinality(Chosen(row, k)) = K
  <2> HIDE DEF First, E
  <2>1. Cardinality(G \cup First) = Cardinality(G) + Cardinality(First)
    BY <1>4, <1>11, DisjointUnion
  <2>2. QED
    BY <1>1, <1>4, <1>10, <1>11, <2>1 DEF Need
<1>13. QED
  BY <1>1, <1>4, <1>6, <1>9, <1>12 DEF CountsFit

\* Of entries that agree so far, one with a larger digit is not the lesser.
LEMMA LargerDigit ==
  ASSUME Sensible, TypeInv, Agree, NEW i \in input, NEW j \in input, Digit(i) > Digit(j)
  PROVE  ~Less(Key(i), Key(j))
<1>1. Key(i) \in Keys /\ Key(j) \in Keys /\ round \in 0 .. Rounds /\ Rounds \in Nat
  BY RowIsLegal DEF TypeInv, Entries, Key, Sensible
<1>2. Digit(i) \in Int /\ Digit(j) \in Int
  BY DigitType DEF TypeInv, Sensible
<1>3. CASE round = 0
  <2>1. Digit(i) = Coarse[Key(i)] /\ Digit(j) = Coarse[Key(j)]
    BY <1>3 DEF Digit, Key
  <2>2. Less(Key(i), Key(j)) => Coarse[Key(i)] <= Coarse[Key(j)]
    BY <1>1 DEF Sensible
  <2>3. QED
    BY <1>2, <2>1, <2>2
<1>4. CASE round # 0
  <2>1. /\ Key(i)[round] > Key(j)[round] /\ Key(i)[round] \in Int /\ Key(j)[round] \in Int
        /\ \A s \in 1 .. round - 1 : Key(i)[s] = Key(j)[s]
    BY <1>2, <1>4 DEF Digit, Key, Agree
  <2>2. ASSUME NEW r \in 1 .. Rounds, Key(i)[r] < Key(j)[r],
               \A s \in 1 .. r - 1 : Key(i)[s] = Key(j)[s]
        PROVE  FALSE
    <3>1. CASE r < round
      <4>1. Key(i)[r] = Key(j)[r] /\ Key(i)[r] \in Int
        <5>1. r \in 1 .. round - 1
          BY <1>1, <3>1
        <5>2. Key(i)[r] \in Int
          BY <1>1 DEF Keys, Sensible
        <5>3. QED
          BY <2>1, <5>1, <5>2
      <4>2. QED
        BY <2>2, <4>1
    <3>2. CASE r = round
      BY <2>1, <2>2, <3>2
    <3>3. CASE r > round
      <4>1. round \in 1 .. r - 1
        BY <1>1, <1>4, <3>3
      <4>2. QED
        BY <2>1, <2>2, <4>1
    <3>4. QED
      BY <1>1, <3>1, <3>2, <3>3
  <2>3. QED
    BY <2>2 DEF Less
<1>5. QED
  BY <1>3, <1>4

LEMMA FindBinKeepsOrder ==
  ASSUME Sensible, SlotsInv, OrderInv, FindBin, row.len <= Staging
  PROVE  OrderInv'
<1>1. TypeInv /\ pc = "find" /\ pc' = "place" /\ FindOrder
  BY DEF SlotsInv, FindBin, OrderInv
<1>2. todo' = input /\ UNCHANGED <<row, round, input, taken, selected, out>>
  BY DEF FindBin
<1>3. /\ Agree /\ NotBelow(Placed, Entries \ Placed)
      /\ NotBelow(input, Entries \ (Placed \cup input))
  BY <1>1 DEF FindOrder
<1> DEFINE t == bin'
           Higher == {i \in input : Digit(i) > t}
           At == {i \in input : Digit(i) = t}
<1>4. Above(bin)' = Higher /\ AtBin(bin)' = At /\ Placed' = Placed /\ Entries' = Entries
  BY <1>2 DEF Above, AtBin, Digit, Placed, Entries
<1>5. t \in Int /\ \A i \in input : Digit(i) \in Int /\ i \in Entries
  <2>1. SlotsInv'
    BY FindBinKeepsSlots
  <2>2. t \in Int
    BY <2>1 DEF SlotsInv, TypeInv, Sensible
  <2>3. QED
    BY <1>1, <2>2, DigitType DEF TypeInv, Sensible
<1>6. Agree'
  BY <1>2, <1>3 DEF Agree, Key
<1>7. \A i, j \in input : Digit(i) > Digit(j) => ~Less(Key(i), Key(j))
  BY <1>1, <1>3, LargerDigit
<1>8. NotBelow(Placed \cup Higher, Entries \ (Placed \cup Higher))
  <2> SUFFICES ASSUME NEW i \in Placed \cup Higher, NEW j \in Entries \ (Placed \cup Higher)
               PROVE  ~Less(Key(i), Key(j))
    BY DEF NotBelow
  <2>1. CASE i \in Placed
    BY <1>3, <2>1 DEF NotBelow
  <2>2. CASE i \in Higher /\ j \in input
    <3>1. Digit(i) > Digit(j)
      BY <1>5, <2>2
    <3>2. QED
      BY <1>7, <2>2, <3>1
  <2>3. CASE i \in Higher /\ j \notin input
    BY <1>3, <2>3 DEF NotBelow
  <2>4. QED
    BY <2>1, <2>2, <2>3
<1>9. NotBelow(At, Entries \ (Placed \cup Higher \cup At))
  <2> SUFFICES ASSUME NEW i \in At, NEW j \in Entries \ (Placed \cup Higher \cup At)
               PROVE  ~Less(Key(i), Key(j))
    BY DEF NotBelow
  <2>1. CASE j \in input
    <3>1. Digit(i) > Digit(j)
      BY <1>5, <2>1
    <3>2. QED
      BY <1>7, <2>1, <3>1
  <2>2. CASE j \notin input
    BY <1>3, <2>2 DEF NotBelow
  <2>3. QED
    BY <2>1, <2>2
<1>10. (remain # 0 /\ round < Rounds => staged = Looked)'
  <2>1. \E u \in 0 .. Radix - 1 : Crosses(u)
    <3>1. Cardinality(input) > remain
      BY <1>1 DEF SlotsInv, FindInv
    <3>2. round < Rounds + 1
      BY <1>1 DEF TypeInv, Sensible
    <3>3. QED
      BY <1>1, <3>1, <3>2, SomeBinCrosses, DigitType DEF TypeInv
  <2>2. staged' = {} /\ Looked' = {}
    BY <1>2, <2>1 DEF FindBin, Looked, AtBin
  <2>3. QED
    BY <2>2
<1>11. Above(bin)' \ todo' = {}
  BY <1>2, <1>4
<1> HIDE DEF Higher, At
<1>12. QED
  BY <1>1, <1>4, <1>6, <1>8, <1>9, <1>10, <1>11, <1>2 DEF OrderInv, FindOrder, PlaceOrder, Won, NotBelow, Key

LEMMA LookKeepsOrder ==
  ASSUME Sensible, SlotsInv, OrderInv, row.len <= Staging, NEW i \in todo,
         PlaceGreater(i) \/ Stage(i) \/ PlaceTie(i) \/ Pass(i)
  PROVE  OrderInv'
<1>1. Look(i) /\ UNCHANGED <<row, pc, round, remain, bin, input, out>>
  BY DEF PlaceGreater, Stage, PlaceTie, Pass
<1> USE LookFacts, <1>1
<1>2. /\ Agree /\ NotBelow(Won, Entries \ Won)
      /\ NotBelow(AtBin(bin), Entries \ (Won \cup AtBin(bin)))
      /\ Above(bin) \ todo \subseteq Placed
      /\ (remain # 0 /\ round < Rounds => staged = Looked)
  BY DEF OrderInv, PlaceOrder
<1>3. Placed' = Placed \/ Placed' = Placed \cup {i}
  BY PlaceGreaterKeepsSlots, StageKeepsSlots, PlaceTieKeepsSlots, PassKeepsSlots
<1>4. i \in Above(bin) => Placed' = Placed \cup {i}
  <2>1. CASE PlaceGreater(i)
    BY <2>1, PlaceGreaterKeepsSlots
  <2>2. CASE Stage(i) \/ PlaceTie(i) \/ Pass(i)
    BY <2>2 DEF Stage, PlaceTie, Pass, Above
  <2>3. QED
    BY <2>1, <2>2
<1>5. i \in Above(bin) \/ i \in AtBin(bin) \/ Placed' = Placed
  <2>1. CASE PlaceGreater(i) \/ PlaceTie(i)
    BY <2>1 DEF PlaceGreater, PlaceTie, Above, AtBin
  <2>2. CASE Stage(i) \/ Pass(i)
    BY <2>2, StageKeepsSlots, PassKeepsSlots
  <2>3. QED
    BY <2>1, <2>2
<1>6. Placed' # Placed /\ i \in AtBin(bin) => LastPass
  <2>1. CASE PlaceTie(i)
    BY <2>1 DEF PlaceTie, LastPass
  <2>2. CASE PlaceGreater(i)
    BY <2>2 DEF PlaceGreater, AtBin
  <2>3. CASE Stage(i) \/ Pass(i)
    BY <2>3, StageKeepsSlots, PassKeepsSlots
  <2>4. QED
    BY <2>1, <2>2, <2>3
<1>7. Agree'
  BY <1>2 DEF Agree, Key
<1>8. (Above(bin) \ todo \subseteq Placed)'
  BY <1>2, <1>3, <1>4
<1>9. ASSUME LastPass, NEW a \in AtBin(bin), NEW b \in AtBin(bin) PROVE ~Less(Key(a), Key(b))
  <2>1. Rounds \in Nat \ {0} /\ round = Rounds /\ a \in input /\ b \in input
    BY <1>9 DEF LastPass, AtBin, Sensible
  <2>2. Key(a)[Rounds] = Key(b)[Rounds]
    BY <1>9, <2>1 DEF AtBin, Digit, Key
  <2>3. \A s \in 1 .. Rounds - 1 : Key(a)[s] = Key(b)[s]
    BY <1>2, <2>1 DEF Agree
  <2>4. \A s \in 1 .. Rounds : Key(a)[s] = Key(b)[s]
    BY <2>1, <2>2, <2>3
  <2>5. Key(a) \in Keys
    BY <2>1, RowIsLegal DEF TypeInv, Entries, Key
  <2>6. \A s \in 1 .. Rounds : Key(a)[s] \in Int
    BY <2>5 DEF Keys, Sensible
  <2>7. QED
    BY <2>4, <2>6 DEF Less
<1>10. Won' = Won \/ (Won' = Won \cup {i} /\ i \in AtBin(bin) /\ LastPass)
  BY <1>3, <1>4, <1>5, <1>6 DEF Won
<1>11. \A a \in Won', b \in Entries \ Won' : ~Less(Key(a), Key(b))
  <2> SUFFICES ASSUME NEW a \in Won', NEW b \in Entries \ Won' PROVE ~Less(Key(a), Key(b))
    OBVIOUS
  <2>1. CASE a \in Won
    BY <1>2, <1>10, <2>1 DEF NotBelow
  <2>2. CASE a \notin Won
    <3>1. a = i /\ i \in AtBin(bin) /\ LastPass /\ b \notin Won
      BY <1>10, <2>2
    <3>2. CASE b \in AtBin(bin)
      BY <1>9, <3>1, <3>2
    <3>3. CASE b \notin AtBin(bin)
      BY <1>2, <3>1, <3>3 DEF NotBelow
    <3>4. QED
      BY <3>2, <3>3
  <2>3. QED
    BY <2>1, <2>2
<1>12. \A a \in AtBin(bin), b \in Entries \ (Won' \cup AtBin(bin)) : ~Less(Key(a), Key(b))
  BY <1>2, <1>10 DEF NotBelow
<1>13. Entries' = Entries /\ \A a : Key(a)' = Key(a)
  BY DEF Entries, Key
<1>14. NotBelow(Won, Entries \ Won)' /\ NotBelow(AtBin(bin), Entries \ (Won \cup AtBin(bin)))'
  BY <1>11, <1>12, <1>13 DEF NotBelow, Key
<1>15. (remain # 0 /\ round < Rounds => staged = Looked)'
  <2> SUFFICES ASSUME remain # 0, round < Rounds PROVE staged' = Looked'
    OBVIOUS
  <2>1. staged = Looked
    BY <1>2
  <2>2. CASE PlaceGreater(i)
    <3>1. i \notin AtBin(bin) /\ staged' = staged
      BY <2>2 DEF PlaceGreater, AtBin
    <3>2. QED
      BY <2>1, <3>1 DEF Looked
  <2>3. CASE Stage(i)
    <3>1. Looked' = Looked \cup {i} /\ i \notin Looked /\ count = Cardinality(Looked)
      BY <2>3, StageKeepsSlots DEF PlaceInv
    <3>2. Cardinality(Looked) + 1 <= row.len
      <4>1. Looked \cup {i} \in SUBSET Entries
        BY DEF Looked, AtBin, TypeInv
      <4>2. Cardinality(Looked \cup {i}) = Cardinality(Looked) + 1
        BY <3>1, FS_AddElement
      <4>3. IsFiniteSet(Entries) /\ Cardinality(Entries) = row.len
        BY RowIsLegal DEF TypeInv, Entries
      <4>4. QED
        BY <4>1, <4>2, <4>3, FS_Subset
    <3>3. count < Staging
      <4>1. count \in Nat /\ row.len \in Nat /\ Staging \in Nat
        BY RowIsLegal DEF TypeInv, Sensible
      <4>2. QED
        BY <3>1, <3>2, <4>1
    <3>4. staged' = staged \cup {i}
      BY <2>3, <3>3 DEF Stage
    <3>5. QED
      BY <2>1, <3>1, <3>4
  <2>4. CASE PlaceTie(i)
    BY <2>4 DEF PlaceTie, Sensible
  <2>5. CASE Pass(i)
    <3>1. Looked' = Looked /\ staged' = staged
      BY <2>5, PassKeepsSlots DEF Pass
    <3>2. QED
      BY <2>1, <3>1
  <2>6. QED
    BY <2>2, <2>3, <2>4, <2>5
<1>16. QED
  BY <1>7, <1>8, <1>14, <1>15 DEF OrderInv, PlaceOrder, FindOrder

LEMMA EndPassKeepsOrder ==
  ASSUME Sensible, SlotsInv, OrderInv, row.len <= Staging, EndPass
  PROVE  OrderInv'
<1>1. pc = "place" /\ todo = {} /\ TypeInv
      /\ UNCHANGED <<row, remain, bin, todo, staged, count, taken, ties, selected, out>>
  BY DEF EndPass, SlotsInv
<1>2. /\ Agree /\ NotBelow(Won, Entries \ Won)
      /\ NotBelow(AtBin(bin), Entries \ (Won \cup AtBin(bin)))
      /\ Above(bin) \subseteq Placed
      /\ (remain # 0 /\ round < Rounds => staged = AtBin(bin))
  BY <1>1 DEF OrderInv, PlaceOrder, Looked
<1>3. Won = Placed /\ Placed' = Placed /\ Entries' = Entries /\ \A a : Key(a)' = Key(a)
  BY <1>1, <1>2 DEF Won, Placed, Entries, Key
<1>4. CASE pc' = "choose"
  BY <1>2, <1>3, <1>4 DEF OrderInv, FindOrder, PlaceOrder, NotBelow
<1>5. CASE pc' = "find"
  <2>1. ~(remain = 0 \/ round = Rounds) /\ round' = round + 1 /\ input' = staged
    BY <1>5 DEF EndPass
  <2>2. round \in 0 .. Rounds /\ Rounds \in Nat
    BY <1>1 DEF TypeInv, Sensible
  <2>3. input' = AtBin(bin)
    BY <1>2, <2>1, <2>2
  <2>4. \A a, b \in AtBin(bin) : \A s \in 1 .. round : Key(a)[s] = Key(b)[s]
    <3> SUFFICES ASSUME NEW a \in AtBin(bin), NEW b \in AtBin(bin), NEW s \in 1 .. round
                 PROVE  Key(a)[s] = Key(b)[s]
      OBVIOUS
    <3>1. CASE s = round
      BY <2>2, <3>1 DEF AtBin, Digit, Key
    <3>2. CASE s # round
      <4>1. s \in 1 .. round - 1 /\ a \in input /\ b \in input
        BY <2>2, <3>2 DEF AtBin
      <4>2. QED
        BY <1>2, <4>1 DEF Agree
    <3>3. QED
      BY <3>1, <3>2
  <2>5. round' - 1 = round
    BY <2>1, <2>2
  <2>6. Agree'
    BY <1>3, <2>3, <2>4, <2>5 DEF Agree
  <2>7. QED
    BY <1>2, <1>3, <1>5, <2>3, <2>6 DEF OrderInv, FindOrder, PlaceOrder, NotBelow
<1>6. QED
  BY <1>4, <1>5 DEF EndPass

LEMMA OrderStep ==
  ASSUME Sensible, SlotsInv, OrderInv, [Next \/ Done]_vars
  PROVE  OrderInv'
<1>1. row' = row
  BY DEF Next, Done, vars, Start, FindBin, EndPass, Choose, PlaceGreater, Stage, PlaceTie, Pass
<1> SUFFICES ASSUME row.len <= Staging PROVE OrderInv'
  BY <1>1 DEF OrderInv
<1>2. CASE Start
  <2>1. CASE pc' = "find"
    <3>1. input' = Entries /\ round' = 0 /\ Entries' = Entries /\ \A s \in Slots : selected'[s] = NoItem
      BY <1>2, <2>1 DEF Start, Finish, SlotsInv, WrittenInv, Tail, Slots, Entries, TypeInv, Sensible
    <3>2. Placed' = {}
      BY <3>1 DEF Placed
    <3>3. Agree'
      BY <3>1 DEF Agree
    <3>4. QED
      BY <2>1, <3>1, <3>2, <3>3 DEF OrderInv, FindOrder, PlaceOrder, NotBelow
  <2>2. CASE pc' = "done"
    BY <1>1, <1>2, <2>2 DEF Start, Finish, Output, OrderInv, FindOrder, PlaceOrder
  <2>3. QED
    BY <1>2, <2>1, <2>2 DEF Start, Finish
<1>3. CASE Choose
  <2>1. CountsFit(row, Threshold)
    BY <1>3, BestChoiceFits DEF OrderInv, Choose
  <2>2. pc' = "done" /\ out'.valid
    BY <1>3, <2>1 DEF Choose, Finish, Output
  <2>3. QED
    BY <2>2 DEF OrderInv, FindOrder, PlaceOrder
<1>4. CASE UNCHANGED vars
  BY <1>4 DEF vars, OrderInv, FindOrder, PlaceOrder, Agree, NotBelow, Key, Won, Looked, Above,
       AtBin, Digit, Placed, Entries
<1>5. QED
  BY <1>2, <1>3, <1>4, FindBinKeepsOrder, LookKeepsOrder, EndPassKeepsOrder DEF Next, Done

(* A row of finite scores that fits the staging buffer is never rejected: the *)
(* provisional choice is then one of the largest keys, so the recomputed one  *)
(* fits the slots.                                                            *)
THEOREM FiniteRowsFit == ASSUME Sensible PROVE Spec => []FittingRowsAreSelected
<1>1. Init => OrderInv
  BY DEF Init, OrderInv, FindOrder, PlaceOrder
<1>2. SlotsInv /\ OrderInv /\ [Next \/ Done]_vars => OrderInv'
  BY OrderStep
<1>3. OrderInv => FittingRowsAreSelected
  BY DEF OrderInv, FittingRowsAreSelected, FiniteRowsAreSelected
<1>4. QED
  BY <1>1, <1>2, <1>3, SlotsInvariance, PTL DEF Spec
-------------------------------------------------------------------------------
(* The route plan of the experts: sums and sizes.                             *)

(* Induction up to n, over a set instead of a formula. *)
LEMMA UpTo ==
  ASSUME NEW n \in Nat, NEW S, 0 \in S, \A k \in 0 .. n - 1 : k \in S => k + 1 \in S
  PROVE  0 .. n \subseteq S
<1> DEFINE Bad == (0 .. n) \ S
           R == {p \in Bad \X Bad : p[1] < p[2]}
<1>1. SUFFICES ASSUME Bad # {} PROVE FALSE
  BY DEF Bad
<1>2. IsFiniteSet(Bad)
  <2>1. IsFiniteSet(0 .. n)
    BY FS_Interval
  <2>2. Bad \in SUBSET (0 .. n)
    OBVIOUS
  <2> HIDE DEF Bad
  <2>3. QED  BY <2>1, <2>2, FS_Subset
<1>3. /\ \A x \in Bad : <<x, x>> \notin R
      /\ \A x, y, z \in Bad : <<x, y>> \in R /\ <<y, z>> \in R => <<x, z>> \in R
  OBVIOUS
<1>4. PICK m \in Bad : \A y \in Bad : <<y, m>> \notin R
  <2> HIDE DEF Bad, R
  <2>1. QED  BY <1>1, <1>2, <1>3, LeastOf
<1>5. m \in 1 .. n
  OBVIOUS
<1>6. m - 1 \in S
  <2>1. m - 1 \in 0 .. n /\ m - 1 < m
    BY <1>5
  <2>2. m - 1 \notin Bad
    BY <1>4, <2>1
  <2>3. QED  BY <2>1, <2>2
<1>7. QED  BY <1>5, <1>6

(* The recursive sum is what its equation says. *)
LEMMA SumIs ==
  ASSUME NumExperts \in Nat, NEW size \in [Experts -> Nat]
  PROVE  /\ SumBefore(size) \in [0 .. NumExperts -> Nat]
         /\ SumBefore(size)[0] = 0
         /\ \A e \in Experts : SumBefore(size)[e + 1] = SumBefore(size)[e] + size[e]
<1> DEFINE N == NumExperts
           Step(s, e) == IF e = 0 THEN 0 ELSE s[e - 1] + size[e - 1]
           Good(s, n) == s \in [0 .. n -> Nat] /\ \A e \in 0 .. n : s[e] = Step(s, e)
           S == {n \in 0 .. N : \E s : Good(s, n)}
<1>1. 0 \in S
  <2>1. Good([e \in 0 .. 0 |-> 0], 0)
    OBVIOUS
  <2>2. 0 \in 0 .. N
    OBVIOUS
  <2> HIDE DEF Good, N
  <2>3. QED  BY <2>1, <2>2
<1>2. ASSUME NEW n \in 0 .. N - 1, n \in S PROVE n + 1 \in S
  <2>1. PICK s : Good(s, n)
    BY <1>2
  <2> DEFINE t == [e \in 0 .. n + 1 |-> IF e = n + 1 THEN s[n] + size[n] ELSE s[e]]
  <2>2. t \in [0 .. n + 1 -> Nat]
    BY <2>1 DEF Experts
  <2>3. \A e \in 0 .. n + 1 : t[e] = Step(t, e)
    <3> TAKE e \in 0 .. n + 1
    <3>1. CASE e = n + 1
      BY <3>1, <2>1
    <3>2. CASE e # n + 1
      <4>1. e \in 0 .. n /\ t[e] = s[e] /\ (e # 0 => t[e - 1] = s[e - 1])
        BY <3>2
      <4>2. QED  BY <4>1, <2>1
    <3>3. QED  BY <3>1, <3>2
  <2>4. Good(t, n + 1)
    BY <2>2, <2>3
  <2> HIDE DEF Good
  <2>5. QED  BY <2>4
<1>3. N \in S
  <2>1. N \in Nat
    OBVIOUS
  <2> HIDE DEF S, N
  <2>2. 0 .. N \subseteq S
    BY <1>1, <1>2, <2>1, UpTo
  <2>3. QED  BY <2>1, <2>2
<1>4. PICK s : Good(s, N)
  BY <1>3
<1>5. s = [e \in 0 .. N |-> Step(s, e)]
  BY <1>4
<1>6. SumBefore(size) = [e \in 0 .. N |-> Step(SumBefore(size), e)]
  <2>1. SumBefore(size) =
          CHOOSE sum : sum = [e \in 0 .. NumExperts |-> IF e = 0 THEN 0 ELSE sum[e - 1] + size[e - 1]]
    BY DEF SumBefore
  <2>2. QED  BY <1>5, <2>1
<1> DEFINE f == SumBefore(size)
<1>7. f = [e \in 0 .. N |-> Step(f, e)]
  BY <1>6
<1> HIDE DEF f
<1>10. f[0] = 0 /\ \A e \in Experts : f[e + 1] = f[e] + size[e]
  <2>1. \A e \in 0 .. N : f[e] = IF e = 0 THEN 0 ELSE f[e - 1] + size[e - 1]
    BY <1>7
  <2>2. 0 \in 0 .. N /\ \A e \in Experts : e + 1 \in 0 .. N /\ e + 1 # 0 /\ (e + 1) - 1 = e
    BY DEF Experts
  <2>3. QED  BY <2>1, <2>2
<1>8. \A e \in 0 .. N : f[e] \in Nat
  <2> DEFINE T == {e \in 0 .. N : f[e] \in Nat}
  <2>1. 0 \in T
    BY <1>10
  <2>2. ASSUME NEW e \in 0 .. N - 1, e \in T PROVE e + 1 \in T
    <3>1. e + 1 \in 0 .. N /\ f[e + 1] = f[e] + size[e] /\ size[e] \in Nat /\ f[e] \in Nat
      BY <1>10, <2>2 DEF Experts
    <3>2. QED  BY <3>1
  <2>3. 0 .. N \subseteq T
    <3> HIDE DEF T
    <3>1. QED  BY <2>1, <2>2, UpTo
  <2>4. QED  BY <2>3
<1>9. QED
  <2>1. f \in [0 .. N -> Nat]
    BY <1>7, <1>8
  <2>2. QED  BY <2>1, <1>10 DEF f

(* The parts that a sum cuts out follow one another and cover everything. *)
LEMMA SumParts ==
  ASSUME NumExperts \in Nat, NEW size \in [Experts -> Nat], NEW f, f = SumBefore(size)
  PROVE  /\ \A e \in Experts : f[e] + size[e] <= f[NumExperts]
         /\ \A d, e \in Experts : d < e => f[d] + size[d] <= f[e]
         /\ \A i \in Nat : i < f[NumExperts] => \E e \in Experts : f[e] <= i /\ i < f[e] + size[e]
<1>1. /\ f \in [0 .. NumExperts -> Nat] /\ f[0] = 0
      /\ \A e \in Experts : f[e + 1] = f[e] + size[e] /\ size[e] \in Nat
  BY SumIs
<1>2. \A d \in Experts, e \in 0 .. NumExperts : d < e => f[d] + size[d] <= f[e]
  <2> SUFFICES ASSUME NEW d \in Experts PROVE \A e \in 0 .. NumExperts : d < e => f[d] + size[d] <= f[e]
    OBVIOUS
  <2> DEFINE T == {e \in 0 .. NumExperts : d < e => f[d] + size[d] <= f[e]}
  <2>1. 0 \in T
    BY DEF Experts
  <2>2. ASSUME NEW e \in 0 .. NumExperts - 1, e \in T PROVE e + 1 \in T
    <3>1. f[e + 1] = f[e] + size[e] /\ f[e] \in Nat /\ size[e] \in Nat /\ f[d] \in Nat /\ size[d] \in Nat
      BY <1>1 DEF Experts
    <3>2. CASE d = e
      BY <3>1, <3>2
    <3>3. CASE d < e
      BY <3>1, <3>3, <2>2
    <3>4. CASE d > e
      BY <3>4 DEF Experts
    <3>5. QED  BY <3>2, <3>3, <3>4 DEF Experts
  <2>3. 0 .. NumExperts \subseteq T
    <3> HIDE DEF T
    <3>1. QED  BY <2>1, <2>2, UpTo
  <2>4. QED  BY <2>3
<1>3. \A i \in Nat : i < f[NumExperts] => \E e \in Experts : f[e] <= i /\ i < f[e] + size[e]
  <2> SUFFICES ASSUME NEW i \in Nat, i < f[NumExperts]
               PROVE  \E e \in Experts : f[e] <= i /\ i < f[e] + size[e]
    OBVIOUS
  <2> DEFINE T == {e \in 0 .. NumExperts : f[e] <= i}
  <2>1. SUFFICES ASSUME \A e \in Experts : f[e] <= i => i >= f[e] + size[e] PROVE FALSE
    <3>1. \A e \in Experts : f[e] \in Nat /\ size[e] \in Nat
      BY <1>1 DEF Experts
    <3>2. QED  BY <2>1, <3>1
  <2>2. 0 \in T /\ \A e \in 0 .. NumExperts - 1 : e \in T => e + 1 \in T
    BY <1>1, <2>1 DEF Experts
  <2>3. 0 .. NumExperts \subseteq T
    <3> HIDE DEF T
    <3>1. QED  BY <2>2, UpTo
  <2>4. NumExperts \in T /\ f[NumExperts] \in Nat
    BY <2>3, <1>1
  <2>5. QED  BY <2>4
<1>4. QED
  <2>1. \A e \in Experts : e \in 0 .. NumExperts /\ e < NumExperts /\ NumExperts \in 0 .. NumExperts
    BY DEF Experts
  <2>2. QED  BY <1>2, <1>3, <2>1

(* Whole blocks. *)
LEMMA BlockFacts ==
  ASSUME PlanSensible, NEW n \in Nat
  PROVE  /\ BlocksFor(n) \in Nat /\ PaddedSize(n) \in Nat
         /\ PaddedSize(n) = BlocksFor(n) * BlockM
         /\ n <= PaddedSize(n) /\ PaddedSize(n) <= n + BlockM - 1
         /\ n = 0 => PaddedSize(n) = 0
<1> DEFINE q == (n + BlockM - 1) \div BlockM
           r == (n + BlockM - 1) % BlockM
<1>0. BlockM \in Nat \ {0}
  BY DEF PlanSensible
<1>1. n + BlockM - 1 = BlockM * q + r /\ r \in 0 .. BlockM - 1 /\ q \in Nat
  BY <1>0
<1>2. BlocksFor(n) = q
  BY DEF BlocksFor
<1> HIDE DEF q, r
<1>3. BlockM * q = q * BlockM /\ q * BlockM \in Nat
  BY <1>0, <1>1
<1>4. PaddedSize(n) = q * BlockM
  BY <1>2 DEF PaddedSize
<1>5. n <= q * BlockM /\ q * BlockM <= n + BlockM - 1
  <2>1. \A z \in Nat : n + BlockM - 1 = z + r => n <= z /\ z <= n + BlockM - 1
    BY <1>0, <1>1
  <2>2. QED  BY <1>1, <1>3, <2>1
<1>6. n = 0 => q = 0
  <2>1. SUFFICES ASSUME n = 0, q >= 1 PROVE FALSE
    BY <1>1
  <2>2. 1 * BlockM <= q * BlockM
    BY <2>1, <1>0, <1>1
  <2>3. QED  BY <2>1, <2>2, <1>0, <1>3, <1>5
<1>7. 0 * BlockM = 0
  BY <1>0
<1>8. QED  BY <1>1, <1>2, <1>3, <1>4, <1>5, <1>6, <1>7

\* A position in a part of whole blocks is in one of its blocks.
LEMMA BlockOfPosition ==
  ASSUME PlanSensible, NEW q \in Nat, NEW k \in Nat, NEW i \in Nat
  PROVE  q * BlockM <= i /\ i < q * BlockM + k * BlockM
           <=> q <= i \div BlockM /\ i \div BlockM < q + k
<1> DEFINE b == i \div BlockM
           r == i % BlockM
<1>0. BlockM \in Nat \ {0}
  BY DEF PlanSensible
<1>1. i = BlockM * b + r /\ r \in 0 .. BlockM - 1 /\ b \in Nat
  BY <1>0
<1> HIDE DEF b, r
<1>2. BlockM * b = b * BlockM /\ b * BlockM \in Nat /\ q * BlockM \in Nat /\ k * BlockM \in Nat
      /\ q * BlockM + k * BlockM = (q + k) * BlockM
      /\ (b + 1) * BlockM = b * BlockM + BlockM
  BY <1>0, <1>1
<1>3. b * BlockM <= i /\ i < b * BlockM + BlockM
  <2>1. \A z \in Nat : i = z + r => z <= i /\ i < z + BlockM
    BY <1>0, <1>1
  <2>2. QED  BY <1>1, <1>2, <2>1
<1>4. \A x, z \in Nat : x <= z => x * BlockM <= z * BlockM /\ x * BlockM \in Nat
  BY <1>0
<1>5. (q <= b) <=> (q * BlockM <= i)
  <2>1. q <= b => q * BlockM <= b * BlockM
    BY <1>1, <1>4
  <2>2. b + 1 <= q => (b + 1) * BlockM <= q * BlockM
    BY <1>1, <1>4
  <2>3. QED
    <3> DEFINE bm == b * BlockM
               qm == q * BlockM
    <3>1. bm \in Nat /\ qm \in Nat /\ bm <= i /\ i < bm + BlockM
          /\ (q <= b => qm <= bm) /\ (b + 1 <= q => bm + BlockM <= qm)
      BY <1>2, <1>3, <2>1, <2>2
    <3> HIDE DEF bm, qm
    <3>2. (q <= b) <=> (qm <= i)
      BY <3>1, <1>0, <1>1
    <3>3. QED  BY <3>2 DEF qm
<1>6. (b < q + k) <=> (i < (q + k) * BlockM)
  <2>1. b + 1 <= q + k => (b + 1) * BlockM <= (q + k) * BlockM
    BY <1>1, <1>4
  <2>2. q + k <= b => (q + k) * BlockM <= b * BlockM
    BY <1>1, <1>4
  <2>3. (q + k) * BlockM \in Nat
    BY <1>0
  <2>4. QED
    <3> DEFINE bm == b * BlockM
               qm == (q + k) * BlockM
    <3>1. bm \in Nat /\ qm \in Nat /\ bm <= i /\ i < bm + BlockM
          /\ (q + k <= b => qm <= bm) /\ (b + 1 <= q + k => bm + BlockM <= qm)
      BY <1>2, <1>3, <2>1, <2>2, <2>3
    <3> HIDE DEF bm, qm
    <3>2. (b < q + k) <=> (i < qm)
      BY <3>1, <1>0, <1>1
    <3>3. QED  BY <3>2 DEF qm
<1>7. QED  BY <1>2, <1>5, <1>6 DEF b

(* The routes of an expert, and how many there are. *)
LEMMA RoutesAreFinite ==
  ASSUME PlanSensible
  PROVE  /\ RouteCount \in Nat \ {0} /\ NumExperts \in Nat \ {0} /\ IsFiniteSet(Routes)
         /\ Cardinality(Routes) = RouteCount
         /\ \A S \in SUBSET Routes : IsFiniteSet(S) /\ Cardinality(S) \in 0 .. RouteCount
<1>1. RouteCount \in Nat \ {0} /\ NumExperts \in Nat \ {0}
  <2>1. \A x, z \in Nat \ {0} : x * z \in Nat \ {0}
    OBVIOUS
  <2>2. QED  BY <2>1 DEF PlanSensible, RouteCount
<1>2. IsFiniteSet(Routes) /\ Cardinality(Routes) = RouteCount
  BY <1>1, FS_Interval DEF Routes
<1>3. ASSUME NEW S \in SUBSET Routes PROVE IsFiniteSet(S) /\ Cardinality(S) \in 0 .. RouteCount
  BY <1>1, <1>2, <1>3, FS_Subset, FS_CardinalityType
<1>4. QED  BY <1>1, <1>2, <1>3

\* RankOf numbers the routes of an expert in their order.
LEMMA RanksOfRoutes ==
  ASSUME PlanSensible, NEW e \in Experts
  PROVE  /\ Histogram[e] \in Nat /\ Histogram[e] = Cardinality(RoutesTo(e))
         /\ \A r \in RoutesTo(e) : RankOf(r) \in 0 .. Histogram[e] - 1
         /\ \A r, s \in RoutesTo(e) : RankOf(r) = RankOf(s) => r = s
         /\ \A n \in 0 .. Histogram[e] - 1 : \E r \in RoutesTo(e) : RankOf(r) = n
<1> DEFINE S == RoutesTo(e)
           R == {p \in S \X S : p[1] < p[2]}
           f == RankIn(S, R)
<1>1. S \subseteq Routes /\ Histogram[e] = Cardinality(S)
  BY DEF RoutesTo, Histogram
<1>2. IsFiniteSet(S) /\ Cardinality(S) \in Nat
  BY <1>1, RoutesAreFinite
<1>3. S \subseteq Nat
  BY <1>1 DEF Routes
<1>4. \A r \in S : f[r] = RankOf(r)
  <2> TAKE r \in S
  <2>1. indices[r] = e
    BY DEF RoutesTo
  <2>2. {x \in S : <<x, r>> \in R} = {x \in S : x < r}
    OBVIOUS
  <2>3. QED  BY <2>1, <2>2 DEF RankIn, RankOf
<1>5. /\ \A x \in S : <<x, x>> \notin R
      /\ \A x, z, w \in S : <<x, z>> \in R /\ <<z, w>> \in R => <<x, w>> \in R
      /\ \A x, z \in S : x = z \/ <<x, z>> \in R \/ <<z, x>> \in R
  BY <1>3
<1> HIDE DEF S, R, f
<1>6. /\ f \in [S -> 0 .. Cardinality(S) - 1]
      /\ \A x, z \in S : <<x, z>> \in R <=> f[x] < f[z]
      /\ \A n \in 0 .. Cardinality(S) - 1 : \E x \in S : f[x] = n
  BY <1>2, <1>5, Ranks DEF f
<1>7. \A r, s \in S : f[r] = f[s] => r = s
  BY <1>2, <1>5, <1>6
<1>8. QED  BY <1>1, <1>2, <1>4, <1>6, <1>7 DEF S

(* The sizes that the sums of the plan add up. *)
PartSizes == [e \in Experts |-> PaddedSize(Histogram[e])]
BlockCounts == [e \in Experts |-> BlocksFor(Histogram[e])]

LEMMA SumsAreNatural ==
  ASSUME PlanSensible
  PROVE  /\ NumExperts \in Nat
         /\ Histogram \in [Experts -> Nat] /\ PartSizes \in [Experts -> Nat]
         /\ BlockCounts \in [Experts -> Nat]
         /\ PaddedOffsets = SumBefore(PartSizes)
<1>1. Histogram \in [Experts -> Nat]
  <2>1. \A e \in Experts : Histogram[e] \in Nat
    BY RanksOfRoutes
  <2>2. QED  BY <2>1 DEF Histogram
<1>2. PartSizes \in [Experts -> Nat] /\ BlockCounts \in [Experts -> Nat]
  BY <1>1, BlockFacts DEF PartSizes, BlockCounts
<1>3. QED  BY <1>1, <1>2, RoutesAreFinite DEF PaddedOffsets, PartSizes

\* The sum of the counts before e counts the routes to experts before e.
LEMMA CountsBefore ==
  ASSUME PlanSensible, NEW C, C = SumBefore(Histogram), NEW e \in 0 .. NumExperts
  PROVE  /\ C[e] = Cardinality({r \in Routes : indices[r] \in 0 .. e - 1})
         /\ C[e] \in 0 .. RouteCount
<1> DEFINE Of(k) == {r \in Routes : indices[r] \in 0 .. k - 1}
           T == {k \in 0 .. NumExperts : C[k] = Cardinality(Of(k))}
<1>1. /\ NumExperts \in Nat /\ C[0] = 0
      /\ \A k \in Experts : C[k + 1] = C[k] + Histogram[k]
  BY SumsAreNatural, SumIs
<1>2. 0 \in T
  <2>1. Of(0) = {}
    OBVIOUS
  <2>2. Cardinality(Of(0)) = 0 /\ 0 \in 0 .. NumExperts
    BY <2>1, <1>1, FS_EmptySet
  <2>3. QED  BY <2>2, <1>1
<1>3. ASSUME NEW k \in 0 .. NumExperts - 1, k \in T PROVE k + 1 \in T
  <2>1. k \in Experts /\ k + 1 \in 0 .. NumExperts
    BY <1>1 DEF Experts
  <2>2. Of(k + 1) = Of(k) \cup RoutesTo(k) /\ Of(k) \cap RoutesTo(k) = {}
    <3>1. 0 .. (k + 1) - 1 = (0 .. k - 1) \cup {k} /\ k \notin 0 .. k - 1
      OBVIOUS
    <3>2. QED  BY <3>1 DEF RoutesTo
  <2>3. IsFiniteSet(Of(k)) /\ IsFiniteSet(RoutesTo(k))
    BY RoutesAreFinite DEF RoutesTo
  <2>4. Cardinality(Of(k + 1)) = Cardinality(Of(k)) + Cardinality(RoutesTo(k))
    <3> HIDE DEF Of
    <3>1. QED  BY <2>2, <2>3, DisjointUnion
  <2>5. Histogram[k] = Cardinality(RoutesTo(k))
    BY <2>1 DEF Histogram
  <2>6. QED  BY <1>1, <1>3, <2>1, <2>4, <2>5
<1>4. 0 .. NumExperts \subseteq T
  <2> HIDE DEF T
  <2>1. QED  BY <1>1, <1>2, <1>3, UpTo
<1>5. C[e] = Cardinality(Of(e)) /\ Of(e) \in SUBSET Routes
  BY <1>4
<1>6. QED
  <2>1. Cardinality(Of(e)) \in 0 .. RouteCount
    <3> HIDE DEF Of
    <3>1. QED  BY <1>5, RoutesAreFinite
  <2>2. QED  BY <1>5, <2>1

(* Where the parts of the experts are: a part starts on a block, and all of   *)
(* them together are no longer than the buffer that was allocated for them.   *)
LEMMA OffsetsFit ==
  ASSUME PlanSensible, NEW off, off = PaddedOffsets, NEW q, q = SumBefore(BlockCounts)
  PROVE  /\ off \in [0 .. NumExperts -> Nat] /\ q \in [0 .. NumExperts -> Nat]
         /\ \A e \in 0 .. NumExperts : off[e] = q[e] * BlockM
         /\ off[NumExperts] <= MaxPadded /\ q[NumExperts] <= MaxBlocks
         /\ MaxPadded \in Nat /\ MaxBlocks \in Nat
<1> DEFINE C == SumBefore(Histogram)
           N == NumExperts
           b == BlockM - 1
<1>1. /\ off \in [0 .. N -> Nat] /\ q \in [0 .. N -> Nat] /\ C \in [0 .. N -> Nat]
      /\ off[0] = 0 /\ q[0] = 0 /\ C[0] = 0
      /\ \A e \in Experts : /\ off[e + 1] = off[e] + PartSizes[e]
                            /\ q[e + 1] = q[e] + BlockCounts[e]
                            /\ C[e + 1] = C[e] + Histogram[e]
  BY SumsAreNatural, SumIs
<1>2. /\ N \in Nat /\ BlockM \in Nat \ {0} /\ b \in Nat
      /\ Histogram \in [Experts -> Nat] /\ BlockCounts \in [Experts -> Nat]
  BY SumsAreNatural DEF PlanSensible
<1>3. \A e \in Experts : /\ PartSizes[e] = BlockCounts[e] * BlockM
                         /\ PartSizes[e] <= Histogram[e] + b
                         /\ Histogram[e] = 0 => PartSizes[e] = 0
                         /\ PartSizes[e] \in Nat
  <2> TAKE e \in Experts
  <2>1. Histogram[e] \in Nat
    BY <1>2
  <2>2. PartSizes[e] = PaddedSize(Histogram[e]) /\ BlockCounts[e] = BlocksFor(Histogram[e])
    BY DEF PartSizes, BlockCounts
  <2> HIDE DEF b
  <2>3. Histogram[e] + BlockM - 1 = Histogram[e] + b
    BY <2>1, <1>2 DEF b
  <2>4. QED  BY <2>1, <2>2, <2>3, BlockFacts
<1> HIDE DEF C, N, b
<1>4. \A e \in 0 .. N : off[e] = q[e] * BlockM
  <2> DEFINE T == {e \in 0 .. N : off[e] = q[e] * BlockM}
  <2>1. 0 \in T
    BY <1>1, <1>2
  <2>2. ASSUME NEW e \in 0 .. N - 1, e \in T PROVE e + 1 \in T
    <3>1. e \in Experts /\ e + 1 \in 0 .. N
      BY <1>2 DEF Experts, N
    <3>2. off[e + 1] = q[e] * BlockM + BlockCounts[e] * BlockM
      BY <1>1, <1>3, <2>2, <3>1
    <3>3. q[e] \in Nat /\ BlockCounts[e] \in Nat
      BY <1>1, <1>2, <3>1
    <3>4. q[e] * BlockM + BlockCounts[e] * BlockM = (q[e] + BlockCounts[e]) * BlockM
      BY <3>3, <1>2
    <3>5. QED  BY <1>1, <3>1, <3>2, <3>4
  <2>3. 0 .. N \subseteq T
    <3> HIDE DEF T
    <3>1. QED  BY <1>2, <2>1, <2>2, UpTo
  <2>4. QED  BY <2>3
<1>5. \A e \in 0 .. N : off[e] <= C[e] + e * b /\ off[e] <= C[e] + C[e] * b
  <2> DEFINE T == {e \in 0 .. N : off[e] <= C[e] + e * b /\ off[e] <= C[e] + C[e] * b}
  <2>1. 0 \in T
    BY <1>1, <1>2
  <2>2. ASSUME NEW e \in 0 .. N - 1, e \in T PROVE e + 1 \in T
    <3>1. e \in Experts /\ e + 1 \in 0 .. N /\ e \in Nat
      BY <1>2 DEF Experts, N
    <3> DEFINE c == Histogram[e]
               p == PartSizes[e]
    <3>2. c \in Nat /\ p \in Nat /\ p <= c + b /\ (c = 0 => p = 0) /\ C[e] \in Nat /\ off[e] \in Nat
          /\ off[e + 1] = off[e] + p /\ C[e + 1] = C[e] + c
      BY <1>1, <1>2, <1>3, <3>1
    <3> HIDE DEF c, p
    <3>3. /\ (e + 1) * b = e * b + b /\ e * b \in Nat
          /\ (C[e] + c) * b = C[e] * b + c * b /\ C[e] * b \in Nat /\ c * b \in Nat
      BY <3>1, <3>2, <1>2
    <3>4. c # 0 => b <= c * b
      <4>1. SUFFICES ASSUME c >= 1 PROVE 1 * b <= c * b
        BY <3>2, <1>2
      <4>2. QED  BY <4>1, <3>2, <1>2
    <3>5. off[e + 1] <= C[e + 1] + (e + 1) * b
      BY <2>2, <3>2, <3>3, <1>2
    <3>6. off[e + 1] <= C[e + 1] + C[e + 1] * b
      <4> DEFINE cb == c * b
                 Cb == C[e] * b
      <4>1. cb \in Nat /\ Cb \in Nat /\ off[e] <= C[e] + Cb /\ (c # 0 => b <= cb)
            /\ C[e + 1] * b = Cb + cb
        BY <2>2, <3>2, <3>3, <3>4
      <4> HIDE DEF cb, Cb
      <4>2. QED  BY <4>1, <3>2, <1>2
    <3>7. QED  BY <3>1, <3>5, <3>6
  <2>3. 0 .. N \subseteq T
    <3> HIDE DEF T
    <3>1. QED  BY <1>2, <2>1, <2>2, UpTo
  <2>4. QED  BY <2>3
<1>6. C[N] \in 0 .. RouteCount /\ RouteCount \in Nat
  <2>1. N \in 0 .. NumExperts
    BY <1>2 DEF N
  <2>2. QED  BY <2>1, CountsBefore, RoutesAreFinite DEF C
<1>7. off[N] <= MaxPadded /\ MaxPadded \in Nat
  <2>1. MaxPadded = RouteCount + (IF N < RouteCount THEN N ELSE RouteCount) * b
    BY DEF MaxPadded, N, b
  <2>2. off[N] <= C[N] + N * b /\ off[N] <= C[N] + C[N] * b /\ off[N] \in Nat
    BY <1>1, <1>2, <1>5
  <2>3. N * b \in Nat /\ RouteCount * b \in Nat /\ C[N] * b <= RouteCount * b
    BY <1>2, <1>6
  <2>4. CASE N < RouteCount
    <3>1. MaxPadded = RouteCount + N * b
      BY <2>1, <2>4
    <3>2. QED
      <4> DEFINE Nb == N * b
      <4>1. Nb \in Nat /\ off[N] <= C[N] + Nb /\ MaxPadded = RouteCount + Nb
        BY <2>2, <2>3, <3>1
      <4> HIDE DEF Nb
      <4>2. QED  BY <4>1, <1>6, <2>2
  <2>5. CASE ~(N < RouteCount)
    <3>1. MaxPadded = RouteCount + RouteCount * b
      BY <2>1, <2>5
    <3>2. QED
      <4> DEFINE Rb == RouteCount * b
                 Cb == C[N] * b
      <4>1. Rb \in Nat /\ Cb \in Nat /\ Cb <= Rb /\ off[N] <= C[N] + Cb /\ MaxPadded = RouteCount + Rb
        BY <2>2, <2>3, <3>1, <1>2, <1>6
      <4> HIDE DEF Rb, Cb
      <4>2. QED  BY <4>1, <1>6, <2>2
  <2>6. QED  BY <2>4, <2>5
<1>8. q[N] <= MaxBlocks /\ MaxBlocks \in Nat
  <2>1. MaxBlocks \in Nat /\ MaxPadded <= MaxBlocks * BlockM
    BY <1>7, BlockFacts DEF MaxBlocks
  <2>2. off[N] = q[N] * BlockM /\ q[N] \in Nat
    BY <1>1, <1>2, <1>4
  <2>3. SUFFICES ASSUME MaxBlocks + 1 <= q[N] PROVE FALSE
    BY <2>1, <2>2
  <2>4. (MaxBlocks + 1) * BlockM <= q[N] * BlockM /\ (MaxBlocks + 1) * BlockM = MaxBlocks * BlockM + BlockM
        /\ MaxBlocks * BlockM \in Nat /\ q[N] * BlockM \in Nat
    BY <2>1, <2>2, <2>3, <1>2
  <2>5. QED
    <3> DEFINE mb == MaxBlocks * BlockM
               qb == q[N] * BlockM
    <3>1. mb \in Nat /\ qb \in Nat /\ mb + BlockM <= qb /\ qb <= MaxPadded /\ MaxPadded <= mb
      BY <2>1, <2>2, <2>4, <1>7
    <3> HIDE DEF mb, qb
    <3>2. QED  BY <3>1, <1>2, <1>7
<1>9. QED  BY <1>1, <1>4, <1>7, <1>8 DEF N

(* Sorting the valid routes by expert and route puts a route behind those of  *)
(* the experts before its own, and of its own those before it.                *)
LEMMA SortedLikeRanked ==
  ASSUME PlanSensible, NEW r \in ValidRoutes, indices \in [Routes -> Int]
  PROVE  /\ indices[r] \in Experts /\ r \in RoutesTo(indices[r])
         /\ ReferencePlace(r) = PaddedOffsets[indices[r]] + RankOf(r)
<1> DEFINE e == indices[r]
           C == SumBefore(Histogram)
<1>2. RouteCount \in Nat \ {0} /\ NumExperts \in Nat
  BY RoutesAreFinite
<1>1. e \in Experts /\ r \in Routes /\ r \in RoutesTo(e) /\ e \in 0 .. NumExperts
  <2>1. e \in Experts /\ r \in Routes /\ r \in RoutesTo(e)
    BY DEF ValidRoutes, RoutesTo
  <2> HIDE DEF e
  <2>2. QED  BY <2>1, <1>2 DEF Experts
<1>3. ASSUME NEW x \in ValidRoutes
      PROVE  SortKey(x) < SortKey(r) <=> indices[x] < e \/ (indices[x] = e /\ x < r)
  <2> DEFINE d == indices[x]
             n == RouteCount
  <2>1. d \in Nat /\ e \in Nat /\ x \in 0 .. n - 1 /\ r \in 0 .. n - 1
    BY <1>1 DEF ValidRoutes, Experts, Routes
  <2>2. SortKey(x) = d * n + x /\ SortKey(r) = e * n + r
    BY DEF SortKey
  <2> HIDE DEF d, n, e
  <2>3. n \in Nat \ {0}
    BY <1>2 DEF n
  <2>4. /\ d * n \in Nat /\ e * n \in Nat
        /\ (d + 1 <= e => d * n + n <= e * n) /\ (e + 1 <= d => e * n + n <= d * n)
    <3>1. \A i, j \in Nat : i <= j => i * n <= j * n
      BY <2>3
    <3>2. (d + 1) * n = d * n + n /\ (e + 1) * n = e * n + n /\ d * n \in Nat /\ e * n \in Nat
      BY <2>1, <2>3
    <3>3. QED  BY <3>1, <3>2, <2>1
  <2>5. QED
    <3> DEFINE dn == d * n
               en == e * n
    <3>1. dn \in Nat /\ en \in Nat /\ (d + 1 <= e => dn + n <= en) /\ (e + 1 <= d => en + n <= dn)
          /\ (d = e => dn = en)
      BY <2>4
    <3>2. SortKey(x) = dn + x /\ SortKey(r) = en + r
      BY <2>2
    <3> HIDE DEF dn, en
    <3>3. dn + x < en + r <=> d < e \/ (d = e /\ x < r)
      <4>1. CASE d < e
        BY <4>1, <2>1, <2>3, <3>1
      <4>2. CASE e < d
        BY <4>2, <2>1, <2>3, <3>1
      <4>3. CASE d = e
        BY <4>3, <2>1, <2>3, <3>1
      <4>4. QED  BY <2>1, <4>1, <4>2, <4>3
    <3>4. QED  BY <3>2, <3>3 DEF d
<1> DEFINE S == {x \in Routes : indices[x] \in 0 .. e - 1}
           U == {x \in RoutesTo(e) : x < r}
<1>4. {x \in ValidRoutes : SortKey(x) < SortKey(r)} = S \cup U
  <2>1. \A x \in Routes : x \in ValidRoutes <=> indices[x] \in Experts
    BY DEF ValidRoutes
  <2>2. 0 .. e - 1 \subseteq Experts /\ \A i \in Experts : i < e <=> i \in 0 .. e - 1
    <3> HIDE DEF e
    <3>1. e \in 0 .. NumExperts - 1 /\ NumExperts \in Nat
      BY <1>1, <1>2 DEF Experts
    <3>2. QED  BY <3>1 DEF Experts
  <2>3. \A x \in RoutesTo(e) : x \in Routes /\ indices[x] = e
    BY DEF RoutesTo
  <2>4. ASSUME NEW x \in S \cup U
        PROVE  x \in ValidRoutes /\ (indices[x] < e \/ (indices[x] = e /\ x < r))
    <3> HIDE DEF e
    <3>1. QED  BY <2>1, <2>2, <2>3, <2>4, <1>1
  <2>5. ASSUME NEW x \in ValidRoutes, indices[x] < e \/ (indices[x] = e /\ x < r) PROVE x \in S \cup U
    <3> HIDE DEF e
    <3>1. x \in Routes /\ indices[x] \in Experts
      BY DEF ValidRoutes
    <3>2. QED  BY <2>2, <2>5, <3>1 DEF RoutesTo
  <2> HIDE DEF S, U, e
  <2>6. QED  BY <1>3, <2>4, <2>5
<1>5. S \cap U = {} /\ S \in SUBSET Routes /\ U \in SUBSET Routes
  <2>1. \A i \in 0 .. e - 1 : i # e
    BY <1>1 DEF Experts
  <2>2. QED  BY <2>1 DEF RoutesTo
<1>6. Cardinality(S) = C[e] /\ Cardinality(U) = RankOf(r)
  <2>1. Cardinality(S) = C[e]
    BY <1>1, CountsBefore
  <2>2. QED  BY <2>1 DEF RankOf
<1> HIDE DEF S, U
<1>7. SortedPosition(r) = C[e] + RankOf(r)
  <2>1. IsFiniteSet(S) /\ IsFiniteSet(U)
    BY <1>5, RoutesAreFinite
  <2>2. Cardinality(S \cup U) = Cardinality(S) + Cardinality(U)
    BY <2>1, <1>5, DisjointUnion
  <2>3. QED  BY <2>2, <1>4, <1>6 DEF SortedPosition
<1>8. C[e] \in Nat /\ RankOf(r) \in Nat
  <2>1. RankOf(r) \in 0 .. Histogram[e] - 1
    BY <1>1, RanksOfRoutes
  <2>2. C[e] \in 0 .. RouteCount
    BY <1>1, CountsBefore
  <2> HIDE DEF C
  <2>3. QED  BY <2>1, <2>2
<1>9. SortedPosition(r) - C[e] = RankOf(r)
  BY <1>7, <1>8
<1>10. QED  BY <1>1, <1>9 DEF ReferencePlace

-------------------------------------------------------------------------------
(* What holds between the steps.                                              *)

Masked == [r \in Routes |-> IF TokenOf(r) >= live THEN -1 ELSE gate[r]]
KeptWeights == [r \in Routes |-> IF TokenOf(r) >= live THEN "zero" ELSE "gate"]
Counted == stage \notin {"mask", "count"}

InputInv ==
  /\ gate \in [Routes -> Int] /\ live \in Nat
  /\ stage \in {"mask", "count", "fill", "up", "down", "zero", "done"}
  /\ IF stage = "mask" THEN indices = gate /\ weights = [r \in Routes |-> "gate"]
                       ELSE indices = Masked /\ weights = KeptWeights

CountInv ==
  /\ stage = "mask" => counts = [e \in Experts |-> 0]
  /\ stage = "count" =>
       /\ programs \subseteq RouteBlocks
       /\ counts = [e \in Experts |->
                      Cardinality({r \in RoutesTo(e) : r \div BlockRoutes \notin programs})]
  /\ Counted => /\ counts = Histogram /\ starts = [e \in Experts |-> PaddedOffsets[e]]
                /\ padded = ReferencePadded

Filled(e) ==
  /\ \A r \in RoutesTo(e) : sortedIds[PlaceOf(r)] = r
  /\ \A i \in PaddingOf(e) : sortedIds[i] = RouteCount
  /\ \A b \in BlocksOf(e) : expertIds[b] = e
FillInv ==
  /\ stage = "fill" => programs \subseteq Experts /\ \A e \in Experts \ programs : Filled(e)
  /\ Planned => \A e \in Experts : Filled(e)

BlockOf(r) == PlaceOf(r) \div BlockM
Raised(r) == hidden[r] = <<TokenOf(r), indices[r]>>
Lowered(r) == routed[r] = <<TokenOf(r), indices[r], indices[r], weights[r]>>
GemmInv ==
  /\ stage \in {"up", "down"} => programs \subseteq PlanBlocks
  /\ stage = "up" => \A r \in ValidRoutes : BlockOf(r) \in programs \/ Raised(r)
  /\ stage = "down" => \A r \in ValidRoutes : Raised(r) /\ (BlockOf(r) \in programs \/ Lowered(r))
  /\ stage \in {"zero", "done"} => \A r \in ValidRoutes : Lowered(r)

Sums == [t \in 0 .. NumTokens - 1 |->
           [k \in 0 .. TopkCount |->
              IF k = TopkCount THEN <<t, "shared">> ELSE routed[t * TopkCount + k]]]
SumInv ==
  /\ stage = "zero" => summed = Sums
  /\ stage = "done" => summed = [t \in 0 .. NumTokens - 1 |-> IF t >= live THEN Zero ELSE Sums[t]]

PlanInv == InputInv /\ CountInv /\ FillInv /\ GemmInv /\ SumInv

(* Where the parts of the experts are once the offsets are known. *)
PartOf(e) == starts[e] .. starts[e] + PaddedSize(counts[e]) - 1

LEMMA Parts ==
  ASSUME PlanSensible, InputInv, CountInv, Counted
  PROVE  /\ padded \in Nat /\ padded <= MaxPadded /\ MaxPadded \in Nat
         /\ MaxBlocks \in Nat /\ padded \div BlockM \in 0 .. MaxBlocks
         /\ padded = (padded \div BlockM) * BlockM
         /\ \A e \in Experts : /\ starts[e] \in Nat /\ counts[e] \in Nat
                               /\ PaddedSize(counts[e]) \in Nat
                               /\ counts[e] <= PaddedSize(counts[e])
                               /\ starts[e] + PaddedSize(counts[e]) <= padded
         /\ \A d, e \in Experts : d < e => starts[d] + PaddedSize(counts[d]) <= starts[e]
         /\ \A i \in 0 .. padded - 1 : \E e \in Experts : i \in PartOf(e)
         /\ \A e \in Experts, i \in Nat : i \in PartOf(e) <=> i \div BlockM \in BlocksOf(e)
<1> DEFINE off == PaddedOffsets
           q == SumBefore(BlockCounts)
           N == NumExperts
<1>1. /\ counts = Histogram /\ starts = [e \in Experts |-> off[e]] /\ padded = off[N]
  BY DEF CountInv, ReferencePadded
<1>2. /\ N \in Nat /\ Histogram \in [Experts -> Nat] /\ PartSizes \in [Experts -> Nat]
      /\ BlockCounts \in [Experts -> Nat] /\ off = SumBefore(PartSizes)
      /\ BlockM \in Nat \ {0}
  BY SumsAreNatural DEF PlanSensible
<1>3. /\ off \in [0 .. N -> Nat] /\ q \in [0 .. N -> Nat]
      /\ \A e \in 0 .. N : off[e] = q[e] * BlockM
      /\ off[N] <= MaxPadded /\ q[N] <= MaxBlocks /\ MaxPadded \in Nat /\ MaxBlocks \in Nat
  BY OffsetsFit
<1>4. /\ \A e \in Experts : off[e] + PartSizes[e] <= off[N]
      /\ \A d, e \in Experts : d < e => off[d] + PartSizes[d] <= off[e]
      /\ \A i \in Nat : i < off[N] => \E e \in Experts : off[e] <= i /\ i < off[e] + PartSizes[e]
  BY <1>2, SumParts
<1>5. \A e \in Experts : q[e] + BlockCounts[e] <= q[N]
  BY <1>2, SumParts
<1>6. \A e \in Experts : e \in 0 .. N /\ N \in 0 .. N
  BY <1>2 DEF Experts
<1>7. \A e \in Experts : /\ starts[e] = off[e] /\ counts[e] \in Nat
                         /\ PaddedSize(counts[e]) = PartSizes[e]
                         /\ BlocksFor(counts[e]) = BlockCounts[e]
                         /\ counts[e] <= PaddedSize(counts[e])
                         /\ off[e] \in Nat /\ PartSizes[e] \in Nat
                         /\ PartSizes[e] = BlockCounts[e] * BlockM
                         /\ BlockCounts[e] \in Nat /\ q[e] \in Nat
                         /\ off[e] = q[e] * BlockM
  <2> TAKE e \in Experts
  <2>1. starts[e] = off[e] /\ counts[e] \in Nat /\ counts[e] = Histogram[e]
    BY <1>1, <1>2
  <2>2. PartSizes[e] = PaddedSize(counts[e]) /\ BlockCounts[e] = BlocksFor(counts[e])
    BY <2>1 DEF PartSizes, BlockCounts
  <2>3. QED  BY <2>1, <2>2, <1>2, <1>3, <1>6, BlockFacts
<1> HIDE DEF off, q, N
<1>8. \A k \in Nat : (k * BlockM) \div BlockM = k
  <2> TAKE k \in Nat
  <2> DEFINE i == k * BlockM
  <2>1. i \in Nat /\ 1 * BlockM = BlockM
    BY <1>2
  <2>2. k * BlockM <= i /\ i < k * BlockM + 1 * BlockM
    BY <1>2, <2>1
  <2> HIDE DEF i
  <2>3. k <= i \div BlockM /\ i \div BlockM < k + 1
    BY <2>1, <2>2, BlockOfPosition
  <2>4. i \div BlockM \in Int
    BY <2>1, <1>2
  <2>5. i \div BlockM = k
    BY <2>3, <2>4
  <2>6. QED  BY <2>5 DEF i
<1>9. padded \div BlockM = q[N] /\ padded = q[N] * BlockM /\ q[N] \in Nat
  <2>1. N \in 0 .. N
    BY <1>2
  <2>2. QED  BY <2>1, <1>1, <1>3, <1>8
<1>10. \A i \in 0 .. padded - 1 : \E e \in Experts : i \in PartOf(e)
  <2> SUFFICES ASSUME NEW i \in 0 .. padded - 1 PROVE \E e \in Experts : i \in PartOf(e)
    OBVIOUS
  <2>1. i \in Nat /\ i < off[N]
    BY <1>1, <1>3, <1>9
  <2>2. PICK e \in Experts : off[e] <= i /\ i < off[e] + PartSizes[e]
    BY <2>1, <1>4
  <2>3. QED  BY <2>1, <2>2, <1>7 DEF PartOf
<1>11. ASSUME NEW e \in Experts, NEW i \in Nat PROVE i \in PartOf(e) <=> i \div BlockM \in BlocksOf(e)
  <2>1. i \in PartOf(e) <=> off[e] <= i /\ i < off[e] + PartSizes[e]
    BY <1>7 DEF PartOf
  <2>2. i \in PartOf(e) <=> q[e] <= i \div BlockM /\ i \div BlockM < q[e] + BlockCounts[e]
    BY <2>1, <1>7, BlockOfPosition
  <2>3. starts[e] \div BlockM = q[e]
    BY <1>7, <1>8
  <2>4. i \div BlockM \in Nat
    BY <1>2
  <2>5. q[e] + BlockCounts[e] <= MaxBlocks
    <3>1. q[e] + BlockCounts[e] <= q[N]
      BY <1>5 DEF q, N
    <3>2. QED  BY <3>1, <1>3, <1>7, <1>9
  <2>6. \A b \in Nat : b \in BlocksOf(e) <=> q[e] <= b /\ b < q[e] + BlockCounts[e]
    BY <2>3, <2>5, <1>3, <1>7 DEF BlocksOf
  <2>7. QED  BY <2>2, <2>4, <2>6
<1>12. \A e \in Experts : starts[e] + PaddedSize(counts[e]) <= padded
  BY <1>1, <1>4, <1>7 DEF N
<1>13. \A d, e \in Experts : d < e => starts[d] + PaddedSize(counts[d]) <= starts[e]
  BY <1>4, <1>7
<1>14. padded \in Nat /\ padded <= MaxPadded /\ padded \div BlockM \in 0 .. MaxBlocks
  BY <1>1, <1>2, <1>3, <1>9
<1>15. QED  BY <1>3, <1>7, <1>9, <1>10, <1>11, <1>12, <1>13, <1>14

(* A route has a place of its own in the part of its expert, the first of     *)
(* which are all taken.                                                       *)
LEMMA Places ==
  ASSUME PlanSensible, InputInv, CountInv, Counted
  PROVE  /\ \A e \in Experts : \A r \in RoutesTo(e) :
              /\ r \in ValidRoutes /\ indices[r] = e
              /\ PlaceOf(r) \in starts[e] .. starts[e] + counts[e] - 1
              /\ PlaceOf(r) \in PartOf(e) /\ PlaceOf(r) \notin PaddingOf(e)
              /\ PlaceOf(r) \in 0 .. padded - 1 /\ PlaceOf(r) \in 0 .. MaxPadded - 1
         /\ \A e \in Experts : \A r, s \in RoutesTo(e) : PlaceOf(r) = PlaceOf(s) => r = s
         /\ \A e \in Experts : \A i \in starts[e] .. starts[e] + counts[e] - 1 :
              \E r \in RoutesTo(e) : PlaceOf(r) = i
         /\ \A d, e \in Experts : d # e => PartOf(d) \cap PartOf(e) = {}
         /\ \A r \in ValidRoutes : indices[r] \in Experts /\ r \in RoutesTo(indices[r])
         /\ \A e \in Experts : PartOf(e) = (starts[e] .. starts[e] + counts[e] - 1) \cup PaddingOf(e)
         /\ \A e \in Experts : PartOf(e) \subseteq 0 .. padded - 1 /\ PartOf(e) \subseteq 0 .. MaxPadded - 1
<1>1. /\ padded \in Nat /\ padded <= MaxPadded /\ MaxPadded \in Nat
      /\ \A e \in Experts : /\ starts[e] \in Nat /\ counts[e] \in Nat
                            /\ PaddedSize(counts[e]) \in Nat
                            /\ counts[e] <= PaddedSize(counts[e])
                            /\ starts[e] + PaddedSize(counts[e]) <= padded
      /\ \A d, e \in Experts : d < e => starts[d] + PaddedSize(counts[d]) <= starts[e]
  BY Parts
<1>2. counts = Histogram
  BY DEF CountInv
<1>3. ASSUME NEW e \in Experts, NEW r \in RoutesTo(e)
      PROVE  /\ r \in ValidRoutes /\ indices[r] = e
             /\ PlaceOf(r) = starts[e] + RankOf(r) /\ RankOf(r) \in 0 .. counts[e] - 1
  <2>1. r \in ValidRoutes /\ indices[r] = e
    BY DEF RoutesTo, ValidRoutes
  <2>2. RankOf(r) \in 0 .. counts[e] - 1
    BY <1>2, RanksOfRoutes
  <2>3. QED  BY <2>1, <2>2 DEF PlaceOf
<1>4. ASSUME NEW e \in Experts, NEW r \in RoutesTo(e)
      PROVE  /\ PlaceOf(r) \in starts[e] .. starts[e] + counts[e] - 1
             /\ PlaceOf(r) \in PartOf(e) /\ PlaceOf(r) \notin PaddingOf(e)
             /\ PlaceOf(r) \in 0 .. padded - 1 /\ PlaceOf(r) \in 0 .. MaxPadded - 1
  BY <1>1, <1>3 DEF PartOf, PaddingOf
<1>5. \A e \in Experts : \A r, s \in RoutesTo(e) : PlaceOf(r) = PlaceOf(s) => r = s
  <2> TAKE e \in Experts
  <2> TAKE r, s \in RoutesTo(e)
  <2>1. PlaceOf(r) = PlaceOf(s) => RankOf(r) = RankOf(s)
    BY <1>1, <1>3
  <2>2. QED  BY <2>1, RanksOfRoutes
<1>6. \A e \in Experts : \A i \in starts[e] .. starts[e] + counts[e] - 1 :
        \E r \in RoutesTo(e) : PlaceOf(r) = i
  <2> TAKE e \in Experts
  <2> TAKE i \in starts[e] .. starts[e] + counts[e] - 1
  <2>1. i - starts[e] \in 0 .. counts[e] - 1 /\ starts[e] + (i - starts[e]) = i
    BY <1>1
  <2>2. PICK r \in RoutesTo(e) : RankOf(r) = i - starts[e]
    BY <1>2, <2>1, RanksOfRoutes
  <2>3. QED  BY <1>3, <2>1, <2>2
<1>7. ASSUME NEW d \in Experts, NEW e \in Experts, d # e PROVE PartOf(d) \cap PartOf(e) = {}
  <2>1. d < e \/ e < d
    BY <1>7 DEF Experts
  <2>2. QED  BY <2>1, <1>1 DEF PartOf
<1>8. \A r \in ValidRoutes : indices[r] \in Experts /\ r \in RoutesTo(indices[r])
  BY DEF ValidRoutes, RoutesTo
<1>9. \A e \in Experts : PartOf(e) = (starts[e] .. starts[e] + counts[e] - 1) \cup PaddingOf(e)
  BY <1>1 DEF PartOf, PaddingOf
<1>10. \A e \in Experts : PartOf(e) \subseteq 0 .. padded - 1 /\ PartOf(e) \subseteq 0 .. MaxPadded - 1
  BY <1>1 DEF PartOf
<1>11. QED  BY <1>3, <1>4, <1>5, <1>6, <1>7, <1>8, <1>9, <1>10

(* What the GEMM finds in a block: the routes of one expert, before padding.  *)
LEMMA BlockContents ==
  ASSUME PlanSensible, InputInv, CountInv, FillInv, Planned, NEW b \in PlanBlocks
  PROVE  \E e \in Experts :
           /\ b \in BlocksOf(e) /\ expertIds[b] = e
           /\ RowsOf(b) = {r \in RoutesTo(e) : BlockOf(r) = b}
           /\ \A j \in 0 .. BlockM - 1 : j < ValidIn(b) <=> sortedIds[b * BlockM + j] < RouteCount
<1>0. Counted /\ \A e \in Experts : Filled(e)
  BY DEF Planned, FillInv, Counted
<1>1. /\ padded \in Nat /\ padded = (padded \div BlockM) * BlockM /\ padded \div BlockM \in Nat
      /\ \A e \in Experts : /\ starts[e] \in Nat /\ counts[e] \in Nat
                            /\ counts[e] <= PaddedSize(counts[e]) /\ PaddedSize(counts[e]) \in Nat
      /\ \A i \in 0 .. padded - 1 : \E e \in Experts : i \in PartOf(e)
      /\ \A e \in Experts, i \in Nat : i \in PartOf(e) <=> i \div BlockM \in BlocksOf(e)
  BY <1>0, Parts
<1>2. BlockM \in Nat \ {0} /\ RouteCount \in Nat
  BY RoutesAreFinite DEF PlanSensible
<1> DEFINE lo == b * BlockM
<1>3. /\ b \in Nat /\ lo \in Nat
      /\ \A j \in 0 .. BlockM - 1 : lo + j \in 0 .. padded - 1 /\ (lo + j) \div BlockM = b
      /\ \A i \in Nat : i \div BlockM = b => i - lo \in 0 .. BlockM - 1
  <2>1. b \in Nat /\ b + 1 <= padded \div BlockM
    BY <1>1 DEF PlanBlocks
  <2>2. (b + 1) * BlockM <= (padded \div BlockM) * BlockM
    <3> DEFINE p == padded \div BlockM
    <3>1. p \in Nat
      BY <1>1
    <3> HIDE DEF p
    <3>2. b + 1 <= p => (b + 1) * BlockM <= p * BlockM
      BY <2>1, <3>1, <1>2
    <3>3. QED  BY <3>2, <2>1 DEF p
  <2>3. lo \in Nat /\ (b + 1) * BlockM = lo + BlockM /\ lo + BlockM <= padded
    BY <2>1, <2>2, <1>1, <1>2
  <2>4. 1 * BlockM = BlockM
    BY <1>2
  <2>5. ASSUME NEW i \in Nat
        PROVE  lo <= i /\ i < lo + BlockM <=> i \div BlockM = b
    <3>1. lo <= i /\ i < lo + BlockM <=> b <= i \div BlockM /\ i \div BlockM < b + 1
      BY <2>1, <2>4, BlockOfPosition
    <3>2. i \div BlockM \in Int
      BY <1>2
    <3>3. QED  BY <3>1, <3>2, <2>1
  <2> HIDE DEF lo
  <2>6. \A j \in 0 .. BlockM - 1 : lo + j \in 0 .. padded - 1 /\ (lo + j) \div BlockM = b
    <3> TAKE j \in 0 .. BlockM - 1
    <3>1. lo + j \in Nat /\ lo <= lo + j /\ lo + j < lo + BlockM
      BY <2>3, <1>2
    <3>2. lo + j \in 0 .. padded - 1
      BY <3>1, <2>3, <1>1, <1>2
    <3>3. QED  BY <3>1, <3>2, <2>5
  <2>7. \A i \in Nat : i \div BlockM = b => i - lo \in 0 .. BlockM - 1
    <3> TAKE i \in Nat
    <3>1. i \div BlockM = b => lo <= i /\ i < lo + BlockM
      BY <2>5
    <3>2. QED  BY <3>1, <2>3, <1>2
  <2>8. QED  BY <2>1, <2>3, <2>6, <2>7
<1> HIDE DEF lo
<1>4. PICK e \in Experts : lo \in PartOf(e)
  <2>1. lo + 0 \in 0 .. padded - 1 /\ lo + 0 = lo
    BY <1>2, <1>3
  <2>2. QED  BY <2>1, <1>1
<1>5. b \in BlocksOf(e) /\ expertIds[b] = e
  <2>1. (lo + 0) \div BlockM = b /\ lo + 0 = lo
    BY <1>2, <1>3
  <2>2. QED  BY <2>1, <1>0, <1>1, <1>3, <1>4 DEF Filled
<1>6. \A j \in 0 .. BlockM - 1 : lo + j \in PartOf(e)
  BY <1>1, <1>3, <1>5
<1> DEFINE end == starts[e] + counts[e]
<1>7. \A j \in 0 .. BlockM - 1 :
        /\ lo + j < end => sortedIds[lo + j] \in RoutesTo(e) /\ PlaceOf(sortedIds[lo + j]) = lo + j
        /\ lo + j >= end => sortedIds[lo + j] = RouteCount
  <2> TAKE j \in 0 .. BlockM - 1
  <2>1. lo + j \in PartOf(e) /\ lo + j \in Nat
    BY <1>3, <1>6
  <2>2. CASE lo + j < end
    <3>1. lo + j \in starts[e] .. starts[e] + counts[e] - 1
      BY <2>1, <2>2, <1>1 DEF PartOf
    <3>2. PICK r \in RoutesTo(e) : PlaceOf(r) = lo + j
      BY <3>1, <1>0, Places
    <3>3. sortedIds[lo + j] = r
      BY <3>2, <1>0 DEF Filled
    <3>4. QED  BY <3>2, <3>3, <2>1, <2>2, <1>1
  <2>3. CASE lo + j >= end
    <3>1. lo + j \in PaddingOf(e)
      BY <2>1, <2>3, <1>1 DEF PartOf, PaddingOf
    <3>2. QED  BY <3>1, <2>1, <2>3, <1>0, <1>1 DEF Filled
  <2>4. end \in Nat
    BY <1>1
  <2>5. QED  BY <2>1, <2>2, <2>3, <2>4
<1>8. \A j \in 0 .. BlockM - 1 : sortedIds[lo + j] < RouteCount <=> lo + j < end
  <2> TAKE j \in 0 .. BlockM - 1
  <2>1. lo + j < end \/ lo + j >= end
    BY <1>1, <1>3
  <2>2. \A r \in RoutesTo(e) : r < RouteCount
    BY <1>2 DEF RoutesTo, Routes
  <2>3. end \in Nat /\ lo + j \in Nat
    BY <1>1, <1>3
  <2>4. lo + j >= end => ~(lo + j < end) /\ ~(sortedIds[lo + j] < RouteCount)
    BY <1>2, <1>7, <2>3
  <2>5. QED  BY <1>7, <2>1, <2>2, <2>4
<1> DEFINE v == IF end - lo < BlockM THEN end - lo ELSE BlockM
<1>9. end \in Nat /\ lo <= end
  <2>1. \E j \in 0 .. BlockM - 1 : TRUE
    BY <1>2
  <2>2. end \in Nat
    BY <1>1
  <2>3. lo <= end
    \* The last block of an expert holds one of its routes.
    <3>1. SUFFICES ASSUME lo > end PROVE FALSE
      BY <2>2, <1>3
    <3>2. PaddedSize(counts[e]) <= counts[e] + BlockM - 1
      BY <1>1, BlockFacts
    <3>3. lo + (BlockM - 1) \in PartOf(e)
      BY <1>2, <1>6
    <3>4. lo + BlockM - 1 < starts[e] + PaddedSize(counts[e])
      BY <3>3, <1>1, <1>2, <1>3 DEF PartOf
    <3> DEFINE p == PaddedSize(counts[e])
               c == counts[e]
               o == starts[e]
    <3>5. /\ p \in Nat /\ c \in Nat /\ o \in Nat /\ p <= c + BlockM - 1
          /\ lo + BlockM - 1 < o + p /\ lo > o + c
      BY <3>1, <3>2, <3>4, <1>1
    <3> HIDE DEF p, c, o, end
    <3>6. QED  BY <3>5, <1>2, <1>3
  <2>4. QED  BY <2>2, <2>3
<1> HIDE DEF end
<1>10. v \in 0 .. BlockM /\ \A j \in 0 .. BlockM - 1 : lo + j < end <=> j < v
  BY <1>2, <1>3, <1>9
<1> HIDE DEF v
<1>11. ValidIn(b) = v
  <2>1. {j \in 0 .. BlockM - 1 : sortedIds[b * BlockM + j] < RouteCount} = 0 .. v - 1
    <3>1. {j \in 0 .. BlockM - 1 : sortedIds[lo + j] < RouteCount} = {j \in 0 .. BlockM - 1 : j < v}
      BY <1>8, <1>10
    <3>2. {j \in 0 .. BlockM - 1 : j < v} = 0 .. v - 1
      BY <1>2, <1>10
    <3>3. QED  BY <3>1, <3>2 DEF lo
  <2>2. Cardinality(0 .. v - 1) = v
    BY <1>10, FS_Interval
  <2>3. QED  BY <2>1, <2>2 DEF ValidIn
<1>12. RowsOf(b) = {r \in RoutesTo(e) : BlockOf(r) = b}
  <2>1. RowsOf(b) = {sortedIds[lo + j] : j \in 0 .. v - 1}
    BY <1>11 DEF RowsOf, lo
  <2>2. ASSUME NEW j \in 0 .. v - 1
        PROVE  sortedIds[lo + j] \in RoutesTo(e) /\ BlockOf(sortedIds[lo + j]) = b
    <3>1. j \in 0 .. BlockM - 1 /\ lo + j < end
      BY <1>2, <1>10
    <3>2. sortedIds[lo + j] \in RoutesTo(e) /\ PlaceOf(sortedIds[lo + j]) = lo + j
      BY <3>1, <1>7 DEF end
    <3>3. QED  BY <3>1, <3>2, <1>3 DEF BlockOf
  <2>3. ASSUME NEW r \in RoutesTo(e), BlockOf(r) = b
        PROVE  \E j \in 0 .. v - 1 : sortedIds[lo + j] = r
    <3>1. PlaceOf(r) \in starts[e] .. starts[e] + counts[e] - 1 /\ sortedIds[PlaceOf(r)] = r
      BY <1>0, Places DEF Filled
    <3>2. PlaceOf(r) \in Nat /\ PlaceOf(r) < end
      BY <3>1, <1>1 DEF end
    <3>3. PlaceOf(r) - lo \in 0 .. BlockM - 1
      BY <3>2, <2>3, <1>3 DEF BlockOf
    <3> DEFINE j == PlaceOf(r) - lo
    <3>4. lo + j = PlaceOf(r) /\ j \in 0 .. BlockM - 1
      BY <3>2, <3>3, <1>3
    <3>5. j \in 0 .. v - 1
      BY <3>2, <3>4, <1>2, <1>10
    <3>6. QED  BY <3>1, <3>4, <3>5
  <2>4. QED  BY <2>1, <2>2, <2>3
<1>13. \A j \in 0 .. BlockM - 1 : j < ValidIn(b) <=> sortedIds[b * BlockM + j] < RouteCount
  BY <1>8, <1>10, <1>11 DEF lo
<1>14. QED  BY <1>5, <1>12, <1>13

LEMMA StartOfBlock ==
  ASSUME PlanSensible, NEW k \in Nat
  PROVE  k * BlockM \in Nat /\ (k * BlockM) \div BlockM = k
<1> DEFINE i == k * BlockM
<1>0. BlockM \in Nat \ {0}
  BY DEF PlanSensible
<1>1. i \in Nat /\ 1 * BlockM = BlockM
  BY <1>0
<1>2. k * BlockM <= i /\ i < k * BlockM + 1 * BlockM
  BY <1>0, <1>1
<1> HIDE DEF i
<1>3. k <= i \div BlockM /\ i \div BlockM < k + 1
  BY <1>1, <1>2, BlockOfPosition
<1>4. i \div BlockM \in Int
  BY <1>0, <1>1
<1>5. i \div BlockM = k
  BY <1>3, <1>4
<1>6. QED  BY <1>1, <1>5 DEF i

\* Every route belongs to a program of the counting kernel.
LEMMA RoutesAreCounted ==
  ASSUME PlanSensible, NEW r \in Routes
  PROVE  r \div BlockRoutes \in RouteBlocks
<1> DEFINE m == BlockRoutes
           n == RouteCount
           a == n + m - 1
           q == a \div m
           b == r \div m
<1>1. m \in Nat \ {0} /\ n \in Nat \ {0} /\ r \in 0 .. n - 1
  BY RoutesAreFinite DEF PlanSensible, Routes
<1> HIDE DEF m, n
<1>2. a \in Nat /\ q \in Nat /\ b \in Nat
      /\ a % m \in 0 .. m - 1 /\ r % m \in 0 .. m - 1
      /\ a = m * q + (a % m) /\ r = m * b + (r % m)
  BY <1>1
<1> DEFINE u == a % m
           v == r % m
           mq == m * q
           mb == m * b
<1>3. /\ u \in 0 .. m - 1 /\ v \in 0 .. m - 1 /\ mq \in Nat /\ mb \in Nat
      /\ n + m - 1 = mq + u /\ r = mb + v
      /\ (q <= b => mq <= mb)
  BY <1>1, <1>2
<1> HIDE DEF u, v, mq, mb
<1>4. ~(mq <= mb)
  BY <1>1, <1>3
<1>5. b \in 0 .. q - 1
  BY <1>2, <1>3, <1>4
<1>6. QED  BY <1>5 DEF RouteBlocks, m, n

LEMMA PlanStarts ==
  ASSUME PlanSensible, PlanInit
  PROVE  PlanInv
BY DEF PlanSensible, PlanInit, PlanInv, InputInv, CountInv, FillInv, GemmInv, SumInv, Counted, Planned

LEMMA MaskKeeps ==
  ASSUME PlanSensible, PlanInv, MaskRoutes
  PROVE  PlanInv'
<1>1. stage = "mask" /\ stage' = "count" /\ programs' = RouteBlocks
      /\ counts' = counts /\ gate' = gate /\ live' = live
  BY DEF MaskRoutes
<1>2. InputInv'
  <2>1. indices = gate /\ weights = [r \in Routes |-> "gate"]
    BY <1>1 DEF PlanInv, InputInv
  <2>2. indices' = Masked' /\ weights' = KeptWeights'
    BY <2>1, <1>1 DEF MaskRoutes, Masked, KeptWeights
  <2>3. QED  BY <1>1, <2>2 DEF PlanInv, InputInv
<1>3. CountInv'
  <2>1. \A e \in Experts : {r \in RoutesTo(e)' : r \div BlockRoutes \notin RouteBlocks} = {}
    BY RoutesAreCounted DEF RoutesTo
  <2>2. counts' = [e \in Experts |-> 0]
    BY <1>1 DEF PlanInv, CountInv
  <2>3. counts' = [e \in Experts |-> Cardinality({r \in RoutesTo(e)' : r \div BlockRoutes \notin RouteBlocks})]
    BY <2>1, <2>2, FS_EmptySet
  <2>4. QED  BY <2>3, <1>1 DEF CountInv, Counted
<1>4. FillInv' /\ GemmInv' /\ SumInv'
  BY <1>1 DEF FillInv, GemmInv, SumInv, Planned
<1>5. QED  BY <1>2, <1>3, <1>4 DEF PlanInv

LEMMA CountKeeps ==
  ASSUME PlanSensible, PlanInv, NEW p \in programs, CountRoutes(p)
  PROVE  PlanInv'
<1>1. /\ stage = "count" /\ stage' = "count" /\ programs' = programs \ {p}
      /\ gate' = gate /\ live' = live /\ indices' = indices /\ weights' = weights
      /\ counts' = [e \in Experts |-> counts[e] + Cardinality(RoutesIn(p) \cap RoutesTo(e))]
  BY DEF CountRoutes
<1>2. InputInv'
  BY <1>1 DEF PlanInv, InputInv, Masked, KeptWeights
<1> DEFINE Left(e) == {r \in RoutesTo(e) : r \div BlockRoutes \notin programs}
           New(e) == {r \in RoutesTo(e) : r \div BlockRoutes \notin programs \ {p}}
<1>3. CountInv'
  <2>1. programs \subseteq RouteBlocks /\ counts = [e \in Experts |-> Cardinality(Left(e))]
    BY <1>1 DEF PlanInv, CountInv
  <2>2. \A e \in Experts : counts[e] + Cardinality(RoutesIn(p) \cap RoutesTo(e)) = Cardinality(New(e))
    <3> TAKE e \in Experts
    <3> DEFINE S == Left(e)
               U == RoutesIn(p) \cap RoutesTo(e)
    <3>1. S \cap U = {} /\ New(e) = S \cup U
      BY DEF RoutesIn, RoutesTo
    <3>2. IsFiniteSet(S) /\ IsFiniteSet(U)
      <4>1. S \in SUBSET Routes /\ U \in SUBSET Routes
        BY DEF RoutesTo
      <4>2. QED  BY <4>1, RoutesAreFinite
    <3>3. counts[e] = Cardinality(S)
      BY <2>1
    <3> HIDE DEF S, U
    <3>4. Cardinality(S \cup U) = Cardinality(S) + Cardinality(U)
      BY <3>1, <3>2, DisjointUnion
    <3>5. QED  BY <3>1, <3>3, <3>4 DEF U
  <2>3. counts' = [e \in Experts |-> Cardinality(New(e))]
    BY <1>1, <2>2
  <2>4. \A e : RoutesTo(e)' = RoutesTo(e)
    BY <1>1 DEF RoutesTo
  <2>5. counts' = [e \in Experts |-> Cardinality({r \in RoutesTo(e)' : r \div BlockRoutes \notin programs'})]
    BY <1>1, <2>3, <2>4
  <2>6. QED  BY <1>1, <2>1, <2>5 DEF CountInv, Counted
<1>4. FillInv' /\ GemmInv' /\ SumInv'
  BY <1>1 DEF FillInv, GemmInv, SumInv, Planned
<1>5. QED  BY <1>2, <1>3, <1>4 DEF PlanInv

LEMMA OffsetsKeeps ==
  ASSUME PlanSensible, PlanInv, Offsets
  PROVE  PlanInv'
<1>1. /\ stage = "count" /\ programs = {} /\ stage' = "fill" /\ programs' = Experts
      /\ gate' = gate /\ live' = live /\ indices' = indices /\ weights' = weights /\ counts' = counts
  BY DEF Offsets
<1>2. InputInv'
  BY <1>1 DEF PlanInv, InputInv, Masked, KeptWeights
<1>3. CountInv'
  <2>1. counts = Histogram
    <3>1. \A e : {r \in RoutesTo(e) : r \div BlockRoutes \notin programs} = RoutesTo(e)
      BY <1>1
    <3>2. QED  BY <1>1, <3>1 DEF PlanInv, CountInv, Histogram
  <2>2. SumBefore([e \in Experts |-> PaddedSize(counts[e])]) = PaddedOffsets
    BY <2>1 DEF PaddedOffsets
  <2>3. starts' = [e \in Experts |-> PaddedOffsets[e]] /\ padded' = PaddedOffsets[NumExperts]
    BY <2>2 DEF Offsets
  <2>4. Histogram' = Histogram /\ PaddedOffsets' = PaddedOffsets
    BY <1>1 DEF Histogram, PaddedOffsets, RoutesTo
  <2>5. QED  BY <1>1, <2>1, <2>3, <2>4 DEF CountInv, ReferencePadded
<1>4. FillInv' /\ GemmInv' /\ SumInv'
  BY <1>1 DEF FillInv, GemmInv, SumInv, Planned
<1>5. QED  BY <1>2, <1>3, <1>4 DEF PlanInv

\* What a step leaves as it was when it leaves the plan alone.
LEMMA PlanKept ==
  ASSUME UNCHANGED <<gate, live, indices, weights, counts, starts, padded>>
  PROVE  /\ (stage # "mask" /\ stage' # "mask"
             /\ stage' \in {"mask", "count", "fill", "up", "down", "zero", "done"} /\ InputInv
                => InputInv')
         /\ (Counted /\ Counted' /\ CountInv => CountInv')
         /\ RouteCount' = RouteCount /\ PlanBlocks' = PlanBlocks
         /\ ValidRoutes' = ValidRoutes
         /\ \A e : RoutesTo(e)' = RoutesTo(e) /\ PaddingOf(e)' = PaddingOf(e) /\ BlocksOf(e)' = BlocksOf(e)
         /\ \A r : PlaceOf(r)' = PlaceOf(r) /\ BlockOf(r)' = BlockOf(r)
<1>1. \A e : RoutesTo(e)' = RoutesTo(e) /\ PaddingOf(e)' = PaddingOf(e) /\ BlocksOf(e)' = BlocksOf(e)
  BY DEF RoutesTo, PaddingOf, BlocksOf
<1>2. \A r : PlaceOf(r)' = PlaceOf(r) /\ BlockOf(r)' = BlockOf(r)
  BY <1>1 DEF PlaceOf, RankOf, BlockOf
<1>3. ValidRoutes' = ValidRoutes /\ PlanBlocks' = PlanBlocks /\ RouteCount' = RouteCount
  BY DEF ValidRoutes, PlanBlocks
<1>4. Histogram' = Histogram
  BY <1>1 DEF Histogram
<1>5. PaddedOffsets' = PaddedOffsets /\ ReferencePadded' = ReferencePadded
  BY <1>4 DEF PaddedOffsets, ReferencePadded
<1>6. Counted /\ Counted' /\ CountInv => CountInv'
  BY <1>4, <1>5 DEF CountInv, Counted
<1>7. stage # "mask" /\ stage' # "mask"
      /\ stage' \in {"mask", "count", "fill", "up", "down", "zero", "done"} /\ InputInv => InputInv'
  BY DEF InputInv, Masked, KeptWeights
<1>8. QED  BY <1>1, <1>2, <1>3, <1>6, <1>7

LEMMA FillKeeps ==
  ASSUME PlanSensible, PlanInv, NEW e \in programs, FillExpert(e)
  PROVE  PlanInv'
<1>1. /\ stage = "fill" /\ stage' = "fill" /\ programs' = programs \ {e}
      /\ UNCHANGED <<gate, live, indices, weights, counts, starts, padded>>
  BY DEF FillExpert, planVars
<1>2. e \in Experts /\ programs \subseteq Experts /\ Counted /\ Counted'
  BY <1>1 DEF PlanInv, FillInv, Counted
<1>3. InputInv' /\ CountInv'
  BY <1>1, <1>2, PlanKept DEF PlanInv
<1>4. /\ \A d \in Experts : RoutesTo(d)' = RoutesTo(d) /\ PaddingOf(d)' = PaddingOf(d)
                            /\ BlocksOf(d)' = BlocksOf(d)
      /\ \A r : PlaceOf(r)' = PlaceOf(r)
  BY <1>1, PlanKept
<1> DEFINE ids == [i \in 0 .. MaxPadded - 1 |->
          IF \E r \in RoutesTo(e) : PlaceOf(r) = i THEN CHOOSE r \in RoutesTo(e) : PlaceOf(r) = i
          ELSE IF i \in PaddingOf(e) THEN RouteCount ELSE sortedIds[i]]
<1>5. sortedIds' = ids /\ expertIds' = [b \in 0 .. MaxBlocks - 1 |-> IF b \in BlocksOf(e) THEN e ELSE expertIds[b]]
  BY DEF FillExpert
<1>6. Filled(e)'
  <2>1. \A r \in RoutesTo(e) : ids[PlaceOf(r)] = r
    <3> TAKE r \in RoutesTo(e)
    <3>1. PlaceOf(r) \in 0 .. MaxPadded - 1 /\ \A s \in RoutesTo(e) : PlaceOf(s) = PlaceOf(r) => s = r
      BY <1>2, Places DEF PlanInv
    <3>2. (CHOOSE s \in RoutesTo(e) : PlaceOf(s) = PlaceOf(r)) = r
      BY <3>1
    <3>3. QED  BY <3>1, <3>2
  <2>2. \A i \in PaddingOf(e) : ids[i] = RouteCount
    <3> TAKE i \in PaddingOf(e)
    <3>1. i \in 0 .. MaxPadded - 1 /\ \A r \in RoutesTo(e) : PlaceOf(r) # i
      BY <1>2, Places DEF PlanInv
    <3>2. QED  BY <3>1
  <2>3. \A b \in BlocksOf(e) : expertIds'[b] = e
    BY <1>5 DEF BlocksOf
  <2> HIDE DEF ids
  <2>4. QED  BY <1>2, <1>4, <1>5, <2>1, <2>2, <2>3 DEF Filled
<1>7. ASSUME NEW d \in Experts, d # e, Filled(d) PROVE Filled(d)'
  <2>1. \A i \in PartOf(d) : i \in 0 .. MaxPadded - 1 /\ i \notin PaddingOf(e) /\ \A r \in RoutesTo(e) : PlaceOf(r) # i
    <3>1. PartOf(d) \cap PartOf(e) = {} /\ PartOf(d) \subseteq 0 .. MaxPadded - 1
          /\ PaddingOf(e) \subseteq PartOf(e) /\ \A r \in RoutesTo(e) : PlaceOf(r) \in PartOf(e)
      BY <1>2, <1>7, Places DEF PlanInv
    <3>2. QED  BY <3>1
  <2>2. \A i \in PartOf(d) : ids[i] = sortedIds[i]
    BY <2>1
  <2>3. /\ \A r \in RoutesTo(d) : PlaceOf(r) \in PartOf(d)
        /\ PaddingOf(d) \subseteq PartOf(d)
    BY <1>2, Places DEF PlanInv
  <2>4. \A b \in BlocksOf(d) : b \notin BlocksOf(e) /\ b \in 0 .. MaxBlocks - 1
    <3> TAKE b \in BlocksOf(d)
    <3>1. b \in 0 .. MaxBlocks - 1 /\ b \in Nat
      BY DEF BlocksOf
    <3>2. b * BlockM \in Nat /\ (b * BlockM) \div BlockM = b
      BY <3>1, StartOfBlock
    <3>3. /\ b \in BlocksOf(d) <=> b * BlockM \in PartOf(d)
          /\ b \in BlocksOf(e) <=> b * BlockM \in PartOf(e)
      BY <3>2, <1>2, Parts DEF PlanInv
    <3>4. PartOf(d) \cap PartOf(e) = {}
      BY <1>2, <1>7, Places DEF PlanInv
    <3>5. QED  BY <3>1, <3>3, <3>4
  <2>5. \A b \in BlocksOf(d) : expertIds'[b] = expertIds[b]
    BY <1>5, <2>4
  <2> HIDE DEF ids
  <2>6. QED  BY <1>4, <1>5, <1>7, <2>2, <2>3, <2>5 DEF Filled
<1>8. FillInv'
  BY <1>1, <1>2, <1>6, <1>7 DEF PlanInv, FillInv, Planned
<1>9. GemmInv' /\ SumInv'
  BY <1>1 DEF GemmInv, SumInv
<1>10. QED  BY <1>3, <1>8, <1>9 DEF PlanInv

\* The blocks of the plan hold all routes.
LEMMA PlacesInBlocks ==
  ASSUME PlanSensible, PlanInv, Counted
  PROVE  \A r \in ValidRoutes : BlockOf(r) \in PlanBlocks
<1> TAKE r \in ValidRoutes
<1>1. PlaceOf(r) \in 0 .. padded - 1 /\ padded \in Nat
  BY Places, Parts DEF PlanInv
<1> DEFINE k == padded \div BlockM
           i == PlaceOf(r)
<1>2. k \in Nat /\ padded = k * BlockM /\ BlockM \in Nat \ {0}
  BY Parts DEF PlanInv, PlanSensible
<1>3. i \in Nat /\ i < padded
  BY <1>1
<1> HIDE DEF k, i
<1>4. 0 * BlockM <= i /\ i < 0 * BlockM + k * BlockM
  BY <1>2, <1>3
<1>5. i \div BlockM \in Int /\ 0 <= i \div BlockM /\ i \div BlockM < 0 + k
  BY <1>2, <1>3, <1>4, BlockOfPosition
<1>6. i \div BlockM \in 0 .. k - 1
  BY <1>2, <1>5
<1>7. QED  BY <1>6 DEF BlockOf, PlanBlocks, k, i

LEMMA StartKeeps ==
  ASSUME PlanSensible, PlanInv, StartGemm
  PROVE  PlanInv'
<1>1. /\ stage = "fill" /\ programs = {} /\ stage' = "up" /\ programs' = PlanBlocks
      /\ UNCHANGED <<gate, live, planVars, gemmVars>>
  BY DEF StartGemm
<1>2. Counted /\ Counted' /\ UNCHANGED planVars
  BY <1>1 DEF Counted
<1>3. InputInv' /\ CountInv'
  BY <1>1, <1>2, PlanKept DEF PlanInv, planVars
<1>4. FillInv'
  <2>1. \A e \in Experts : Filled(e)
    BY <1>1 DEF PlanInv, FillInv
  <2>2. \A e \in Experts : Filled(e)'
    BY <1>1, <2>1, PlanKept DEF Filled, planVars
  <2>3. QED  BY <1>1, <2>2 DEF FillInv
<1>5. GemmInv'
  <2>1. \A r \in ValidRoutes : BlockOf(r) \in PlanBlocks
    BY <1>2, PlacesInBlocks
  <2>2. PlanBlocks' = PlanBlocks /\ ValidRoutes' = ValidRoutes /\ \A r : BlockOf(r)' = BlockOf(r)
    BY <1>1, PlanKept DEF planVars
  <2>3. QED  BY <1>1, <2>1, <2>2 DEF GemmInv
<1>6. SumInv'
  BY <1>1 DEF SumInv
<1>7. QED  BY <1>3, <1>4, <1>5, <1>6 DEF PlanInv

\* A step of the GEMMs changes nothing that the plan is made of.
LEMMA GemmLeavesPlan ==
  ASSUME PlanSensible, PlanInv, Planned, Planned', UNCHANGED <<gate, live, planVars>>
  PROVE  /\ InputInv' /\ CountInv' /\ FillInv'
         /\ PlanBlocks' = PlanBlocks /\ ValidRoutes' = ValidRoutes
         /\ \A r : BlockOf(r)' = BlockOf(r)
<1>1. Counted /\ Counted' /\ UNCHANGED planVars /\ stage # "fill" /\ stage' # "fill"
      /\ stage' \in {"mask", "count", "fill", "up", "down", "zero", "done"}
  BY DEF Counted, Planned
<1>2. InputInv' /\ CountInv'
  BY <1>1, PlanKept DEF PlanInv, planVars, Planned
<1>3. FillInv'
  <2>1. \A e \in Experts : Filled(e)
    BY DEF PlanInv, FillInv
  <2>2. \A e \in Experts : Filled(e)'
    BY <1>1, <2>1, PlanKept DEF Filled, planVars
  <2>3. QED  BY <1>1, <2>2 DEF FillInv
<1>4. QED  BY <1>1, <1>2, <1>3, PlanKept DEF planVars

\* The rows of a block are the valid routes that are placed in it.
LEMMA RowsOfBlock ==
  ASSUME PlanSensible, PlanInv, Planned, NEW b \in PlanBlocks
  PROVE  \A r \in ValidRoutes : /\ r \in Routes
                                /\ r \in RowsOf(b) <=> BlockOf(r) = b
                                /\ BlockOf(r) = b => expertIds[b] = indices[r]
<1>1. PICK e \in Experts : /\ b \in BlocksOf(e) /\ expertIds[b] = e
                           /\ RowsOf(b) = {r \in RoutesTo(e) : BlockOf(r) = b}
  BY BlockContents DEF PlanInv
<1> TAKE r \in ValidRoutes
<1>0. Counted
  BY DEF Planned, Counted
<1>2. r \in Routes /\ indices[r] \in Experts /\ r \in RoutesTo(indices[r])
  BY DEF ValidRoutes, RoutesTo
<1>3. BlockOf(r) = b => indices[r] = e
  <2>1. SUFFICES ASSUME BlockOf(r) = b, indices[r] # e PROVE FALSE
    OBVIOUS
  <2>2. PlaceOf(r) \in PartOf(indices[r]) /\ PlaceOf(r) \in Nat
    BY <1>0, <1>2, Places DEF PlanInv
  <2>3. PlaceOf(r) \in PartOf(e) <=> PlaceOf(r) \div BlockM \in BlocksOf(e)
    BY <1>0, <2>2, Parts DEF PlanInv
  <2>4. PlaceOf(r) \in PartOf(e)
    BY <1>1, <2>1, <2>3 DEF BlockOf
  <2>5. PartOf(indices[r]) \cap PartOf(e) = {}
    BY <1>0, <1>2, <2>1, Places DEF PlanInv
  <2>6. QED  BY <2>2, <2>4, <2>5
<1>4. r \in RowsOf(b) => BlockOf(r) = b
  BY <1>1
<1>5. QED  BY <1>1, <1>2, <1>3, <1>4

LEMMA UpKeeps ==
  ASSUME PlanSensible, PlanInv, NEW b \in programs, Up(b)
  PROVE  PlanInv'
<1>1. /\ stage = "up" /\ stage' = "up" /\ programs' = programs \ {b}
      /\ UNCHANGED <<gate, live, planVars, routed, summed>>
      /\ Planned /\ Planned' /\ programs \subseteq PlanBlocks
  BY DEF Up, Planned, PlanInv, GemmInv
<1>2. /\ InputInv' /\ CountInv' /\ FillInv'
      /\ PlanBlocks' = PlanBlocks /\ ValidRoutes' = ValidRoutes
      /\ \A r : BlockOf(r)' = BlockOf(r)
  BY <1>1, GemmLeavesPlan
<1>3. ASSUME NEW r \in ValidRoutes PROVE BlockOf(r) \in programs \ {b} \/ Raised(r)'
  <2>1. /\ r \in Routes
        /\ r \in RowsOf(b) <=> BlockOf(r) = b
        /\ BlockOf(r) = b => expertIds[b] = indices[r]
    BY <1>1, RowsOfBlock
  <2>2. hidden'[r] = IF r \in RowsOf(b) THEN <<TokenOf(r), expertIds[b]>> ELSE hidden[r]
    BY <2>1 DEF Up
  <2>3. BlockOf(r) \in programs \/ Raised(r)
    BY <1>1 DEF PlanInv, GemmInv
  <2>4. indices' = indices
    BY <1>1 DEF planVars
  <2>5. QED  BY <2>1, <2>2, <2>3, <2>4 DEF Raised
<1>4. GemmInv'
  BY <1>1, <1>2, <1>3 DEF GemmInv
<1>5. SumInv'
  BY <1>1 DEF SumInv
<1>6. QED  BY <1>2, <1>4, <1>5 DEF PlanInv

LEMMA ActivateKeeps ==
  ASSUME PlanSensible, PlanInv, Activate
  PROVE  PlanInv'
<1>1. /\ stage = "up" /\ programs = {} /\ stage' = "down" /\ programs' = PlanBlocks
      /\ UNCHANGED <<gate, live, planVars, hidden>> /\ Planned /\ Planned'
  BY DEF Activate, Planned, gemmVars
<1>2. /\ InputInv' /\ CountInv' /\ FillInv'
      /\ PlanBlocks' = PlanBlocks /\ ValidRoutes' = ValidRoutes
      /\ \A r : BlockOf(r)' = BlockOf(r)
  BY <1>1, GemmLeavesPlan
<1>3. GemmInv'
  <2>1. \A r \in ValidRoutes : Raised(r)
    BY <1>1 DEF PlanInv, GemmInv
  <2>2. \A r \in ValidRoutes : Raised(r)'
    BY <1>1, <2>1 DEF Raised, planVars
  <2>3. \A r \in ValidRoutes : BlockOf(r) \in PlanBlocks
    BY <1>1, PlacesInBlocks DEF Planned, Counted
  <2>4. QED  BY <1>1, <1>2, <2>2, <2>3 DEF GemmInv
<1>4. SumInv'
  BY <1>1 DEF SumInv
<1>5. QED  BY <1>2, <1>3, <1>4 DEF PlanInv

LEMMA DownKeeps ==
  ASSUME PlanSensible, PlanInv, NEW b \in programs, Down(b)
  PROVE  PlanInv'
<1>1. /\ stage = "down" /\ stage' = "down" /\ programs' = programs \ {b}
      /\ UNCHANGED <<gate, live, planVars, hidden, summed>>
      /\ Planned /\ Planned' /\ programs \subseteq PlanBlocks
  BY DEF Down, Planned, PlanInv, GemmInv
<1>2. /\ InputInv' /\ CountInv' /\ FillInv'
      /\ PlanBlocks' = PlanBlocks /\ ValidRoutes' = ValidRoutes
      /\ \A r : BlockOf(r)' = BlockOf(r)
  BY <1>1, GemmLeavesPlan
<1>0. indices' = indices /\ weights' = weights
  BY <1>1 DEF planVars
<1>3. ASSUME NEW r \in ValidRoutes
      PROVE  Raised(r)' /\ (BlockOf(r) \in programs \ {b} \/ Lowered(r)')
  <2>1. /\ r \in Routes
        /\ r \in RowsOf(b) <=> BlockOf(r) = b
        /\ BlockOf(r) = b => expertIds[b] = indices[r]
    BY <1>1, RowsOfBlock
  <2>2. routed'[r] = IF r \in RowsOf(b)
                     THEN IF hidden[r] = Junk THEN Junk
                          ELSE <<hidden[r][1], hidden[r][2], expertIds[b], weights[r]>>
                     ELSE routed[r]
    BY <2>1 DEF Down
  <2>3. Raised(r) /\ (BlockOf(r) \in programs \/ Lowered(r))
    BY <1>1 DEF PlanInv, GemmInv
  <2>4. hidden[r] # Junk /\ hidden[r][1] = TokenOf(r) /\ hidden[r][2] = indices[r]
    BY <2>3 DEF Raised, Junk
  <2>5. BlockOf(r) = b => Lowered(r)'
    BY <2>1, <2>2, <2>4, <1>0 DEF Lowered
  <2>6. BlockOf(r) # b /\ Lowered(r) => Lowered(r)'
    BY <2>1, <2>2, <1>0 DEF Lowered
  <2>7. Raised(r)'
    BY <2>3, <1>0, <1>1 DEF Raised
  <2>8. QED  BY <2>3, <2>5, <2>6, <2>7
<1>4. GemmInv'
  BY <1>1, <1>2, <1>3 DEF GemmInv
<1>5. SumInv'
  BY <1>1 DEF SumInv
<1>6. QED  BY <1>2, <1>4, <1>5 DEF PlanInv

LEMMA ReduceKeeps ==
  ASSUME PlanSensible, PlanInv, Reduce
  PROVE  PlanInv'
<1>1. /\ stage = "down" /\ programs = {} /\ stage' = "zero" /\ summed' = Sums
      /\ UNCHANGED <<gate, live, planVars, hidden, routed>> /\ Planned /\ Planned'
  BY DEF Reduce, Planned, Sums
<1>2. InputInv' /\ CountInv' /\ FillInv' /\ ValidRoutes' = ValidRoutes
  BY <1>1, GemmLeavesPlan
<1>3. GemmInv'
  <2>1. \A r \in ValidRoutes : Lowered(r)
    BY <1>1 DEF PlanInv, GemmInv
  <2>2. \A r \in ValidRoutes : Lowered(r)'
    BY <1>1, <2>1 DEF Lowered, planVars
  <2>3. QED  BY <1>1, <1>2, <2>2 DEF GemmInv
<1>4. SumInv'
  BY <1>1 DEF SumInv, Sums
<1>5. QED  BY <1>2, <1>3, <1>4 DEF PlanInv

LEMMA ZeroKeeps ==
  ASSUME PlanSensible, PlanInv, ZeroRows
  PROVE  PlanInv'
<1>1. /\ stage = "zero" /\ stage' = "done"
      /\ summed' = [t \in 0 .. NumTokens - 1 |-> IF t >= live THEN Zero ELSE summed[t]]
      /\ UNCHANGED <<gate, live, planVars, hidden, routed>> /\ Planned /\ Planned'
  BY DEF ZeroRows, Planned
<1>2. InputInv' /\ CountInv' /\ FillInv' /\ ValidRoutes' = ValidRoutes
  BY <1>1, GemmLeavesPlan
<1>3. GemmInv'
  <2>1. \A r \in ValidRoutes : Lowered(r)
    BY <1>1 DEF PlanInv, GemmInv
  <2>2. \A r \in ValidRoutes : Lowered(r)'
    BY <1>1, <2>1 DEF Lowered, planVars
  <2>3. QED  BY <1>1, <1>2, <2>2 DEF GemmInv
<1>4. SumInv'
  <2>1. summed = Sums /\ Sums' = Sums
    BY <1>1 DEF PlanInv, SumInv, Sums
  <2>2. QED  BY <1>1, <2>1 DEF SumInv
<1>5. QED  BY <1>2, <1>3, <1>4 DEF PlanInv

(* THEOREM: what holds between the kernels, whatever the order of their      *)
(* programs, for every gate, every number of live rows and every size.       *)
THEOREM PlanInvHolds ==
  ASSUME PlanSensible
  PROVE  PlanSpec => []PlanInv
<1>1. PlanInit => PlanInv
  BY PlanStarts
<1>2. PlanInv /\ [PlanNext]_moeVars => PlanInv'
  <2> SUFFICES ASSUME PlanInv, [PlanNext]_moeVars PROVE PlanInv'
    OBVIOUS
  <2>1. CASE MaskRoutes
    BY <2>1, MaskKeeps
  <2>2. CASE \E p \in programs : CountRoutes(p)
    BY <2>2, CountKeeps
  <2>3. CASE Offsets
    BY <2>3, OffsetsKeeps
  <2>4. CASE \E e \in programs : FillExpert(e)
    BY <2>4, FillKeeps
  <2>5. CASE StartGemm
    BY <2>5, StartKeeps
  <2>6. CASE \E b \in programs : Up(b)
    BY <2>6, UpKeeps
  <2>7. CASE Activate
    BY <2>7, ActivateKeeps
  <2>8. CASE \E b \in programs : Down(b)
    BY <2>8, DownKeeps
  <2>9. CASE Reduce
    BY <2>9, ReduceKeeps
  <2>10. CASE ZeroRows
    BY <2>10, ZeroKeeps
  <2>11. CASE UNCHANGED moeVars
    <3>1. /\ UNCHANGED <<gate, live, indices, weights, counts, starts, padded, stage, programs,
                         sortedIds, expertIds, hidden, routed, summed>>
      BY <2>11 DEF moeVars, planVars, gemmVars
    <3>2. \A e : Filled(e)' = Filled(e)
      BY <3>1, PlanKept DEF Filled
    <3>3. FillInv' = FillInv /\ SumInv' = SumInv
      BY <3>1, <3>2 DEF FillInv, SumInv, Planned, Sums
    <3>4. \A r : Raised(r)' = Raised(r) /\ Lowered(r)' = Lowered(r)
      BY <3>1 DEF Raised, Lowered
    <3>5. GemmInv' = GemmInv
      BY <3>1, <3>4, PlanKept DEF GemmInv
    <3>6. InputInv' = InputInv
      BY <3>1 DEF InputInv, Masked, KeptWeights
    <3>7. Histogram' = Histogram /\ PaddedOffsets' = PaddedOffsets
      BY <3>1, PlanKept DEF Histogram, PaddedOffsets
    <3>8. CountInv' = CountInv
      BY <3>1, <3>7, PlanKept DEF CountInv, Counted, ReferencePadded
    <3>9. QED  BY <3>3, <3>5, <3>6, <3>8 DEF PlanInv
  <2>12. QED
    BY <2>1, <2>2, <2>3, <2>4, <2>5, <2>6, <2>7, <2>8, <2>9, <2>10, <2>11 DEF PlanNext
<1>3. QED  BY <1>1, <1>2, PTL DEF PlanSpec

-------------------------------------------------------------------------------
\* Where the sorting path puts a route is where its program puts it.
LEMMA SamePlaces ==
  ASSUME PlanSensible, PlanInv, Counted
  PROVE  /\ \A e \in Experts : PaddedOffsets[e] = starts[e]
                               /\ PaddedOffsets[e + 1] = starts[e] + PaddedSize(counts[e])
         /\ \A r \in ValidRoutes : ReferencePlace(r) = PlaceOf(r)
<1>1. counts = Histogram /\ starts = [e \in Experts |-> PaddedOffsets[e]]
  BY DEF PlanInv, CountInv
<1>2. indices \in [Routes -> Int]
  <2>1. Masked \in [Routes -> Int]
    BY DEF PlanInv, InputInv, Masked
  <2>2. QED  BY <2>1 DEF PlanInv, InputInv, Counted
<1>3. ASSUME NEW r \in ValidRoutes PROVE ReferencePlace(r) = PlaceOf(r)
  <2>1. indices[r] \in Experts /\ ReferencePlace(r) = PaddedOffsets[indices[r]] + RankOf(r)
    BY <1>2, SortedLikeRanked
  <2>2. starts[indices[r]] = PaddedOffsets[indices[r]]
    BY <1>1, <2>1
  <2>3. QED  BY <2>1, <2>2 DEF PlaceOf
<1>4. ASSUME NEW e \in Experts
      PROVE  PaddedOffsets[e] = starts[e] /\ PaddedOffsets[e + 1] = starts[e] + PaddedSize(counts[e])
  <2>1. PaddedOffsets[e + 1] = PaddedOffsets[e] + PartSizes[e]
    BY SumsAreNatural, SumIs
  <2>2. PartSizes[e] = PaddedSize(counts[e])
    BY <1>1 DEF PartSizes
  <2>3. QED  BY <1>1, <2>1, <2>2
<1>5. QED  BY <1>3, <1>4

LEMMA PlanInvAgrees ==
  ASSUME PlanSensible, PlanInv
  PROVE  PlansAgree
<1>1. SUFFICES ASSUME Planned
               PROVE  /\ padded = ReferencePadded
                      /\ \A r \in ValidRoutes : ReferencePlace(r) \in 0 .. padded - 1
                                                /\ sortedIds[ReferencePlace(r)] = r
                      /\ \A i \in 0 .. padded - 1 :
                           (\A r \in ValidRoutes : ReferencePlace(r) # i) => sortedIds[i] = RouteCount
                      /\ \A e \in Experts, b \in PlanBlocks :
                           PaddedOffsets[e] <= b * BlockM /\ b * BlockM < PaddedOffsets[e + 1]
                             => expertIds[b] = e
  BY DEF PlansAgree
<1>2. Counted /\ \A e \in Experts : Filled(e)
  BY <1>1 DEF Planned, Counted, PlanInv, FillInv
<1>3. padded = ReferencePadded
  BY <1>2 DEF PlanInv, CountInv
<1>4. ASSUME NEW r \in ValidRoutes
      PROVE  ReferencePlace(r) \in 0 .. padded - 1 /\ sortedIds[ReferencePlace(r)] = r
  <2>1. ReferencePlace(r) = PlaceOf(r) /\ indices[r] \in Experts /\ r \in RoutesTo(indices[r])
    BY <1>2, SamePlaces, Places DEF PlanInv
  <2>2. PlaceOf(r) \in 0 .. padded - 1 /\ sortedIds[PlaceOf(r)] = r
    BY <1>2, <2>1, Places DEF PlanInv, Filled
  <2>3. QED  BY <2>1, <2>2
<1>5. ASSUME NEW i \in 0 .. padded - 1, \A r \in ValidRoutes : ReferencePlace(r) # i
      PROVE  sortedIds[i] = RouteCount
  <2>1. PICK e \in Experts : i \in PartOf(e)
    BY <1>2, Parts DEF PlanInv
  <2>2. i \in starts[e] .. starts[e] + counts[e] - 1 \/ i \in PaddingOf(e)
    BY <1>2, <2>1, Places DEF PlanInv
  <2>3. i \notin starts[e] .. starts[e] + counts[e] - 1
    <3>1. SUFFICES ASSUME i \in starts[e] .. starts[e] + counts[e] - 1 PROVE FALSE
      OBVIOUS
    <3>2. PICK r \in RoutesTo(e) : PlaceOf(r) = i
      BY <1>2, <3>1, Places DEF PlanInv
    <3>3. r \in ValidRoutes
      BY DEF RoutesTo, ValidRoutes
    <3>4. QED  BY <1>2, <1>5, <3>2, <3>3, SamePlaces
  <2>4. QED  BY <1>2, <2>2, <2>3 DEF Filled
<1>6. ASSUME NEW e \in Experts, NEW b \in PlanBlocks,
             PaddedOffsets[e] <= b * BlockM, b * BlockM < PaddedOffsets[e + 1]
      PROVE  expertIds[b] = e
  <2>1. b \in Nat
    BY DEF PlanBlocks
  <2>2. b * BlockM \in Nat /\ (b * BlockM) \div BlockM = b
    BY <2>1, StartOfBlock
  <2>3. starts[e] \in Nat /\ PaddedSize(counts[e]) \in Nat
    BY <1>2, Parts DEF PlanInv
  <2>4. b * BlockM \in PartOf(e)
    <3> DEFINE i == b * BlockM
    <3>1. i \in Nat /\ starts[e] <= i /\ i < starts[e] + PaddedSize(counts[e])
      BY <1>2, <1>6, <2>2, SamePlaces
    <3> HIDE DEF i
    <3>2. i \in PartOf(e)
      BY <3>1, <2>3 DEF PartOf
    <3>3. QED  BY <3>2 DEF i
  <2>5. b \in BlocksOf(e)
    BY <1>2, <2>2, <2>4, Parts DEF PlanInv
  <2>6. QED  BY <1>2, <2>5 DEF Filled
<1>7. QED  BY <1>3, <1>4, <1>5, <1>6

LEMMA PlanInvRouted ==
  ASSUME PlanSensible, PlanInv
  PROVE  OutputsAreRouted
<1>1. SUFFICES ASSUME stage = "done", \A r \in Routes : TokenOf(r) < live => gate[r] \in Experts
               PROVE  \A t \in 0 .. NumTokens - 1 :
                        summed[t] = IF t >= live THEN Zero
                               ELSE [k \in 0 .. TopkCount |->
                                       IF k = TopkCount THEN <<t, "shared">>
                                       ELSE LET e == gate[t * TopkCount + k] IN <<t, e, e, "gate">>]
  BY DEF OutputsAreRouted
<1>2. /\ summed = [t \in 0 .. NumTokens - 1 |-> IF t >= live THEN Zero ELSE Sums[t]]
      /\ \A r \in ValidRoutes : Lowered(r)
      /\ indices = Masked /\ weights = KeptWeights /\ live \in Nat
  BY <1>1 DEF PlanInv, SumInv, GemmInv, InputInv
<1>3. ASSUME NEW t \in 0 .. NumTokens - 1, ~(t >= live), NEW k \in 0 .. TopkCount, k # TopkCount
      PROVE  routed[t * TopkCount + k] =
               <<t, gate[t * TopkCount + k], gate[t * TopkCount + k], "gate">>
  <2> DEFINE n == TopkCount
             c == NumTokens
             r == t * n + k
  <2>1. n \in Nat \ {0} /\ c \in Nat \ {0} /\ t \in 0 .. c - 1 /\ k \in 0 .. n - 1
    BY <1>3 DEF PlanSensible
  <2>2. RouteCount = c * n
    BY DEF RouteCount
  <2>3. r \in 0 .. c * n - 1
    <3>1. (t + 1) * n <= c * n /\ (t + 1) * n = t * n + n /\ t * n \in Nat /\ c * n \in Nat
      BY <2>1
    <3> DEFINE tn == t * n
               cn == c * n
    <3>2. tn \in Nat /\ cn \in Nat /\ tn + n <= cn
      BY <3>1
    <3> HIDE DEF tn, cn
    <3>3. tn + k \in 0 .. cn - 1
      BY <3>2, <2>1
    <3>4. QED  BY <3>3 DEF tn, cn
  <2>4. r \div n = t
    <3> HIDE DEF n
    <3> DEFINE q == r \div n
               tn == t * n
    <3>1. r \in Nat /\ q \in Nat /\ r = n * q + (r % n) /\ r % n \in 0 .. n - 1
      BY <2>1, <2>3
    <3>2. q < t => (q + 1) * n <= tn
      BY <2>1, <3>1
    <3>3. t < q => (t + 1) * n <= q * n
      BY <2>1, <3>1
    <3> DEFINE qn == q * n
               m == r % n
    <3>4. /\ qn \in Nat /\ tn \in Nat /\ m \in 0 .. n - 1 /\ tn + k = qn + m
          /\ (q < t => qn + n <= tn) /\ (t < q => tn + n <= qn)
      BY <2>1, <3>1, <3>2, <3>3
    <3>5. q \in Nat
      BY <3>1
    <3> HIDE DEF qn, tn, m, q
    <3>6. q = t
      BY <2>1, <3>4, <3>5
    <3>7. QED  BY <3>6 DEF q
  <2> HIDE DEF n, r, c
  <2>5. r \in Routes /\ TokenOf(r) = t
    BY <2>2, <2>3, <2>4 DEF Routes, TokenOf, n
  <2>6. t \in Nat /\ t < live
    BY <1>2, <1>3, <2>1
  <2>7. indices[r] = gate[r] /\ weights[r] = "gate" /\ gate[r] \in Experts
    BY <1>1, <1>2, <2>5, <2>6 DEF Masked, KeptWeights
  <2>8. r \in ValidRoutes
    BY <2>5, <2>7 DEF ValidRoutes
  <2>9. routed[r] = <<t, gate[r], gate[r], "gate">>
    BY <1>2, <2>5, <2>7, <2>8 DEF Lowered
  <2>10. QED  BY <2>9 DEF r, n
<1> TAKE t \in 0 .. NumTokens - 1
<1>4. CASE t >= live
  BY <1>2, <1>4
<1>5. CASE ~(t >= live)
  <2>1. summed[t] = [k \in 0 .. TopkCount |->
                       IF k = TopkCount THEN <<t, "shared">> ELSE routed[t * TopkCount + k]]
    BY <1>2, <1>5 DEF Sums
  <2>2. QED  BY <2>1, <1>3, <1>5
<1>6. QED  BY <1>4, <1>5

(* THEOREM PlansAlwaysAgree: counting, adding up and filling by programs in  *)
(* any order makes the plan that sorting the routes makes.                   *)
THEOREM PlansAlwaysAgree ==
  ASSUME PlanSensible
  PROVE  PlanSpec => []PlansAgree
<1>1. PlanInv => PlansAgree
  BY PlanInvAgrees
<1>2. QED  BY <1>1, PlanInvHolds, PTL

(* THEOREM PlansAlwaysFit: the buffers sized from route_count and            *)
(* num_experts alone hold the plan of every gate.                            *)
THEOREM PlansAlwaysFit ==
  ASSUME PlanSensible
  PROVE  PlanSpec => []PlanFits
<1>1. PlanInv => PlanFits
  <2> SUFFICES ASSUME PlanInv, stage = "fill"
               PROVE  /\ padded <= MaxPadded /\ padded \div BlockM <= MaxBlocks
                      /\ \A e \in Experts :
                           0 <= starts[e] /\ starts[e] + PaddedSize(counts[e]) <= padded
                      /\ \A e, f \in Experts : e < f => starts[e] + PaddedSize(counts[e]) <= starts[f]
    BY DEF PlanFits
  <2>1. Counted
    BY DEF Counted
  <2>2. /\ padded <= MaxPadded /\ padded \div BlockM \in 0 .. MaxBlocks /\ MaxBlocks \in Nat
        /\ \A e \in Experts : starts[e] \in Nat /\ starts[e] + PaddedSize(counts[e]) <= padded
        /\ \A e, f \in Experts : e < f => starts[e] + PaddedSize(counts[e]) <= starts[f]
    BY <2>1, Parts DEF PlanInv
  <2>3. QED  BY <2>2
<1>2. QED  BY <1>1, PlanInvHolds, PTL

(* THEOREM RoutesAlwaysComeFirst: the rows the GEMM works on in a block are  *)
(* those the plan has put there.                                             *)
THEOREM RoutesAlwaysComeFirst ==
  ASSUME PlanSensible
  PROVE  PlanSpec => []RoutesComeFirst
<1>1. PlanInv => RoutesComeFirst
  BY BlockContents DEF PlanInv, RoutesComeFirst
<1>2. QED  BY <1>1, PlanInvHolds, PTL

(* THEOREM OutputsAlwaysRouted: every live row is the sum over its own       *)
(* experts with its own weights, every other row is zero.                    *)
THEOREM OutputsAlwaysRouted ==
  ASSUME PlanSensible
  PROVE  PlanSpec => []OutputsAreRouted
<1>1. PlanInv => OutputsAreRouted
  BY PlanInvRouted
<1>2. QED  BY <1>1, PlanInvHolds, PTL
=================================================================================

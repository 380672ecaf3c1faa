---------------------------- MODULE EngineProofs ----------------------------
(* What the rest of the engine relies on when it captures and picks graphs,   *)
(* and when it allocates what it has planned.                                 *)
EXTENDS MemoryPlan, GraphRunner, FiniteSetTheorems, TLAPS

(* The next multiple of 8, or of 16, is at most 7, or 15, away. *)
LEMMA NextMultiple ==
  ASSUME NEW n \in Nat \ {0}
  PROVE  /\ \E b \in Nat : b % 8 = 0 /\ n <= b /\ b < n + 8
         /\ \E b \in Nat : b % 16 = 0 /\ n <= b /\ b < n + 16
<1>1. \E b \in Nat : b % 8 = 0 /\ n <= b /\ b < n + 8
  <2> DEFINE b == 8 * ((n + 7) \div 8)
  <2>1. b \in Nat /\ b % 8 = 0 /\ n <= b /\ b < n + 8
    BY SMT
  <2>2. QED  BY <2>1
<1>2. \E b \in Nat : b % 16 = 0 /\ n <= b /\ b < n + 16
  <2> DEFINE b == 16 * ((n + 15) \div 16)
  <2>1. b \in Nat /\ b % 16 = 0 /\ n <= b /\ b < n + 16
    BY SMT
  <2>2. QED  BY <2>1
<1>3. QED  BY <1>1, <1>2

(* A decode batch of any size up to the maximum has a bucket, and pad_batch   *)
(* adds fewer than 16 dummy rows to it: the gaps of the ladder around its     *)
(* joints (4 to 8, 256 to 272) and below an endpoint that is on no step.      *)
THEOREM PaddingIsSmall ==
  ASSUME NEW max \in Nat, NEW n \in 1 .. max
  PROVE  \E b \in Generated(max) : n <= b /\ b < n + 16
<1>0. n \in Nat \ {0}
  OBVIOUS
<1>1. max \in Generated(max)
  BY DEF Generated
<1>2. CASE max < n + 16
  BY <1>1, <1>2
<1>3. CASE max >= n + 16 /\ n <= 256
  <2>1. PICK b \in Nat : b % 8 = 0 /\ n <= b /\ b < n + 8
    BY <1>0, NextMultiple
  <2>2. b <= 256
    BY <2>1, <1>3
  <2>3. b \in Generated(max)
    BY <1>0, <1>3, <2>1, <2>2 DEF Generated
  <2>4. QED  BY <2>1, <2>3
<1>4. CASE max >= n + 16 /\ n > 256
  <2>1. PICK b \in Nat : b % 16 = 0 /\ n <= b /\ b < n + 16
    BY <1>0, NextMultiple
  <2>2. b >= 272
    BY <2>1, <1>4
  <2>3. b \in Generated(max)
    BY <1>0, <1>4, <2>1, <2>2 DEF Generated
  <2>4. QED  BY <2>1, <2>3
<1>5. QED  BY <1>2, <1>3, <1>4

(* A policy that is not refused captures graphs only for batches that the     *)
(* scheduler may run: nothing is captured for more than max_running_req rows, *)
(* whichever of the four sources the buckets come from.                       *)
THEOREM BucketsFitTheScheduler ==
  ASSUME NEW q, Askable(q), ~Refused(q)
  PROVE  Resolved(q) \subseteq 1 .. q.running
<1> SUFFICES ASSUME NEW b \in Resolved(q)
             PROVE  b \in 1 .. q.running
  OBVIOUS
<1>0. q.running \in Int /\ q.running >= 1
  BY DEF Askable, Refused
<1>1. ~Disabled(q)
  BY DEF Resolved
<1>2. CASE ByList(q)
  <2>1. b \in q.bs /\ q.bs \subseteq Int
    BY <1>1, <1>2 DEF Resolved, Askable, ByList
  <2>2. QED  BY <1>0, <1>1, <1>2, <2>1 DEF Refused
<1>3. CASE ByMax(q)
  <2>1. b \in Generated(q.maxBs) /\ q.maxBs \in Int
    BY <1>1, <1>3 DEF Resolved, Askable, ByMax
  <2>2. q.maxBs <= q.running
    BY <1>0, <1>1, <1>3, <2>1 DEF Refused
  <2>3. QED  BY <1>0, <2>1, <2>2 DEF Generated
<1>4. CASE ByDefaults(q)
  <2>1. b \in q.defaults /\ b <= q.running /\ q.defaults \subseteq Int
    BY <1>1, <1>4 DEF Resolved, Askable, ByDefaults
  <2>2. QED  BY <1>0, <1>1, <1>4, <2>1 DEF Refused
<1>5. CASE ~ByList(q) /\ ~ByMax(q) /\ ~ByDefaults(q)
  <2> DEFINE cap == Least3(q.legacyMax, q.running, ReleaseMaxBs)
  <2>1. b \in Generated(cap)
    BY <1>1, <1>5 DEF Resolved
  <2>2. cap \in Int /\ cap <= q.running
    BY <1>0, ReleaseAssumption DEF Askable, Least3
  <2> HIDE DEF cap
  <2>3. QED  BY <1>0, <2>1, <2>2 DEF Generated
<1>6. QED  BY <1>2, <1>3, <1>4, <1>5

-------------------------------------------------------------------------------
(* None, as the configuration files write it. *)
UnsetOK == Unset \notin Int /\ Unset # {}

(* A user who asks for no graph sizes gets a policy that is accepted, with    *)
(* every recipe and every max_running_req, and whose buckets reach the size   *)
(* that _adjust_config has chosen: every decode batch up to it is replayed    *)
(* with fewer than 16 dummy rows.  Larger batches, which a recipe with an     *)
(* explicit max_running_req allows, are decoded eagerly.                      *)
THEOREM UnaskedGraphsAreAccepted ==
  ASSUME UnsetOK, ReleaseMaxBs >= 256,
         NEW f, Configurable(f), ~Unsupported(f), AsksNoGraphs(f), RunningOf(f) >= 1
  PROVE  LET q == PolicyRequest(Adjusted(f))
         IN  /\ ~Refused(q)
             /\ ~f.disable =>
                  \A n \in 1 .. GraphMaxOf(f) :
                    \E b \in Resolved(q) : n <= b /\ b < n + 16
<1> DEFINE q == PolicyRequest(Adjusted(f))
<1>1. /\ RunningOf(f) \in Nat \ {0}
      /\ GraphMaxOf(f) \in Nat \ {0}
      /\ GraphMaxOf(f) <= RunningOf(f)
      /\ GraphMaxOf(f) <= 256
  <2>1. RunningOf(f) \in Nat
    BY DEF RunningOf, Recipes, Configurable, Unsupported
  <2>2. \A r \in DOMAIN Recipes : Recipes[r].graphMax \in 1 .. 256
    BY DEF Recipes
  <2>3. f.recipe # Unset => Recipes[f.recipe].graphMax \in 1 .. 256
    BY <2>2 DEF Unsupported
  <2>4. QED  BY <2>1, <2>3, SMTT(30) DEF GraphMaxOf, Lesser, DefaultGraphMaxBs
<1>2. /\ q.bs = Unset /\ q.maxBs = GraphMaxOf(f) /\ q.running = RunningOf(f)
      /\ q.disabled = (f.disable \/ ~(f.allow \/ ~(f.disable \/ f.bs = {} \/ GraphMaxOf(f) = 0)))
  <2>1. Adjusted(f).bs = f.bs /\ Adjusted(f).maxBs = GraphMaxOf(f)
        /\ Adjusted(f).running = RunningOf(f) /\ Adjusted(f).disable = f.disable
        /\ Adjusted(f).allow = (f.allow \/ ~(f.disable \/ f.bs = {} \/ GraphMaxOf(f) = 0))
    BY DEF Adjusted, Configurable
  <2>2. QED  BY <2>1 DEF PolicyRequest, AsksNoGraphs
<1>3. ByMax(q) /\ ~ByList(q) /\ ~ByDefaults(q)
  BY <1>1, <1>2 DEF ByMax, ByList, ByDefaults, UnsetOK
<1>4. ~Refused(q)
  BY <1>1, <1>2, <1>3, ReleaseAssumption DEF Refused
<1>5. ASSUME ~f.disable, NEW n \in 1 .. GraphMaxOf(f)
      PROVE  \E b \in Resolved(q) : n <= b /\ b < n + 16
  <2>1. ~Disabled(q)
    BY <1>1, <1>2, <1>5 DEF Disabled, UnsetOK, AsksNoGraphs
  <2>2. Resolved(q) = Generated(GraphMaxOf(f))
    BY <1>2, <1>3, <2>1 DEF Resolved
  <2>3. QED  BY <1>1, <1>5, <2>2, PaddingIsSmall
<1>6. QED  BY <1>4, <1>5

-------------------------------------------------------------------------------
LEMMA ProperSubset ==
  ASSUME NEW T, IsFiniteSet(T), NEW S, S \subseteq T, NEW x, x \in T, x \notin S
  PROVE  Cardinality(S) < Cardinality(T)
<1>1. IsFiniteSet(S) /\ Cardinality(S) <= Cardinality(T) /\ Cardinality(S) # Cardinality(T)
  BY FS_Subset
<1>2. Cardinality(S) \in Nat /\ Cardinality(T) \in Nat
  BY <1>1, FS_CardinalityType
<1>3. QED  BY <1>1, <1>2

LEMMA LayersAreFinite ==
  ASSUME NEW m, ModelOK(m), NEW ratio
  PROVE  /\ IsFiniteSet(LayersOf(m, ratio)) /\ Count(m, ratio) \in Nat
         /\ \A l : /\ IsFiniteSet({k \in LayersOf(m, ratio) : k < l})
                   /\ Cardinality({k \in LayersOf(m, ratio) : k < l}) \in Nat
<1>1. IsFiniteSet(LayerIds(m))
  <2>1. 0 \in Int /\ m.layers - 1 \in Int
    BY DEF ModelOK
  <2>2. QED  BY ONLY <2>1, FS_Interval DEF LayerIds
<1>2. IsFiniteSet(LayersOf(m, ratio))
  BY <1>1, FS_Subset DEF LayersOf
<1>3. ASSUME NEW l
      PROVE  IsFiniteSet({k \in LayersOf(m, ratio) : k < l})
  BY <1>2, FS_Subset, {k \in LayersOf(m, ratio) : k < l} \subseteq LayersOf(m, ratio)
<1>4. QED  BY <1>2, <1>3, FS_CardinalityType DEF Count

(* No two layers share a buffer of their kind, and the buffers, which have as *)
(* many layers as there are of the kind, have one for each: the counters of   *)
(* _build_layer_mapping never skip an index.                                  *)
THEOREM LayersHaveTheirBuffers ==
  ASSUME NEW m, ModelOK(m), NEW l \in LayerIds(m)
  PROVE  /\ IndexInKind(m, l) \in 0 .. Count(m, Ratio(m, l)) - 1
         /\ \A k \in LayerIds(m) :
              Ratio(m, k) = Ratio(m, l) /\ IndexInKind(m, k) = IndexInKind(m, l) => k = l
<1> DEFINE Kind == LayersOf(m, Ratio(m, l))
           Before(j) == {k \in Kind : k < j}
<1>1. LayerIds(m) \subseteq Int
  BY DEF LayerIds, ModelOK
<1>2. IsFiniteSet(Kind) /\ \A j : IsFiniteSet(Before(j)) /\ Cardinality(Before(j)) \in Nat
  BY LayersAreFinite
<1>3. l \in Kind /\ Kind \subseteq LayerIds(m)
  BY DEF LayersOf
<1>4. ASSUME NEW j \in Kind, NEW k \in LayerIds(m), j < k
      PROVE  Cardinality(Before(j)) < Cardinality(Before(k))
  <2>1. Before(j) \subseteq Before(k) /\ j \in Before(k) /\ j \notin Before(j)
    BY <1>1, <1>3, <1>4
  <2>2. QED  BY ONLY <1>2, <2>1, ProperSubset
<1>5. Before(l) \subseteq Kind /\ l \notin Before(l)
  BY <1>1, <1>3
<1>6. Cardinality(Before(l)) < Cardinality(Kind)
  BY ONLY <1>2, <1>3, <1>5, ProperSubset
<1>7. IndexInKind(m, l) \in 0 .. Count(m, Ratio(m, l)) - 1
  <2>1. Cardinality(Kind) \in Nat
    BY <1>2, FS_CardinalityType
  <2>2. QED  BY <1>2, <1>6, <2>1 DEF IndexInKind, Count
<1>8. ASSUME NEW k \in LayerIds(m),
             Ratio(m, k) = Ratio(m, l), IndexInKind(m, k) = IndexInKind(m, l)
      PROVE  k = l
  <2>1. k \in Kind
    BY <1>8 DEF LayersOf
  <2>2. Cardinality(Before(k)) = Cardinality(Before(l))
    BY <1>8 DEF IndexInKind
  <2> HIDE DEF Before
  <2>3. ~(k < l) /\ ~(l < k)
    BY <1>2, <1>3, <1>4, <2>1, <2>2
  <2>4. QED  BY <1>1, <2>3
<1>9. QED  BY <1>7, <1>8

-------------------------------------------------------------------------------
(* Sizes, in terms of a whole page of 256 tokens. *)
LEMMA PageSizes ==
  ASSUME NEW n \in Nat
  PROVE  /\ Tokens(n) = 256 * n /\ C4Slots(n) = 64 * n /\ C128Slots(n) = 2 * n
         /\ C4PageSize = 64 /\ C128PageSize = 2 /\ PageSize \div 4 = 64
         /\ C4Pages(n) = n /\ C128Pages(n) = n
         /\ CeilDiv(C4Slots(n), 64) = n
<1>1. Tokens(n) = 256 * n /\ C4Slots(n) = 64 * n /\ C128Slots(n) = 2 * n
  BY DEF Tokens, C4Slots, C128Slots, CeilDiv, PageSize
<1>2. C4PageSize = 64 /\ C128PageSize = 2 /\ PageSize \div 4 = 64
  BY DEF C4PageSize, C128PageSize, CeilDiv, PageSize, Larger
<1>3. CeilDiv(64 * n, 64) = n /\ CeilDiv(2 * n, 2) = n
  BY DEF CeilDiv
<1>4. QED  BY <1>1, <1>2, <1>3 DEF C4Pages, C128Pages

(* The pool that the engine asks for, with its dummy page after the others,   *)
(* is never refused by the checks of its constructor.                         *)
LEMMA PoolIsAccepted ==
  ASSUME NEW m, ModelOK(m), NEW n \in Nat
  PROVE  ~PoolRefused(m, n + 1, Tokens(n))
<1>1. n + 1 \in Nat
  OBVIOUS
<1>2. Tokens(n) = 256 * n /\ Tokens(n + 1) = 256 * (n + 1)
      /\ C4Slots(n + 1) = 64 * (n + 1) /\ C4PageSize = 64 /\ C4Pages(n + 1) = n + 1
  BY <1>1, PageSizes
<1>3. QED  BY <1>2 DEF PoolRefused, PageSize

LEMMA Quotients ==
  ASSUME NEW x \in Nat, NEW y \in Nat
  PROVE  /\ (512 * x + 4 - 1) \div 4 = 128 * x
         /\ (512 * x + 128 - 1) \div 128 = 4 * x
         /\ (256 * x + 1024 * y + 4 - 1) \div 4 = 64 * x + 256 * y
  OBVIOUS

(* One layer's share of a page, with the products as the solver likes them. *)
LEMMA ChargePerPage ==
  ASSUME NEW m, ModelOK(m)
  PROVE  /\ SwaBytesPerPage(m) = 512 * (m.layers * m.headDim)
         /\ EstimatedBytesPerPage(m) =
              SwaBytesPerPage(m) + 160 * (Count(m, 4) * m.headDim)
              + 4 * (Count(m, 128) * m.headDim)
              + 96 * (Count(m, 4) * m.indexDim) + 256 * Count(m, 4)
<1> DEFINE a == Count(m, 4) * m.headDim
           b == Count(m, 128) * m.headDim
           c == Count(m, 4) * m.indexDim
           e == m.layers * m.headDim
<1>1. Count(m, 4) \in Nat /\ Count(m, 128) \in Nat /\ m.headDim \in Nat /\ m.indexDim \in Nat
      /\ m.layers \in Nat
  BY LayersAreFinite DEF ModelOK
<1>2. a \in Nat /\ b \in Nat /\ c \in Nat /\ e \in Nat
  BY <1>1
<1>3. /\ m.layers * 256 * m.headDim * 2 = 512 * e
      /\ Count(m, 4) * 256 * m.headDim * 2 = 512 * a
      /\ Count(m, 128) * 256 * m.headDim * 2 = 512 * b
      /\ Count(m, 4) * 256 * (m.indexDim + 4) = 256 * c + 1024 * Count(m, 4)
      /\ Count(m, 4) * 4 * 2 * m.headDim * 4 = 32 * a
      /\ Count(m, 4) * 4 * 2 * m.indexDim * 4 = 32 * c
  BY <1>1
<1> HIDE DEF a, b, c, e
<1>4. /\ (512 * a + 4 - 1) \div 4 = 128 * a
      /\ (512 * b + 128 - 1) \div 128 = 4 * b
      /\ (256 * c + 1024 * Count(m, 4) + 4 - 1) \div 4 = 64 * c + 256 * Count(m, 4)
  <2>1. (512 * a + 4 - 1) \div 4 = 128 * a
    BY ONLY <1>2, Quotients
  <2>2. (512 * b + 128 - 1) \div 128 = 4 * b
    BY ONLY <1>2, Quotients
  <2> DEFINE k == Count(m, 4)
  <2>0. k \in Nat
    BY <1>1
  <2> HIDE DEF k
  <2>3. (256 * c + 1024 * k + 4 - 1) \div 4 = 64 * c + 256 * k
    BY ONLY <1>2, <2>0, Quotients
  <2> USE DEF k
  <2>4. QED  BY <2>1, <2>2, <2>3
<1>5. SwaBytesPerPage(m) = 512 * e
  BY <1>3 DEF SwaBytesPerPage, PageSize, Bf16
<1>6. EstimatedBytesPerPage(m) =
        SwaBytesPerPage(m) + 128 * a + 4 * b + (64 * c + 256 * Count(m, 4)) + 32 * a + 32 * c
  BY <1>3, <1>4 DEF EstimatedBytesPerPage, PageSize, Bf16, Fp32, CheckpointRows, CeilDiv
<1>7. QED  BY <1>1, <1>2, <1>5, <1>6 DEF a, b, c, e

LEMMA SlotsOK ==
  ASSUME NEW running \in Nat
  PROVE  Slots(running) \in Nat
BY DEF Slots, Larger

(* The two forms in which the code counts the buffers of the pool agree: what *)
(* the constructor allocates for n pages is n times what the plan charges for *)
(* a page, and the states of the request slots, and the SWA pages.            *)
THEOREM PoolIsAsEstimated ==
  ASSUME NEW m, ModelOK(m), NEW n \in Nat, NEW planned \in Nat, NEW running \in Nat
  PROVE  PoolBytes(m, n, planned, running) =
           SwaPagesOf(n, planned) * SwaBytesPerPage(m)
           + n * (EstimatedBytesPerPage(m) - SwaBytesPerPage(m))
           + C4StateBytes(m, running) + C128StateBytes(m, running)
<1> DEFINE k == Count(m, 4)
           h == Count(m, 128)
           D == m.headDim
           I == m.indexDim
           s == Slots(running)
           w == SwaPagesOf(n, planned)
<1>1. k \in Nat /\ h \in Nat /\ D \in Nat /\ I \in Nat /\ m.layers \in Nat
      /\ s \in Nat /\ w \in Nat
  BY LayersAreFinite, SlotsOK DEF ModelOK, SwaPagesOf, Larger, Lesser
<1>2. /\ C4Slots(n) = 64 * n /\ C128Slots(n) = 2 * n /\ C4Pages(n) = n
      /\ Larger(PageSize \div 4, 1) = 64 /\ CeilDiv(C4Slots(n), 64) = n
  BY PageSizes DEF Larger
<1>3. SwaBytesPerPage(m) = 512 * (m.layers * D)
      /\ EstimatedBytesPerPage(m) - SwaBytesPerPage(m) =
           160 * (k * D) + 4 * (h * D) + 96 * (k * I) + 256 * k
  <2>1. k * D \in Nat /\ h * D \in Nat /\ k * I \in Nat /\ m.layers * D \in Nat
    BY <1>1
  <2>2. SwaBytesPerPage(m) \in Nat
    BY <2>1, ChargePerPage
  <2>3. QED  BY <1>1, <2>1, <2>2, ChargePerPage
<1>4. C4StateBytes(m, running) = 128 * (s * (k * D)) + 128 * (s * (k * I))
  <2>1. k * s * 8 * 4 * (D + I) * 4 = 128 * (s * (k * D)) + 128 * (s * (k * I))
    BY <1>1
  <2>2. QED  BY <2>1 DEF C4StateBytes, C4RingSize, Fp32
<1>5. C128StateBytes(m, running) = 1024 * (s * (h * D))
  <2>1. h * s * 128 * 2 * D * 4 = 1024 * (s * (h * D))
    BY <1>1
  <2>2. QED  BY <2>1 DEF C128StateBytes, C128RingSize, Fp32
<1>6. /\ CheckpointPool(C4Pages(n), D) = n * 4 * (2 * D) * 4
      /\ CheckpointPool(C4Pages(n), I) = n * 4 * (2 * I) * 4
      /\ StatePool(s * 8, TRUE, D) = s * 8 * (4 * D) * 4
      /\ StatePool(s * 8, TRUE, I) = s * 8 * (4 * I) * 4
      /\ StatePool(s * 128, FALSE, D) = s * 128 * (2 * D) * 4
  BY <1>1, <1>2 DEF CheckpointPool, StatePool, CheckpointRows, Fp32
<1>7. PoolBytes(m, n, planned, running) =
        m.layers * w * 256 * D * 2 + k * (64 * n) * D * 2 + h * (2 * n) * D * 2
        + k * n * (64 * (I + 4))
        + k * (n * 4 * (2 * D) * 4 + n * 4 * (2 * I) * 4)
        + k * (s * 8 * (4 * D) * 4 + s * 8 * (4 * I) * 4)
        + h * (s * 128 * (2 * D) * 4)
  BY <1>2, <1>6, ZenonT(40) DEF PoolBytes, PageSize, Bf16, C4RingSize, C128RingSize
<1> HIDE DEF k, h, D, I, s, w
<1>8. /\ m.layers * w * 256 * D * 2 = w * (512 * (m.layers * D))
      /\ k * (64 * n) * D * 2 = n * (128 * (k * D))
      /\ h * (2 * n) * D * 2 = n * (4 * (h * D))
      /\ k * n * (64 * (I + 4)) = n * (64 * (k * I)) + n * (256 * k)
      /\ k * (n * 4 * (2 * D) * 4 + n * 4 * (2 * I) * 4) = n * (32 * (k * D)) + n * (32 * (k * I))
      /\ k * (s * 8 * (4 * D) * 4 + s * 8 * (4 * I) * 4)
           = 128 * (s * (k * D)) + 128 * (s * (k * I))
      /\ h * (s * 128 * (2 * D) * 4) = 1024 * (s * (h * D))
  BY <1>1
<1>9. n * (160 * (k * D) + 4 * (h * D) + 96 * (k * I) + 256 * k)
        = n * (128 * (k * D)) + n * (4 * (h * D)) + n * (64 * (k * I)) + n * (256 * k)
          + n * (32 * (k * D)) + n * (32 * (k * I))
  BY <1>1
<1>10. QED  BY <1>1, <1>3, <1>4, <1>5, <1>7, <1>8, <1>9 DEF w

-------------------------------------------------------------------------------
LEMMA CeilOK ==
  ASSUME NEW a \in Nat, NEW b \in Nat, a <= b
  PROVE  /\ CeilDiv(a, 256) \in Nat /\ CeilDiv(a, 256) <= CeilDiv(b, 256)
         /\ TableWidth(a) = 256 * CeilDiv(a, 256)
         /\ TableWidth(a) \in Nat /\ TableWidth(a) <= TableWidth(b)
         /\ CeilDiv(TableWidth(a), 256) = CeilDiv(a, 256)
<1>1. CeilDiv(a, 256) \in Nat /\ CeilDiv(b, 256) \in Nat
      /\ CeilDiv(a, 256) <= CeilDiv(b, 256)
  BY DEF CeilDiv
<1>2. Larger(32, 256) = 256
  BY DEF Larger
<1>3. \A x \in Nat : TableWidth(x) = CeilDiv(x, 256) * 256
  BY <1>2 DEF TableWidth, AlignUp, PageSize
<1>4. \A x \in Nat : CeilDiv(256 * x, 256) = x
  BY DEF CeilDiv
<1>5. QED  BY <1>1, <1>3, <1>4

(* A plan that is accepted promises its pages within its budget. *)
LEMMA PagesFitTheBudget ==
  ASSUME UnsetOK, NEW m, ModelOK(m), NEW d, RankOK(d), ~PlanRefused(m, d),
         KvBudget(m, d) \in Int
  PROVE  /\ NumPagesOf(m, d) \in Nat \ {0, 1} /\ BytesPerPage(m) \in Nat \ {0}
         /\ NumPagesOf(m, d) * BytesPerPage(m) <= KvBudget(m, d)
<1>1. BytesPerPage(m) \in Nat \ {0}
  <2>1. Count(m, 4) \in Nat /\ Count(m, 128) \in Nat /\ m.headDim \in Nat
        /\ m.indexDim \in Nat /\ m.layers \in Nat
    BY LayersAreFinite DEF ModelOK
  <2>2. Count(m, 4) * m.headDim \in Nat /\ Count(m, 128) * m.headDim \in Nat
        /\ Count(m, 4) * m.indexDim \in Nat /\ m.layers * m.headDim \in Nat
    BY <2>1
  <2>3. EstimatedBytesPerPage(m) - SwaBytesPerPage(m) \in Int
    BY <2>1, <2>2, ChargePerPage
  <2>4. QED  BY <2>3 DEF BytesPerPage, Larger
<1>2. \A x \in Int, y \in Nat \ {0} : x \div y \in Int /\ (x \div y) * y <= x
  OBVIOUS
<1>3. NumPagesOf(m, d) \in Int
  BY <1>1, <1>2 DEF NumPagesOf, RankOK
<1>4. NumPagesOf(m, d) * BytesPerPage(m) <= KvBudget(m, d)
  <2>1. CASE d.override = Unset
    BY <1>1, <1>2, <2>1 DEF NumPagesOf
  <2>2. CASE d.override # Unset
    <3>1. NumPagesOf(m, d) \in Nat /\ NumPagesOf(m, d) = d.override
      BY <2>2 DEF NumPagesOf, RankOK
    <3>2. ~(NumPagesOf(m, d) * BytesPerPage(m) > KvBudget(m, d))
      BY <2>2, <3>1 DEF PlanRefused
    <3>3. NumPagesOf(m, d) * BytesPerPage(m) \in Int
      BY <1>1, <3>1
    <3>4. QED  BY <3>2, <3>3
  <2>3. QED  BY <2>1, <2>2
<1>5. QED  BY <1>1, <1>3, <1>4 DEF PlanRefused

UnitsOK ==
  Window \in Nat /\ IndexTopk \in Nat /\ GiB \in Nat /\ ContextCap \in Nat \ {0}

(* A finite set of buckets has a largest one. *)
LEMMA LargestOK ==
  ASSUME NEW bs, bs \subseteq Nat, IsFiniteSet(bs)
  PROVE  /\ Largest(bs) \in Nat /\ \A b \in bs : b <= Largest(bs)
         /\ bs # {} => Largest(bs) \in bs
<1>1. CASE bs = {}
  BY <1>1 DEF Largest
<1>2. CASE bs # {}
  <2> DEFINE Above(b) == {c \in bs : c > b}
             T == {Above(b) : b \in bs}
  <2>1. T \subseteq FiniteSubsetsOf(bs) /\ T # {}
    <3>1. \A b \in bs : Above(b) \in SUBSET bs
      OBVIOUS
    <3> HIDE DEF Above
    <3>2. T \subseteq SUBSET bs /\ T # {}
      BY <1>2, <3>1
    <3>3. QED  BY <3>2, FS_FiniteSubsetsOfFinite
  <2>2. PICK D \in T : \A U \in T : <<U, D>> \notin StrictSubsetOrdering(bs)
    <3>1. IsWellFoundedOn(StrictSubsetOrdering(bs), FiniteSubsetsOf(bs))
      BY FS_StrictSubsetOrderingWellFounded
    <3>2. QED  BY <2>1, <3>1, WFMin, Zenon
  <2>3. PICK b \in bs : D = Above(b)
    BY <2>2
  <2>4. ASSUME NEW c \in bs, c > b PROVE FALSE
    <3>1. Above(c) \subseteq Above(b) /\ c \in Above(b) /\ c \notin Above(c)
      <4>1. \A x \in bs : x \in Nat
        OBVIOUS
      <4>2. ~(c > c) /\ \A x \in bs : x > c => x > b
        BY <2>4, <4>1
      <4>3. QED  BY <2>4, <4>2, Zenon
    <3>2. <<Above(c), D>> \in StrictSubsetOrdering(bs)
      BY <2>3, <3>1 DEF StrictSubsetOrdering
    <3>3. Above(c) \in T
      BY <2>4
    <3>4. QED  BY <2>2, <3>2, <3>3
  <2>5. \A c \in bs : c <= b
    BY <2>4
  <2>6. QED  BY <1>2, <2>5 DEF Largest
<1>3. QED  BY <1>1, <1>2

LEMMA EstimateOK ==
  ASSUME UnitsOK, NEW d, RankOK(d)
  PROVE  Estimate(d) \in Nat /\ GraphMargin(d.bs) \in Nat
<1> DEFINE short == ShortWidth(d.maxSeq)
           wide == WideWidth(d.maxSeq)
           max == Largest(d.bs)
<1>1. short \in Nat /\ wide \in Nat
  BY DEF UnitsOK, RankOK, ShortWidth, WideWidth, Lesser, Larger
<1>2. max \in Nat /\ MiB \in Nat
  BY LargestOK DEF RankOK, UnitsOK, MiB
<1>3. \A w \in Nat : CeilDiv(w, PageSize) \in Nat
  BY DEF CeilDiv, PageSize
<1>4. TableBytes(max, short) \in Nat /\ TableBytes(max, wide) \in Nat
  <2>1. \A x \in Nat : max * x * 4 * 4 \in Nat
    BY <1>2
  <2>2. QED  BY <1>1, <1>3, <2>1 DEF TableBytes, Int32
<1>5. CeilDiv(8 * MiB * Larger(short, wide), 1048576) \in Nat
  <2>1. 8 * MiB * Larger(short, wide) \in Nat
    BY <1>1, <1>2 DEF Larger
  <2>2. \A x \in Nat : (x + 1048576 - 1) \div 1048576 \in Nat
    OBVIOUS
  <2>3. QED  BY <2>1, <2>2 DEF CeilDiv
<1>6. d.bs # {} => Cardinality(d.bs) \in Nat \ {0}
  BY FS_CardinalityType, FS_EmptySet DEF RankOK
<1> DEFINE perRow == CeilDiv(8 * MiB * Larger(short, wide), 1048576)
           extra == (IF d.sampled THEN max * Int32 ELSE 0)
                    + (IF d.reasoning THEN max * Int32 ELSE 0)
<1>7. extra \in Nat /\ max * perRow \in Nat
  BY <1>2, <1>5 DEF Int32
<1>8. d.bs # {} => (Cardinality(d.bs) - 1) * 64 * MiB \in Nat /\ Cardinality(d.bs) * 32 * MiB \in Nat
  <2>1. \A x \in Nat : x * 64 * MiB \in Nat /\ x * 32 * MiB \in Nat
    BY <1>2
  <2>2. QED  BY <1>6, <2>1
<1>9. GraphEstimate(d.bs, short, wide, d.sampled, d.reasoning) =
        IF d.bs = {} THEN 0
        ELSE 768 * MiB + max * perRow
             + (Cardinality(d.bs) - 1) * 64 * MiB + Cardinality(d.bs) * 32 * MiB
             + TableBytes(max, short) + TableBytes(max, wide) + extra
             + 256 * MiB
  BY DEF GraphEstimate
<1>10. EmptyEstimate(d.bs) =
         IF d.bs = {} THEN 0
         ELSE 768 * MiB + max * (8 * MiB) + (Cardinality(d.bs) - 1) * 64 * MiB + 256 * MiB
  BY DEF EmptyEstimate
<1>11. max * (8 * MiB) \in Nat
  BY <1>2
<1>12. d.ampere => Estimate(d) = GraphEstimate(d.bs, short, wide, d.sampled, d.reasoning)
  BY DEF Estimate
<1>13. ~d.ampere => Estimate(d) = EmptyEstimate(d.bs)
  BY DEF Estimate
<1> HIDE DEF extra, perRow, max, short, wide
<1>14. Estimate(d) \in Nat
  <2>1. GraphEstimate(d.bs, short, wide, d.sampled, d.reasoning) \in Nat
    BY <1>2, <1>4, <1>7, <1>8, <1>9
  <2>2. EmptyEstimate(d.bs) \in Nat
    BY <1>2, <1>8, <1>10, <1>11
  <2>3. QED  BY <1>12, <1>13, <2>1, <2>2
<1>15. QED  BY <1>2, <1>14 DEF GraphMargin

LEMMA SwaPlanOK ==
  ASSUME UnsetOK, UnitsOK, NEW d, RankOK(d), d.override = Unset \/ d.override >= 1
  PROVE  SwaPlan(d) \in Nat \ {0}
<1> DEFINE tail == Larger(CeilDiv(Window, PageSize), 1)
           run == Larger(d.running, 1)
           forward == Larger(CeilDiv(d.maxForward, PageSize), 1)
           least == forward + run * (tail + 1) + 1
           planned == IF d.running >= 16 THEN Larger(least, d.running * 8) ELSE least
<1>1. tail \in Nat /\ forward \in Nat /\ run \in Nat
  BY DEF CeilDiv, PageSize, Larger, UnitsOK, RankOK
<1>2. run * (tail + 1) \in Nat
  BY <1>1
<1>3. planned \in Nat \ {0}
  BY <1>1, <1>2 DEF Larger, RankOK
<1>4. SwaPlan(d) = IF d.override = Unset THEN planned ELSE Lesser(planned, d.override)
  BY DEF SwaPlan, PlannedSwa
<1> HIDE DEF planned
<1>5. QED  BY <1>3, <1>4 DEF Lesser, RankOK

(* How many tables a class or the backend keeps: at most the four that the    *)
(* estimate charges.                                                          *)
LEMMA TablesOK ==
  ASSUME NEW m
  PROVE  Tables(m) \in 1 .. 4
BY DEF Tables

(* What a class of the captures keeps is a number of bytes.                   *)
LEMMA ClassBytesOK ==
  ASSUME UnitsOK, NEW m, NEW rows \in Nat, NEW width \in Nat
  PROVE  ClassBytes(m, rows, width) \in Nat
<1>1. Tables(m) \in Nat
  BY TablesOK
<1>2. \A x \in Nat : CeilDiv(x, 256) \in Nat /\ CeilDiv(x, 128) \in Nat /\ CeilDiv(x, 64) \in Nat
  BY DEF CeilDiv
<1>3. \A x \in Nat : AlignedColumns(x) \in Nat
  BY <1>2 DEF AlignedColumns, PageIndexAlignment
<1>4. \A x \in Nat : Larger(x, 1) \in Nat
  BY DEF Larger
<1> DEFINE pages == CeilDiv(Larger(width, 1), 256)
           c128 == AlignedColumns(Larger(CeilDiv(width, 128), 1))
           topk == AlignedColumns(Larger(IndexTopk, 1))
           swa == AlignedColumns(Window)
<1>5. pages \in Nat /\ c128 \in Nat /\ topk \in Nat /\ swa \in Nat
  <2>1. CeilDiv(width, 128) \in Nat /\ Larger(width, 1) \in Nat /\ Larger(IndexTopk, 1) \in Nat
    BY <1>2, <1>4 DEF UnitsOK
  <2>2. Larger(CeilDiv(width, 128), 1) \in Nat
    BY <1>4, <2>1
  <2>3. QED  BY <1>2, <1>3, <2>1, <2>2 DEF UnitsOK
<1>6. CapturedTableBytes(m, rows, width) = Tables(m) * (rows * pages * 4)
  BY DEF CapturedTableBytes, PageSize, Int32
<1>7. CapturedRowBytes(rows, width) = (rows * (swa + 3 * topk + 3 * c128) + 17 * rows + 1) * 4
  BY DEF CapturedRowBytes, Int32
<1> HIDE DEF pages, c128, topk, swa
<1>8. rows * pages * 4 \in Nat /\ rows * (swa + 3 * topk + 3 * c128) \in Nat
  BY <1>5
<1>9. CapturedTableBytes(m, rows, width) \in Nat
  BY <1>1, <1>6, <1>8
<1>10. CapturedRowBytes(rows, width) \in Nat
  <2>1. \A x \in Nat : (x + 17 * rows + 1) * 4 \in Nat
    OBVIOUS
  <2>2. QED  BY <1>7, <1>8, <2>1
<1>11. QED  BY <1>9, <1>10 DEF ClassBytes

(* So is everything that no plan has counted, for any number of pages.        *)
LEMMA SideBytesOK ==
  ASSUME UnitsOK, NEW m, ModelOK(m), NEW d, RankOK(d), NEW n \in Nat,
         BookkeepingBytes(n + 1, SwaPlan(d)) \in Nat
  PROVE  SideBytes(m, d, n) \in Nat
<1> DEFINE width == ServedWidth(d, n)
<1>1. width \in Nat
  <2>1. Tokens(n) \in Nat
    BY DEF Tokens, PageSize
  <2>2. EffectiveMaxSeqLen(d.maxSeq, Tokens(n)) \in Nat
    BY <2>1 DEF EffectiveMaxSeqLen, Lesser, RankOK
  <2>3. QED  BY <2>2, CeilOK DEF ServedWidth
<1>2. d.running \in Nat
  BY DEF RankOK
<1> HIDE DEF width
<1>3. ManagerBytes(n, d.running, width) \in Nat
  <2>1. \A x, y \in Nat : (x + 1) * y * 4 + n * 4 \in Nat
    OBVIOUS
  <2>2. QED  BY <1>1, <1>2, <2>1 DEF ManagerBytes, PageTableBytes, Int32
<1>4. TableCacheBytes(m, d.running, width) \in Nat
  <2>1. Larger(width, 1) \in Nat
    BY <1>1 DEF Larger
  <2>2. CeilDiv(Larger(width, 1), 256) \in Nat
    <3>1. \A x \in Nat : CeilDiv(x, 256) \in Nat
      BY DEF CeilDiv
    <3>2. QED  BY <2>1, <3>1
  <2>3. Tables(m) \in Nat
    BY TablesOK
  <2>4. \A x, y, z \in Nat : z * ((x + 1) * y * 4) \in Nat
    <3>1. \A x, y \in Nat : (x + 1) * y * 4 \in Nat
      OBVIOUS
    <3>2. \A z, u \in Nat : z * u \in Nat
      OBVIOUS
    <3>3. QED  BY <3>1, <3>2
  <2>5. QED  BY <1>2, <2>2, <2>3, <2>4 DEF TableCacheBytes, PageSize, Int32
<1>5. SurfaceBytes(m, d.bs, width) \in Nat
  <2>1. Largest(d.bs) \in Nat
    BY LargestOK DEF RankOK
  <2>2. ShortWidth(width) \in Nat /\ WideWidth(width) \in Nat
    BY <1>1 DEF ShortWidth, WideWidth, Lesser, Larger, UnitsOK
  <2>3. ClassBytes(m, Largest(d.bs), ShortWidth(width)) \in Nat
        /\ ClassBytes(m, Largest(d.bs), WideWidth(width)) \in Nat
    BY <2>1, <2>2, ClassBytesOK
  <2>4. QED  BY <2>3 DEF SurfaceBytes
<1>6. FusedOutsideCapture(m, d.bs) \in Nat
  <2>1. m.layers \in Nat /\ m.headDim \in Nat /\ m.qRank \in Nat /\ m.hidden \in Nat
    BY DEF ModelOK
  <2>2. \A x, y, z \in Nat : x * y * z * 2 \in Nat
    OBVIOUS
  <2>3. QED  BY <2>1, <2>2 DEF FusedOutsideCapture, FusedWeightBytes, Bf16
<1>7. SideBytes(m, d, n) = BookkeepingBytes(n + 1, SwaPlan(d))
        + ManagerBytes(n, d.running, width) + TableCacheBytes(m, d.running, width)
        + SurfaceBytes(m, d.bs, width) + FusedOutsideCapture(m, d.bs)
  BY DEF SideBytes, width
<1>8. QED  BY <1>3, <1>4, <1>5, <1>6, <1>7

(* A plan that is accepted fits every rank: on each of them, what the engine  *)
(* keeps after the plan (the pool with its dummy page, its bookkeeping, the   *)
(* page table, the token pool, the free list, the caches of the page tables,  *)
(* the surfaces of the captures, the fused weights) and what the graphs take, *)
(* if the capture is accepted, is no more than the rank has free, although    *)
(* the plan starts from the largest free memory of any rank and spends the    *)
(* memory of expert weights not yet released.  The plan counts the pool       *)
(* without the dummy page, the page table and the graphs, and nothing else:   *)
(* the rest has to come out of the share that memory_ratio leaves, together   *)
(* with the imbalance that is tolerated.  The theorem says how large that     *)
(* share must be; the code does not check that it is.                         *)
THEOREM PlanFitsEveryRank ==
  ASSUME UnsetOK, UnitsOK, NEW m, ModelOK(m), NEW d, RankOK(d),
         NEW R, NEW free \in [R -> Int], NEW r \in R,
         d.newFree = MaxFree(free), ~Imbalanced(free), ~PlanRefused(m, d),
         NEW actual \in Int, ~CaptureRefused(d, actual),
         NEW captured \in Int, captured <= actual,
         NEW released \in Int, released >= Larger(0, d.source),
         d.oldFree - d.target >= 2 * GiB + UnplannedBytes(m, d)
  PROVE  AllocatedBytes(m, d) + captured <= free[r] + released
<1> DEFINE n == NumPagesOf(m, d)
           B == BytesPerPage(m)
           S == SwaBytesPerPage(m)
           plan == SwaPlan(d)
           held == SwaPagesOf(n + 1, plan)
           c4 == C4StateBytes(m, d.running)
           c128 == C128StateBytes(m, d.running)
           tables == PageTableBytes(d.running, TableWidth(d.maxSeq))
           width == ServedWidth(d, n)
           books == BookkeepingBytes(n + 1, plan)
           side == SideBytes(m, d, n)
<1>1. Count(m, 4) \in Nat /\ Count(m, 128) \in Nat /\ m.headDim \in Nat
      /\ m.indexDim \in Nat /\ m.layers \in Nat /\ d.running \in Nat /\ d.maxSeq \in Nat
      /\ GiB \in Nat
  BY LayersAreFinite DEF ModelOK, RankOK, UnitsOK
<1>2. S \in Nat /\ EstimatedBytesPerPage(m) - S \in Nat /\ EstimatedBytesPerPage(m) - S <= B
  <2>1. Count(m, 4) * m.headDim \in Nat /\ Count(m, 128) * m.headDim \in Nat
        /\ Count(m, 4) * m.indexDim \in Nat /\ m.layers * m.headDim \in Nat
    BY <1>1
  <2>2. S \in Nat /\ EstimatedBytesPerPage(m) - S \in Nat
    BY <1>1, <2>1, ChargePerPage
  <2>3. QED  BY <2>2 DEF BytesPerPage, Larger
<1>3. c4 \in Nat /\ c128 \in Nat
  <2>1. Slots(d.running) \in Nat
    BY <1>1, SlotsOK
  <2>2. \A x, y, s \in Nat : x * s * 8 * 4 * y * 4 \in Nat /\ x * s * 128 * 2 * y * 4 \in Nat
    OBVIOUS
  <2>3. m.headDim + m.indexDim \in Nat
    BY <1>1
  <2>4. QED  BY <1>1, <2>1, <2>2, <2>3
             DEF C4StateBytes, C128StateBytes, C4RingSize, C128RingSize, Fp32
<1>4. tables \in Nat
  <2>1. TableWidth(d.maxSeq) \in Nat
    BY <1>1, CeilOK
  <2>2. \A x, y \in Nat : (x + 1) * y * 4 \in Nat
    OBVIOUS
  <2>3. QED  BY <1>1, <2>1, <2>2 DEF PageTableBytes, Int32
<1>5. Estimate(d) \in Nat /\ GraphMargin(d.bs) \in Nat
  BY EstimateOK
<1>6. plan \in Nat \ {0}
  <2>1. d.override = Unset \/ d.override >= 1
    BY DEF PlanRefused, NumPagesOf, RankOK
  <2>2. QED  BY <2>1, SwaPlanOK
<1>7. d.oldFree \in Int /\ d.newFree \in Int /\ d.target \in Int
      /\ Larger(0, d.source) \in Nat /\ plan * S \in Nat
  BY <1>2, <1>6 DEF RankOK, Larger
<1>8. KvBudget(m, d) = d.target - (d.oldFree - d.newFree) + Larger(0, d.source)
                       - plan * S - c4 - c128 - tables - Estimate(d) - GraphMargin(d.bs)
  BY DEF KvBudget
<1>9. KvBudget(m, d) \in Int
  BY <1>3, <1>4, <1>5, <1>7, <1>8
<1>10. n \in Nat /\ B \in Nat /\ n * B <= KvBudget(m, d)
  BY <1>9, PagesFitTheBudget
<1>11. held * S <= plan * S /\ held \in Nat /\ held >= 1
  <2>1. held \in Nat /\ held <= plan /\ held >= 1
    BY <1>6, <1>10 DEF SwaPagesOf, Larger, Lesser
  <2>2. QED  BY <1>2, <1>6, <2>1
<1>12. PoolBytes(m, n + 1, plan, d.running) <= plan * S + n * B + B + c4 + c128
  <2> DEFINE E == EstimatedBytesPerPage(m) - S
  <2>1. PoolBytes(m, n + 1, plan, d.running) = held * S + (n + 1) * E + c4 + c128
    BY <1>1, <1>6, <1>10, PoolIsAsEstimated
  <2>2. E \in Nat /\ E <= B
    BY <1>2
  <2> HIDE DEF E
  <2>3. (n + 1) * E <= n * B + B /\ (n + 1) * E \in Nat /\ n * B \in Nat
    BY <1>10, <2>2
  <2>4. QED  BY <1>2, <1>3, <1>6, <1>10, <1>11, <2>1, <2>3
<1>13. PageTableBytes(d.running, width) <= tables /\ PageTableBytes(d.running, width) \in Nat
  <2>1. Tokens(n) \in Nat
    BY <1>10 DEF Tokens, PageSize
  <2>2. EffectiveMaxSeqLen(d.maxSeq, Tokens(n)) \in Nat
        /\ EffectiveMaxSeqLen(d.maxSeq, Tokens(n)) <= d.maxSeq
    BY <1>1, <2>1 DEF EffectiveMaxSeqLen, Lesser
  <2>3. width \in Nat /\ TableWidth(d.maxSeq) \in Nat /\ width <= TableWidth(d.maxSeq)
    BY <1>1, <2>2, CeilOK DEF ServedWidth
  <2>4. \A x, y, z \in Nat : y <= z => (x + 1) * y * 4 <= (x + 1) * z * 4 /\ (x + 1) * y * 4 \in Nat
    OBVIOUS
  <2> HIDE DEF width
  <2>5. QED  BY <1>1, <2>3, <2>4 DEF PageTableBytes, Int32
<1>14. books \in Nat
  <2>1. n + 1 \in Nat
    BY <1>10
  <2>2. Tokens(n + 1) = 256 * (n + 1) /\ C4Slots(n + 1) = 64 * (n + 1)
        /\ C128Slots(n + 1) = 2 * (n + 1) /\ C4Pages(n + 1) = n + 1 /\ C128Pages(n + 1) = n + 1
    BY <2>1, PageSizes
  <2>3. books = (256 * (n + 1) + held + 2 * (64 * (n + 1)) + 2 * (n + 1)) * 2
                + (4 * (n + 1) + (held - 1) + 2 * (n + 1) + (n + 1)) * 4
    BY <2>2 DEF BookkeepingBytes, Int16, Int32
  <2>4. QED  BY <1>10, <1>11, <2>3
<1>15. d.newFree - free[r] <= 2 * GiB /\ free[r] \in Int
  BY <1>1, <1>7 DEF Imbalanced
<1>16. actual <= Estimate(d) + GraphMargin(d.bs)
  BY <1>5 DEF CaptureRefused
<1>17. UnplannedBytes(m, d) = B + side /\ side \in Nat
  <2>1. side \in Nat
    BY <1>10, <1>14, SideBytesOK
  <2>2. QED  BY <2>1 DEF UnplannedBytes
<1>18. AllocatedBytes(m, d) = PoolBytes(m, n + 1, plan, d.running)
                              + PageTableBytes(d.running, width) + side
  BY DEF AllocatedBytes
<1>19. PoolBytes(m, n + 1, plan, d.running) \in Int
  <2>1. (n + 1) * (EstimatedBytesPerPage(m) - S) \in Int /\ held * S \in Int
    BY <1>2, <1>10, <1>11
  <2>2. PoolBytes(m, n + 1, plan, d.running)
          = held * S + (n + 1) * (EstimatedBytesPerPage(m) - S) + c4 + c128
    BY <1>1, <1>6, <1>10, PoolIsAsEstimated
  <2>3. QED  BY <1>3, <2>1, <2>2
<1> DEFINE nB == n * B
           planS == plan * S
           table == PageTableBytes(d.running, width)
           pool == PoolBytes(m, n + 1, plan, d.running)
<1>20. nB \in Nat
  BY <1>10
<1> HIDE DEF n, B, S, plan, held, c4, c128, tables, width, books, side, nB, planS, table, pool
<1>21. QED
  BY <1>1, <1>3, <1>4, <1>5, <1>7, <1>8, <1>9, <1>10, <1>12, <1>13, <1>15, <1>16,
     <1>17, <1>18, <1>19, <1>20 DEF nB, planS, table, pool

(* The graph runner derives the two widths of its classes from the page table *)
(* that was allocated, which has been cut to the capacity and rounded up to   *)
(* pages, long after the estimate has derived them from the configuration:    *)
(* its page tables are never larger than those that were charged.             *)
THEOREM CapturedTablesAreCharged ==
  ASSUME UnitsOK, NEW m, NEW maxSeq \in Nat \ {0}, NEW capacity \in Nat \ {0}, NEW rows \in Nat
  PROVE  LET limit == TableWidth(EffectiveMaxSeqLen(maxSeq, capacity))
         IN  CapturedTableBytes(m, rows, ShortWidth(limit)) + CapturedTableBytes(m, rows, WideWidth(limit))
               <= TableBytes(rows, ShortWidth(maxSeq)) + TableBytes(rows, WideWidth(maxSeq))
<1> DEFINE e == EffectiveMaxSeqLen(maxSeq, capacity)
           limit == TableWidth(e)
<1>1. e \in Nat \ {0} /\ e <= maxSeq /\ maxSeq >= 1
  BY DEF EffectiveMaxSeqLen, Lesser
<1>2. limit \in Nat /\ CeilDiv(limit, 256) = CeilDiv(e, 256) /\ limit = 256 * CeilDiv(e, 256)
      /\ limit <= TableWidth(maxSeq)
      /\ CeilDiv(e, 256) \in Nat /\ CeilDiv(e, 256) <= CeilDiv(maxSeq, 256)
  BY <1>1, CeilOK
<1>3. limit >= 1
  <2>1. \A x \in Nat \ {0} : CeilDiv(x, 256) \in Nat \ {0}
    BY DEF CeilDiv
  <2> HIDE DEF limit, e
  <2>2. QED  BY <1>1, <1>2, <2>1
<1> HIDE DEF limit, e
<1>4. WideWidth(limit) = limit /\ WideWidth(maxSeq) = maxSeq
      /\ ShortWidth(limit) = Lesser(ContextCap, limit)
      /\ ShortWidth(maxSeq) = Lesser(ContextCap, maxSeq)
  BY <1>1, <1>2, <1>3 DEF WideWidth, ShortWidth, Larger
<1>5. CeilDiv(WideWidth(limit), 256) <= CeilDiv(WideWidth(maxSeq), 256)
  BY <1>2, <1>4
<1>6. CeilDiv(Larger(ShortWidth(limit), 1), 256) <= CeilDiv(Larger(ShortWidth(maxSeq), 1), 256)
  <2>1. CASE ContextCap <= maxSeq
    <3>1. Larger(ShortWidth(limit), 1) \in Nat /\ Larger(ShortWidth(maxSeq), 1) \in Nat
          /\ Larger(ShortWidth(limit), 1) <= Larger(ShortWidth(maxSeq), 1)
      BY <1>2, <1>4, <2>1 DEF Larger, Lesser, UnitsOK
    <3>2. QED  BY <3>1, CeilOK
  <2>2. CASE ContextCap > maxSeq
    <3>1. Larger(ShortWidth(limit), 1) \in Nat /\ Larger(ShortWidth(limit), 1) <= limit
          /\ Larger(ShortWidth(maxSeq), 1) = maxSeq
      BY <1>1, <1>2, <1>3, <1>4, <2>2 DEF Larger, Lesser, UnitsOK
    <3>2. CeilDiv(Larger(ShortWidth(limit), 1), 256) <= CeilDiv(limit, 256)
      BY <1>2, <3>1, CeilOK
    <3>3. CeilDiv(Larger(ShortWidth(limit), 1), 256) \in Nat
      BY <1>2, <3>1, CeilOK
    <3>4. CeilDiv(maxSeq, 256) \in Nat
      BY CeilOK
    <3>5. QED  BY <1>2, <3>1, <3>2, <3>3, <3>4
  <2>3. QED  BY <2>1, <2>2 DEF UnitsOK
<1>7. Larger(WideWidth(limit), 1) = WideWidth(limit)
      /\ Larger(ShortWidth(maxSeq), 1) = ShortWidth(maxSeq)
  BY <1>1, <1>2, <1>3, <1>4 DEF Larger, Lesser, UnitsOK
<1>8. \A w \in Nat : CeilDiv(w, 256) \in Nat
  BY DEF CeilDiv
<1>9. WideWidth(limit) \in Nat /\ WideWidth(maxSeq) \in Nat
      /\ ShortWidth(maxSeq) \in Nat /\ Larger(ShortWidth(limit), 1) \in Nat
  BY <1>1, <1>2, <1>4 DEF Larger, Lesser, UnitsOK
<1>10. \A x, y \in Nat : x <= y => /\ Tables(m) * (rows * x * 4) <= rows * y * 4 * 4
                                   /\ Tables(m) * (rows * x * 4) \in Nat
  <2>1. Tables(m) \in 1 .. 4
    BY TablesOK
  <2>2. \A k \in 1 .. 4 : \A z \in Nat : k * z <= 4 * z /\ k * z \in Nat
    OBVIOUS
  <2>3. \A x, y \in Nat : x <= y => /\ rows * x * 4 \in Nat
                                     /\ 4 * (rows * x * 4) <= rows * y * 4 * 4
    OBVIOUS
  <2> HIDE DEF Tables
  <2>4. TAKE x, y \in Nat
  <2>5. HAVE x <= y
  <2> DEFINE z == rows * x * 4
             w == rows * y * 4 * 4
  <2>6. z \in Nat /\ 4 * z <= w /\ w \in Nat
    BY <2>3, <2>5
  <2> HIDE DEF z, w
  <2>7. Tables(m) * z <= 4 * z /\ Tables(m) * z \in Nat /\ 4 * z \in Nat
    BY <2>1, <2>2, <2>6
  <2>8. Tables(m) * z <= w
    BY <2>6, <2>7
  <2>9. QED  BY <2>7, <2>8 DEF z, w
<1> DEFINE a == CeilDiv(Larger(ShortWidth(limit), 1), 256)
           b == CeilDiv(ShortWidth(maxSeq), 256)
           c == CeilDiv(WideWidth(limit), 256)
           f == CeilDiv(WideWidth(maxSeq), 256)
<1>11. a \in Nat /\ b \in Nat /\ c \in Nat /\ f \in Nat /\ a <= b /\ c <= f
  BY <1>5, <1>6, <1>7, <1>8, <1>9
<1>12. CapturedTableBytes(m, rows, ShortWidth(limit)) = Tables(m) * (rows * a * 4)
       /\ CapturedTableBytes(m, rows, WideWidth(limit)) = Tables(m) * (rows * c * 4)
       /\ TableBytes(rows, ShortWidth(maxSeq)) = rows * b * 4 * 4
       /\ TableBytes(rows, WideWidth(maxSeq)) = rows * f * 4 * 4
  BY <1>7 DEF CapturedTableBytes, TableBytes, PageSize, Int32
<1> HIDE DEF a, b, c, f
<1>13. Tables(m) * (rows * a * 4) + Tables(m) * (rows * c * 4)
         <= rows * b * 4 * 4 + rows * f * 4 * 4
  <2>1. Tables(m) * (rows * a * 4) <= rows * b * 4 * 4
        /\ Tables(m) * (rows * c * 4) <= rows * f * 4 * 4
    BY <1>10, <1>11
  <2>2. Tables(m) * (rows * a * 4) \in Nat /\ Tables(m) * (rows * c * 4) \in Nat
    BY <1>10, <1>11
  <2>3. rows * b * 4 * 4 \in Nat /\ rows * f * 4 * 4 \in Nat
    BY <1>11
  <2>4. QED  BY <2>1, <2>2, <2>3
<1>14. QED  BY <1>12, <1>13 DEF limit, e
-------------------------------------------------------------------------------
(* The runner of the graphs (GraphRunner).                                    *)

FiniteBuckets == RunnerOK /\ IsFiniteSet(Buckets)

(* A batch that is not larger than the largest bucket has a smallest bucket   *)
(* that holds it.                                                             *)
LEMMA BucketOK ==
  ASSUME FiniteBuckets, NEW n \in Nat \ {0}, n <= MaxGraphBs
  PROVE  Bucket(n) \in Buckets /\ Bucket(n) \in Nat /\ n <= Bucket(n)
         /\ Bucket(n) <= MaxGraphBs
<1>1. Buckets \subseteq Nat /\ MaxGraphBs \in Nat /\ \A b \in Buckets : b <= MaxGraphBs
  BY LargestOK DEF FiniteBuckets, RunnerOK, MaxGraphBs
<1>2. Buckets # {} /\ MaxGraphBs \in Buckets
  <2>1. Buckets # {}
    BY DEF MaxGraphBs, Largest
  <2>2. QED  BY <2>1, LargestOK DEF FiniteBuckets, RunnerOK, MaxGraphBs
<1> DEFINE K == {k \in Buckets : n <= k}
           D == {MaxGraphBs - k : k \in K}
<1>3. D \subseteq 0 .. MaxGraphBs /\ D # {}
  BY <1>1, <1>2
<1>4. D \subseteq Nat /\ IsFiniteSet(D)
  <2> HIDE DEF D
  <2>1. IsFiniteSet(0 .. MaxGraphBs)
    BY ONLY <1>1, FS_Interval, 0 \in Int, MaxGraphBs \in Int
  <2>2. IsFiniteSet(D)
    BY <1>3, <2>1, FS_Subset
  <2>3. D \subseteq Nat
    BY <1>1, <1>3
  <2>4. QED  BY <2>2, <2>3
<1>5. Largest(D) \in D /\ \A d \in D : d <= Largest(D)
  <2> HIDE DEF D
  <2> QED  BY <1>3, <1>4, LargestOK
<1>6. PICK k \in K : Largest(D) = MaxGraphBs - k
  BY <1>5
<1>7. \A j \in K : k <= j
  <2>1. ASSUME NEW j \in K PROVE k <= j
    <3>1. MaxGraphBs - j <= MaxGraphBs - k
      BY <1>5, <1>6
    <3>2. QED  BY <1>1, <3>1
  <2>2. QED  BY <2>1
<1>8. \E k1 \in Buckets : n <= k1 /\ \A j \in Buckets : n <= j => k1 <= j
  BY <1>6, <1>7
<1>9. Bucket(n) \in Buckets /\ n <= Bucket(n)
  BY <1>8 DEF Bucket
<1>10. QED  BY <1>1, <1>9

(* pad_batch and prepare_metadata agree on what a replay is.                  *)
LEMMA ReplayIsPadded ==
  ASSUME FiniteBuckets, NEW b \in Batches
  PROVE  /\ PaddedSize(b) \in Nat /\ b.size \in Nat \ {0} /\ b.size <= PaddedSize(b)
         /\ ClassOf(b) # None => ClassOf(b) \in Classes /\ Fits(b, ClassOf(b))
         /\ CanUseGraph(b) <=> b.decode /\ ClassOf(b) # None /\ PaddedSize(b) \in Buckets
         /\ CanUseGraph(b) => PaddedSize(b) <= MaxGraphBs /\ Buckets # {}
<1>1. b.size \in Nat \ {0} /\ b.decode \in BOOLEAN
  BY DEF FiniteBuckets, RunnerOK, LegalBatch
<1>2. ClassOf(b) # None => ClassOf(b) \in Classes /\ Fits(b, ClassOf(b))
  BY DEF ClassOf, Classes
<1>3. Buckets \subseteq Nat /\ MaxGraphBs \in Nat /\ \A k \in Buckets : k <= MaxGraphBs
  BY LargestOK DEF FiniteBuckets, RunnerOK, MaxGraphBs
<1>4. CASE CanUseGraph(b)
  <2>1. PaddedSize(b) = Bucket(b.size) /\ b.size <= MaxGraphBs
        /\ b.decode /\ ClassOf(b) # None
    BY <1>4 DEF PaddedSize, CanUseGraph, SupportsShape
  <2>2. QED  BY <1>1, <1>2, <1>4, <2>1, BucketOK
<1>5. CASE ~CanUseGraph(b)
  <2>1. PaddedSize(b) = b.size
    BY <1>5 DEF PaddedSize
  <2>2. ~(b.decode /\ ClassOf(b) # None /\ b.size \in Buckets)
    BY <1>3, <1>5 DEF CanUseGraph, SupportsShape
  <2>3. QED  BY <1>1, <1>2, <1>5, <2>1, <2>2
<1>6. QED  BY <1>4, <1>5

(* The rows that pad_batch has made of a batch.                               *)
OwnRow(b, i) == IF i < b.size THEN b.row[i] ELSE Dummy

BuffersHaveRows ==
  /\ DOMAIN input = Cells(MaxGraphBs) /\ DOMAIN surfaces = Classes
  /\ \A c \in Classes : DOMAIN surfaces[c] = Cells(MaxGraphBs)

GraphsAreComplete ==
  /\ \A k \in DOMAIN graphs : k \in GraphKeys /\ graphs[k] = [rows |-> k.m, over |-> k.class]
  /\ stage = "capturing" => prepares = TRUE /\ GraphKeys \subseteq DOMAIN graphs \cup todo
  /\ stage = "serving" =>
       GraphKeys \subseteq DOMAIN graphs /\ (Buckets # {} => prepares = TRUE)

PendingIsPrepared ==
  pending # None =>
    /\ stage = "serving" /\ pending.batch \in Batches
    /\ pending.class = ClassOf(pending.batch)
    /\ pending.padded = PaddedSize(pending.batch)
    /\ pending.raw <=> CanUseGraph(pending.batch)
    /\ pending.row = [i \in Cells(pending.padded) |-> OwnRow(pending.batch, i)]

RunnerInv == BuffersHaveRows /\ GraphsAreComplete /\ PendingIsPrepared /\ ComputesItsBatch

LEMMA RunnerInit == ASSUME FiniteBuckets, Init PROVE RunnerInv
<1>1. BuffersHaveRows
  BY DEF Init, BuffersHaveRows, BlankRows
<1>2. GraphsAreComplete /\ PendingIsPrepared /\ ComputesItsBatch
  BY DEF Init, GraphsAreComplete, NoGraphs, PendingIsPrepared, ComputesItsBatch
<1>3. QED  BY <1>1, <1>2 DEF RunnerInv

(* A launch whose preparation was complete finds its graph.                   *)
LEMMA LaunchIsReady ==
  ASSUME FiniteBuckets, RunnerInv, pending # None, CanUseGraph(pending.batch)
  PROVE  /\ KeyOf(pending) \in DOMAIN graphs /\ pending.raw
         /\ Fits(pending.batch, pending.class)
         /\ graphs[KeyOf(pending)] = [rows |-> pending.padded, over |-> pending.class]
         /\ pending.class \in Classes
<1>1. /\ stage = "serving" /\ pending.batch \in Batches /\ pending.raw
      /\ pending.class = ClassOf(pending.batch)
      /\ pending.padded = PaddedSize(pending.batch)
  BY DEF RunnerInv, PendingIsPrepared
<1>2. /\ pending.class \in Classes /\ Fits(pending.batch, pending.class)
      /\ pending.padded \in Buckets
  BY <1>1, ReplayIsPadded
<1>3. KeyOf(pending) = [m |-> pending.padded, class |-> pending.class]
  BY <1>1 DEF KeyOf
<1>4. KeyOf(pending) \in GraphKeys
  BY <1>2, <1>3 DEF GraphKeys
<1>5. KeyOf(pending) \in DOMAIN graphs
  BY <1>1, <1>4 DEF RunnerInv, GraphsAreComplete
<1>6. graphs[KeyOf(pending)] = [rows |-> pending.padded, over |-> pending.class]
  BY <1>3, <1>5 DEF RunnerInv, GraphsAreComplete
<1>7. QED  BY <1>1, <1>2, <1>5, <1>6

LEMMA PrepareKeeps ==
  ASSUME FiniteBuckets, RunnerInv, NEW b \in Batches, Prepare(b)
  PROVE  RunnerInv'
<1>1. BuffersHaveRows' /\ GraphsAreComplete' /\ ComputesItsBatch'
  BY DEF RunnerInv, Prepare, BuffersHaveRows, GraphsAreComplete, ComputesItsBatch, Cells
<1> DEFINE asks == prepares /\ b.decode /\ ClassOf(b) # None
<1>2. /\ stage' = "serving" /\ pending'.batch = b /\ pending'.class = ClassOf(b)
      /\ pending'.padded = PaddedSize(b)
      /\ pending'.row = [i \in Cells(PaddedSize(b)) |-> OwnRow(b, i)]
      /\ pending'.raw = (asks /\ PaddedSize(b) \in Buckets /\ Fits(b, selected'))
      /\ selected' = IF asks THEN ClassOf(b) ELSE selected
  BY DEF Prepare, OwnRow
<1>3. pending'.raw <=> CanUseGraph(b)
  <2>1. CASE CanUseGraph(b)
    <3>1. prepares /\ b.decode /\ ClassOf(b) # None
      BY <2>1, ReplayIsPadded DEF RunnerInv, GraphsAreComplete, Prepare
    <3>2. QED  BY <1>2, <2>1, <3>1, ReplayIsPadded
  <2>2. CASE ~CanUseGraph(b)
    BY <1>2, <2>2, ReplayIsPadded
  <2>3. QED  BY <2>1, <2>2
<1>4. PendingIsPrepared'
  BY <1>2, <1>3 DEF PendingIsPrepared, OwnRow, CanUseGraph, SupportsShape, PaddedSize, ClassOf
<1>5. QED  BY <1>1, <1>4 DEF RunnerInv

(* A replay reads, in the inputs and in the surfaces of its class, nothing    *)
(* but the rows that were written just before it.                             *)
LEMMA ReplayKeeps ==
  ASSUME FiniteBuckets, RunnerInv, Replay
  PROVE  RunnerInv'
<1> DEFINE b == pending.batch
           n == pending.padded
           c == pending.class
<1>1. /\ b \in Batches /\ n = PaddedSize(b) /\ c \in Classes
      /\ pending.row = [i \in Cells(n) |-> OwnRow(b, i)]
      /\ graphs[KeyOf(pending)] = [rows |-> n, over |-> c]
  BY LaunchIsReady DEF RunnerInv, PendingIsPrepared, Replay
<1>2. /\ n \in Nat /\ b.size \in Nat \ {0} /\ b.size <= n /\ n <= MaxGraphBs
      /\ MaxGraphBs \in Nat
  <2>1. MaxGraphBs \in Nat
    BY LargestOK DEF FiniteBuckets, RunnerOK, MaxGraphBs
  <2>2. QED  BY <1>1, <2>1, ReplayIsPadded DEF Replay
<1>3. \A i \in Cells(n) : i \in Cells(MaxGraphBs) /\ i < n
  BY <1>2 DEF Cells
<1>4. /\ input' = Over(input, pending.row, n)
      /\ surfaces' = [surfaces EXCEPT ![c] = Over(surfaces[c], pending.row, n)]
      /\ last' = [batch |-> b, mode |-> "graph", live |-> b.size,
                  row |-> [i \in Cells(n) |-> [input |-> input'[i], tables |-> surfaces'[c][i]]]]
      /\ pending' = None
      /\ UNCHANGED <<stage, todo, graphs, prepares>>
  BY <1>1 DEF Replay, PrepareForReplay
<1>5. /\ DOMAIN input = Cells(MaxGraphBs) /\ DOMAIN surfaces = Classes
      /\ \A d \in Classes : DOMAIN surfaces[d] = Cells(MaxGraphBs)
  BY DEF RunnerInv, BuffersHaveRows
<1>6. surfaces'[c] = Over(surfaces[c], pending.row, n) /\ DOMAIN surfaces' = Classes
      /\ \A d \in Classes \ {c} : surfaces'[d] = surfaces[d]
  BY <1>1, <1>4, <1>5
<1>7. BuffersHaveRows'
  <2>1. DOMAIN input' = Cells(MaxGraphBs)
    BY <1>4, <1>5 DEF Over
  <2>2. \A d \in Classes : DOMAIN (surfaces'[d]) = Cells(MaxGraphBs)
    <3>1. DOMAIN (surfaces'[c]) = Cells(MaxGraphBs)
      BY <1>1, <1>5, <1>6 DEF Over
    <3>2. QED  BY <1>5, <1>6, <3>1
  <2>3. QED  BY <1>6, <2>1, <2>2 DEF BuffersHaveRows
<1>8. GraphsAreComplete' /\ PendingIsPrepared'
  BY <1>4 DEF RunnerInv, GraphsAreComplete, PendingIsPrepared
<1>9. \A i \in Cells(n) : input'[i] = OwnRow(b, i) /\ surfaces'[c][i] = OwnRow(b, i)
  <2> SUFFICES ASSUME NEW i \in Cells(n)
               PROVE  input'[i] = OwnRow(b, i) /\ surfaces'[c][i] = OwnRow(b, i)
    OBVIOUS
  <2>1. i \in Cells(MaxGraphBs) /\ i < n /\ pending.row[i] = OwnRow(b, i)
    BY <1>1, <1>3
  <2>2. QED  BY <1>1, <1>4, <1>5, <1>6, <2>1 DEF Over
<1>10. /\ (last').batch = b /\ (last').live = b.size
       /\ (last').row = [i \in Cells(n) |-> [input |-> OwnRow(b, i), tables |-> OwnRow(b, i)]]
  BY <1>4, <1>9
<1>11. Cells(b.size) \subseteq Cells(n)
  BY <1>2 DEF Cells
<1>12. ComputesItsBatch'
  BY <1>10, <1>11 DEF ComputesItsBatch, OwnRow, Cells
<1>13. QED  BY <1>7, <1>8, <1>12 DEF RunnerInv

LEMMA EagerKeeps ==
  ASSUME FiniteBuckets, RunnerInv, Eager
  PROVE  RunnerInv'
<1> DEFINE b == pending.batch
           n == pending.padded
<1>1. /\ b \in Batches /\ n = PaddedSize(b)
      /\ pending.row = [i \in Cells(n) |-> OwnRow(b, i)]
  BY DEF RunnerInv, PendingIsPrepared, Eager
<1>2. n \in Nat /\ b.size \in Nat \ {0} /\ b.size <= n
  BY <1>1, ReplayIsPadded
<1>3. /\ (last').batch = b /\ (last').live = b.size
      /\ (last').row = [i \in Cells(n) |-> [input |-> OwnRow(b, i), tables |-> OwnRow(b, i)]]
  BY <1>1 DEF Eager
<1>4. Cells(b.size) \subseteq Cells(n)
  BY <1>2 DEF Cells
<1>5. ComputesItsBatch'
  BY <1>3, <1>4 DEF ComputesItsBatch, OwnRow, Cells
<1>6. BuffersHaveRows' /\ GraphsAreComplete' /\ PendingIsPrepared'
  BY DEF RunnerInv, Eager, BuffersHaveRows, GraphsAreComplete, PendingIsPrepared
<1>7. QED  BY <1>5, <1>6 DEF RunnerInv

LEMMA CaptureKeeps ==
  ASSUME RunnerInv, NEW k \in GraphKeys, Capture(k)
  PROVE  RunnerInv'
<1>1. BuffersHaveRows' /\ PendingIsPrepared' /\ ComputesItsBatch'
  BY DEF RunnerInv, Capture, BuffersHaveRows, PendingIsPrepared, ComputesItsBatch
<1>2. /\ DOMAIN graphs' = DOMAIN graphs \cup {k}
      /\ graphs'[k] = [rows |-> k.m, over |-> k.class]
      /\ \A j \in DOMAIN graphs : j # k => graphs'[j] = graphs[j]
  BY DEF Capture
<1>3. stage = "capturing" /\ stage' = "capturing" /\ prepares' = prepares /\ todo' = todo \ {k}
  BY DEF Capture
<1>4. GraphsAreComplete'
  BY <1>2, <1>3 DEF RunnerInv, GraphsAreComplete, GraphKeys
<1>5. QED  BY <1>1, <1>4 DEF RunnerInv

LEMMA RunnerStep == ASSUME FiniteBuckets, RunnerInv, [Next]_vars PROVE RunnerInv'
<1>1. CASE InitCapture
  <2>1. BuffersHaveRows' /\ PendingIsPrepared' /\ ComputesItsBatch'
    BY <1>1 DEF RunnerInv, InitCapture, BuffersHaveRows, PendingIsPrepared, ComputesItsBatch
  <2>2. Buckets = {} => GraphKeys = {}
    BY DEF GraphKeys
  <2>3. GraphsAreComplete'
    BY <1>1, <2>2 DEF RunnerInv, InitCapture, Bind, GraphsAreComplete
  <2>4. QED  BY <2>1, <2>3 DEF RunnerInv
<1>2. CASE CaptureFails
  BY <1>2 DEF RunnerInv, CaptureFails, BuffersHaveRows, GraphsAreComplete, PendingIsPrepared,
              ComputesItsBatch, NoGraphs
<1>3. CASE Finalize
  BY <1>3 DEF RunnerInv, Finalize, BuffersHaveRows, GraphsAreComplete, PendingIsPrepared,
              ComputesItsBatch, NoGraphs
<1>4. CASE LaunchFails
  BY <1>4, LaunchIsReady DEF RunnerInv, LaunchFails, PendingIsPrepared, BuffersHaveRows,
              GraphsAreComplete, ComputesItsBatch
<1>5. CASE UNCHANGED vars
  BY <1>5 DEF vars, RunnerInv, BuffersHaveRows, GraphsAreComplete, PendingIsPrepared,
              ComputesItsBatch
<1>6. QED
  BY <1>1, <1>2, <1>3, <1>4, <1>5, CaptureKeeps, PrepareKeeps, ReplayKeeps, EagerKeeps DEF Next

(* Every forward works on its own batch alone, whatever ran before it over    *)
(* the shared buffers.                                                        *)
THEOREM ReplaysOwnBatch == ASSUME FiniteBuckets PROVE Spec => []ComputesItsBatch
<1>1. Init => RunnerInv
  BY RunnerInit
<1>2. RunnerInv /\ [Next]_vars => RunnerInv'
  BY RunnerStep
<1>3. RunnerInv => ComputesItsBatch
  BY DEF RunnerInv
<1>4. QED  BY <1>1, <1>2, <1>3, PTL DEF Spec

(* A batch that was prepared for a graph finds it, and one that was not has   *)
(* metadata that an eager forward can read.                                   *)
THEOREM EveryLaunchSucceeds == ASSUME FiniteBuckets PROVE Spec => LaunchesSucceed
<1>1. Init => RunnerInv
  BY RunnerInit
<1>2. RunnerInv /\ [Next]_vars => RunnerInv'
  BY RunnerStep
<1>3. RunnerInv /\ [Next]_vars => [stage = "serving" => stage' = "serving"]_vars
  <2> SUFFICES ASSUME RunnerInv, Next, stage = "serving"
               PROVE  stage' = "serving"
    BY DEF vars
  <2>1. ~LaunchFails
    <3>1. CASE pending # None /\ CanUseGraph(pending.batch)
      BY <3>1, LaunchIsReady DEF LaunchFails
    <3>2. CASE pending # None /\ ~CanUseGraph(pending.batch)
      BY <3>2 DEF RunnerInv, PendingIsPrepared, LaunchFails
    <3>3. QED  BY <3>1, <3>2 DEF LaunchFails
  <2>2. QED
    BY <2>1 DEF Next, InitCapture, CaptureFails, Finalize, Capture, Prepare, Replay, Eager
<1>4. QED  BY <1>1, <1>2, <1>3, PTL DEF Spec, LaunchesSucceed

==============================================================================

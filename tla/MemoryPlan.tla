------------------------------ MODULE MemoryPlan ------------------------------
(* What the engine may allocate: the bytes it plans for before the KV pool     *)
(* exists (engine.py, graph_memory.py, the estimates at the end of             *)
(* kvcache/deepseek_v4_pool.py), and the bytes it then keeps (the constructor  *)
(* of DeepSeekV4KVCache, the request page table and its caches, the surfaces   *)
(* of the captures, the fused weights, the graphs).                            *)
(* The plan and the constructors count the same buffers in two forms, and the  *)
(* plan leaves some of them out.                                               *)
(*                                                                             *)
(* Left out here: what a forward takes for its duration (the code's own        *)
(* non_graph_activation_allowance_bytes is 0), the warm-ups before the pool    *)
(* exists, and the rounding of the device's allocator.                         *)
(*                                                                             *)
(* A model m has the fields layers, ratios (compress_ratios, which may be      *)
(* shorter), headDim, indexDim, hidden (hidden_size) and qRank (q_lora_rank).  *)
EXTENDS RuntimeConfig, Sequences, FiniteSets

CONSTANTS
  Window,        \* window_size
  IndexTopk,     \* index_topk
  GiB            \* 2^30, as a unit of the sizes below

Bf16 == 2
Fp32 == 4
Int32 == 4
Int16 == 2
MiB == GiB \div 1024
C4RingSize == 8
C128RingSize == 128
PageIndexAlignment == 64
CheckpointRows == 4

-------------------------------------------------------------------------------
(* The layers.                                                                 *)

LayerIds(m) == 0 .. m.layers - 1
Ratio(m, l) == IF l < Len(m.ratios) THEN m.ratios[l + 1] ELSE 0
LayersOf(m, ratio) == {l \in LayerIds(m) : Ratio(m, l) = ratio}
Count(m, ratio) == Cardinality(LayersOf(m, ratio))

\* _build_layer_mapping: the index of a layer in the buffer of its kind, the
\* number of the layers of this kind before it; any other ratio is refused.
IsMappable(m) == \A l \in LayerIds(m) : Ratio(m, l) \in {0, 4, 128}
IndexInKind(m, l) == Cardinality({k \in LayersOf(m, Ratio(m, l)) : k < l})

-------------------------------------------------------------------------------
(* The plan.                                                                   *)

SwaBytesPerPage(m) == m.layers * PageSize * m.headDim * Bf16

\* estimate_deepseek_v4_kvcache_bytes_per_page
EstimatedBytesPerPage(m) ==
  LET c4 == Count(m, 4)
      c128 == Count(m, 128)
  IN  SwaBytesPerPage(m)
      + CeilDiv(c4 * PageSize * m.headDim * Bf16, 4)
      + CeilDiv(c128 * PageSize * m.headDim * Bf16, 128)
      + CeilDiv(c4 * PageSize * (m.indexDim + 4), 4)
      + c4 * CheckpointRows * 2 * m.headDim * Fp32
      + c4 * CheckpointRows * 2 * m.indexDim * Fp32

\* What _determine_num_pages charges for a page, SWA being planned apart.
BytesPerPage(m) == Larger(EstimatedBytesPerPage(m) - SwaBytesPerPage(m), 1)

Slots(running) == Larger(running, 1) + 1

\* estimate_deepseek_v4_c4_sequence_state_bytes and its C128 counterpart
C4StateBytes(m, running) ==
  Count(m, 4) * Slots(running) * C4RingSize * 4 * (m.headDim + m.indexDim) * Fp32
C128StateBytes(m, running) ==
  Count(m, 128) * Slots(running) * C128RingSize * 2 * m.headDim * Fp32

\* _planned_dsv4_swa_independent_pages
PlannedSwa(running, maxForwardLen, override) ==
  LET tail == Larger(CeilDiv(Window, PageSize), 1)
      least == Larger(CeilDiv(maxForwardLen, PageSize), 1)
               + Larger(running, 1) * (tail + 1) + 1
      planned == IF running >= 16 THEN Larger(least, running * 8) ELSE least
  IN  IF override = Unset THEN planned ELSE Lesser(planned, override)

\* estimate_dsv4_sm80_graph_memory, for the buckets bs and the widths of the
\* context classes; none of it without buckets.
TableBytes(rows, width) == rows * CeilDiv(width, PageSize) * 4 * Int32

GraphEstimate(bs, short, wide, sampled, reasoning) ==
  LET max == Largest(bs)
      buckets == Cardinality(bs)
      perRow == CeilDiv(8 * MiB * Larger(short, wide), 1048576)
      extra == (IF sampled THEN max * Int32 ELSE 0) + (IF reasoning THEN max * Int32 ELSE 0)
  IN  IF bs = {} THEN 0
      ELSE 768 * MiB + max * perRow
           + (buckets - 1) * 64 * MiB + buckets * 32 * MiB
           + TableBytes(max, short) + TableBytes(max, wide) + extra
           + 256 * MiB
GraphMargin(bs) == IF bs = {} THEN 0 ELSE 512 * MiB

\* empty_graph_memory_estimate, for a device that is not Ampere: one class of
\* width 0, which has no tables, and the rows at the largest width.
EmptyEstimate(bs) ==
  IF bs = {} THEN 0
  ELSE 768 * MiB + Largest(bs) * (8 * MiB) + (Cardinality(bs) - 1) * 64 * MiB + 256 * MiB

-------------------------------------------------------------------------------
(* The decision.  d is what a rank knows: the configuration's running, maxSeq, *)
(* maxForward (the longest prefill, max_extend_tokens), override, bs, sampled  *)
(* and reasoning; ampere, whether the devices are; oldFree and newFree, the largest free                        *)
(* memory of any rank before and after the model is loaded; target, the share  *)
(* memory_ratio of oldFree; source, the bytes its raw expert weights will      *)
(* give back before the pool is allocated.                                     *)

Estimate(d) ==
  IF d.ampere
  THEN GraphEstimate(d.bs, ShortWidth(d.maxSeq), WideWidth(d.maxSeq), d.sampled, d.reasoning)
  ELSE EmptyEstimate(d.bs)
SwaPlan(d) == PlannedSwa(d.running, d.maxForward, d.override)
PageTableBytes(running, width) == (running + 1) * width * Int32

\* variable_kv_budget
KvBudget(m, d) ==
  d.target - (d.oldFree - d.newFree) + Larger(0, d.source)
  - SwaPlan(d) * SwaBytesPerPage(m)
  - C4StateBytes(m, d.running) - C128StateBytes(m, d.running)
  - PageTableBytes(d.running, TableWidth(d.maxSeq))
  - Estimate(d) - GraphMargin(d.bs)

\* select_num_pages: an override is never changed, only refused.
NumPagesOf(m, d) ==
  IF d.override = Unset THEN KvBudget(m, d) \div BytesPerPage(m) ELSE d.override
PlanRefused(m, d) ==
  \/ d.override # Unset /\ d.override * BytesPerPage(m) > KvBudget(m, d)
  \/ NumPagesOf(m, d) <= 1

\* _sync_get_memory: what the ranks have free may differ by two GiB.
MaxFree(free) == CHOOSE n \in {free[r] : r \in DOMAIN free} : \A r \in DOMAIN free : free[r] <= n
Imbalanced(free) == \E r \in DOMAIN free : MaxFree(free) - free[r] > 2 * GiB

\* compare_graph_capture, for the largest capture of any rank
CaptureRefused(d, actual) == actual > Estimate(d) + GraphMargin(d.bs)

-------------------------------------------------------------------------------
(* The allocations.                                                            *)

Tokens(pages) == pages * PageSize
C4Slots(pages) == CeilDiv(Tokens(pages), 4)
C128Slots(pages) == CeilDiv(Tokens(pages), 128)
C4PageSize == Larger(CeilDiv(PageSize, 4), 1)
C128PageSize == Larger(CeilDiv(PageSize, 128), 1)
C4Pages(pages) == CeilDiv(C4Slots(pages), C4PageSize)
C128Pages(pages) == CeilDiv(C128Slots(pages), C128PageSize)
SwaPagesOf(pages, planned) == Larger(1, Lesser(pages, planned))

\* The ValueErrors of the constructor.
PoolRefused(m, pages, dummyToken) ==
  \/ dummyToken < 0 \/ dummyToken > Tokens(pages) \/ dummyToken % PageSize # 0
  \/ Count(m, 4) > 0 /\ \/ PageSize % 4 # 0 \/ Tokens(pages) % 4 # 0
                        \/ C4Slots(pages) # Tokens(pages) \div 4
                        \/ C4PageSize # PageSize \div 4
                        \/ C4Pages(pages) # pages

\* DSV4CompressStatePool: KV and score rows, and those of the previous group
\* where groups overlap.
StatePool(rows, overlap, dim) == rows * (2 * (1 + (IF overlap THEN 1 ELSE 0)) * dim) * Fp32
\* DSV4C4CheckpointPool
CheckpointPool(pages, dim) == pages * CheckpointRows * (2 * dim) * Fp32

PoolBytes(m, pages, planned, running) ==
  LET c4 == Count(m, 4)
      c128 == Count(m, 128)
      indexerPage == Larger(PageSize \div 4, 1)
  IN  m.layers * SwaPagesOf(pages, planned) * PageSize * m.headDim * Bf16
      + c4 * C4Slots(pages) * m.headDim * Bf16
      + c128 * C128Slots(pages) * m.headDim * Bf16
      + c4 * CeilDiv(C4Slots(pages), indexerPage) * (indexerPage * (m.indexDim + 4))
      + c4 * (CheckpointPool(C4Pages(pages), m.headDim)
              + CheckpointPool(C4Pages(pages), m.indexDim))
      + c4 * (StatePool(Slots(running) * C4RingSize, TRUE, m.headDim)
              + StatePool(Slots(running) * C4RingSize, TRUE, m.indexDim))
      + c128 * StatePool(Slots(running) * C128RingSize, FALSE, m.headDim)

\* Reference counts, mappings and free lists, which no plan counts.
BookkeepingBytes(pages, planned) ==
  LET swa == SwaPagesOf(pages, planned)
  IN  (Tokens(pages) + swa + 2 * C4Slots(pages) + C128Slots(pages)) * Int16
      + (4 * pages + (swa - 1) + 2 * C4Pages(pages) + C128Pages(pages)) * Int32

\* A second table of the page table's shape, the token pool of TableManager,
\* and the free list of CacheManager.
ManagerBytes(n, running, width) == PageTableBytes(running, width) + n * Int32

\* The page tables of the pools that a layer of the model uses (C4's and the
\* indexer's, C128's), and one more, of the tokens or of SWA.
Tables(m) ==
  1 + (IF Count(m, 4) > 0 THEN 2 ELSE 0) + (IF Count(m, 128) > 0 THEN 1 ELSE 0)

\* The caches of the backend, with a row for every row of the page table
\* (_ensure_component_page_table_cache, _ensure_swa_page_table_cache).
TableCacheBytes(m, running, width) ==
  Tables(m) * ((running + 1) * CeilDiv(Larger(width, 1), PageSize) * Int32)

\* _empty_decode_metadata, the surfaces of one class: its page tables, the
\* columns of SWA, C4 and C128, 16 values of a row, and cu_seqlens_q.
CapturedTableBytes(m, rows, width) ==
  Tables(m) * (rows * CeilDiv(Larger(width, 1), PageSize) * Int32)
AlignedColumns(n) == CeilDiv(n, PageIndexAlignment) * PageIndexAlignment
CapturedRowBytes(rows, width) ==
  (rows * (AlignedColumns(Window) + 3 * AlignedColumns(Larger(IndexTopk, 1))
           + 3 * AlignedColumns(Larger(CeilDiv(width, 128), 1)))
   + 17 * rows + 1) * Int32
ClassBytes(m, rows, width) == CapturedTableBytes(m, rows, width) + CapturedRowBytes(rows, width)

\* _capture_graphs builds the surfaces of both classes before it reads the free
\* memory that the capture is measured from.
SurfaceBytes(m, bs, width) ==
  IF bs = {} THEN 0
  ELSE ClassBytes(m, Largest(bs), ShortWidth(width)) + ClassBytes(m, Largest(bs), WideWidth(width))

\* prepare_fused_wqa_wkv_bf16_weight_cache, for FP8 weights (others get none):
\* with graphs it is built after that reading and is part of what the capture
\* takes; without, nothing counts it.
FusedWeightBytes(m) == m.layers * (m.qRank + m.headDim) * m.hidden * Bf16
FusedOutsideCapture(m, bs) == IF bs = {} THEN FusedWeightBytes(m) ELSE 0

\* The width of the page table, cut to the capacity of n pages.
ServedWidth(d, n) == TableWidth(EffectiveMaxSeqLen(d.maxSeq, Tokens(n)))

\* What no plan has counted for n pages: the dummy page apart.
SideBytes(m, d, n) ==
  BookkeepingBytes(n + 1, SwaPlan(d))
  + ManagerBytes(n, d.running, ServedWidth(d, n))
  + TableCacheBytes(m, d.running, ServedWidth(d, n))
  + SurfaceBytes(m, d.bs, ServedWidth(d, n))
  + FusedOutsideCapture(m, d.bs)

\* Engine.__init__: the pool has one page more, the dummy page.
AllocatedBytes(m, d) ==
  LET n == NumPagesOf(m, d)
  IN  PoolBytes(m, n + 1, SwaPlan(d), d.running)
      + PageTableBytes(d.running, ServedWidth(d, n))
      + SideBytes(m, d, n)
\* What of it no plan has counted, or counted among what the capture takes.
UnplannedBytes(m, d) == BytesPerPage(m) + SideBytes(m, d, NumPagesOf(m, d))

-------------------------------------------------------------------------------
(* What the theorems assume of a model and of a rank.                          *)
ModelOK(m) ==
  /\ m.layers \in Nat /\ m.headDim \in Nat \ {0} /\ m.indexDim \in Nat \ {0}
  /\ m.ratios \in Seq(Nat) /\ {m.hidden, m.qRank} \subseteq Nat
RankOK(d) ==
  /\ d.running \in Nat \ {0} /\ d.maxSeq \in Nat \ {0} /\ d.maxForward \in Nat
  /\ d.bs \subseteq Nat \ {0} /\ IsFiniteSet(d.bs)
  /\ {d.ampere, d.sampled, d.reasoning} \subseteq BOOLEAN
  /\ d.override = Unset \/ d.override \in Nat
  /\ {d.oldFree, d.newFree, d.target, d.source} \subseteq Int
==============================================================================

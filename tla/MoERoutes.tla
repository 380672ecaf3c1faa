------------------------------- MODULE MoERoutes -------------------------------
(***************************************************************************)
(* The routed experts of one layer and forward: the gate picks experts for *)
(* every row, the rows that only pad the batch are masked, kernels of many *)
(* programs sort the routes by expert into blocks, and two GEMMs work on   *)
(* the blocks.  A kernel starts when the one before it has ended; its      *)
(* programs run in any order.                                              *)
(*                                                                         *)
(* A row that an expert works on is the token it comes from, the expert    *)
(* and, once applied, the weight; nothing is computed.  The GEMM is the    *)
(* vendored one (csrc/vendor/vllm_marlin_wna16): only which rows it reads  *)
(* and writes is kept.  A buffer from torch.empty holds Junk.              *)
(***************************************************************************)
EXTENDS Integers, FiniteSets

CONSTANTS
  NumTokens,    \* rows of the forward, the padding included
  TopkCount,    \* topk: experts of a token
  NumExperts,   \* num_experts
  BlockM,       \* block_size_m
  BlockRoutes,  \* routes of one program of the counting kernel
  Gates,        \* what the gate may pick: for each route an expert
  LiveCounts    \* what num_token_non_padded may be

RouteCount == NumTokens * TopkCount
Routes == 0 .. RouteCount - 1
TokenOf(r) == r \div TopkCount
Experts == 0 .. NumExperts - 1

\* What the theorems assume.  The experts of a token are valid; those of a
\* row that pads the batch need not be, nor differ.
PlanSensible ==
  /\ NumTokens \in Nat \ {0} /\ TopkCount \in Nat \ {0} /\ NumExperts \in 1 .. 1024
  /\ BlockM \in Nat \ {0} /\ BlockRoutes \in Nat \ {0}
  /\ LiveCounts \subseteq Nat
  /\ \A g \in Gates : g \in [Routes -> Int]

\* choose_block_size: the first that leaves less than 0.9 of a block of
\* routes to an expert.
BlockSizes == {8, 16, 32, 48, 64}
ChosenBlockSize(tokens, topk, experts) ==
  LET roomy == {b \in BlockSizes : 10 * tokens * topk < 9 * experts * b}
  IN  CHOOSE b \in BlockSizes :
        IF roomy = {} THEN b = 64 ELSE b \in roomy /\ \A c \in roomy : b <= c

BlocksFor(n) == (n + BlockM - 1) \div BlockM
PaddedSize(n) == BlocksFor(n) * BlockM
MaxPadded ==
  RouteCount + (IF NumExperts < RouteCount THEN NumExperts ELSE RouteCount) * (BlockM - 1)
MaxBlocks == BlocksFor(MaxPadded)

\* The sums of size over the experts before e (cumsum - size), and over all.
SumBefore(size) ==
  LET sum[e \in 0 .. NumExperts] == IF e = 0 THEN 0 ELSE sum[e - 1] + size[e - 1]
  IN  sum

Junk == <<>>
Zero == <<>>

VARIABLES
  stage,       \* the kernel that runs, or "done"
  programs,    \* its programs that have not run
  gate, live,  \* what the gate has picked, num_token_non_padded; both given
  indices, weights,    \* topk ids and whether their weight is the gate's or zero
  counts, starts, padded,   \* counts, padded_offsets, num_tokens_post_padded
  sortedIds, expertIds,
  hidden, routed,      \* w13_out and route_out, a row for each route
  summed               \* the output: for each row the terms it sums

planVars == <<indices, weights, counts, starts, padded, sortedIds, expertIds>>
gemmVars == <<hidden, routed, summed>>
moeVars == <<stage, programs, gate, live, planVars, gemmVars>>

-------------------------------------------------------------------------------
RouteBlocks == 0 .. (RouteCount + BlockRoutes - 1) \div BlockRoutes - 1
RoutesIn(p) == {r \in Routes : r \div BlockRoutes = p}
RoutesTo(e) == {r \in Routes : indices[r] = e}
RankOf(r) == Cardinality({x \in RoutesTo(indices[r]) : x < r})
PlaceOf(r) == starts[indices[r]] + RankOf(r)
PaddingOf(e) == starts[e] + counts[e] .. starts[e] + PaddedSize(counts[e]) - 1
BlocksOf(e) == {b \in 0 .. MaxBlocks - 1 :
                  starts[e] \div BlockM <= b /\ b < starts[e] \div BlockM + BlocksFor(counts[e])}

\* moe_gate: the experts are picked.
PlanInit ==
  /\ stage = "mask" /\ programs = {} /\ gate \in Gates /\ live \in LiveCounts
  /\ indices = gate /\ weights = [r \in Routes |-> "gate"]
  /\ counts = [e \in Experts |-> 0] /\ starts = [e \in Experts |-> 0] /\ padded = 0
  /\ sortedIds = [i \in 0 .. MaxPadded - 1 |-> -1] /\ expertIds = [b \in 0 .. MaxBlocks - 1 |-> 0]
  /\ hidden = [r \in Routes |-> Junk] /\ routed = [r \in Routes |-> Junk]
  /\ summed = [t \in 0 .. NumTokens - 1 |-> Junk]

(* mask_moe_routes_live_rows: the routes of rows that pad the batch go to   *)
(* no expert.  build_moe_route_plan then allocates its buffers (junk is -1  *)
(* here) and launches the count; it refuses more than 1024 experts.         *)
MaskRoutes ==
  /\ stage = "mask" /\ NumExperts <= 1024
  /\ indices' = [r \in Routes |-> IF TokenOf(r) >= live THEN -1 ELSE indices[r]]
  /\ weights' = [r \in Routes |-> IF TokenOf(r) >= live THEN "zero" ELSE weights[r]]
  /\ stage' = "count" /\ programs' = RouteBlocks
  /\ UNCHANGED <<gate, live, counts, starts, padded, sortedIds, expertIds, gemmVars>>

\* _moe_route_count_kernel: a program adds its routes to the counts, atomically.
CountRoutes(p) ==
  /\ stage = "count" /\ p \in programs /\ programs' = programs \ {p}
  /\ counts' = [e \in Experts |-> counts[e] + Cardinality(RoutesIn(p) \cap RoutesTo(e))]
  /\ UNCHANGED <<stage, gate, live, indices, weights, starts, padded, sortedIds, expertIds, gemmVars>>

\* _moe_route_offsets_kernel: every expert's part of the plan, in whole blocks.
Offsets ==
  /\ stage = "count" /\ programs = {}
  /\ LET sums == SumBefore([e \in Experts |-> PaddedSize(counts[e])])
     IN  starts' = [e \in Experts |-> sums[e]] /\ padded' = sums[NumExperts]
  /\ stage' = "fill" /\ programs' = Experts
  /\ UNCHANGED <<gate, live, indices, weights, counts, sortedIds, expertIds, gemmVars>>

(* _moe_route_fill_kernel: the program of an expert writes its routes in    *)
(* their order, fills up the last block with route_count, and writes the    *)
(* expert of its blocks.                                                    *)
FillExpert(e) ==
  /\ stage = "fill" /\ e \in programs /\ programs' = programs \ {e}
  /\ sortedIds' =
       [i \in 0 .. MaxPadded - 1 |->
          IF \E r \in RoutesTo(e) : PlaceOf(r) = i THEN CHOOSE r \in RoutesTo(e) : PlaceOf(r) = i
          ELSE IF i \in PaddingOf(e) THEN RouteCount ELSE sortedIds[i]]
  /\ expertIds' = [b \in 0 .. MaxBlocks - 1 |-> IF b \in BlocksOf(e) THEN e ELSE expertIds[b]]
  /\ UNCHANGED <<stage, gate, live, indices, weights, counts, starts, padded, gemmVars>>

-------------------------------------------------------------------------------
(* moe_wna16_marlin_gemm on block b: the routes in it are counted, and so   *)
(* many rows from its first on are worked on by the expert of the block.    *)
ValidIn(b) == Cardinality({j \in 0 .. BlockM - 1 : sortedIds[b * BlockM + j] < RouteCount})
RowsOf(b) == {sortedIds[b * BlockM + j] : j \in 0 .. ValidIn(b) - 1}
PlanBlocks == 0 .. padded \div BlockM - 1

\* run_moe: w13_out, activated, and route_out, which the first GEMM precedes.
StartGemm ==
  /\ stage = "fill" /\ programs = {} /\ stage' = "up" /\ programs' = PlanBlocks
  /\ UNCHANGED <<gate, live, planVars, gemmVars>>
Up(b) ==
  /\ stage = "up" /\ b \in programs /\ programs' = programs \ {b}
  /\ hidden' = [r \in Routes |->
                  IF r \in RowsOf(b) THEN <<TokenOf(r), expertIds[b]>> ELSE hidden[r]]
  /\ UNCHANGED <<stage, gate, live, planVars, routed, summed>>
Activate ==
  /\ stage = "up" /\ programs = {} /\ stage' = "down" /\ programs' = PlanBlocks
  /\ UNCHANGED <<gate, live, planVars, gemmVars>>
Down(b) ==
  /\ stage = "down" /\ b \in programs /\ programs' = programs \ {b}
  /\ routed' = [r \in Routes |->
                  IF r \in RowsOf(b)
                  THEN IF hidden[r] = Junk THEN Junk
                       ELSE <<hidden[r][1], hidden[r][2], expertIds[b], weights[r]>>
                  ELSE routed[r]]
  /\ UNCHANGED <<stage, gate, live, planVars, hidden, summed>>

\* The sum over the routes of a row, finalize_routed, and the shared experts.
Reduce ==
  /\ stage = "down" /\ programs = {} /\ stage' = "zero"
  /\ summed' = [t \in 0 .. NumTokens - 1 |->
             [k \in 0 .. TopkCount |->
                IF k = TopkCount THEN <<t, "shared">> ELSE routed[t * TopkCount + k]]]
  /\ UNCHANGED <<programs, gate, live, planVars, hidden, routed>>

\* zero_moe_padded_rows; the ranks then sum their outputs.
ZeroRows ==
  /\ stage = "zero" /\ stage' = "done"
  /\ summed' = [t \in 0 .. NumTokens - 1 |-> IF t >= live THEN Zero ELSE summed[t]]
  /\ UNCHANGED <<programs, gate, live, planVars, hidden, routed>>

PlanNext ==
  \/ MaskRoutes \/ (\E p \in programs : CountRoutes(p)) \/ Offsets
  \/ (\E e \in programs : FillExpert(e)) \/ StartGemm
  \/ (\E b \in programs : Up(b)) \/ Activate \/ (\E b \in programs : Down(b))
  \/ Reduce \/ ZeroRows
PlanSpec == PlanInit /\ [][PlanNext]_moeVars

-------------------------------------------------------------------------------
(* The plan as the CPU path of build_moe_route_plan makes it, by sorting    *)
(* the valid routes by expert and route, then spreading them.               *)
ValidRoutes == {r \in Routes : indices[r] \in Experts}
SortKey(r) == indices[r] * RouteCount + r
SortedPosition(r) == Cardinality({x \in ValidRoutes : SortKey(x) < SortKey(r)})
Histogram == [e \in Experts |-> Cardinality(RoutesTo(e))]
PaddedOffsets == SumBefore([e \in Experts |-> PaddedSize(Histogram[e])])
ReferencePlace(r) ==
  PaddedOffsets[indices[r]] + (SortedPosition(r) - SumBefore(Histogram)[indices[r]])
ReferencePadded == PaddedOffsets[NumExperts]

Planned == stage \in {"up", "down", "zero", "done"}

(* Whatever the order of the programs, the plan of the kernels is the plan  *)
(* of the sorting path: as long, every route in the same place, nothing but *)
(* route_count in the other places, and the same expert for every block.    *)
PlansAgree ==
  Planned =>
    /\ padded = ReferencePadded
    /\ \A r \in ValidRoutes : ReferencePlace(r) \in 0 .. padded - 1 /\ sortedIds[ReferencePlace(r)] = r
    /\ \A i \in 0 .. padded - 1 :
         (\A r \in ValidRoutes : ReferencePlace(r) # i) => sortedIds[i] = RouteCount
    /\ \A e \in Experts, b \in PlanBlocks :
         PaddedOffsets[e] <= b * BlockM /\ b * BlockM < PaddedOffsets[e + 1] => expertIds[b] = e

(* The buffers of the plan are sized before the counts are known, from      *)
(* route_count and num_experts alone.  They hold it: every expert's part is *)
(* inside them and no two overlap.                                          *)
PlanFits ==
  stage = "fill" =>
    /\ padded <= MaxPadded /\ padded \div BlockM <= MaxBlocks
    /\ \A e \in Experts :
         0 <= starts[e] /\ starts[e] + PaddedSize(counts[e]) <= padded
    /\ \A e, f \in Experts : e < f => starts[e] + PaddedSize(counts[e]) <= starts[f]

(* The GEMM takes the first rows of a block for its routes: in no block of  *)
(* the plan does padding come before a route.                               *)
RoutesComeFirst ==
  Planned =>
    \A b \in PlanBlocks : \A j \in 0 .. BlockM - 1 :
      j < ValidIn(b) <=> sortedIds[b * BlockM + j] < RouteCount

(* The row of every token is the sum over exactly the experts its gate has  *)
(* picked, each applied to that token with its weight, plus the shared      *)
(* experts; a row that pads the batch is zero.  No row that no block wrote  *)
(* gets in.                                                                 *)
OutputsAreRouted ==
  stage = "done" /\ (\A r \in Routes : TokenOf(r) < live => gate[r] \in Experts) =>
    \A t \in 0 .. NumTokens - 1 :
      summed[t] = IF t >= live THEN Zero
             ELSE [k \in 0 .. TopkCount |->
                     IF k = TopkCount THEN <<t, "shared">>
                     ELSE LET e == gate[t * TopkCount + k] IN <<t, e, e, "gate">>]
===============================================================================

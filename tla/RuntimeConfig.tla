---------------------------- MODULE RuntimeConfig ----------------------------
(* How the engine completes its configuration before anything is allocated    *)
(* (engine.py, _adjust_config and the helpers around it).  A configuration f  *)
(* has the fields                                                             *)
(*   recipe            dsv4_sm80_recipe, or Unset                             *)
(*   running           max_running_req; runningExplicit: it was given         *)
(*   bs, maxBs         cuda_graph_bs and cuda_graph_max_bs, or Unset          *)
(*   disable, allow    disable_cuda_graph, allow_dsv4_cuda_graph              *)
(*   context           context_length, or Unset                               *)
(*   deepseek, backend, pageSize                                              *)
EXTENDS GraphPolicy

CONSTANT ContextCap        \* cuda_graph_context_cap, 32 * 1024

PageSize == 256            \* the one page size that is not refused
DefaultGraphMaxBs == 128
ReleaseGraphBs == {1, 2, 4, 8, 16}

Recipes ==
  [default_m128    |-> [running |-> 128, graphMax |-> 128, context |-> Unset],
   low_m64         |-> [running |-> 64,  graphMax |-> 64,  context |-> Unset],
   high_m256       |-> [running |-> 256, graphMax |-> 256, context |-> Unset],
   long_context_m8 |-> [running |-> 8,   graphMax |-> 8,   context |-> 1048576]]

Lesser(a, b) == IF a <= b THEN a ELSE b
Larger(a, b) == IF a >= b THEN a ELSE b
CeilDiv(a, b) == (a + b - 1) \div b
Largest(bs) == IF bs = {} THEN 0 ELSE CHOOSE b \in bs : \A c \in bs : c <= b
AlignUp(n, multiple) == CeilDiv(n, multiple) * multiple

(* The ValueErrors of _adjust_config.                                          *)
Unsupported(f) ==
  \/ ~f.deepseek
  \/ f.backend \notin {"auto", "dsv4"}
  \/ f.recipe # Unset /\ f.recipe \notin DOMAIN Recipes
  \/ f.pageSize # PageSize

AsksNoGraphs(f) == f.bs = Unset /\ f.maxBs = Unset

RunningOf(f) ==
  IF f.recipe # Unset /\ ~f.runningExplicit THEN Recipes[f.recipe].running ELSE f.running

GraphMaxOf(f) ==
  IF AsksNoGraphs(f)
  THEN Lesser(IF f.recipe # Unset THEN Recipes[f.recipe].graphMax ELSE DefaultGraphMaxBs,
              RunningOf(f))
  ELSE f.maxBs

(* What _adjust_config leaves: explicit settings win over the recipe's.        *)
Adjusted(f) ==
  [f EXCEPT !.running = RunningOf(f),
            !.maxBs = GraphMaxOf(f),
            !.context = IF f.recipe # Unset /\ f.context = Unset
                        THEN Recipes[f.recipe].context ELSE f.context,
            !.allow = f.allow \/ ~(f.disable \/ f.bs = {} \/ GraphMaxOf(f) = 0),
            !.backend = "dsv4"]

(* The request that _resolve_cuda_graph_policy makes of the policy for a       *)
(* configuration that has been adjusted.                                       *)
PolicyRequest(f) ==
  [bs |-> f.bs, maxBs |-> f.maxBs, running |-> f.running,
   disabled |-> f.disable \/ ~f.allow,
   defaults |-> IF f.allow /\ f.recipe = Unset THEN ReleaseGraphBs ELSE Unset,
   legacyMax |-> 0]      \* None, which only generic models replace

(* What a configuration can be.                                                *)
Configurable(f) ==
  /\ f = [recipe |-> f.recipe, running |-> f.running, runningExplicit |-> f.runningExplicit,
          bs |-> f.bs, maxBs |-> f.maxBs, disable |-> f.disable, allow |-> f.allow,
          context |-> f.context, deepseek |-> f.deepseek, backend |-> f.backend,
          pageSize |-> f.pageSize]
  /\ f.running \in Nat
  /\ {f.runningExplicit, f.disable, f.allow, f.deepseek} \subseteq BOOLEAN
  /\ f.bs = Unset \/ f.bs \subseteq Int
  /\ f.maxBs = Unset \/ f.maxBs \in Int

-------------------------------------------------------------------------------
(* resolve_dsv4_graph_context_widths: the widths of the two context classes.   *)
ShortWidth(limit) == Lesser(ContextCap, Larger(limit, 1))
WideWidth(limit) == Larger(limit, 1)

(* _resolve_effective_max_seq_len, the rotary table being computed on the fly, *)
(* and the width of the page table that is allocated for it.                   *)
EffectiveMaxSeqLen(requested, capacity) == Lesser(requested, capacity)
TableWidth(maxSeqLen) == AlignUp(maxSeqLen, Larger(32, PageSize))

(* validate_graph_bucket_contract: planner, estimate and runner have used the  *)
(* same buckets, and all of them have been captured.                           *)
SameBuckets(resolved, estimated, requested, captured) ==
  resolved = estimated /\ resolved = requested /\ resolved = captured
==============================================================================

----------------------------- MODULE GraphPolicy -----------------------------
(* engine/graph_policy.py: the decode batch sizes for which CUDA graphs are   *)
(* captured.  A request q for a policy has the fields                         *)
(*   bs, maxBs      cuda_graph_bs and cuda_graph_max_bs, or Unset             *)
(*   running        max_running_req                                           *)
(*   disabled       the switches that turn graphs off                         *)
(*   defaults       the release's list, or Unset                              *)
(*   legacyMax      the automatic maximum of the generic models               *)
EXTENDS Integers

CONSTANTS Unset,           \* None
          ReleaseMaxBs     \* CUDA_GRAPH_RELEASE_MAX_BS, 512

ASSUME ReleaseAssumption == ReleaseMaxBs \in Nat

(* generate_cuda_graph_buckets: the ladder up to a maximum, which is a bucket  *)
(* itself.                                                                     *)
Generated(max) ==
  {b \in 1 .. max : \/ b \in {1, 2, 4, max}
                    \/ b % 8 = 0 /\ b <= 256
                    \/ b % 16 = 0 /\ b >= 272}

Least3(a, b, c) == IF a <= b /\ a <= c THEN a ELSE IF b <= c THEN b ELSE c

Disabled(q) == q.disabled \/ q.bs = {} \/ q.maxBs = 0
ByList(q) == q.bs # Unset
ByMax(q) == ~ByList(q) /\ q.maxBs # Unset
ByDefaults(q) == ~ByList(q) /\ ~ByMax(q) /\ q.defaults # Unset

IsLargest(max, S) == max \in S /\ \A b \in S : b <= max

(* The ValueErrors of resolve_cuda_graph_bucket_policy.                        *)
Refused(q) ==
  \/ q.running < 1
  \/ /\ ~Disabled(q)
     /\ \/ q.maxBs # Unset /\ q.maxBs < 0
        \/ ByList(q) /\ \/ \E b \in q.bs : b <= 0 \/ b > q.running
                        \/ q.maxBs # Unset /\ ~IsLargest(q.maxBs, q.bs)
        \/ ByMax(q) /\ (q.maxBs > q.running \/ q.maxBs > ReleaseMaxBs)
        \/ ByDefaults(q) /\ (q.defaults = {} \/ \E b \in q.defaults : b <= 0)

Resolved(q) ==
  IF Disabled(q) THEN {}
  ELSE IF ByList(q) THEN q.bs
  ELSE IF ByMax(q) THEN Generated(q.maxBs)
  ELSE IF ByDefaults(q) THEN {b \in q.defaults : b <= q.running}
  ELSE Generated(Least3(q.legacyMax, q.running, ReleaseMaxBs))

(* What the configuration can ask for.                                         *)
Askable(q) ==
  /\ q.running \in Int /\ q.disabled \in BOOLEAN /\ q.legacyMax \in Int
  /\ q.bs = Unset \/ q.bs \subseteq Int
  /\ q.maxBs = Unset \/ q.maxBs \in Int
  /\ q.defaults = Unset \/ q.defaults \subseteq Int
==============================================================================

----------------------------- MODULE PhasePolicy -----------------------------
(***************************************************************************)
(* The arbitration between prefill and decode forwards, MixedPhaseFairPolicy *)
(* of scheduler/phase_policy.py.  A policy object is a record              *)
(*   limit   max_consecutive_decode, first: first_conflict (constructor)   *)
(*   mixed   the previous scheduled batch resolved a prefill/decode conflict *)
(*   last    the phase that conflict was resolved to                       *)
(*   run     decode batches since the last prefill of the conflict         *)
(* and its methods are operators on that record, so that every module that *)
(* schedules can keep one.                                                 *)
(***************************************************************************)
EXTENDS Naturals

Phases == {"prefill", "decode"}
NoPhase == "none"

Policies == [limit : Nat \ {0}, first : Phases,
             mixed : BOOLEAN, last : Phases \cup {NoPhase}, run : Nat]

NewPolicy(limit, first) ==
  [limit |-> limit, first |-> first, mixed |-> FALSE, last |-> NoPhase, run |-> 0]

ResetMixedState(policy) == NewPolicy(policy.limit, policy.first)

\* Mutant: one decode batch too many before a prefill.
ResolveConflictLate(policy) ==
  CASE ~policy.mixed -> policy.first
    [] policy.mixed /\ policy.last = "prefill" -> "decode"
    [] policy.mixed /\ policy.last # "prefill" /\ policy.run > policy.limit -> "prefill"
    [] OTHER -> "decode"

\* The winner when both queues are runnable.
ResolveConflict(policy) ==
  CASE ~policy.mixed -> policy.first
    [] policy.mixed /\ policy.last = "prefill" -> "decode"
    [] policy.mixed /\ policy.last # "prefill" /\ policy.run >= policy.limit -> "prefill"
    [] OTHER -> "decode"

Choose(policy, prefillRunnable, decodeRunnable) ==
  CASE ~prefillRunnable /\ ~decodeRunnable -> NoPhase
    [] prefillRunnable /\ ~decodeRunnable  -> "prefill"
    [] ~prefillRunnable /\ decodeRunnable  -> "decode"
    [] OTHER -> ResolveConflict(policy)

\* The token budget of a prefill forward, of which there is an isolated and a
\* mixed size; the mixed one never exceeds the isolated one.
GrantedBudget(isolated, mixed, decodeRunnable) ==
  IF decodeRunnable /\ mixed < isolated THEN mixed ELSE isolated

\* Mutant: _mixed_active is never set.
RecordScheduledUnmixed(policy, phase, prefillRunnable, decodeRunnable) ==
  IF phase = NoPhase \/ ~(prefillRunnable /\ decodeRunnable)
    THEN ResetMixedState(policy)
    ELSE [policy EXCEPT !.last = phase,
                        !.run = IF phase = "decode" THEN policy.run + 1 ELSE 0]

RecordScheduled(policy, phase, prefillRunnable, decodeRunnable) ==
  IF phase = NoPhase \/ ~(prefillRunnable /\ decodeRunnable)
    THEN ResetMixedState(policy)
    ELSE [policy EXCEPT !.mixed = TRUE,
                        !.last = phase,
                        !.run = IF phase = "decode" THEN policy.run + 1 ELSE 0]

==============================================================================

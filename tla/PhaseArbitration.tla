--------------------------- MODULE PhaseArbitration ---------------------------
(***************************************************************************)
(* Scheduler._schedule_next_batch (scheduler/scheduler.py) over arbitrary  *)
(* queues: at every call the prefill and the decode queue may or may not be *)
(* runnable, and a runnable prefill queue may or may not yield a batch,    *)
(* because a pending request can be temporarily inadmissible.              *)
(***************************************************************************)
EXTENDS PhasePolicy

CONSTANTS
  DecodeLimits,        \* the values of max_consecutive_decode tried
  PrefillBudget,       \* isolated_prefill_budget
  MixedPrefillBudget,  \* mixed_prefill_budget as configured
  RunBound             \* bound: a run this long ends with a prefill or a reset

\* What MixedPhaseFairPolicy.__init__ insists on.
ASSUME ArbitrationAssumption ==
  /\ DecodeLimits \subseteq Nat \ {0}
  /\ PrefillBudget \in Nat \ {0}
  /\ MixedPrefillBudget \in Nat \ {0}
  /\ RunBound \in Nat

VARIABLES
  policy,      \* Scheduler.phase_policy
  (* Observations of the calls, read only by the properties. *)
  call,        \* the flags of the last call, the phase it ran and its budget
  passedOver,  \* calls in a row that ran decode and never tried a runnable prefill
  unprotected  \* prefill batches in a row built while decode was runnable

vars == <<policy, call, passedOver, unprotected>>

Calls == [prefillRunnable : BOOLEAN, decodeRunnable : BOOLEAN, ready : BOOLEAN,
          phase : Phases \cup {NoPhase}, budget : Nat]

Init ==
  /\ policy \in {NewPolicy(limit, first) : limit \in DecodeLimits, first \in Phases}
  /\ call = [prefillRunnable |-> FALSE, decodeRunnable |-> FALSE,
             ready |-> FALSE, phase |-> NoPhase, budget |-> 0]
  /\ passedOver = 0
  /\ unprotected = 0

-------------------------------------------------------------------------------
\* Mutant: no fallback, the iteration idles although decode is runnable.
BuiltPhaseNoFallback(choice, decodeRunnable, ready) ==
  CASE choice = "prefill" /\ ready -> "prefill"
    [] choice = "decode"           -> "decode"
    [] OTHER                       -> NoPhase

(* The phase of the batch a call builds.  A prefill decision that yields no *)
(* batch falls back to decode.                                              *)
BuiltPhase(choice, decodeRunnable, ready) ==
  CASE choice = "prefill" /\ ready                    -> "prefill"
    [] choice = "prefill" /\ ~ready /\ decodeRunnable -> "decode"
    [] choice = "decode"                              -> "decode"
    [] OTHER                                          -> NoPhase

(* One call of _schedule_next_batch: choose, build, record_scheduled.  The  *)
(* two queue flags are read once, before the batch is built.                *)
ScheduleNextBatch(prefillRunnable, decodeRunnable, ready) ==
  LET choice == Choose(policy, prefillRunnable, decodeRunnable)
      phase  == BuiltPhase(choice, decodeRunnable, ready)
  IN
  /\ ready => prefillRunnable
  /\ policy.run >= RunBound => (ready \/ ~prefillRunnable \/ ~decodeRunnable)
  /\ policy' = RecordScheduled(policy, phase, prefillRunnable, decodeRunnable)
  /\ call' = [prefillRunnable |-> prefillRunnable,
              decodeRunnable  |-> decodeRunnable,
              ready  |-> ready,
              phase  |-> phase,
              budget |-> IF phase = "prefill"
                           THEN GrantedBudget(PrefillBudget, MixedPrefillBudget,
                                              decodeRunnable)
                           ELSE 0]
  /\ passedOver' = IF prefillRunnable /\ choice = "decode"
                     THEN passedOver + 1 ELSE 0
  /\ unprotected' = IF decodeRunnable /\ phase = "prefill"
                      THEN unprotected + 1 ELSE 0

Next == \E p, d, ready \in BOOLEAN : ScheduleNextBatch(p, d, ready)

Spec == Init /\ [][Next]_vars

-------------------------------------------------------------------------------
TypeOK ==
  /\ policy \in Policies
  /\ call \in Calls
  /\ passedOver \in Nat
  /\ unprotected \in Nat

(* A runnable prefill queue is tried after at most max_consecutive_decode    *)
(* decode batches, however the fallbacks of inadmissible prefills inflated   *)
(* the run counter in between (phase_policy.choose, record_scheduled).       *)
PrefillTriedInTime == passedOver <= policy.limit

(* Decode is protected: two prefill batches are never built one after the   *)
(* other while decode was runnable at both calls, even across a reset of the *)
(* policy (phase_policy.choose: "Never allow two prefill forwards between   *)
(* protected decode slots").                                                *)
DecodeProtected == unprotected <= 1

(* No call comes back empty-handed while some batch could be built, and a    *)
(* prefill batch built next to runnable decodes never gets more than the     *)
(* mixed budget (the fallbacks and budgets of _schedule_next_batch).         *)
WorkConserving ==
  /\ call.phase = NoPhase => ~call.decodeRunnable /\ ~call.ready
  /\ call.phase = "prefill" /\ call.decodeRunnable
       => call.budget <= MixedPrefillBudget

===============================================================================

----------------------------- MODULE PrefillTurns -----------------------------
(***************************************************************************)
(* The phase arbitration and the prefill queue together, as                *)
(* Scheduler._schedule_next_batch composes them: the prefill queue is      *)
(* runnable while a request is pending, and a prefill decision that can be *)
(* carried out runs one forward with the budget the decision carries       *)
(* (scheduler/scheduler.py, scheduler/prefill.py).  The decode queue and   *)
(* the admission are still arbitrary.                                      *)
(***************************************************************************)
EXTENDS PhaseArbitration, PrefillForwards

turnVars == <<vars, queueVars>>

TurnsInit == Init /\ QueueInit

Arrives(r) == AddOneReq(r) /\ UNCHANGED vars

(* One call of _schedule_next_batch.  When no pending request can be        *)
(* admitted the call falls back to decode and leaves the queue alone.       *)
Turn(decodeRunnable, ready) ==
  /\ ScheduleNextBatch(pendingList # <<>>, decodeRunnable, ready)
  /\ \/ call'.phase = "prefill" /\ RunForward(call'.budget)
     \/ call'.phase # "prefill" /\ NoRun

TurnsNext ==
  \/ \E r \in Requests : Arrives(r)
  \/ \E decodeRunnable, ready \in BOOLEAN : Turn(decodeRunnable, ready)

TurnsSpec == TurnsInit /\ [][TurnsNext]_turnVars

-------------------------------------------------------------------------------
\* "Release budgets are quantum-aligned": a smaller one is for diagnosis.
BudgetsHoldAPage == Quantum <= PrefillBudget /\ Quantum <= MixedPrefillBudget

(* The rotation starves nobody: no pending request is left out of more       *)
(* forwards in a row than there are other requests, although the first shares *)
(* of those ahead of it may use up the budget ("Requests that did not receive *)
(* this forward's first share lead the next pass", scheduler/prefill.py).    *)
(* With a budget below a page, whose pass skips the long requests at the     *)
(* head, the bound is twice that.                                             *)
WaitIsBounded ==
  \A r \in Requests :
    waited[r] <= (IF BudgetsHoldAPage THEN 1 ELSE 2) * (Cardinality(Requests) - 1)

===============================================================================

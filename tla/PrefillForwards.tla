--------------------------- MODULE PrefillForwards ---------------------------
(***************************************************************************)
(* A sequence of prefill forwards over long prompts: requests arrive, and  *)
(* each forward selects the requests whose first share fits, divides its   *)
(* budget among them and rotates the unfinished ones behind the unselected *)
(* ones (PrefillManager.schedule_next_batch, with slots and cache capacity *)
(* left aside).  The ledger prefill_scheduled_tokens carries the progress  *)
(* of a request from one forward to the next.  PrefillTurns says when a     *)
(* forward runs and with which budget.                                     *)
(***************************************************************************)
EXTENDS PrefillChunks, FiniteSets

CONSTANTS
  Requests,    \* the requests that may arrive
  Quantum,     \* alignment_quantum: the page size
  PromptLens   \* the prompt lengths tried

ASSUME ForwardsAssumption ==
  /\ IsFiniteSet(Requests)
  /\ Quantum \in Nat \ {0}
  /\ PromptLens \subseteq Nat \ {0}

VARIABLES
  pendingList,  \* PrefillManager.pending_list
  prompt,       \* prompt length of each request, 0 before it arrives
  hit,          \* prompt tokens that its first selection finds in the prefix cache
  scheduled,    \* prefill_scheduled_tokens
  (* Observations, read only by the properties. *)
  forward,      \* the forward of the last step: its budget, members and chunks,
                \* and the ledger and the wanted tokens it started from
  waited        \* forwards in a row that left a pending request out

queueVars == <<pendingList, prompt, hit, scheduled, forward, waited>>

NoForward == [budget |-> 0, members |-> <<>>, chunks |-> <<>>, before |-> <<>>,
              wanted |-> <<>>]

QueueInit ==
  /\ pendingList = <<>>
  /\ prompt = [r \in Requests |-> 0]
  /\ hit = [r \in Requests |-> 0]
  /\ scheduled = [r \in Requests |-> 0]
  /\ forward = NoForward
  /\ waited = [r \in Requests |-> 0]

\* The uncached prompt tokens of a prepared request.
Remaining(r) == prompt[r] - hit[r] - scheduled[r]

\* What the selection assumes before it has looked into the prefix cache.
KnownRemaining(r) == IF scheduled[r] = 0 THEN prompt[r] ELSE Remaining(r)

\* A match covers whole pages and leaves at least the last prompt token.
PossibleHits(n) == {h \in 0..(n - 1) : h % Quantum = 0}

-------------------------------------------------------------------------------
AddOneReq(r) ==
  /\ prompt[r] = 0
  /\ \E n \in PromptLens : \E h \in PossibleHits(n) :
       /\ prompt' = [prompt EXCEPT ![r] = n]
       /\ hit' = [hit EXCEPT ![r] = h]
  /\ pendingList' = Append(pendingList, r)
  /\ forward' = NoForward
  /\ UNCHANGED <<scheduled, waited>>

\* One pass of the selection loop, for the request r of the pending list.
Consider(scan, r) ==
  IF Lesser(Quantum, KnownRemaining(r)) > scan.share
  THEN [scan EXCEPT !.passed = Append(@, r)]
  ELSE [share  |-> scan.share - Lesser(Quantum, Remaining(r)),
        picked |-> Append(scan.picked, r),
        passed |-> scan.passed]

Scan(budget) ==
  LET scan[i \in 0 .. Len(pendingList)] ==
        IF i = 0 THEN [share |-> budget, picked |-> <<>>, passed |-> <<>>]
        ELSE Consider(scan[i-1], pendingList[i])
  IN  scan[Len(pendingList)]

(* A pending request is picked when its first share still fits in the        *)
(* budget; when none is, the first one is picked alone.                      *)
Selected(budget) ==
  LET scan == Scan(budget)
  IN  IF scan.picked = <<>>
      THEN [picked |-> <<Head(pendingList)>>, passed |-> Tail(pendingList)]
      ELSE [picked |-> scan.picked, passed |-> scan.passed]

\* chunked_list: the members of a batch that their chunks do not finish.
Chunked(members, chunks, wanted) ==
  LET chunked[i \in 0 .. Len(members)] ==
        IF i = 0 THEN <<>>
        ELSE IF chunks[i] < wanted[i] THEN Append(chunked[i-1], members[i])
        ELSE chunked[i-1]
  IN  chunked[Len(members)]

\* Mutant: the unfinished requests stay at the head.
KeepInFront(passed, chunked) == chunked \o passed

\* The next pass starts with the requests this one left out.
Rotated(passed, chunked) == passed \o chunked

RunForward(budget) ==
  LET selected == Selected(budget)
      members  == selected.picked
      before   == [i \in 1 .. Len(members) |-> scheduled[members[i]]]
      wanted   == [i \in 1 .. Len(members) |-> Remaining(members[i])]
      chunks   == AllocateFairPrefillChunks(budget, Quantum, before, wanted)
  IN
  /\ pendingList # <<>>
  /\ scheduled' = [r \in Requests |->
                     IF \E i \in 1 .. Len(members) : members[i] = r
                       THEN scheduled[r] + chunks[CHOOSE i \in 1 .. Len(members) : members[i] = r]
                       ELSE scheduled[r]]
  /\ pendingList' = Rotated(selected.passed, Chunked(members, chunks, wanted))
  /\ forward' = [budget |-> budget, members |-> members, chunks |-> chunks,
                 before |-> before, wanted |-> wanted]
  /\ waited' = [r \in Requests |->
                  IF \E i \in 1 .. Len(selected.passed) : selected.passed[i] = r
                    THEN waited[r] + 1 ELSE 0]
  /\ UNCHANGED <<prompt, hit>>

\* An iteration without a prefill forward.
NoRun ==
  /\ forward' = NoForward
  /\ UNCHANGED <<pendingList, prompt, hit, scheduled, waited>>

-------------------------------------------------------------------------------
Members == 1 .. Len(forward.members)
LeftOver == forward.budget - TotalOf(forward.chunks)

(* No budget is stranded: what is left of it could not have been given to   *)
(* any selected request as a quantum or a final tail.                        *)
BudgetExhausted ==
  \A i \in Members : forward.chunks[i] < forward.wanted[i] =>
    LeftOver < Lesser(Quantum, forward.wanted[i] - forward.chunks[i])

(* An intermediate chunk boundary stays on a page boundary for every budget  *)
(* of at least a page ("Do not create an unaligned intermediate boundary",   *)
(* tests/core/test_long_prefill_fairness.py).                                *)
ChunksStayAligned ==
  \A i \in Members :
    forward.chunks[i] < forward.wanted[i] /\ forward.budget >= Quantum
      => forward.chunks[i] % Quantum = 0

(* No forward ends the scheduler: the selection never hands over requests    *)
(* that the division, which raises then, would have to leave without a token. *)
DivisionSucceeds == ~DivisionRaises(forward.budget, forward.chunks)

(* What becomes of a budget. *)
BudgetIsDivided == DivisionSucceeds /\ BudgetExhausted /\ ChunksStayAligned

(* Rounds are fair: two selected requests that both stay unfinished are      *)
(* granted the same up to one quantum, whatever their ledgers say, and the   *)
(* larger grant goes to the one with less progress (queue order on a tie).   *)
RoundsAreFair ==
  \A i, j \in Members :
    /\ forward.chunks[i] < forward.wanted[i]
    /\ forward.chunks[j] < forward.wanted[j]
    /\ forward.budget >= Quantum
    => /\ forward.chunks[i] - forward.chunks[j] \in {-Quantum, 0, Quantum}
       /\ forward.chunks[i] > forward.chunks[j] =>
            \/ forward.before[i] < forward.before[j]
            \/ forward.before[i] = forward.before[j] /\ i < j

===============================================================================

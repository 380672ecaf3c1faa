---------------------------- MODULE PrefillChunks ----------------------------
(***************************************************************************)
(* allocate_fair_prefill_chunks (scheduler/prefill.py): how one prefill    *)
(* forward's token budget is divided among the selected requests.  The     *)
(* sequences scheduled and remaining give, for each selected request in    *)
(* queue order, the tokens granted to it so far and the uncached prompt    *)
(* tokens it still needs.  A loop of the code is a function of the number  *)
(* of its passes, so that proofs can follow it.                            *)
(***************************************************************************)
EXTENDS Integers, Sequences

Lesser(a, b) == IF a <= b THEN a ELSE b

\* The sum of a sequence.
TotalOf(tokens) ==
  LET sum[i \in 0 .. Len(tokens)] == IF i = 0 THEN 0 ELSE sum[i-1] + tokens[i]
  IN  sum[Len(tokens)]

\* A division in progress: the grants so far and the budget that is left.
Grant(division, i, tokens) ==
  [alloc |-> [division.alloc EXCEPT ![i] = @ + tokens],
   left  |-> division.left - tokens]

(* The first share, in queue order: one quantum each, or the final tail of  *)
(* the request, or what is left of a budget smaller than a quantum.         *)
FirstShares(budget, quantum, remaining) ==
  LET share[i \in 0 .. Len(remaining)] ==
        IF i = 0 THEN [alloc |-> [j \in 1 .. Len(remaining) |-> 0], left |-> budget]
        ELSE LET d == share[i-1]
             IN  Grant(d, i, Lesser(Lesser(remaining[i], quantum), d.left))
  IN  share[Len(remaining)]

\* Mutant: spends what is left to the last token, off the page boundary.
FurtherGrantUnaligned(division, quantum, remaining, i) ==
  Lesser(Lesser(quantum, remaining[i] - division.alloc[i]), division.left)

(* What request i may be granted in a further round: a quantum, or its final *)
(* tail; nothing when that does not fit in the budget that is left.         *)
FurtherGrant(division, quantum, remaining, i) ==
  LET wanted == Lesser(quantum, remaining[i] - division.alloc[i])
  IN  IF wanted <= division.left THEN wanted ELSE 0

Unfinished(division, remaining) ==
  {i \in 1 .. Len(remaining) : division.alloc[i] < remaining[i]}

\* Mutant: the rounds ignore the progress made so far.
IsAheadInQueue(division, scheduled, i, j) == i < j

(* The order of a round that starts from a division: least progress first,  *)
(* the queue order breaking ties.                                           *)
IsAhead(division, scheduled, i, j) ==
  LET progress(k) == scheduled[k] + division.alloc[k]
  IN  progress(i) < progress(j) \/ (progress(i) = progress(j) /\ i < j)

\* One pass of a round: the next of the requests that are still to be served.
ServeNext(serving, start, quantum, scheduled, remaining) ==
  LET i == CHOOSE i \in serving.todo :
             \A j \in serving.todo \ {i} : IsAhead(start, scheduled, i, j)
  IN  [division |-> Grant(serving.division, i,
                          FurtherGrant(serving.division, quantum, remaining, i)),
       todo |-> serving.todo \ {i}]

(* One further round: every request that was unfinished when it began, in   *)
(* the order of the progress they had made by then.                         *)
Round(start, quantum, scheduled, remaining) ==
  LET serving[k \in 0 .. Len(remaining)] ==
        IF k = 0 THEN [division |-> start, todo |-> Unfinished(start, remaining)]
        ELSE LET s == serving[k-1]
             IN  IF s.todo = {} THEN s ELSE ServeNext(s, start, quantum, scheduled, remaining)
  IN  serving[Len(remaining)].division

\* Mutant: every request gets its first share and no more.
AllocateFirstSharesOnly(budget, quantum, scheduled, remaining) ==
  FirstShares(budget, quantum, remaining).alloc

(* Rounds until the budget is used up or a round makes no progress.  A round *)
(* that grants anything grants a token, so budget many rounds are enough,   *)
(* and a round without progress changes nothing.                            *)
AllocateFairPrefillChunks(budget, quantum, scheduled, remaining) ==
  LET rounds[k \in 0 .. budget] ==
        IF k = 0 THEN FirstShares(budget, quantum, remaining)
        ELSE Round(rounds[k-1], quantum, scheduled, remaining)
  IN  rounds[budget].alloc

(* The RuntimeErrors the division ends with: more was granted than there is, *)
(* or a selected request was granted nothing.                               *)
DivisionRaises(budget, chunks) ==
  TotalOf(chunks) > budget \/ \E i \in 1 .. Len(chunks) : chunks[i] <= 0

==============================================================================

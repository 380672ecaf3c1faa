--------------------------- MODULE ReplicatedInput ---------------------------
(* What the receive path of scheduler/io.py owes the ranks of a tensor-parallel *)
(* group: in iteration n every rank processes the same messages.  One log of    *)
(* batches, one per iteration; each rank applies it in order.                   *)
EXTENDS Naturals, Sequences

CONSTANTS Ranks,     \* the ranks of the group
          Messages   \* what the tokenizer can send

VARIABLES log,       \* the batch of every iteration so far
          seen       \* what each rank has processed, iteration by iteration

Init == /\ log = <<>>
        /\ seen = [r \in Ranks |-> <<>>]

(* The messages of the next iteration are fixed. *)
Decide == /\ log' \in Seq(Seq(Messages))
          /\ Len(log') = Len(log) + 1
          /\ log = [i \in 1 .. Len(log) |-> log'[i]]
          /\ UNCHANGED seen

(* A rank processes the batch of its next iteration. *)
Apply(r) == /\ Len(seen[r]) < Len(log)
            /\ seen' = [seen EXCEPT ![r] = Append(@, log[Len(@) + 1])]
            /\ UNCHANGED log

Next == \/ Decide
        \/ \E r \in Ranks : Apply(r)

Spec == Init /\ [][Next]_<<log, seen>>
==============================================================================

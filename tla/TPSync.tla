-------------------------------- MODULE TPSync --------------------------------
(* The receive path of a tensor-parallel group (scheduler/io.py) under the      *)
(* scheduler's loop.  Rank 0 pulls raw messages from the tokenizer, publishes    *)
(* them to the other ranks and broadcasts over the CPU group how many there are; *)
(* the others read that many from their subscription.  Whether a rank blocks     *)
(* for a first message is its own decision, taken from its own scheduler, which  *)
(* is a deterministic machine over the batches it has processed.  Every          *)
(* subscription is taken to be in place before the first publication.            *)
EXTENDS Naturals, Sequences

CONSTANTS NumRanks,      \* size of the tensor-parallel group
          Messages,      \* what arrives, Exit included
          Exit,          \* ExitMsg
          MaxMessages,   \* bound: messages that arrive
          Fresh,         \* the state of a scheduler that was just built
          Step(_, _),    \* its state after one iteration with a batch
          Idle(_)        \* nothing in flight, nothing runnable: receive blocks

ASSUME TPAssumption == /\ NumRanks \in Nat \ {0} /\ Exit \in Messages
                       /\ MaxMessages \in Nat

Ranks == 0 .. NumRanks - 1
Followers == Ranks \ {0}

VARIABLES inbox,     \* _recv_from_tokenizer: what rank 0 has not pulled
          raw,       \* pending_raw_msgs of rank 0: pulled, not yet published
          pub,       \* everything rank 0 has put on the PUB socket
          rounds,    \* the broadcasts over tp_cpu_group, one per iteration
          pc,        \* where each rank is in its iteration
          read,      \* how much of pub each rank has consumed
          pending,   \* pending_msgs of the running receive
          need,      \* what a follower still has to read of dst_length
          state,     \* the scheduler of each rank
          seen       \* the batches each rank has processed, by iteration

inputVars == <<inbox, raw, pub, rounds>>
rankVars == <<pc, read, pending, need, state, seen>>
tpVars == <<inputVars, rankVars>>

TPInit ==
    /\ inbox = <<>> /\ raw = <<>> /\ pub = <<>> /\ rounds = <<>>
    /\ pc = [r \in Ranks |-> "start"]
    /\ read = [r \in Ranks |-> 0]
    /\ pending = [r \in Ranks |-> <<>>]
    /\ need = [r \in Ranks |-> 0]
    /\ state = [r \in Ranks |-> Fresh]
    /\ seen = [r \in Ranks |-> <<>>]

Goto(r, label) == pc' = [pc EXCEPT ![r] = label]

(* A message reaches the PULL socket of rank 0. *)
Arrive(m) ==
    /\ Len(pub) + Len(raw) + Len(inbox) < MaxMessages
    /\ inbox' = Append(inbox, m)
    /\ UNCHANGED <<raw, pub, rounds, rankVars>>

\* Mutant: a follower never blocks for a first message.
BeginPolling(r) ==
    /\ pc[r] = "start"
    /\ Goto(r, IF r # 0 THEN "count" ELSE IF Idle(state[r]) THEN "block" ELSE "drain")
    /\ pending' = [pending EXCEPT ![r] = <<>>]
    /\ UNCHANGED <<inputVars, read, need, state, seen>>

(* An iteration begins: a rank with work in hand polls, an idle one blocks.     *)
Begin(r) ==
    /\ pc[r] = "start"
    /\ Goto(r, IF Idle(state[r]) THEN "block" ELSE IF r = 0 THEN "drain" ELSE "count")
    /\ pending' = [pending EXCEPT ![r] = <<>>]
    /\ UNCHANGED <<inputVars, read, need, state, seen>>

\* Mutant: the blocking receive of rank 0 keeps its message to itself.
BlockingGetSilent ==
    /\ pc[0] = "block" /\ inbox # <<>>
    /\ pending' = [pending EXCEPT ![0] = <<Head(inbox)>>]
    /\ inbox' = Tail(inbox)
    /\ read' = [read EXCEPT ![0] = @ + 1]
    /\ Goto(0, "drain")
    /\ UNCHANGED <<raw, pub, rounds, need, state, seen>>

(* Rank 0 waits for a message and publishes it before it polls for more. *)
BlockingGet ==
    /\ pc[0] = "block" /\ inbox # <<>>
    /\ pub' = Append(pub, Head(inbox))
    /\ pending' = [pending EXCEPT ![0] = <<Head(inbox)>>]
    /\ inbox' = Tail(inbox)
    /\ read' = [read EXCEPT ![0] = @ + 1]
    /\ Goto(0, "drain")
    /\ UNCHANGED <<raw, rounds, need, state, seen>>

Drain ==
    /\ pc[0] = "drain" /\ inbox # <<>>
    /\ raw' = Append(raw, Head(inbox))
    /\ inbox' = Tail(inbox)
    /\ UNCHANGED <<pub, rounds, rankVars>>

\* Mutant: the count includes the message of the blocking receive.
CountedAll == Len(pending[0]) + Len(raw)

Counted == Len(raw)

(* The broadcast of the count; what rank 0 knows at this point is recorded with *)
(* it (from, state and batch are history, they are not sent).                   *)
BroadcastCount ==
    /\ pc[0] = "drain" /\ inbox = <<>>
    /\ rounds' = Append(rounds, [count |-> Counted,
                                 from  |-> Len(pub) - Len(pending[0]),
                                 state |-> state[0],
                                 batch |-> pending[0] \o raw])
    /\ Goto(0, "publish")
    /\ UNCHANGED <<inbox, raw, pub, read, pending, need, state, seen>>

Publish ==
    /\ pc[0] = "publish" /\ raw # <<>>
    /\ pub' = Append(pub, Head(raw))
    /\ pending' = [pending EXCEPT ![0] = Append(@, Head(raw))]
    /\ raw' = Tail(raw)
    /\ read' = [read EXCEPT ![0] = @ + 1]
    /\ UNCHANGED <<inbox, rounds, pc, need, state, seen>>

(* The same receive on another rank. *)
Subscribed(r) == read[r] < Len(pub)

TakeNext(r) ==
    /\ Subscribed(r)
    /\ pending' = [pending EXCEPT ![r] = Append(@, pub[read[r] + 1])]
    /\ read' = [read EXCEPT ![r] = @ + 1]

BlockingRead(r) ==
    /\ pc[r] = "block"
    /\ TakeNext(r)
    /\ Goto(r, "count")
    /\ UNCHANGED <<inputVars, need, state, seen>>

TakeCount(r) ==
    /\ pc[r] = "count" /\ Len(seen[r]) < Len(rounds)
    /\ need' = [need EXCEPT ![r] = rounds[Len(seen[r]) + 1].count]
    /\ Goto(r, "fetch")
    /\ UNCHANGED <<inputVars, read, pending, state, seen>>

Fetch(r) ==
    /\ pc[r] = "fetch" /\ need[r] > 0
    /\ TakeNext(r)
    /\ need' = [need EXCEPT ![r] = @ - 1]
    /\ UNCHANGED <<inputVars, pc, state, seen>>

(* The receive returns; the iteration processes the batch and issues a forward. *)
(* ExitMsg raises KeyboardInterrupt, which leads to Scheduler.shutdown and its   *)
(* barrier.                                                                      *)
Received(r) == IF r = 0 THEN pc[0] = "publish" /\ raw = <<>>
                        ELSE pc[r] = "fetch" /\ need[r] = 0

Exits(batch) == \E i \in 1 .. Len(batch) : batch[i] = Exit

Iterate(r) ==
    /\ Received(r)
    /\ seen' = [seen EXCEPT ![r] = Append(@, pending[r])]
    /\ state' = [state EXCEPT ![r] = Step(@, pending[r])]
    /\ Goto(r, IF Exits(pending[r]) THEN "barrier" ELSE "start")
    /\ UNCHANGED <<inputVars, read, pending, need>>

(* sync_all_ranks lets a rank go when the others have arrived. *)
LeaveBarrier(r) ==
    /\ pc[r] = "barrier"
    /\ \A other \in Ranks : pc[other] \in {"barrier", "exited"}
    /\ Goto(r, "exited")
    /\ UNCHANGED <<inputVars, read, pending, need, state, seen>>

RootStep == BlockingGet \/ Drain \/ BroadcastCount \/ Publish
FollowerStep(r) == BlockingRead(r) \/ TakeCount(r) \/ Fetch(r)
RankStep(r) == \/ Begin(r) \/ Iterate(r) \/ LeaveBarrier(r)
               \/ r = 0 /\ RootStep
               \/ r \in Followers /\ FollowerStep(r)

TPNext == \/ \E m \in Messages : Arrive(m)
          \/ \E r \in Ranks : RankStep(r)

TPSpec == TPInit /\ [][TPNext]_tpVars

(* A rank that can take a step takes it: each is a process of its own. *)
TPFairSpec == TPSpec /\ \A r \in Ranks : WF_tpVars(RankStep(r))

-------------------------------------------------------------------------------
TypeOK ==
    /\ inbox \in Seq(Messages) /\ raw \in Seq(Messages) /\ pub \in Seq(Messages)
    /\ \A i \in 1 .. Len(rounds) : rounds[i].count \in Nat /\ rounds[i].from \in Nat
                                   /\ rounds[i].batch \in Seq(Messages)
    /\ pc \in [Ranks -> {"start", "block", "drain", "count", "publish", "fetch",
                         "barrier", "exited"}]
    /\ read \in [Ranks -> Nat] /\ need \in [Ranks -> Nat]
    /\ pending \in [Ranks -> Seq(Messages)]
    /\ \A r \in Ranks : seen[r] \in Seq(Seq(Messages))

(* In every iteration that two ranks have both processed they processed the     *)
(* same messages in the same order: io.py's receive keeps the schedulers of a   *)
(* group identical although each rank decides by itself whether to block.       *)
RanksAgree ==
    \A r, q \in Ranks : \A i \in 1 .. Len(seen[r]) :
        i <= Len(seen[q]) => seen[r][i] = seen[q][i]

(* The broadcast batches, as the specification of the receive path sees them;   *)
(* the implementation decides a batch when rank 0 broadcasts its count.         *)
Input == INSTANCE ReplicatedInput
         WITH log <- [i \in 1 .. Len(rounds) |-> rounds[i].batch], seen <- seen

ImplementsReplicatedInput == Input!Spec

(* No rank is left behind in a collective: when messages stop arriving, either   *)
(* all ranks wait for the next message and have processed the same iterations,   *)
(* or all have left through the exit barrier.                                    *)
GroupSettles ==
    <>[](\/ /\ inbox = <<>>
            /\ \A r \in Ranks : pc[r] = "block" /\ Len(seen[r]) = Len(rounds)
         \/ \A r \in Ranks : pc[r] = "exited")
================================================================================

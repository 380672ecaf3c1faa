----------------------------- MODULE TPSyncProofs -----------------------------
(* The ranks of a group of any size, with schedulers of any kind, process the  *)
(* same batches: the receive path implements ReplicatedInput.  And the         *)
(* processes of a server around such a group start, stop and fail as they       *)
(* should, for any number of ranks, workers and faults.                        *)
EXTENDS Serving, TLAPS

-------------------------------------------------------------------------------
(* The inductive invariant.  The messages form one stream, what is published    *)
(* and then what rank 0 has drained; the rounds cut it into consecutive         *)
(* batches; a rank that has processed k of them stands at their end, in the     *)
(* state they lead to.                                                          *)

StreamLen == Len(pub) + Len(raw)
At(i) == IF i <= Len(pub) THEN pub[i] ELSE raw[i - Len(pub)]
EndOf(k) == IF k = 0 THEN 0 ELSE rounds[k].from + Len(rounds[k].batch)
StateAfter(k) == IF k = 0 THEN Fresh ELSE Step(rounds[k].state, rounds[k].batch)

\* What the blocking receive contributes to the batch of a rank in state s.
Blocked(s) == IF Idle(s) THEN 1 ELSE 0

Receiving(r) == pc[r] \in {"block", "drain", "count", "publish", "fetch"}
Done(r) == Len(seen[r])

Types ==
  /\ inbox \in Seq(Messages) /\ raw \in Seq(Messages) /\ pub \in Seq(Messages)
  /\ rounds \in Seq({rounds[i] : i \in DOMAIN rounds})
  /\ \A i \in 1 .. Len(rounds) : rounds[i].count \in Nat /\ rounds[i].from \in Nat
                                 /\ rounds[i].batch \in Seq(Messages)
  /\ pc \in [Ranks -> {"start", "block", "drain", "count", "publish", "fetch",
                       "barrier", "exited"}]
  /\ read \in [Ranks -> Nat] /\ need \in [Ranks -> Nat]
  /\ pending \in [Ranks -> Seq(Messages)]
  /\ DOMAIN state = Ranks
  /\ seen \in [Ranks -> Seq(Seq(Messages))]

\* One round: it begins where, and in the state in which, the one before ends,
\* and its batch is the piece of the stream from there on.
RoundFits(i) ==
  /\ rounds[i].from = EndOf(i - 1)
  /\ rounds[i].state = StateAfter(i - 1)
  /\ Len(rounds[i].batch) = rounds[i].count + Blocked(rounds[i].state)
  /\ rounds[i].from + Len(rounds[i].batch) <= StreamLen
  /\ \A j \in 1 .. Len(rounds[i].batch) : rounds[i].batch[j] = At(rounds[i].from + j)

RoundsFit == \A i \in 1 .. Len(rounds) : RoundFits(i)

\* What holds of any rank: it has processed the first rounds, and what it is
\* receiving is what follows them.
RankFits(r) ==
  /\ Done(r) <= Len(rounds)
  /\ \A i \in 1 .. Done(r) : seen[r][i] = rounds[i].batch
  /\ state[r] = StateAfter(Done(r))
  /\ read[r] <= Len(pub)
  /\ read[r] = EndOf(Done(r)) + (IF Receiving(r) THEN Len(pending[r]) ELSE 0)
  /\ Receiving(r) => \A j \in 1 .. Len(pending[r]) : pending[r][j] = pub[EndOf(Done(r)) + j]
  /\ pc[r] = "block" => Idle(state[r]) /\ pending[r] = <<>>

\* What holds of rank 0 besides: the last round is the one it is in.
RootFits ==
  /\ RankFits(0)
  /\ pc[0] \notin {"count", "fetch"}
  /\ read[0] = Len(pub)
  /\ pc[0] # "publish" => Len(rounds) = Done(0)
  /\ pc[0] \notin {"drain", "publish"} => raw = <<>>
  /\ pc[0] = "drain" => Len(pending[0]) = Blocked(state[0])
  /\ pc[0] = "publish" => /\ Len(rounds) = Done(0) + 1
                          /\ Len(pending[0]) + Len(raw) = Len(rounds[Done(0) + 1].batch)

\* And of a follower: it knows how much its round still lacks.
FollowerFits(r) ==
  /\ RankFits(r)
  /\ pc[r] \notin {"drain", "publish"}
  /\ pc[r] = "count" => Len(pending[r]) = Blocked(state[r])
  /\ pc[r] = "fetch" => /\ Done(r) < Len(rounds)
                        /\ Len(pending[r]) + need[r]
                             = Blocked(state[r]) + rounds[Done(r) + 1].count

IInv == Types /\ RoundsFit /\ RootFits /\ \A r \in Followers : FollowerFits(r)

-------------------------------------------------------------------------------
(* A sequence stays a sequence of its own elements when one is added.           *)
LEMMA AppendOwn ==
  ASSUME NEW s, s \in Seq({s[i] : i \in DOMAIN s}), NEW e,
         NEW t, t = Append(s, e)
  PROVE  /\ t \in Seq({t[i] : i \in DOMAIN t})
         /\ Len(s) \in Nat /\ Len(t) = Len(s) + 1 /\ DOMAIN s = 1 .. Len(s)
         /\ \A i \in 1 .. Len(s) : t[i] = s[i]
         /\ t[Len(s) + 1] = e
<1> DEFINE S == {s[i] : i \in DOMAIN s} \cup {e}
           T == {t[i] : i \in DOMAIN t}
<1>1. s \in Seq(S) /\ e \in S
  OBVIOUS
<1> HIDE DEF S
<1>2. /\ t \in Seq(S) /\ Len(t) = Len(s) + 1 /\ Len(s) \in Nat
      /\ DOMAIN s = 1 .. Len(s) /\ DOMAIN t = 1 .. Len(t)
      /\ \A i \in 1 .. Len(s) : t[i] = s[i]
      /\ t[Len(s) + 1] = e
  BY <1>1
<1>3. t \in Seq(T)
  BY <1>2
<1>4. QED  BY <1>2, <1>3

LEMMA DoneIsNat ==
  ASSUME Types, NEW r \in Ranks
  PROVE  Done(r) \in Nat /\ Len(rounds) \in Nat
BY DEF Types, Done

LEMMA EndIsNat ==
  ASSUME Types, NEW k \in 0 .. Len(rounds)
  PROVE  EndOf(k) \in Nat
<1>1. CASE k = 0
  BY <1>1 DEF EndOf
<1>2. CASE k # 0
  <2>1. k \in 1 .. Len(rounds)
    BY <1>2 DEF Types
  <2>2. rounds[k].from \in Nat /\ rounds[k].batch \in Seq(Messages)
    BY <2>1 DEF Types
  <2>3. Len(rounds[k].batch) \in Nat
    BY <2>2
  <2> QED  BY <1>2, <2>2, <2>3 DEF EndOf
<1> QED  BY <1>1, <1>2

(* The round after k rounds begins where they end.                              *)
LEMMA NextRound ==
  ASSUME Types, RoundsFit, NEW k \in Nat, k < Len(rounds)
  PROVE  /\ k + 1 \in 1 .. Len(rounds)
         /\ rounds[k + 1].from = EndOf(k) /\ rounds[k + 1].state = StateAfter(k)
         /\ Len(rounds[k + 1].batch) = rounds[k + 1].count + Blocked(StateAfter(k))
<1>1. Len(rounds) \in Nat
  BY DEF Types
<1>2. k + 1 \in 1 .. Len(rounds) /\ k + 1 - 1 = k
  BY <1>1
<1>3. RoundFits(k + 1)
  BY <1>2 DEF RoundsFit
<1>4. rounds[k + 1].from = EndOf(k) /\ rounds[k + 1].state = StateAfter(k)
  BY <1>2, <1>3 DEF RoundFits
<1>5. Len(rounds[k + 1].batch) = rounds[k + 1].count + Blocked(rounds[k + 1].state)
  BY <1>3 DEF RoundFits
<1>6. QED  BY <1>2, <1>4, <1>5

(* A round keeps fitting while the stream only grows behind it.                 *)
LEMMA RoundKept ==
  ASSUME Types, RoundsFit, Types',
         NEW i \in 1 .. Len(rounds),
         \A j \in 1 .. Len(rounds) : rounds'[j] = rounds[j],
         StreamLen <= StreamLen',
         \A j \in 1 .. StreamLen : At(j)' = At(j)
  PROVE  RoundFits(i)'
<1>1. Len(rounds) \in Nat /\ Len(pub) \in Nat /\ Len(raw) \in Nat
  BY DEF Types
<1>2. RoundFits(i)
  BY DEF RoundsFit
<1>3. rounds'[i] = rounds[i] /\ (i # 1 => rounds'[i - 1] = rounds[i - 1])
  BY <1>1
<1>4. EndOf(i - 1)' = EndOf(i - 1) /\ StateAfter(i - 1)' = StateAfter(i - 1)
  BY <1>3 DEF EndOf, StateAfter
<1>5. rounds[i].from \in Nat /\ Len(rounds[i].batch) \in Nat
  BY DEF Types
<1>6. \A j \in 1 .. Len(rounds[i].batch) : At(rounds[i].from + j)' = At(rounds[i].from + j)
  BY <1>1, <1>2, <1>3, <1>5 DEF RoundFits, StreamLen
<1>7. StreamLen \in Nat /\ StreamLen' \in Nat
  BY DEF Types, StreamLen
<1>8. QED  BY <1>2, <1>3, <1>4, <1>5, <1>6, <1>7 DEF RoundFits

(* A follower that does not move keeps fitting while rounds and publications    *)
(* are added to those there are.                                                *)
LEMMA FollowerKept ==
  ASSUME Types, Types', RoundsFit, NEW r \in Followers, FollowerFits(r),
         pc'[r] = pc[r], read'[r] = read[r], pending'[r] = pending[r],
         need'[r] = need[r], state'[r] = state[r], seen'[r] = seen[r],
         Len(rounds) <= Len(rounds'),
         \A i \in 1 .. Len(rounds) : rounds'[i] = rounds[i],
         Len(pub) <= Len(pub'),
         \A i \in 1 .. Len(pub) : pub'[i] = pub[i]
  PROVE  FollowerFits(r)'
<1>1. /\ Len(rounds) \in Nat /\ Len(rounds') \in Nat /\ Len(pub) \in Nat /\ Len(pub') \in Nat
      /\ r \in Ranks /\ Done(r) \in Nat /\ Len(pending[r]) \in Nat /\ read[r] \in Nat
  BY DEF Types, Followers, Done
<1>2. Done(r)' = Done(r) /\ (Receiving(r)' <=> Receiving(r)) /\ RankFits(r)
  BY DEF Done, Receiving, FollowerFits
<1>3. Done(r) <= Len(rounds)
  BY <1>2 DEF RankFits
<1>4. Done(r) # 0 => rounds'[Done(r)] = rounds[Done(r)]
  BY <1>1, <1>3
<1>5. EndOf(Done(r))' = EndOf(Done(r)) /\ StateAfter(Done(r))' = StateAfter(Done(r))
  BY <1>2, <1>4 DEF EndOf, StateAfter
<1>6. EndOf(Done(r)) \in Nat
  BY <1>1, <1>3, EndIsNat
<1>7. RankFits(r)'
  <2>1. Done(r)' <= Len(rounds') /\ read'[r] <= Len(pub')
    BY <1>1, <1>2 DEF RankFits
  <2>2. \A i \in 1 .. Done(r) : seen'[r][i] = rounds'[i].batch
    BY <1>1, <1>2, <1>3 DEF RankFits
  <2>3. state'[r] = StateAfter(Done(r))'
    BY <1>2, <1>5 DEF RankFits
  <2>4. read'[r] = EndOf(Done(r))' + (IF Receiving(r)' THEN Len(pending'[r]) ELSE 0)
    BY <1>2, <1>5 DEF RankFits
  <2>5. ASSUME Receiving(r), NEW j \in 1 .. Len(pending[r])
        PROVE  pending[r][j] = pub'[EndOf(Done(r)) + j]
    <3>1. read[r] <= Len(pub) /\ read[r] = EndOf(Done(r)) + Len(pending[r])
          /\ pending[r][j] = pub[EndOf(Done(r)) + j]
      BY <1>2, <2>5 DEF RankFits
    <3>2. EndOf(Done(r)) + j \in 1 .. Len(pub)
      BY <1>1, <1>6, <3>1
    <3>3. QED  BY <3>1, <3>2
  <2>6. QED  BY <1>2, <1>5, <2>1, <2>2, <2>3, <2>4, <2>5 DEF RankFits
<1>8. Done(r) < Len(rounds) => rounds'[Done(r) + 1] = rounds[Done(r) + 1]
  BY <1>1, SMTT(30)
<1>9. QED  BY <1>1, <1>2, <1>7, <1>8 DEF FollowerFits, Blocked

-------------------------------------------------------------------------------
LEMMA TypesBegin ==
  TPInit => Types
BY DEF TPInit, Types

LEMMA ContentStep ==
  ASSUME Types, TPNext
  PROVE  /\ inbox' \in Seq(Messages) /\ raw' \in Seq(Messages) /\ pub' \in Seq(Messages)
         /\ pending' \in [Ranks -> Seq(Messages)]
<1> USE DEF Types
<1>0. 0 \in Ranks
  BY TPAssumption DEF Ranks
<1>1. ASSUME NEW m \in Messages, Arrive(m)
      PROVE  inbox' \in Seq(Messages) /\ UNCHANGED <<raw, pub, pending>>
  BY <1>1 DEF Arrive, rankVars
<1>2. ASSUME NEW r \in Ranks, Begin(r)
      PROVE  pending' \in [Ranks -> Seq(Messages)] /\ UNCHANGED <<inbox, raw, pub>>
  BY <1>2 DEF Begin, inputVars
<1>3. ASSUME NEW r \in Ranks, Iterate(r) \/ LeaveBarrier(r)
      PROVE  UNCHANGED <<inbox, raw, pub, pending>>
  BY <1>3 DEF Iterate, LeaveBarrier, inputVars
<1>4. CASE BlockingGet
  <2>1. Head(inbox) \in Messages /\ Tail(inbox) \in Seq(Messages)
    BY <1>4 DEF BlockingGet
  <2>2. QED  BY <1>0, <1>4, <2>1 DEF BlockingGet
<1>5. CASE Drain
  <2>1. Head(inbox) \in Messages /\ Tail(inbox) \in Seq(Messages)
    BY <1>5 DEF Drain
  <2>2. QED  BY <1>5, <2>1 DEF Drain, rankVars
<1>6. CASE BroadcastCount
  BY <1>6 DEF BroadcastCount
<1>7. CASE Publish
  <2>1. Head(raw) \in Messages /\ Tail(raw) \in Seq(Messages)
    BY <1>7 DEF Publish
  <2>2. Append(pending[0], Head(raw)) \in Seq(Messages)
    BY <1>0, <2>1
  <2>3. QED  BY <1>0, <1>7, <2>1, <2>2 DEF Publish
<1>8. ASSUME NEW r \in Ranks, TakeNext(r)
      PROVE  pending' \in [Ranks -> Seq(Messages)]
  <2>1. pub[read[r] + 1] \in Messages
    BY <1>8 DEF TakeNext, Subscribed
  <2>2. Append(pending[r], pub[read[r] + 1]) \in Seq(Messages)
    BY <2>1
  <2>3. QED  BY <1>8, <2>2 DEF TakeNext
<1>9. ASSUME NEW r \in Followers, FollowerStep(r)
      PROVE  pending' \in [Ranks -> Seq(Messages)] /\ UNCHANGED <<inbox, raw, pub>>
  <2>1. r \in Ranks
    BY DEF Followers
  <2>2. CASE TakeCount(r)
    BY <2>2 DEF TakeCount, inputVars
  <2>3. CASE BlockingRead(r) \/ Fetch(r)
    BY <1>8, <2>1, <2>3 DEF BlockingRead, Fetch, inputVars
  <2>4. QED  BY <1>9, <2>2, <2>3 DEF FollowerStep
<1>10. QED
  BY <1>1, <1>2, <1>3, <1>4, <1>5, <1>6, <1>7, <1>9 DEF TPNext, RankStep, RootStep

LEMMA RoundsStep ==
  ASSUME Types, TPNext
  PROVE  /\ rounds' \in Seq({rounds'[i] : i \in DOMAIN rounds'})
         /\ \A i \in 1 .. Len(rounds') : /\ rounds'[i].count \in Nat
                                         /\ rounds'[i].batch \in Seq(Messages)
         /\ \A i \in 1 .. Len(rounds) : rounds'[i] = rounds[i]
         /\ \/ rounds' = rounds
            \/ BroadcastCount /\ Len(rounds') = Len(rounds) + 1
<1>1. CASE BroadcastCount
  <2> DEFINE entry == [count |-> Counted, from |-> Len(pub) - Len(pending[0]),
                       state |-> state[0], batch |-> pending[0] \o raw]
  <2>1. rounds' = Append(rounds, entry)
    BY <1>1 DEF BroadcastCount
  <2>2. entry.count \in Nat /\ entry.batch \in Seq(Messages)
    BY TPAssumption DEF Types, Counted, Ranks
  <2> HIDE DEF entry
  <2>3. /\ rounds' \in Seq({rounds'[i] : i \in DOMAIN rounds'})
        /\ Len(rounds) \in Nat /\ Len(rounds') = Len(rounds) + 1
        /\ \A i \in 1 .. Len(rounds) : rounds'[i] = rounds[i]
        /\ rounds'[Len(rounds) + 1] = entry
    <3>1. rounds \in Seq({rounds[i] : i \in DOMAIN rounds})
      BY DEF Types
    <3>2. QED  BY <2>1, <3>1, AppendOwn
  <2>4. ASSUME NEW i \in 1 .. Len(rounds')
        PROVE  rounds'[i].count \in Nat /\ rounds'[i].batch \in Seq(Messages)
    <3>1. CASE i = Len(rounds) + 1
      BY <2>2, <2>3, <3>1
    <3>2. CASE i # Len(rounds) + 1
      <4>1. i \in 1 .. Len(rounds)
        BY <2>3, <3>2
      <4>2. QED  BY <2>3, <4>1 DEF Types
    <3>3. QED  BY <3>1, <3>2
  <2>5. QED  BY <1>1, <2>3, <2>4
<1>2. CASE ~BroadcastCount
  <2>1. rounds' = rounds
    BY <1>2 DEF TPNext, RankStep, RootStep, FollowerStep, Arrive, Begin, Iterate, LeaveBarrier,
         BlockingGet, Drain, Publish, BlockingRead, TakeCount, Fetch, inputVars
  <2>2. QED  BY <2>1 DEF Types
<1>3. QED  BY <1>1, <1>2

LEMMA PlaceStep ==
  ASSUME Types, TPNext
  PROVE  /\ pc' \in [Ranks -> {"start", "block", "drain", "count", "publish", "fetch",
                               "barrier", "exited"}]
         /\ read' \in [Ranks -> Nat] /\ need' \in [Ranks -> Nat]
         /\ DOMAIN state' = Ranks
         /\ seen' \in [Ranks -> Seq(Seq(Messages))]
<1> USE DEF Types, Goto
<1>0. 0 \in Ranks /\ Followers \subseteq Ranks
  BY TPAssumption DEF Ranks, Followers
<1>1. ASSUME NEW m \in Messages, Arrive(m)
      PROVE  UNCHANGED rankVars
  BY <1>1 DEF Arrive
<1>2. ASSUME NEW r \in Ranks, Begin(r) \/ LeaveBarrier(r)
      PROVE  /\ pc' \in [Ranks -> {"start", "block", "drain", "count", "publish", "fetch",
                                   "barrier", "exited"}]
             /\ UNCHANGED <<read, need, state, seen>>
  BY <1>2 DEF Begin, LeaveBarrier
<1>3. ASSUME NEW r \in Ranks, Iterate(r)
      PROVE  /\ pc' \in [Ranks -> {"start", "block", "drain", "count", "publish", "fetch",
                                   "barrier", "exited"}]
             /\ seen' \in [Ranks -> Seq(Seq(Messages))]
             /\ DOMAIN state' = Ranks /\ UNCHANGED <<read, need>>
  <2>1. Append(seen[r], pending[r]) \in Seq(Seq(Messages))
    OBVIOUS
  <2>2. QED  BY <1>3, <2>1 DEF Iterate
<1>4. CASE RootStep
  <2>1. CASE BlockingGet
    BY <1>0, <2>1, SMTT(30) DEF BlockingGet
  <2>2. CASE Drain
    BY <2>2 DEF Drain, rankVars
  <2>3. CASE BroadcastCount
    BY <1>0, <2>3 DEF BroadcastCount
  <2>4. CASE Publish
    BY <1>0, <2>4 DEF Publish
  <2>5. QED  BY <1>4, <2>1, <2>2, <2>3, <2>4 DEF RootStep
<1>5. ASSUME NEW r \in Followers, FollowerStep(r)
      PROVE  /\ pc' \in [Ranks -> {"start", "block", "drain", "count", "publish", "fetch",
                                   "barrier", "exited"}]
             /\ read' \in [Ranks -> Nat] /\ need' \in [Ranks -> Nat]
             /\ UNCHANGED <<state, seen>>
  <2>1. CASE TakeCount(r)
    <3>1. rounds[Len(seen[r]) + 1].count \in Nat
      <4>1. Len(seen[r]) \in Nat /\ Len(rounds) \in Nat
        BY <1>0
      <4>2. Len(seen[r]) + 1 \in 1 .. Len(rounds)
        BY <2>1, <4>1 DEF TakeCount
      <4>3. QED  BY <4>2
    <3>2. QED  BY <1>0, <2>1, <3>1 DEF TakeCount
  <2>2. CASE BlockingRead(r)
    BY <1>0, <2>2, SMTT(30) DEF BlockingRead, TakeNext
  <2>3. CASE Fetch(r)
    <3>1. need[r] \in Nat /\ need[r] - 1 \in Nat /\ r \in Ranks
      BY <1>0, <2>3 DEF Fetch
    <3>2. QED  BY <2>3, <3>1 DEF Fetch, TakeNext
  <2>4. QED  BY <1>5, <2>1, <2>2, <2>3 DEF FollowerStep
<1>6. CASE \E m \in Messages : Arrive(m)
  BY <1>1, <1>6 DEF rankVars
<1>7. QED
  BY <1>2, <1>3, <1>4, <1>5, <1>6 DEF TPNext, RankStep

LEMMA TypesStep ==
  ASSUME IInv, TPNext
  PROVE  Types'
<1>1. Types /\ RootFits
  BY DEF IInv
<1>2. \A i \in 1 .. Len(rounds') : rounds'[i].from \in Nat
  <2>1. CASE rounds' = rounds
    BY <1>1, <2>1 DEF Types
  <2>2. CASE BroadcastCount /\ Len(rounds') = Len(rounds) + 1
    <3>1. Receiving(0) /\ Len(rounds) = Done(0)
      BY <1>1, <2>2 DEF BroadcastCount, Receiving, RootFits
    <3>2. Len(pub) - Len(pending[0]) = EndOf(Done(0))
      <4>1. read[0] = Len(pub) /\ read[0] = EndOf(Done(0)) + Len(pending[0])
        BY <1>1, <3>1 DEF RootFits, RankFits
      <4>2. Len(rounds) \in Nat /\ Len(pending[0]) \in Nat
        BY <1>1, TPAssumption DEF Types, Ranks
      <4>3. EndOf(Done(0)) \in Nat
        BY <1>1, <3>1, <4>2, EndIsNat
      <4>4. QED  BY <4>1, <4>2, <4>3
    <3>3. EndOf(Done(0)) \in Nat
      <4>1. Len(rounds) \in 0 .. Len(rounds)
        BY <1>1 DEF Types
      <4>2. QED  BY <1>1, <3>1, <4>1, EndIsNat
    <3>4. rounds'[Len(rounds) + 1].from = Len(pub) - Len(pending[0])
      <4> DEFINE entry == [count |-> Counted, from |-> Len(pub) - Len(pending[0]),
                           state |-> state[0], batch |-> pending[0] \o raw]
      <4>1. rounds' = Append(rounds, entry) /\ entry.from = Len(pub) - Len(pending[0])
        BY <2>2 DEF BroadcastCount
      <4>2. rounds \in Seq({rounds[i] : i \in DOMAIN rounds})
        BY <1>1 DEF Types
      <4> HIDE DEF entry
      <4>3. rounds'[Len(rounds) + 1] = entry
        BY <4>1, <4>2, AppendOwn
      <4>4. QED  BY <4>1, <4>3
    <3>5. ASSUME NEW i \in 1 .. Len(rounds')
          PROVE  rounds'[i].from \in Nat
      <4>1. CASE i = Len(rounds) + 1
        BY <3>2, <3>3, <3>4, <4>1
      <4>2. CASE i # Len(rounds) + 1
        <5>1. i \in 1 .. Len(rounds)
          BY <1>1, <2>2, <4>2 DEF Types
        <5>2. rounds'[i] = rounds[i]
          BY <1>1, <5>1, RoundsStep
        <5>3. QED  BY <1>1, <5>1, <5>2 DEF Types
      <4>3. QED  BY <4>1, <4>2
    <3>6. QED  BY <3>5
  <2>3. QED  BY <1>1, <2>1, <2>2, RoundsStep
<1>3. QED  BY <1>1, <1>2, ContentStep, RoundsStep, PlaceStep DEF Types

-------------------------------------------------------------------------------
(* Rank 0 keeps fitting when others move.                                       *)
LEMMA RootKept ==
  ASSUME RootFits, UNCHANGED <<raw, pub, rounds>>,
         pc'[0] = pc[0], read'[0] = read[0], pending'[0] = pending[0],
         state'[0] = state[0], seen'[0] = seen[0]
  PROVE  RootFits'
BY DEF RootFits, RankFits, Receiving, Done, EndOf, StateAfter, Blocked

(* The messages that a rank has in hand when its receive returns are the batch  *)
(* of the round: as many, and from the same place in the stream.                *)
LEMMA BatchComplete ==
  ASSUME Types, RoundsFit, NEW r \in Ranks, RankFits(r), Receiving(r),
         Done(r) < Len(rounds),
         Len(pending[r]) = Len(rounds[Done(r) + 1].batch)
  PROVE  pending[r] = rounds[Done(r) + 1].batch
<1> DEFINE k == Done(r)
           batch == rounds[k + 1].batch
<1>1. /\ k \in Nat /\ Len(rounds) \in Nat /\ k + 1 \in 1 .. Len(rounds) /\ k + 1 - 1 = k
      /\ Len(pub) \in Nat
  BY DEF Types, Done
<1>2. pending[r] \in Seq(Messages) /\ batch \in Seq(Messages)
  BY <1>1 DEF Types
<1>3. EndOf(k) \in Nat
  BY <1>1, EndIsNat
<1>4. RoundFits(k + 1)
  BY <1>1 DEF RoundsFit
<1>5. ASSUME NEW j \in 1 .. Len(pending[r])
      PROVE  pending[r][j] = batch[j]
  <2>1. pending[r][j] = pub[EndOf(k) + j]
    BY DEF RankFits
  <2>2. EndOf(k) + Len(pending[r]) <= Len(pub)
    BY DEF RankFits
  <2>3. EndOf(k) + j <= Len(pub)
    BY <1>1, <1>2, <1>3, <2>2
  <2>4. batch[j] = At(EndOf(k) + j)
    BY <1>1, <1>4 DEF RoundFits
  <2>5. QED  BY <2>1, <2>3, <2>4 DEF At
<1>6. Len(pending[r]) = Len(batch)
  OBVIOUS
<1> HIDE DEF batch
<1>7. pending[r] = batch
  BY <1>2, <1>5, <1>6
<1>8. QED  BY <1>7 DEF batch

(* A rank whose batch is complete stays in place when it processes it.          *)
LEMMA IterateFits ==
  ASSUME Types, Types', RoundsFit, NEW r \in Ranks, RankFits(r), Receiving(r),
         Done(r) < Len(rounds),
         Len(pending[r]) = Len(rounds[Done(r) + 1].batch),
         Iterate(r)
  PROVE  /\ RankFits(r)' /\ Done(r)' = Done(r) + 1
         /\ pc'[r] \in {"start", "barrier"}
<1>0. Done(r) \in Nat /\ Len(rounds) \in Nat
  BY DoneIsNat
<1>k. PICK k \in Nat : k = Done(r)
  BY <1>0
<1>1. /\ Len(rounds) \in Nat /\ k + 1 \in 1 .. Len(rounds) /\ k + 1 - 1 = k
      /\ k + 1 # 0
  BY <1>0, <1>k
<1>2. pending[r] = rounds[k + 1].batch
  BY <1>k, BatchComplete
<1>3. RoundFits(k + 1)
  BY <1>1 DEF RoundsFit
<1>4. /\ UNCHANGED <<raw, pub, rounds, read, pending>>
      /\ seen'[r] = Append(seen[r], pending[r])
      /\ state'[r] = Step(state[r], pending[r])
      /\ pc'[r] \in {"start", "barrier"}
  BY DEF Iterate, Goto, Types, inputVars
<1>5. seen[r] \in Seq(Seq(Messages)) /\ pending[r] \in Seq(Messages)
  BY DEF Types
<1>6. /\ Done(r)' = k + 1
      /\ \A i \in 1 .. k : seen'[r][i] = seen[r][i]
      /\ seen'[r][k + 1] = pending[r]
  BY <1>k, <1>4, <1>5 DEF Done
<1>7. ASSUME NEW i \in 1 .. k + 1
      PROVE  seen'[r][i] = rounds[i].batch
  <2>1. CASE i = k + 1
    BY <1>2, <1>6, <2>1
  <2>2. CASE i # k + 1
    <3>1. i \in 1 .. k
      BY <1>1, <2>2
    <3>2. QED  BY <1>k, <1>6, <3>1 DEF RankFits
  <2>3. QED  BY <2>1, <2>2
<1>8. state'[r] = StateAfter(k + 1)
  <2>1. state[r] = rounds[k + 1].state
    BY <1>k, <1>1, <1>3 DEF RankFits, RoundFits
  <2>2. QED  BY <1>1, <1>2, <1>4, <2>1 DEF StateAfter
<1>9. EndOf(k + 1) = EndOf(k) + Len(pending[r])
  BY <1>1, <1>2, <1>3 DEF RoundFits, EndOf
<1>10. read[r] = EndOf(k + 1) /\ read[r] <= Len(pub)
  BY <1>k, <1>9 DEF RankFits
<1>11. ~Receiving(r)' /\ pc'[r] # "block"
  BY <1>4 DEF Receiving
<1>12. StateAfter(Done(r))' = StateAfter(k + 1) /\ EndOf(Done(r))' = EndOf(k + 1)
  BY <1>4, <1>6 DEF StateAfter, EndOf
<1>13. EndOf(k + 1) \in Nat
  BY <1>1, EndIsNat
<1>14. RankFits(r)'
  <2>1. Done(r)' <= Len(rounds') /\ read'[r] <= Len(pub')
    BY <1>1, <1>4, <1>6, <1>10
  <2>2. \A i \in 1 .. Done(r)' : seen'[r][i] = rounds'[i].batch
    BY <1>4, <1>6, <1>7
  <2>3. state'[r] = StateAfter(Done(r))'
    BY <1>8, <1>12
  <2>4. read'[r] = EndOf(Done(r))' + (IF Receiving(r)' THEN Len(pending'[r]) ELSE 0)
    BY <1>4, <1>10, <1>11, <1>12, <1>13
  <2>5. QED  BY <1>11, <2>1, <2>2, <2>3, <2>4 DEF RankFits
<1>15. QED  BY <1>k, <1>4, <1>6, <1>14

(* A rank begins an iteration with nothing in hand.                             *)
LEMMA BeginFits ==
  ASSUME Types, Types', NEW r \in Ranks, RankFits(r), Begin(r)
  PROVE  /\ RankFits(r)' /\ Done(r)' = Done(r) /\ state'[r] = state[r]
         /\ pending'[r] = <<>>
         /\ pc'[r] = IF Idle(state[r]) THEN "block" ELSE IF r = 0 THEN "drain" ELSE "count"
<1>1. /\ UNCHANGED <<inbox, raw, pub, rounds, read, state, seen>>
      /\ pending'[r] = <<>> /\ Len(pending'[r]) = 0
      /\ pc'[r] = IF Idle(state[r]) THEN "block" ELSE IF r = 0 THEN "drain" ELSE "count"
      /\ pc[r] = "start"
  BY DEF Begin, Goto, Types, inputVars
<1>2. ~Receiving(r) /\ Receiving(r)'
  BY <1>1 DEF Receiving
<1>3. Done(r)' = Done(r) /\ EndOf(Done(r))' = EndOf(Done(r))
      /\ StateAfter(Done(r))' = StateAfter(Done(r))
  BY <1>1 DEF Done, EndOf, StateAfter
<1>4. Done(r) \in 0 .. Len(rounds)
  BY DEF Types, Done, RankFits
<1>5. EndOf(Done(r)) \in Nat
  BY <1>4, EndIsNat
<1>6. read[r] = EndOf(Done(r)) + 0
  BY <1>2, <1>5 DEF RankFits
<1>7. RankFits(r)'
  BY <1>1, <1>2, <1>3, <1>6 DEF RankFits
<1>8. QED  BY <1>1, <1>3, <1>7

(* A message more in hand, read from the place that rank r has reached.         *)
LEMMA TakeNextFits ==
  ASSUME Types, Types', NEW r \in Ranks, RankFits(r), Receiving(r), Receiving(r)',
         pc'[r] # "block", TakeNext(r), UNCHANGED <<inputVars, state, seen>>
  PROVE  /\ RankFits(r)' /\ Done(r)' = Done(r)
         /\ Len(pending'[r]) = Len(pending[r]) + 1
<1>1. /\ Done(r)' = Done(r) /\ EndOf(Done(r))' = EndOf(Done(r))
      /\ StateAfter(Done(r))' = StateAfter(Done(r))
      /\ UNCHANGED <<pub, rounds>>
  BY DEF Done, EndOf, StateAfter, inputVars
<1>2. Done(r) \in 0 .. Len(rounds) /\ Len(rounds) \in Nat
  BY DoneIsNat DEF RankFits
<1>3. EndOf(Done(r)) \in Nat
  BY <1>2, EndIsNat
<1>4. /\ read[r] \in Nat /\ read[r] < Len(pub) /\ Len(pub) \in Nat
      /\ read[r] = EndOf(Done(r)) + Len(pending[r])
  BY DEF TakeNext, Subscribed, RankFits, Types
<1>5. pending[r] \in Seq(Messages) /\ pub[read[r] + 1] \in Messages
  BY <1>4, SMTT(30) DEF Types
<1>6. read'[r] = read[r] + 1 /\ pending'[r] = Append(pending[r], pub[read[r] + 1])
  BY DEF TakeNext, Types
<1>7. /\ Len(pending'[r]) = Len(pending[r]) + 1 /\ Len(pending[r]) \in Nat
      /\ \A j \in 1 .. Len(pending[r]) : pending'[r][j] = pending[r][j]
      /\ pending'[r][Len(pending[r]) + 1] = pub[read[r] + 1]
  BY <1>5, <1>6
<1>8. ASSUME NEW j \in 1 .. Len(pending'[r])
      PROVE  pending'[r][j] = pub'[EndOf(Done(r))' + j]
  <2>1. CASE j = Len(pending[r]) + 1
    <3>1. EndOf(Done(r)) + j = read[r] + 1
      BY <1>3, <1>4, <1>7, <2>1
    <3>2. QED  BY <1>1, <1>7, <2>1, <3>1
  <2>2. CASE j # Len(pending[r]) + 1
    <3>1. j \in 1 .. Len(pending[r])
      BY <1>7, <2>2
    <3>2. QED  BY <1>1, <1>7, <3>1 DEF RankFits
  <2>3. QED  BY <2>1, <2>2
<1>9. read'[r] = EndOf(Done(r))' + (IF Receiving(r)' THEN Len(pending'[r]) ELSE 0)
  BY <1>1, <1>3, <1>4, <1>6, <1>7
<1>10. read'[r] <= Len(pub') /\ Done(r)' <= Len(rounds')
  BY <1>1, <1>2, <1>4, <1>6
<1>11. /\ \A i \in 1 .. Done(r)' : seen'[r][i] = rounds'[i].batch
       /\ state'[r] = StateAfter(Done(r))'
  BY <1>1 DEF RankFits
<1>12. RankFits(r)'
  BY <1>8, <1>9, <1>10, <1>11 DEF RankFits
<1>13. QED  BY <1>1, <1>7, <1>12

(* A step that moves the program counter, not to "block" and not across the     *)
(* borders of a receive, while rounds may be added.                             *)
LEMMA MoveFits ==
  ASSUME Types, Types', NEW r \in Ranks, RankFits(r), Receiving(r) <=> Receiving(r)',
         pc'[r] # "block", pub' = pub,
         Len(rounds) <= Len(rounds'), \A i \in 1 .. Len(rounds) : rounds'[i] = rounds[i],
         read'[r] = read[r], pending'[r] = pending[r], state'[r] = state[r], seen'[r] = seen[r]
  PROVE  RankFits(r)' /\ Done(r)' = Done(r)
<1>1. Done(r)' = Done(r)
  BY DEF Done
<1>2. Done(r) \in 0 .. Len(rounds) /\ Len(rounds) \in Nat /\ Len(rounds') \in Nat
  BY DoneIsNat, SMTT(30) DEF RankFits, Types
<1>3. Done(r) # 0 => rounds'[Done(r)] = rounds[Done(r)]
  BY <1>2
<1>4. EndOf(Done(r))' = EndOf(Done(r)) /\ StateAfter(Done(r))' = StateAfter(Done(r))
  BY <1>1, <1>3 DEF EndOf, StateAfter
<1>5. \A i \in 1 .. Done(r) : seen'[r][i] = rounds'[i].batch
  BY <1>2 DEF RankFits
<1>6. QED  BY <1>1, <1>2, <1>4, <1>5 DEF RankFits

LEMMA FollowerMoves ==
  ASSUME IInv, Types', NEW r \in Followers,
         Begin(r) \/ Iterate(r) \/ LeaveBarrier(r) \/ FollowerStep(r)
  PROVE  FollowerFits(r)'
<1>1. Types /\ RoundsFit /\ FollowerFits(r) /\ RankFits(r) /\ r \in Ranks /\ r # 0
  BY DEF IInv, FollowerFits, Followers
<1>2. pc[r] \in {"start", "block", "count", "fetch", "barrier", "exited"}
  BY <1>1 DEF Types, FollowerFits
<1>3. CASE Begin(r)
  <2>1. /\ RankFits(r)' /\ state'[r] = state[r] /\ pending'[r] = <<>>
        /\ pc'[r] = IF Idle(state[r]) THEN "block" ELSE "count"
    BY <1>1, <1>3, BeginFits
  <2>2. pc'[r] = "count" => Len(pending'[r]) = Blocked(state'[r])
    BY <2>1 DEF Blocked
  <2>3. QED  BY <2>1, <2>2 DEF FollowerFits
<1>4. CASE Iterate(r)
  <2>1. pc[r] = "fetch" /\ need[r] = 0
    BY <1>1, <1>4 DEF Iterate, Received
  <2>2. /\ Done(r) < Len(rounds) /\ Receiving(r)
        /\ Len(pending[r]) + need[r] = Blocked(state[r]) + rounds[Done(r) + 1].count
    BY <1>1, <2>1 DEF FollowerFits, Receiving
  <2>3. Done(r) + 1 \in 1 .. Len(rounds) /\ Done(r) + 1 - 1 = Done(r)
    BY <1>1, <2>2, DoneIsNat
  <2>4. Done(r) \in Nat /\ state[r] = StateAfter(Done(r))
    BY <1>1, DoneIsNat DEF RankFits
  <2>5. Len(rounds[Done(r) + 1].batch) = rounds[Done(r) + 1].count + Blocked(state[r])
    BY <1>1, <2>2, <2>4, NextRound
  <2>6. Len(pending[r]) = Len(rounds[Done(r) + 1].batch)
    <3>1. Len(pending[r]) \in Nat
      BY <1>1 DEF Types
    <3>2. rounds[Done(r) + 1].count \in Nat
      BY <1>1, <2>3 DEF Types
    <3>3. QED  BY <2>1, <2>2, <2>5, <3>1, <3>2 DEF Blocked
  <2>7. RankFits(r)' /\ pc'[r] \in {"start", "barrier"}
    BY <1>1, <1>4, <2>2, <2>6, IterateFits
  <2>8. QED  BY <2>7 DEF FollowerFits
<1>5. CASE LeaveBarrier(r)
  <2>1. /\ pc[r] = "barrier" /\ pc'[r] = "exited"
        /\ UNCHANGED <<pub, rounds, read, pending, state, seen>>
    BY <1>1, <1>5 DEF LeaveBarrier, Goto, Types, inputVars
  <2>2. Receiving(r) <=> Receiving(r)'
    BY <2>1 DEF Receiving
  <2>3. RankFits(r)'
    <3>1. Len(rounds) <= Len(rounds') /\ \A i \in 1 .. Len(rounds) : rounds'[i] = rounds[i]
      BY <1>1, <2>1 DEF Types
    <3>2. QED  BY <1>1, <2>1, <2>2, <3>1, MoveFits
  <2>4. QED  BY <2>1, <2>3 DEF FollowerFits
<1>6. CASE BlockingRead(r)
  <2>1. /\ pc[r] = "block" /\ pc'[r] = "count" /\ TakeNext(r)
        /\ UNCHANGED <<inputVars, state, seen>>
    BY <1>1, <1>6 DEF BlockingRead, Goto, Types
  <2>2. Receiving(r) /\ Receiving(r)'
    BY <2>1 DEF Receiving
  <2>3. RankFits(r)' /\ Len(pending'[r]) = Len(pending[r]) + 1
    BY <1>1, <2>1, <2>2, TakeNextFits
  <2>4. Idle(state[r]) /\ Len(pending[r]) = 0
    BY <1>1, <2>1 DEF RankFits
  <2>5. Len(pending'[r]) = Blocked(state'[r])
    BY <2>1, <2>3, <2>4 DEF Blocked
  <2>6. QED  BY <2>1, <2>3, <2>5 DEF FollowerFits
<1>7. CASE TakeCount(r)
  <2>1. /\ pc[r] = "count" /\ pc'[r] = "fetch" /\ Done(r) < Len(rounds)
        /\ need'[r] = rounds[Done(r) + 1].count
        /\ UNCHANGED <<pub, rounds, read, pending, state, seen>>
    BY <1>1, <1>7 DEF TakeCount, Goto, Types, inputVars, Done
  <2>2. Receiving(r) <=> Receiving(r)'
    BY <2>1 DEF Receiving
  <2>3. RankFits(r)' /\ Done(r)' = Done(r)
    <3>1. Len(rounds) <= Len(rounds') /\ \A i \in 1 .. Len(rounds) : rounds'[i] = rounds[i]
      BY <1>1, <2>1 DEF Types
    <3>2. QED  BY <1>1, <2>1, <2>2, <3>1, MoveFits
  <2>4. Len(pending[r]) = Blocked(state[r])
    BY <1>1, <2>1 DEF FollowerFits
  <2>5. Len(pending'[r]) + need'[r] = Blocked(state'[r]) + rounds'[Done(r)' + 1].count
    BY <2>1, <2>3, <2>4 DEF Blocked
  <2>6. QED  BY <2>1, <2>3, <2>5 DEF FollowerFits
<1>8. CASE Fetch(r)
  <2>1. /\ pc[r] = "fetch" /\ pc'[r] = "fetch" /\ need'[r] = need[r] - 1 /\ TakeNext(r)
        /\ UNCHANGED <<inputVars, state, seen>>
    BY <1>1, <1>8 DEF Fetch, Types
  <2>2. Receiving(r) /\ Receiving(r)'
    BY <2>1 DEF Receiving
  <2>3. /\ RankFits(r)' /\ Done(r)' = Done(r)
        /\ Len(pending'[r]) = Len(pending[r]) + 1
    BY <1>1, <2>1, <2>2, TakeNextFits
  <2>4. /\ Done(r) < Len(rounds)
        /\ Len(pending[r]) + need[r] = Blocked(state[r]) + rounds[Done(r) + 1].count
    BY <1>1, <2>1 DEF FollowerFits
  <2>5. rounds' = rounds /\ state' = state
    BY <2>1 DEF inputVars
  <2>6. Len(pending[r]) \in Nat /\ need[r] \in Nat
    BY <1>1 DEF Types
  <2>7. Len(pending'[r]) + need'[r] = Blocked(state'[r]) + rounds'[Done(r)' + 1].count
    BY <2>1, <2>3, <2>4, <2>5, <2>6
  <2>8. QED  BY <2>1, <2>3, <2>4, <2>5, <2>7 DEF FollowerFits
<1>9. QED  BY <1>3, <1>4, <1>5, <1>6, <1>7, <1>8 DEF FollowerStep

-------------------------------------------------------------------------------
(* The stream only grows.                                                       *)
LEMMA StreamGrows ==
  ASSUME IInv, Types', TPNext
  PROVE  StreamLen <= StreamLen' /\ \A j \in 1 .. StreamLen : At(j)' = At(j)
<1>1. /\ inbox \in Seq(Messages) /\ raw \in Seq(Messages) /\ pub \in Seq(Messages)
      /\ Len(pub) \in Nat /\ Len(raw) \in Nat
  BY DEF IInv, Types
<1>2. CASE BlockingGet
  <2>1. raw = <<>> /\ raw' = raw
    BY <1>2 DEF BlockingGet, IInv, RootFits
  <2>2. pub' = Append(pub, Head(inbox)) /\ Head(inbox) \in Messages
    BY <1>1, <1>2 DEF BlockingGet
  <2>3. Len(pub') = Len(pub) + 1 /\ \A j \in 1 .. Len(pub) : pub'[j] = pub[j]
    BY <1>1, <2>2
  <2>4. StreamLen = Len(pub)
    BY <1>1, <2>1 DEF StreamLen
  <2>5. StreamLen' = Len(pub) + 1
    BY <1>1, <2>1, <2>3 DEF StreamLen
  <2>6. ASSUME NEW j \in 1 .. Len(pub)
        PROVE  At(j)' = At(j)
    BY <1>1, <2>3 DEF At
  <2>7. QED  BY <1>1, <2>4, <2>5, <2>6
<1>3. CASE Drain
  <2>1. raw' = Append(raw, Head(inbox)) /\ Head(inbox) \in Messages /\ pub' = pub
    BY <1>1, <1>3 DEF Drain
  <2>2. Len(raw') = Len(raw) + 1 /\ \A j \in 1 .. Len(raw) : raw'[j] = raw[j]
    BY <1>1, <2>1
  <2>3. StreamLen' = StreamLen + 1 /\ StreamLen \in Nat
    BY <1>1, <2>1, <2>2 DEF StreamLen
  <2>4. ASSUME NEW j \in 1 .. StreamLen
        PROVE  At(j)' = At(j)
    <3>1. CASE j <= Len(pub)
      BY <2>1, <3>1 DEF At
    <3>2. CASE ~(j <= Len(pub))
      <4>1. j - Len(pub) \in 1 .. Len(raw)
        BY <1>1, <3>2 DEF StreamLen
      <4>2. raw'[j - Len(pub)] = raw[j - Len(pub)]
        BY <2>2, <4>1
      <4>3. QED  BY <2>1, <3>2, <4>2 DEF At
    <3>3. QED  BY <3>1, <3>2
  <2>5. QED  BY <2>3, <2>4
<1>4. CASE Publish
  <2>1. /\ pub' = Append(pub, Head(raw)) /\ raw' = Tail(raw) /\ raw # <<>>
        /\ Head(raw) \in Messages
    BY <1>1, <1>4 DEF Publish
  <2>2. /\ Len(pub') = Len(pub) + 1 /\ pub'[Len(pub) + 1] = raw[1]
        /\ \A j \in 1 .. Len(pub) : pub'[j] = pub[j]
    BY <1>1, <2>1
  <2>3. Len(raw') = Len(raw) - 1 /\ \A j \in 1 .. Len(raw) - 1 : raw'[j] = raw[j + 1]
    BY <1>1, <2>1
  <2>4. StreamLen' = StreamLen /\ StreamLen \in Nat
    BY <1>1, <2>2, <2>3 DEF StreamLen
  <2>5. ASSUME NEW j \in 1 .. StreamLen
        PROVE  At(j)' = At(j)
    <3>1. CASE j <= Len(pub)
      BY <1>1, <2>2, <3>1 DEF At
    <3>2. CASE j = Len(pub) + 1
      <4>1. j - Len(pub) = 1
        BY <1>1, <3>2
      <4>2. QED  BY <1>1, <2>2, <3>2, <4>1 DEF At
    <3>3. CASE j > Len(pub) + 1
      <4>1. /\ j - Len(pub') \in 1 .. Len(raw) - 1
            /\ j - Len(pub') + 1 = j - Len(pub)
        BY <1>1, <2>2, <3>3 DEF StreamLen
      <4>2. raw'[j - Len(pub')] = raw[j - Len(pub)]
        BY <2>3, <4>1
      <4>3. QED  BY <1>1, <2>2, <3>3, <4>2 DEF At
    <3>4. QED  BY <1>1, <3>1, <3>2, <3>3
  <2>6. QED  BY <2>4, <2>5
<1>5. CASE ~BlockingGet /\ ~Drain /\ ~Publish
  <2>1. raw' = raw /\ pub' = pub
    BY <1>5 DEF TPNext, RankStep, RootStep, FollowerStep, Arrive, Begin, Iterate, LeaveBarrier,
         BroadcastCount, BlockingRead, TakeCount, Fetch, inputVars
  <2>2. StreamLen' = StreamLen /\ StreamLen \in Nat
    BY <1>1, <2>1 DEF StreamLen
  <2>3. \A j \in 1 .. StreamLen : At(j)' = At(j)
    BY <2>1 DEF At
  <2>4. QED  BY <2>2, <2>3
<1>6. QED  BY <1>2, <1>3, <1>4, <1>5

(* The round of a broadcast continues the stream where rank 0 stands.           *)
LEMMA NewRoundFits ==
  ASSUME IInv, Types', BroadcastCount,
         StreamLen <= StreamLen', \A j \in 1 .. StreamLen : At(j)' = At(j)
  PROVE  /\ RoundFits(Len(rounds))' /\ Len(rounds') = Len(rounds) + 1
         /\ rounds'[Len(rounds) + 1].count = Len(raw)
         /\ rounds'[Len(rounds) + 1].batch = pending[0] \o raw
<1> DEFINE entry == [count |-> Counted, from |-> Len(pub) - Len(pending[0]),
                     state |-> state[0], batch |-> pending[0] \o raw]
<1>1. /\ Types /\ RootFits /\ RankFits(0) /\ pc[0] = "drain" /\ 0 \in Ranks
      /\ UNCHANGED <<raw, pub, pending, state, seen>>
  BY TPAssumption DEF IInv, RootFits, BroadcastCount, Ranks
<1>2. PICK n \in Nat : n = Len(rounds)
  BY <1>1 DEF Types
<1>3. /\ Len(rounds') = n + 1 /\ rounds'[n + 1] = entry
      /\ \A i \in 1 .. n : rounds'[i] = rounds[i]
  <2>1. rounds' = Append(rounds, entry)
    BY DEF BroadcastCount
  <2>2. rounds \in Seq({rounds[i] : i \in DOMAIN rounds})
    BY <1>1 DEF Types
  <2> HIDE DEF entry
  <2>3. QED  BY <1>2, <2>1, <2>2, AppendOwn
<1>4. Done(0) = n
  BY <1>1, <1>2 DEF RootFits
<1>5. EndOf(n) \in Nat
  BY <1>1, <1>2, EndIsNat
<1>f. PICK f \in Nat : f = EndOf(n)
  BY <1>5
<1>6. /\ pending[0] \in Seq(Messages) /\ raw \in Seq(Messages) /\ pub \in Seq(Messages)
      /\ Len(pending[0]) \in Nat /\ Len(raw) \in Nat /\ Len(pub) \in Nat
  BY <1>1 DEF Types
<1>7. Len(pub) = EndOf(n) + Len(pending[0]) /\ entry.from = EndOf(n)
  <2>1. Receiving(0)
    BY <1>1 DEF Receiving
  <2>2. Len(pub) = EndOf(n) + Len(pending[0])
    BY <1>1, <1>4, <2>1 DEF RootFits, RankFits
  <2>3. QED  BY <1>5, <1>6, <2>2
<1>8. EndOf(n)' = EndOf(n) /\ StateAfter(n)' = StateAfter(n)
  BY <1>2, <1>3 DEF EndOf, StateAfter
<1>9. state[0] = StateAfter(n) /\ Len(pending[0]) = Blocked(state[0])
  BY <1>1, <1>4 DEF RootFits, RankFits
<1>10. Len(pending[0] \o raw) = Len(pending[0]) + Len(raw)
  BY <1>6
<1>11. ASSUME NEW j \in 1 .. Len(pending[0] \o raw)
       PROVE  (pending[0] \o raw)[j] = At(EndOf(n) + j) /\ EndOf(n) + j \in 1 .. StreamLen
  <2>0. EndOf(n) + j \in 1 .. StreamLen
    BY <1>5, <1>6, <1>7, <1>10 DEF StreamLen
  <2>1. CASE j <= Len(pending[0])
    <3>1. (pending[0] \o raw)[j] = pending[0][j]
      BY <1>6, <2>1
    <3>2. pending[0][j] = pub[EndOf(n) + j]
      BY <1>1, <1>4, <1>6, <2>1 DEF RankFits, Receiving
    <3>3. EndOf(n) + j <= Len(pub)
      BY <1>5, <1>6, <1>7, <2>1
    <3>4. QED  BY <2>0, <3>1, <3>2, <3>3 DEF At
  <2>2. CASE ~(j <= Len(pending[0]))
    <3>1. (pending[0] \o raw)[j] = raw[j - Len(pending[0])]
      BY <1>6, <1>10, <2>2
    <3>2. ~(EndOf(n) + j <= Len(pub)) /\ EndOf(n) + j - Len(pub) = j - Len(pending[0])
      BY <1>5, <1>6, <1>7, <2>2
    <3>3. QED  BY <1>5, <1>6, <2>0, <3>1, <3>2 DEF At
  <2>3. QED  BY <2>1, <2>2
<1>12. EndOf(n) + Len(pending[0] \o raw) <= StreamLen'
  <2>1. StreamLen' = StreamLen
    BY <1>1 DEF StreamLen
  <2>2. QED  BY <1>5, <1>6, <1>7, <1>10, <2>1 DEF StreamLen
<1>13. /\ entry.count = Len(raw) /\ entry.state = state[0]
       /\ entry.batch = pending[0] \o raw
  BY DEF Counted
<1> HIDE DEF entry
<1>14. RoundFits(n + 1)'
  <2>1. n + 1 - 1 = n
    OBVIOUS
  <2>2. rounds'[n + 1].from = EndOf(n + 1 - 1)'
    BY <1>3, <1>7, <1>8, <2>1
  <2>3. rounds'[n + 1].state = StateAfter(n + 1 - 1)'
    BY <1>3, <1>8, <1>9, <1>13, <2>1
  <2>4. Len(rounds'[n + 1].batch) = rounds'[n + 1].count + Blocked(rounds'[n + 1].state)
    BY <1>3, <1>6, <1>9, <1>10, <1>13 DEF Blocked
  <2>5. rounds'[n + 1].from + Len(rounds'[n + 1].batch) <= StreamLen'
    BY <1>3, <1>7, <1>12, <1>13
  <2>6. (\A j \in 1 .. Len(rounds[n + 1].batch) :
           rounds[n + 1].batch[j] = At(rounds[n + 1].from + j))'
    <3>1. PICK b : b = pending[0] \o raw
      OBVIOUS
    <3>2. rounds'[n + 1].from = f /\ rounds'[n + 1].batch = b
      BY <1>3, <1>7, <1>13, <1>f, <3>1
    <3>3. \A j \in 1 .. Len(b) :
            b[j] = IF f + j <= Len(pub) THEN pub[f + j] ELSE raw[f + j - Len(pub)]
      BY <1>11, <1>f, <3>1, SMTT(30) DEF At
    <3>4. pub' = pub /\ raw' = raw
      BY <1>1
    <3>5. QED  BY <3>2, <3>3, <3>4 DEF At
  <2>7. QED  BY <2>2, <2>3, <2>4, <2>5, <2>6 DEF RoundFits
<1>15. QED  BY <1>2, <1>3, <1>13, <1>14

(* Rank 0 publishes a message and keeps it.                                     *)
LEMMA PushFits ==
  ASSUME Types, Types', RootFits, Receiving(0), Receiving(0)', pc'[0] # "block",
         NEW m \in Messages, pub' = Append(pub, m), pending'[0] = Append(pending[0], m),
         read'[0] = read[0] + 1, UNCHANGED <<rounds, state, seen>>
  PROVE  /\ RankFits(0)' /\ Done(0)' = Done(0) /\ read'[0] = Len(pub')
         /\ Len(pending'[0]) = Len(pending[0]) + 1
<1>1. /\ Done(0)' = Done(0) /\ EndOf(Done(0))' = EndOf(Done(0))
      /\ StateAfter(Done(0))' = StateAfter(Done(0))
  BY DEF Done, EndOf, StateAfter
<1>2. 0 \in Ranks /\ RankFits(0)
  BY TPAssumption DEF Ranks, RootFits
<1>3. Done(0) \in 0 .. Len(rounds) /\ Len(rounds) \in Nat
  BY <1>2, DoneIsNat DEF RankFits
<1>4. EndOf(Done(0)) \in Nat
  BY <1>3, EndIsNat
<1>5. pub \in Seq(Messages) /\ pending[0] \in Seq(Messages)
  BY <1>2 DEF Types
<1>6. /\ Len(pub) \in Nat /\ Len(pub') = Len(pub) + 1 /\ pub'[Len(pub) + 1] = m
      /\ \A j \in 1 .. Len(pub) : pub'[j] = pub[j]
  BY <1>5
<1>7. /\ Len(pending[0]) \in Nat /\ Len(pending'[0]) = Len(pending[0]) + 1
      /\ pending'[0][Len(pending[0]) + 1] = m
      /\ \A j \in 1 .. Len(pending[0]) : pending'[0][j] = pending[0][j]
  BY <1>5
<1>8. read[0] = Len(pub) /\ Len(pub) = EndOf(Done(0)) + Len(pending[0])
  BY <1>2 DEF RootFits, RankFits
<1>9. ASSUME NEW j \in 1 .. Len(pending'[0])
      PROVE  pending'[0][j] = pub'[EndOf(Done(0))' + j]
  <2>1. CASE j = Len(pending[0]) + 1
    <3>1. EndOf(Done(0)) + j = Len(pub) + 1
      BY <1>4, <1>7, <1>8, <2>1
    <3>2. QED  BY <1>1, <1>6, <1>7, <2>1, <3>1
  <2>2. CASE j # Len(pending[0]) + 1
    <3>1. j \in 1 .. Len(pending[0]) /\ EndOf(Done(0)) + j \in 1 .. Len(pub)
      BY <1>4, <1>6, <1>7, <1>8, <2>2
    <3>2. pending[0][j] = pub[EndOf(Done(0)) + j]
      BY <1>2, <3>1 DEF RankFits
    <3>3. QED  BY <1>1, <1>6, <1>7, <3>1, <3>2
  <2>3. QED  BY <2>1, <2>2
<1>10. /\ read'[0] = Len(pub')
       /\ read'[0] = EndOf(Done(0))' + (IF Receiving(0)' THEN Len(pending'[0]) ELSE 0)
  BY <1>1, <1>4, <1>6, <1>7, <1>8
<1>11. read'[0] <= Len(pub') /\ Done(0)' <= Len(rounds')
  BY <1>1, <1>3, <1>6, <1>10
<1>12. /\ \A i \in 1 .. Done(0)' : seen'[0][i] = rounds'[i].batch
       /\ state'[0] = StateAfter(Done(0))'
  BY <1>1, <1>2 DEF RankFits
<1>13. RankFits(0)'
  BY <1>9, <1>10, <1>11, <1>12 DEF RankFits
<1>14. QED  BY <1>1, <1>7, <1>10, <1>13

LEMMA RootMoves ==
  ASSUME IInv, TPNext, Types', Begin(0) \/ Iterate(0) \/ LeaveBarrier(0) \/ RootStep
  PROVE  RootFits'
<1>1. Types /\ RoundsFit /\ RootFits /\ RankFits(0) /\ 0 \in Ranks
  BY TPAssumption DEF IInv, RootFits, Ranks
<1>2. /\ inbox \in Seq(Messages) /\ raw \in Seq(Messages) /\ pending[0] \in Seq(Messages)
      /\ Len(raw) \in Nat /\ Len(pending[0]) \in Nat
      /\ Done(0) \in Nat /\ Len(rounds) \in Nat
  BY <1>1, DoneIsNat, SMTT(30) DEF Types
<1>3. CASE Begin(0)
  <2>1. /\ RankFits(0)' /\ Done(0)' = Done(0) /\ state'[0] = state[0] /\ pending'[0] = <<>>
        /\ pc'[0] = IF Idle(state[0]) THEN "block" ELSE "drain"
    BY <1>1, <1>3, BeginFits
  <2>2. pc[0] = "start" /\ UNCHANGED <<raw, pub, rounds, read>>
    BY <1>3 DEF Begin, inputVars
  <2>3. raw = <<>> /\ Len(rounds) = Done(0) /\ read[0] = Len(pub)
    BY <1>1, <2>2 DEF RootFits
  <2>4. pc'[0] = "drain" => Len(pending'[0]) = Blocked(state'[0])
    BY <2>1 DEF Blocked
  <2>5. QED  BY <2>1, <2>2, <2>3, <2>4 DEF RootFits
<1>4. CASE Iterate(0)
  <2>1. pc[0] = "publish" /\ raw = <<>> /\ UNCHANGED <<raw, pub, rounds, read>>
    BY <1>4 DEF Iterate, Received, inputVars
  <2>2. /\ Len(rounds) = Done(0) + 1 /\ Receiving(0) /\ Len(raw) = 0
        /\ Len(pending[0]) + Len(raw) = Len(rounds[Done(0) + 1].batch)
    BY <1>1, <2>1 DEF RootFits, Receiving
  <2>3. Done(0) < Len(rounds) /\ Len(pending[0]) = Len(rounds[Done(0) + 1].batch)
    BY <1>2, <2>2
  <2>4. RankFits(0)' /\ Done(0)' = Done(0) + 1 /\ pc'[0] \in {"start", "barrier"}
    BY <1>1, <1>4, <2>2, <2>3, IterateFits
  <2>5. read'[0] = Len(pub')
    BY <1>1, <2>1 DEF RootFits
  <2>6. QED  BY <2>1, <2>2, <2>4, <2>5 DEF RootFits
<1>5. CASE LeaveBarrier(0)
  <2>1. /\ pc[0] = "barrier" /\ pc'[0] = "exited"
        /\ UNCHANGED <<raw, pub, rounds, read, pending, state, seen>>
    BY <1>1, <1>5 DEF LeaveBarrier, Goto, Types, inputVars
  <2>2. Receiving(0) <=> Receiving(0)'
    BY <2>1 DEF Receiving
  <2>3. RankFits(0)' /\ Done(0)' = Done(0)
    BY <1>1, <1>2, <2>1, <2>2, MoveFits
  <2>4. QED  BY <1>1, <2>1, <2>3 DEF RootFits
<1>6. CASE BlockingGet
  <2>1. /\ pc[0] = "block" /\ pc'[0] = "drain" /\ Head(inbox) \in Messages
        /\ pub' = Append(pub, Head(inbox)) /\ pending'[0] = <<Head(inbox)>>
        /\ read'[0] = read[0] + 1 /\ UNCHANGED <<raw, rounds, state, seen>>
    BY <1>1, <1>2, <1>6 DEF BlockingGet, Goto, Types
  <2>2. Idle(state[0]) /\ pending[0] = <<>> /\ raw = <<>> /\ Len(rounds) = Done(0)
    BY <1>1, <2>1 DEF RootFits, RankFits
  <2>3. pending'[0] = Append(pending[0], Head(inbox)) /\ Len(pending[0]) = 0
    BY <2>1, <2>2
  <2>4. Receiving(0) /\ Receiving(0)' /\ pc'[0] # "block"
    BY <2>1 DEF Receiving
  <2>5. /\ RankFits(0)' /\ Done(0)' = Done(0) /\ read'[0] = Len(pub')
        /\ Len(pending'[0]) = Len(pending[0]) + 1
    BY <1>1, <2>1, <2>3, <2>4, PushFits
  <2>6. Len(pending'[0]) = Blocked(state'[0])
    BY <2>1, <2>2, <2>3, <2>5 DEF Blocked
  <2>7. QED  BY <2>1, <2>2, <2>5, <2>6 DEF RootFits
<1>7. CASE Drain
  <2>1. /\ pc[0] = "drain" /\ pc'[0] = "drain"
        /\ UNCHANGED <<pub, rounds, read, pending, state, seen>>
    BY <1>7 DEF Drain, rankVars
  <2>2. Receiving(0) <=> Receiving(0)'
    BY <2>1 DEF Receiving
  <2>3. RankFits(0)' /\ Done(0)' = Done(0)
    BY <1>1, <1>2, <2>1, <2>2, MoveFits
  <2>4. QED  BY <1>1, <2>1, <2>3 DEF RootFits, Blocked
<1>8. CASE BroadcastCount
  <2>1. /\ pc[0] = "drain" /\ pc'[0] = "publish"
        /\ UNCHANGED <<raw, pub, read, pending, state, seen>>
    BY <1>1, <1>8 DEF BroadcastCount, Goto, Types
  <2>2. /\ Len(rounds') = Len(rounds) + 1
        /\ rounds'[Len(rounds) + 1].batch = pending[0] \o raw
    BY <1>8, StreamGrows, NewRoundFits
  <2>3. \A i \in 1 .. Len(rounds) : rounds'[i] = rounds[i]
    BY <1>1, RoundsStep
  <2>4. Receiving(0) <=> Receiving(0)'
    BY <2>1 DEF Receiving
  <2>5. RankFits(0)' /\ Done(0)' = Done(0)
    BY <1>1, <1>2, <2>1, <2>2, <2>3, <2>4, MoveFits
  <2>6. Len(rounds) = Done(0)
    BY <1>1, <2>1 DEF RootFits
  <2>7. Len(rounds'[Done(0)' + 1].batch) = Len(pending[0]) + Len(raw)
    <3>1. Done(0)' + 1 = Len(rounds) + 1
      BY <2>5, <2>6
    <3>2. rounds'[Done(0)' + 1].batch = pending[0] \o raw
      BY <2>2, <3>1
    <3>3. Len(pending[0] \o raw) = Len(pending[0]) + Len(raw)
      BY <1>2
    <3>4. QED  BY <3>2, <3>3
  <2>8. QED  BY <1>1, <2>1, <2>2, <2>5, <2>6, <2>7 DEF RootFits
<1>9. CASE Publish
  <2>1. /\ pc[0] = "publish" /\ pc'[0] = "publish" /\ Head(raw) \in Messages /\ raw # <<>>
        /\ pub' = Append(pub, Head(raw)) /\ pending'[0] = Append(pending[0], Head(raw))
        /\ read'[0] = read[0] + 1 /\ raw' = Tail(raw) /\ UNCHANGED <<rounds, state, seen>>
    BY <1>1, <1>2, <1>9 DEF Publish, Types
  <2>2. Receiving(0) /\ Receiving(0)' /\ pc'[0] # "block"
    BY <2>1 DEF Receiving
  <2>3. /\ RankFits(0)' /\ Done(0)' = Done(0) /\ read'[0] = Len(pub')
        /\ Len(pending'[0]) = Len(pending[0]) + 1
    BY <1>1, <2>1, <2>2, PushFits
  <2>4. Len(raw') = Len(raw) - 1
    BY <1>2, <2>1
  <2>5. /\ Len(rounds) = Done(0) + 1
        /\ Len(pending[0]) + Len(raw) = Len(rounds[Done(0) + 1].batch)
    BY <1>1, <2>1 DEF RootFits
  <2>6. Len(pending'[0]) + Len(raw') = Len(rounds'[Done(0)' + 1].batch)
    <3>1. rounds'[Done(0)' + 1] = rounds[Done(0) + 1]
      BY <2>1, <2>3
    <3>2. Len(pending'[0]) + Len(raw') = Len(pending[0]) + Len(raw)
      BY <1>2, <2>3, <2>4
    <3>3. QED  BY <2>5, <3>1, <3>2
  <2>7. QED  BY <2>1, <2>3, <2>5, <2>6 DEF RootFits
<1>10. QED  BY <1>3, <1>4, <1>5, <1>6, <1>7, <1>8, <1>9 DEF RootStep

-------------------------------------------------------------------------------
\* What is published stays published.
LEMMA PubGrows ==
  ASSUME Types, TPNext
  PROVE  Len(pub) <= Len(pub') /\ \A i \in 1 .. Len(pub) : pub'[i] = pub[i]
<1>1. inbox \in Seq(Messages) /\ raw \in Seq(Messages) /\ pub \in Seq(Messages)
  BY DEF Types
<1>2. CASE BlockingGet
  <2>1. Head(inbox) \in Messages /\ pub' = Append(pub, Head(inbox))
    BY <1>1, <1>2 DEF BlockingGet
  <2>2. QED  BY <1>1, <2>1
<1>3. CASE Publish
  <2>1. Head(raw) \in Messages /\ pub' = Append(pub, Head(raw))
    BY <1>1, <1>3 DEF Publish
  <2>2. QED  BY <1>1, <2>1
<1>4. CASE ~BlockingGet /\ ~Publish
  <2>1. pub' = pub
    BY <1>4 DEF TPNext, RankStep, RootStep, FollowerStep, Arrive, Begin, Iterate, LeaveBarrier,
         Drain, BroadcastCount, BlockingRead, TakeCount, Fetch, inputVars
  <2>2. QED  BY <1>1, <2>1
<1>5. QED  BY <1>2, <1>3, <1>4

(* A step changes the local state of the rank that takes it only.               *)
LEMMA OthersUnmoved ==
  ASSUME Types, NEW r \in Ranks, RankStep(r), NEW q \in Ranks, q # r
  PROVE  /\ pc'[q] = pc[q] /\ read'[q] = read[q] /\ pending'[q] = pending[q]
         /\ need'[q] = need[q] /\ state'[q] = state[q] /\ seen'[q] = seen[q]
<1> USE DEF Types, Goto
<1>1. CASE Begin(r)
  BY <1>1 DEF Begin
<1>2. CASE Iterate(r)
  BY <1>2 DEF Iterate
<1>3. CASE LeaveBarrier(r)
  BY <1>3 DEF LeaveBarrier
<1>4. CASE r = 0 /\ BlockingGet
  BY <1>4 DEF BlockingGet
<1>5. CASE r = 0 /\ Drain
  BY <1>5 DEF Drain, rankVars
<1>6. CASE r = 0 /\ BroadcastCount
  BY <1>6 DEF BroadcastCount
<1>7. CASE r = 0 /\ Publish
  BY <1>7 DEF Publish
<1>8. CASE BlockingRead(r)
  BY <1>8 DEF BlockingRead, TakeNext
<1>9. CASE TakeCount(r)
  BY <1>9 DEF TakeCount
<1>10. CASE Fetch(r)
  BY <1>10 DEF Fetch, TakeNext
<1>11. QED
  BY <1>1, <1>2, <1>3, <1>4, <1>5, <1>6, <1>7, <1>8, <1>9, <1>10
     DEF RankStep, RootStep, FollowerStep

LEMMA RoundsStayFit ==
  ASSUME IInv, TPNext, Types'
  PROVE  RoundsFit'
<1>1. Types /\ RoundsFit
  BY DEF IInv
<1>2. StreamLen <= StreamLen' /\ \A j \in 1 .. StreamLen : At(j)' = At(j)
  BY StreamGrows
<1>3. \A i \in 1 .. Len(rounds) : rounds'[i] = rounds[i]
  BY <1>1, RoundsStep
<1>4. \A i \in 1 .. Len(rounds) : RoundFits(i)'
  BY <1>1, <1>2, <1>3, RoundKept
<1>5. CASE rounds' = rounds
  BY <1>4, <1>5 DEF RoundsFit
<1>6. CASE BroadcastCount
  <2>1. RoundFits(Len(rounds))' /\ Len(rounds') = Len(rounds) + 1 /\ Len(rounds) \in Nat
    BY <1>1, <1>2, <1>6, NewRoundFits DEF Types
  <2>2. ASSUME NEW i \in 1 .. Len(rounds')
        PROVE  RoundFits(i)'
    <3>1. CASE i = Len(rounds')
      BY <2>1, <3>1
    <3>2. CASE i # Len(rounds')
      <4>1. i \in 1 .. Len(rounds)
        BY <2>1, <3>2
      <4>2. QED  BY <1>4, <4>1
    <3>3. QED  BY <3>1, <3>2
  <2>3. QED  BY <2>2 DEF RoundsFit
<1>7. QED  BY <1>1, <1>5, <1>6, RoundsStep

LEMMA InitFits ==
  TPInit => IInv
<1> SUFFICES ASSUME TPInit PROVE IInv
  OBVIOUS
<1>0. 0 \in Ranks /\ Followers \subseteq Ranks
  BY TPAssumption DEF Ranks, Followers
<1>1. /\ Types /\ raw = <<>> /\ pub = <<>> /\ Len(pub) = 0 /\ Len(rounds) = 0
      /\ \A r \in Ranks : /\ pc[r] = "start" /\ read[r] = 0 /\ state[r] = Fresh
                          /\ Done(r) = 0
  BY TypesBegin DEF TPInit, Done
<1>2. RoundsFit
  BY <1>1 DEF RoundsFit
<1>3. \A r \in Ranks : RankFits(r)
  BY <1>1 DEF RankFits, Receiving, EndOf, StateAfter
<1>4. RootFits
  BY <1>0, <1>1, <1>3 DEF RootFits
<1>5. \A r \in Followers : FollowerFits(r)
  BY <1>0, <1>1, <1>3 DEF FollowerFits
<1>6. QED  BY <1>1, <1>2, <1>4, <1>5 DEF IInv

LEMMA StepFits ==
  IInv /\ [TPNext]_tpVars => IInv'
<1> SUFFICES ASSUME IInv, [TPNext]_tpVars PROVE IInv'
  OBVIOUS
<1>0. Types /\ RootFits /\ (\A r \in Followers : FollowerFits(r)) /\ Len(rounds) \in Nat
  BY DEF IInv, Types
<1>1. CASE UNCHANGED tpVars
  <2>1. UNCHANGED <<inbox, raw, pub, rounds, pc, read, pending, need, state, seen>>
    BY <1>1 DEF tpVars, inputVars, rankVars
  <2>2. Types'
    BY <1>0, <2>1 DEF Types
  <2>3. RoundsFit'
    <3>1. RoundsFit
      BY DEF IInv
    <3>2. StreamLen' = StreamLen /\ StreamLen \in Nat /\ \A j \in 1 .. StreamLen : At(j)' = At(j)
      BY <1>0, <2>1 DEF StreamLen, At, Types
    <3>3. \A i \in 1 .. Len(rounds) : RoundFits(i)'
      BY <1>0, <2>1, <2>2, <3>1, <3>2, RoundKept
    <3>4. QED  BY <2>1, <3>3 DEF RoundsFit
  <2>4. RootFits'
    BY <1>0, <2>1, RootKept
  <2>5. \A r \in Followers : FollowerFits(r)'
    <3>1. RoundsFit /\ Len(pub) \in Nat
      BY DEF IInv, Types
    <3>2. QED  BY <1>0, <2>1, <2>2, <3>1, FollowerKept
  <2>6. QED  BY <2>2, <2>3, <2>4, <2>5 DEF IInv
<1>2. CASE TPNext
  <2>1. Types' /\ RoundsFit'
    BY <1>2, TypesStep, RoundsStayFit
  <2>2. /\ Len(rounds) <= Len(rounds') /\ \A i \in 1 .. Len(rounds) : rounds'[i] = rounds[i]
        /\ Len(pub) <= Len(pub') /\ \A i \in 1 .. Len(pub) : pub'[i] = pub[i]
    BY <1>0, <1>2, RoundsStep, PubGrows
  <2>3. RoundsFit
    BY DEF IInv
  <2>4. ASSUME NEW m \in Messages, Arrive(m)
        PROVE  RootFits' /\ \A r \in Followers : FollowerFits(r)'
    <3>1. UNCHANGED <<raw, pub, rounds, pc, read, pending, need, state, seen>>
      BY <2>4 DEF Arrive, rankVars
    <3>2. RootFits'
      BY <1>0, <3>1, RootKept
    <3>3. \A r \in Followers : FollowerFits(r)'
      BY <1>0, <2>1, <2>2, <2>3, <3>1, FollowerKept
    <3>4. QED  BY <3>2, <3>3
  <2>5. ASSUME NEW r \in Ranks, RankStep(r)
        PROVE  RootFits' /\ \A q \in Followers : FollowerFits(q)'
    <3>1. ASSUME NEW q \in Followers, q # r
          PROVE  FollowerFits(q)'
      <4>1. q \in Ranks
        BY DEF Followers
      <4>2. /\ pc'[q] = pc[q] /\ read'[q] = read[q] /\ pending'[q] = pending[q]
            /\ need'[q] = need[q] /\ state'[q] = state[q] /\ seen'[q] = seen[q]
        BY <1>0, <2>5, <3>1, <4>1, OthersUnmoved
      <4>3. QED  BY <1>0, <2>1, <2>2, <2>3, <4>2, FollowerKept
    <3>2. CASE r = 0
      <4>1. Begin(0) \/ Iterate(0) \/ LeaveBarrier(0) \/ RootStep
        BY <2>5, <3>2 DEF RankStep, Followers
      <4>2. RootFits'
        BY <1>2, <2>1, <4>1, RootMoves
      <4>3. QED  BY <3>1, <3>2, <4>2 DEF Followers
    <3>3. CASE r # 0
      <4>1. r \in Followers /\ (Begin(r) \/ Iterate(r) \/ LeaveBarrier(r) \/ FollowerStep(r))
        BY <2>5, <3>3 DEF RankStep, Followers
      <4>2. FollowerFits(r)'
        BY <2>1, <4>1, FollowerMoves
      <4>3. UNCHANGED inputVars
        BY <4>1 DEF Begin, Iterate, LeaveBarrier, FollowerStep, BlockingRead, TakeCount, Fetch
      <4>4. 0 \in Ranks
        BY TPAssumption DEF Ranks
      <4>5. /\ pc'[0] = pc[0] /\ read'[0] = read[0] /\ pending'[0] = pending[0]
            /\ state'[0] = state[0] /\ seen'[0] = seen[0]
        BY <1>0, <2>5, <3>3, <4>4, OthersUnmoved
      <4>6. RootFits'
        BY <1>0, <4>3, <4>5, RootKept DEF inputVars
      <4>7. QED  BY <3>1, <4>2, <4>6
    <3>4. QED  BY <3>2, <3>3
  <2>6. RootFits' /\ \A r \in Followers : FollowerFits(r)'
    BY <1>2, <2>4, <2>5 DEF TPNext
  <2>7. QED  BY <2>1, <2>6 DEF IInv
<1>3. QED  BY <1>1, <1>2

-------------------------------------------------------------------------------
(* The invariant holds in every state of every group.                           *)
THEOREM Alignment ==
  TPSpec => []IInv
BY InitFits, StepFits, PTL DEF TPSpec

(* Types are respected.                                                         *)
THEOREM TypeCorrect ==
  TPSpec => []TypeOK
<1>1. IInv => TypeOK
  BY DEF IInv, Types, TypeOK
<1>2. QED  BY <1>1, Alignment, PTL

(* In every group, however large and whatever its schedulers do, any two ranks  *)
(* have processed the same messages in every iteration both have finished: the  *)
(* forwards they issue for it are the same, and so are their collectives.       *)
THEOREM Agreement ==
  TPSpec => []RanksAgree
<1>1. IInv => RanksAgree
  <2> SUFFICES ASSUME IInv, NEW r \in Ranks, NEW q \in Ranks,
                      NEW i \in 1 .. Len(seen[r]), i <= Len(seen[q])
               PROVE  seen[r][i] = seen[q][i]
    BY DEF RanksAgree
  <2>1. RankFits(r) /\ RankFits(q)
    BY DEF IInv, RootFits, FollowerFits, Followers
  <2>2. Len(seen[r]) \in Nat /\ Len(seen[q]) \in Nat
    BY SMTT(30) DEF IInv, Types
  <2>3. i \in 1 .. Done(r) /\ i \in 1 .. Done(q)
    BY <2>2 DEF Done
  <2>4. QED  BY <2>1, <2>3 DEF RankFits
<1>2. QED  BY <1>1, Alignment, PTL

-------------------------------------------------------------------------------
(* The refinement: rank 0 decides a batch when it broadcasts its count, and a    *)
(* rank applies it when its receive returns.                                     *)

Log == [i \in 1 .. Len(rounds) |-> rounds[i].batch]

LEMMA IterateApplies ==
  ASSUME IInv, Types', NEW r \in Ranks, Iterate(r)
  PROVE  /\ Len(seen[r]) < Len(Log) /\ Log' = Log
         /\ seen' = [seen EXCEPT ![r] = Append(@, Log[Len(@) + 1])]
<1>1. Types /\ RoundsFit /\ RankFits(r)
  BY DEF IInv, RootFits, FollowerFits, Followers
<1>2. Done(r) \in Nat /\ Len(rounds) \in Nat /\ rounds' = rounds
  BY <1>1, DoneIsNat DEF Iterate, inputVars
<1>3. /\ Receiving(r) /\ Done(r) < Len(rounds)
      /\ Len(pending[r]) = Len(rounds[Done(r) + 1].batch)
  <2>1. CASE r = 0
    <3>1. pc[0] = "publish" /\ raw = <<>> /\ Len(raw) = 0 /\ RootFits
      BY <2>1 DEF Iterate, Received, IInv
    <3>2. /\ Receiving(0) /\ Len(rounds) = Done(0) + 1
          /\ Len(pending[0]) + Len(raw) = Len(rounds[Done(0) + 1].batch)
      BY <3>1 DEF Receiving, RootFits
    <3>3. Len(pending[0]) \in Nat
      BY <1>1, <2>1 DEF Types
    <3>4. QED  BY <1>2, <2>1, <3>1, <3>2, <3>3
  <2>2. CASE r # 0
    <3>1. FollowerFits(r) /\ pc[r] = "fetch" /\ need[r] = 0
      BY <2>2 DEF Iterate, Received, IInv, Followers
    <3>2. /\ Receiving(r) /\ Done(r) < Len(rounds)
          /\ Len(pending[r]) + need[r] = Blocked(state[r]) + rounds[Done(r) + 1].count
      BY <3>1 DEF FollowerFits, Receiving
    <3>3. /\ Done(r) + 1 \in 1 .. Len(rounds)
          /\ Len(rounds[Done(r) + 1].batch) = rounds[Done(r) + 1].count + Blocked(state[r])
      BY <1>1, <1>2, <3>2, NextRound DEF RankFits
    <3>4. Len(pending[r]) \in Nat
      BY <1>1 DEF Types
    <3>5. rounds[Done(r) + 1].count \in Nat
      BY <1>1, <3>3 DEF Types
    <3>6. QED  BY <3>1, <3>2, <3>3, <3>4, <3>5 DEF Blocked
  <2>3. QED  BY <2>1, <2>2
<1>4. pending[r] = rounds[Done(r) + 1].batch
  BY <1>1, <1>3, BatchComplete
<1>5. Len(Log) = Len(rounds) /\ Log' = Log /\ Log[Done(r) + 1] = rounds[Done(r) + 1].batch
  BY <1>2, <1>3 DEF Log
<1>6. seen' = [seen EXCEPT ![r] = Append(@, pending[r])]
  BY DEF Iterate
<1>7. QED  BY <1>3, <1>4, <1>5, <1>6 DEF Done

LEMMA BroadcastDecides ==
  ASSUME IInv, Types', TPNext, BroadcastCount
  PROVE  /\ Log' \in Seq(Seq(Messages)) /\ Len(Log') = Len(Log) + 1
         /\ Log = [i \in 1 .. Len(Log) |-> Log'[i]] /\ seen' = seen
<1>1. Types
  BY DEF IInv
<1>2. /\ Len(rounds) \in Nat /\ Len(rounds') = Len(rounds) + 1
      /\ \A i \in 1 .. Len(rounds) : rounds'[i] = rounds[i]
      /\ \A i \in 1 .. Len(rounds') : rounds'[i].batch \in Seq(Messages)
  <2>1. Len(rounds') = Len(rounds) + 1
    BY StreamGrows, NewRoundFits
  <2>2. Len(rounds) \in Nat
    BY <1>1 DEF Types
  <2>3. /\ \A i \in 1 .. Len(rounds) : rounds'[i] = rounds[i]
        /\ \A i \in 1 .. Len(rounds') : rounds'[i].batch \in Seq(Messages)
    BY <1>1, RoundsStep
  <2>4. QED  BY <2>1, <2>2, <2>3
<1>3. Len(Log) = Len(rounds) /\ Len(Log') = Len(rounds') /\ Log' \in Seq(Seq(Messages))
  BY <1>2 DEF Log
<1>4. \A i \in 1 .. Len(rounds) : Log'[i] = Log[i]
  BY <1>2 DEF Log
<1>5. Log = [i \in 1 .. Len(Log) |-> Log'[i]]
  BY <1>2, <1>3, <1>4 DEF Log
<1>6. QED  BY <1>2, <1>3, <1>5 DEF BroadcastCount

(* The receive path implements the replicated log of batches, for every number  *)
(* of ranks, every scheduler and every supply of messages.                      *)
THEOREM Refinement ==
  TPSpec => ImplementsReplicatedInput
<1>1. TPInit => Input!Init
  BY DEF TPInit, Input!Init
<1>2. ASSUME IInv, IInv', [TPNext]_tpVars
      PROVE  [Input!Next]_<<Log, seen>>
  <2>1. Types /\ Types'
    BY <1>2 DEF IInv
  <2>2. CASE BroadcastCount /\ TPNext
    <3>1. Input!Decide
      BY <1>2, <2>1, <2>2, BroadcastDecides DEF Input!Decide, Log
    <3>2. QED  BY <3>1 DEF Input!Next
  <2>3. ASSUME NEW r \in Ranks, Iterate(r)
        PROVE  Input!Next
    <3>1. Input!Apply(r)
      BY <1>2, <2>1, <2>3, IterateApplies DEF Input!Apply, Log
    <3>2. QED  BY <3>1 DEF Input!Next
  <2>4. CASE ~BroadcastCount /\ ~(\E r \in Ranks : Iterate(r))
    <3>1. rounds' = rounds /\ seen' = seen
      BY <1>2, <2>4 DEF TPNext, tpVars, RankStep, RootStep, FollowerStep, Arrive, Begin,
         LeaveBarrier, BlockingGet, Drain, Publish, BlockingRead, TakeCount, Fetch,
         inputVars, rankVars
    <3>2. QED  BY <3>1 DEF Log
  <2>5. CASE BroadcastCount /\ UNCHANGED tpVars
    BY <2>5 DEF tpVars, inputVars, rankVars, Log
  <2>6. QED  BY <1>2, <2>2, <2>3, <2>4, <2>5
<1>3. QED
  BY <1>1, <1>2, Alignment, PTL DEF TPSpec, ImplementsReplicatedInput, Input!Spec, Log

-------------------------------------------------------------------------------
(* The processes of a server.  Nobody acknowledges before it is built, and for *)
(* rank 0 that means the whole group; when a shutdown has returned, nobody but  *)
(* stubborn children is left; and until something fails, Ctrl-C is pressed or a *)
(* shutdown begins, no ExitMsg is under way and no child has gone.              *)

Starting == main \in {"spawn", "check", "get", "final check"}
IsBuilt(c) == child[c] \notin {"absent", "building"}

StartupInv ==
  /\ Starting => step = "idle" /\ cleanup = "none" /\ complete = FALSE
  /\ main \in {"check", "get", "final check", "serving"} => \A c \in Children : child[c] # "absent"
  /\ main \in {"final check", "serving"} => ready = ExpectedReady
  /\ \A c \in acks \cup ready : IsBuilt(c) /\ (c = 0 => \A r \in Ranks : IsBuilt(r))

Settled == Alive \subseteq Stubborn
EndInv ==
  /\ complete = TRUE => Alive = {}
  /\ step = "raised" \/ cleanup = "done" \/ main = "exited" => Settled
  /\ step = "idle" => /\ cleanup = "running" \/ main \in {"start failed", "final"} => Settled
                      /\ main = "async" /\ cleanup = "none" => Settled

Calm == faults = 0 /\ interrupted = FALSE /\ stopping = FALSE /\ main # "start failed"
Requested == Messages \ {Exit}
CalmInv ==
  Calm =>
    /\ Exited = {} /\ termed = {} /\ terminal = FALSE /\ cleanup = "none" /\ step = "idle"
    /\ inbox \in Seq(Requested) /\ raw \in Seq(Requested) /\ pub \in Seq(Requested)
    /\ pending \in [Ranks -> Seq(Requested)] /\ read \in [Ranks -> Nat]
    /\ pc \in [Ranks -> {"start", "block", "drain", "count", "publish", "fetch"}]

Untroubled == faults = 0 /\ interrupted = FALSE
CauseInv == Untroubled => terminal = FALSE

ServingInv == ServingTypeOK /\ StartupInv /\ EndInv /\ CalmInv /\ CauseInv

-------------------------------------------------------------------------------
(* The steps by who takes them. *)

ChildStep(c) == Built(c) \/ InterruptEnds(c) \/ Killed(c) \/ Crash(c)
RankDoes(r) == StartLoop(r) \/ RunRank(r) \/ Interrupted(r) \/ Returns(r) \/ PeerLost(r)
ParentStep == Start \/ StartupTimeout \/ StartInterrupted \/ SupervisorShutdown
              \/ Runtime \/ ListenerFails \/ Stop

LEMMA ChildrenAre ==
  /\ 0 \in Ranks /\ Ranks \subseteq Children /\ Workers \subseteq Children
  /\ Ranks \cap Workers = {} /\ ExpectedReady \subseteq Children
  /\ \A c \in Children : c \in Ranks \/ c \in Workers
BY TPAssumption, ServingAssumption DEF Ranks, Children, ExpectedReady

(* What a child can do to the variables of the parent and of the others.       *)
LEMMA ChildFrame ==
  ASSUME ServingTypeOK, NEW c \in Children, ChildStep(c) \/ (c \in Ranks /\ RankDoes(c))
  PROVE  /\ UNCHANGED <<ready, main, terminal, stopping, cleanup, step, complete, termed, interrupted>>
         /\ \/ child' = child /\ acks' = acks
            \/ child' = [child EXCEPT ![c] = "built"] /\ child[c] = "building" /\ acks' = acks
            \/ /\ child' = [child EXCEPT ![c] = "running"] /\ child[c] \in {"building", "built"}
               /\ acks' = acks \cup {c} /\ c \in ExpectedReady
               /\ c \in Ranks => PeersBuilt(c)
            \/ /\ child' = [child EXCEPT ![c] = "running"] /\ child[c] = "built" /\ acks' = acks
            \/ /\ child' = [child EXCEPT ![c] = "dead"]
               /\ child[c] \in {"building", "built", "running"} /\ acks' = acks
         /\ faults' = faults \/ (faults' = faults + 1 /\ faults < MaxFaults)
<1> DEFINE Dead == /\ child' = [child EXCEPT ![c] = "dead"] /\ acks' = acks
                   /\ UNCHANGED <<ready, main, terminal, stopping, cleanup, step, complete,
                                  termed, interrupted>>
<1>0. Dies(c) => Dead
  BY DEF Dies, Becomes, parentVars
<1>1. CASE Built(c)
  <2>1. CASE c \in Ranks
    BY <1>1, <2>1 DEF Built, Becomes, envVars
  <2>2. CASE c \notin Ranks
    <3>1. c \in ExpectedReady
      BY <2>2, ChildrenAre DEF ExpectedReady
    <3>2. QED  BY <1>1, <2>2, <3>1 DEF Built, Becomes, envVars
  <2>3. QED  BY <2>1, <2>2
<1>2. CASE InterruptEnds(c)
  <2>1. child[c] \in {"building", "running"} /\ Dead /\ faults' = faults
    BY <1>0, <1>2 DEF InterruptEnds
  <2>2. QED  BY <2>1
<1>3. CASE Killed(c) \/ Crash(c) \/ PeerLost(c)
  <2>1. child[c] \in {"building", "built", "running"} /\ Dead
    BY <1>0, <1>3 DEF Killed, Crash, PeerLost, Alive
  <2>2. faults' = faults \/ (faults' = faults + 1 /\ faults < MaxFaults)
    BY <1>3 DEF Killed, Crash, PeerLost
  <2>3. QED  BY <2>1, <2>2
<1>4. CASE StartLoop(c) /\ c \in Ranks
  BY <1>4 DEF StartLoop, Acknowledges, ExpectedReady, Becomes, envVars
<1>5. CASE RunRank(c) \/ Interrupted(c)
  BY <1>5 DEF RunRank, Interrupted, parentVars, envVars
<1>6. CASE Returns(c)
  <2>1. child[c] = "running" /\ Dead /\ faults' = faults
    BY <1>0, <1>6 DEF Returns
  <2>2. QED  BY <2>1
<1>7. QED  BY <1>1, <1>2, <1>3, <1>4, <1>5, <1>6 DEF ChildStep, RankDoes

LEMMA NextIs ==
  Next <=> \/ \E c \in Children : ChildStep(c) \/ (c \in Ranks /\ RankDoes(c))
           \/ Request \/ ParentStep
BY ChildrenAre DEF Next, ChildStep, RankDoes, ParentStep

LEMMA FaultCounts ==
  ASSUME ServingTypeOK, faults < MaxFaults, faults' = faults + 1
  PROVE  faults' \in 0 .. MaxFaults /\ faults' # 0
<1>1. faults \in 0 .. MaxFaults
  BY DEF ServingTypeOK
<1>2. QED  BY <1>1, ServingAssumption

LEMMA ServingTypesStep ==
  ASSUME ServingTypeOK, Next
  PROVE  ServingTypeOK'
<1> USE DEF ServingTypeOK
<1>1. ASSUME NEW c \in Children, ChildStep(c) \/ (c \in Ranks /\ RankDoes(c)) PROVE ServingTypeOK'
  <2>1. faults' \in 0 .. MaxFaults
    BY <1>1, ChildFrame, FaultCounts
  <2>2. child' \in [Children -> {"absent", "building", "built", "running", "dead"}]
    BY <1>1, ChildFrame
  <2>3. acks' \subseteq ExpectedReady
    BY <1>1, ChildFrame
  <2>4. UNCHANGED <<ready, main, terminal, stopping, cleanup, step, complete, termed, interrupted>>
    BY <1>1, ChildFrame
  <2>5. QED  BY <2>1, <2>2, <2>3, <2>4
<1>2. CASE Request
  BY <1>2 DEF Request, parentVars, envVars
<1>3. CASE Start
  <2>1. ASSUME NEW c \in Children, Spawn(c) \/ TakeAck(c) PROVE ServingTypeOK'
    BY <2>1 DEF Spawn, TakeAck, Becomes, Then, envVars
  <2>2. CASE SpawnFails \/ ExitDuringStartup
    <3>1. faults' \in 0 .. MaxFaults
      BY <2>2, FaultCounts DEF SpawnFails, ExitDuringStartup
    <3>2. QED  BY <2>2, <3>1 DEF SpawnFails, ExitDuringStartup, StartFails, Then
  <2>3. CASE CheckReady \/ NoAck \/ AllReady \/ StartServing
    BY <2>3 DEF CheckReady, NoAck, AllReady, StartServing, ParentOnly, Then, envVars
  <2>4. QED  BY <1>3, <2>1, <2>2, <2>3 DEF Start
<1>4. CASE StartupTimeout \/ StartInterrupted
  BY <1>4 DEF StartupTimeout, StartInterrupted, StartFails, Then
<1>5. CASE SupervisorShutdown
  BY <1>5 DEF SupervisorShutdown, AskToExit, GraceEnds, Terminate, JoinTerminated, ShutdownOnly, Alive
<1>6. CASE Runtime
  BY <1>6 DEF Runtime, HealthTick, CleanupEnds, ShutdownAsync, AsyncEnds, Leave, MarkUnavailable,
              CallShutdown, Then, envVars
<1>7. CASE ListenerFails \/ Stop
  <2>1. faults' \in 0 .. MaxFaults
    BY <1>7, FaultCounts DEF ListenerFails, Stop
  <2>2. QED
    BY <1>7, <2>1 DEF ListenerFails, Stop, MarkUnavailable, CallShutdown, Then
<1>8. QED
  BY <1>1, <1>2, <1>3, <1>4, <1>5, <1>6, <1>7, NextIs DEF ParentStep

LEMMA StartupStep ==
  ASSUME ServingTypeOK, StartupInv, Next
  PROVE  StartupInv'
<1> USE DEF StartupInv, Starting, IsBuilt
<1>1. ASSUME NEW c \in Children, ChildStep(c) \/ (c \in Ranks /\ RankDoes(c)) PROVE StartupInv'
  <2>1. /\ UNCHANGED <<ready, main, cleanup, step, complete>>
        /\ \A d \in Children : IsBuilt(d) => IsBuilt(d)'
        /\ \A d \in Children : child[d] # "absent" => child'[d] # "absent"
    BY <1>1, ChildFrame DEF ServingTypeOK
  <2>2. \A d \in acks \cup ready : d \in Children
    BY ChildrenAre DEF ServingTypeOK
  <2>3. \A d \in acks' : IsBuilt(d)' /\ (d = 0 => \A r \in Ranks : IsBuilt(r)')
    <3> TAKE d \in acks'
    <3>1. CASE d \in acks
      BY <3>1, <2>1, <2>2, ChildrenAre
    <3>2. CASE d \notin acks
      <4>1. d = c /\ child'[c] = "running" /\ (c \in Ranks => PeersBuilt(c))
        BY <1>1, <3>2, ChildFrame DEF ServingTypeOK
      <4>2. c = 0 => \A r \in Ranks : IsBuilt(r)
        BY <4>1, ChildrenAre DEF PeersBuilt
      <4>3. QED  BY <4>1, <4>2, <2>1, ChildrenAre
    <3>3. QED  BY <3>1, <3>2
  <2>4. QED  BY <2>1, <2>2, <2>3, ChildrenAre
<1>2. CASE Request
  BY <1>2 DEF Request, parentVars, envVars
<1>3. CASE Start
  <2>1. ASSUME NEW c \in Children, Spawn(c) PROVE StartupInv'
    <3>1. /\ main = "spawn" /\ child[c] = "absent" /\ child' = [child EXCEPT ![c] = "building"]
          /\ main' \in {"spawn", "check"}
          /\ main' = "check" => \A d \in Children \ {c} : child[d] # "absent"
          /\ UNCHANGED <<acks, ready, cleanup, step, complete>>
      BY <2>1 DEF Spawn, NextToSpawn, Becomes, Then
    <3>2. \A d \in Children : IsBuilt(d) => IsBuilt(d)'
      BY <3>1 DEF ServingTypeOK
    <3>3. \A d \in acks \cup ready : d \in Children
      BY ChildrenAre DEF ServingTypeOK
    <3>4. main' = "check" => \A d \in Children : child'[d] # "absent"
      BY <3>1 DEF ServingTypeOK
    <3>5. QED  BY <3>1, <3>2, <3>3, <3>4, ChildrenAre
  <2>2. ASSUME NEW c \in Children, TakeAck(c) PROVE StartupInv'
    BY <2>2 DEF TakeAck, Then
  <2>3. CASE SpawnFails \/ ExitDuringStartup
    BY <2>3 DEF SpawnFails, ExitDuringStartup, StartFails, Then
  <2>4. CASE CheckReady \/ NoAck \/ AllReady \/ StartServing
    BY <2>4 DEF CheckReady, NoAck, AllReady, StartServing, ParentOnly, Then
  <2>5. QED  BY <1>3, <2>1, <2>2, <2>3, <2>4 DEF Start
<1>4. CASE StartupTimeout \/ StartInterrupted
  BY <1>4 DEF StartupTimeout, StartInterrupted, StartFails, Then
<1>5. CASE SupervisorShutdown
  BY <1>5 DEF SupervisorShutdown, AskToExit, GraceEnds, Terminate, JoinTerminated, ShutdownOnly
<1>6. CASE Runtime
  BY <1>6 DEF Runtime, HealthTick, CleanupEnds, ShutdownAsync, AsyncEnds, Leave, MarkUnavailable,
              CallShutdown, Then
<1>7. CASE ListenerFails \/ Stop
  BY <1>7 DEF ListenerFails, Stop, MarkUnavailable, CallShutdown, Then
<1>8. QED
  BY <1>1, <1>2, <1>3, <1>4, <1>5, <1>6, <1>7, NextIs DEF ParentStep

LEMMA EndStep ==
  ASSUME ServingTypeOK, StartupInv, EndInv, Next
  PROVE  EndInv'
<1> USE DEF EndInv, Settled
<1>1. ASSUME NEW c \in Children, ChildStep(c) \/ (c \in Ranks /\ RankDoes(c)) PROVE EndInv'
  <2>1. UNCHANGED <<main, cleanup, step, complete>> /\ Alive' \subseteq Alive
    BY <1>1, ChildFrame DEF ServingTypeOK, Alive
  <2>2. QED  BY <2>1
<1>2. CASE Request
  BY <1>2 DEF Request, parentVars, Alive
<1>0. Starting => complete = FALSE /\ cleanup = "none" /\ step = "idle"
  BY DEF StartupInv
<1>9. ASSUME complete' = FALSE, cleanup' = "none", step' # "raised", main' # "exited",
             step' = "idle" => main' \notin {"start failed", "final", "async"}
      PROVE  EndInv'
  BY <1>9
<1>3. CASE Start
  <2>1. ASSUME NEW c \in Children, Spawn(c) \/ TakeAck(c) PROVE EndInv'
    <3>1. Starting /\ main' \in {"spawn", "check"} /\ UNCHANGED <<complete, cleanup, step>>
      BY <2>1 DEF Spawn, TakeAck, Then, Starting
    <3>2. QED  BY <3>1, <1>0, <1>9
  <2>2. CASE SpawnFails \/ ExitDuringStartup
    <3>1. Starting /\ main' = "start failed" /\ step' = "terminate" /\ UNCHANGED <<complete, cleanup>>
      BY <2>2 DEF SpawnFails, ExitDuringStartup, StartFails, Then, Starting
    <3>2. QED  BY <3>1, <1>0, <1>9
  <2>3. CASE CheckReady \/ NoAck \/ AllReady \/ StartServing
    <3>1. Starting /\ main' \in {"get", "check", "final check", "serving"}
          /\ UNCHANGED <<complete, cleanup, step>>
      BY <2>3 DEF CheckReady, NoAck, AllReady, StartServing, ParentOnly, Then, Starting
    <3>2. QED  BY <3>1, <1>0, <1>9
  <2>4. QED  BY <1>3, <2>1, <2>2, <2>3 DEF Start
<1>4. CASE StartupTimeout \/ StartInterrupted
  <2>1. Starting /\ main' = "start failed" /\ step' = "terminate" /\ UNCHANGED <<complete, cleanup>>
    BY <1>4 DEF StartupTimeout, StartInterrupted, StartFails, Then, Starting
  <2>2. QED  BY <2>1, <1>0, <1>9
<1>5. CASE SupervisorShutdown
  BY <1>5 DEF SupervisorShutdown, AskToExit, GraceEnds, Terminate, JoinTerminated, ShutdownOnly,
              Alive, Reaped
<1>6. CASE Runtime
  <2>1. Alive' = Alive
    BY <1>6 DEF Runtime, HealthTick, CleanupEnds, ShutdownAsync, AsyncEnds, Leave, Alive
  <2>2. Alive = {} => Settled
    OBVIOUS
  <2> HIDE DEF Settled
  <2>3. Settled' = Settled
    BY <2>1 DEF Settled
  <2>4. CASE HealthTick
    BY <2>1, <2>2, <2>3, <2>4 DEF HealthTick, MarkUnavailable, CallShutdown, ServingTypeOK
  <2>5. CASE CleanupEnds
    BY <2>1, <2>2, <2>3, <2>5 DEF CleanupEnds, Returned, ServingTypeOK
  <2>6. CASE ShutdownAsync
    BY <2>1, <2>2, <2>3, <2>6 DEF ShutdownAsync, CallShutdown, Then, ServingTypeOK
  <2>7. CASE AsyncEnds
    BY <2>1, <2>2, <2>3, <2>7 DEF AsyncEnds, CallShutdown, Then, Returned, ServingTypeOK
  <2>8. CASE Leave
    BY <2>1, <2>2, <2>3, <2>8 DEF Leave, Then, Returned, ServingTypeOK
  <2>9. QED  BY <1>6, <2>4, <2>5, <2>6, <2>7, <2>8 DEF Runtime
<1>7. CASE ListenerFails \/ Stop
  <2>1. Alive' = Alive
    BY <1>7 DEF ListenerFails, Stop, Alive
  <2>2. Alive = {} => Settled
    OBVIOUS
  <2> HIDE DEF Settled
  <2>3. Settled' = Settled
    BY <2>1 DEF Settled
  <2>4. CASE ListenerFails
    BY <2>1, <2>2, <2>3, <2>4 DEF ListenerFails, MarkUnavailable, CallShutdown, ServingTypeOK
  <2>5. CASE Stop
    BY <2>1, <2>2, <2>3, <2>5 DEF Stop, Then, ServingTypeOK
  <2>6. QED  BY <1>7, <2>4, <2>5
<1>8. QED
  BY <1>1, <1>2, <1>3, <1>4, <1>5, <1>6, <1>7, NextIs DEF ParentStep

(* Faults are never forgotten, and apart from them only the health watcher sets *)
(* the terminal error.                                                          *)
LEMMA UntroubledBack ==
  ASSUME ServingTypeOK, Next, Untroubled'
  PROVE  Untroubled /\ (terminal' = terminal \/ HealthTick)
<1> USE DEF Untroubled
<1>1. ASSUME NEW c \in Children, ChildStep(c) \/ (c \in Ranks /\ RankDoes(c))
      PROVE  Untroubled /\ terminal' = terminal
  <2>1. UNCHANGED <<terminal, interrupted>> /\ faults' = 0
    BY <1>1, ChildFrame
  <2>2. faults = 0
    BY <1>1, <2>1, ChildFrame, FaultCounts
  <2>3. QED  BY <2>1, <2>2
<1>2. CASE Request
  BY <1>2 DEF Request, parentVars, envVars
<1>3. CASE Start
  <2>1. ASSUME NEW c \in Children, Spawn(c) \/ TakeAck(c) PROVE Untroubled /\ terminal' = terminal
    BY <2>1 DEF Spawn, TakeAck, envVars
  <2>2. CASE ExitDuringStartup
    BY <2>2 DEF ExitDuringStartup, StartFails
  <2>3. CASE CheckReady \/ NoAck \/ AllReady \/ StartServing
    BY <2>3 DEF CheckReady, NoAck, AllReady, StartServing, ParentOnly, envVars
  <2>4. ~SpawnFails
    BY FaultCounts DEF SpawnFails
  <2>5. QED  BY <1>3, <2>1, <2>2, <2>3, <2>4 DEF Start
<1>4. CASE StartupTimeout \/ StartInterrupted
  BY <1>4 DEF StartupTimeout, StartInterrupted, StartFails
<1>5. CASE SupervisorShutdown
  BY <1>5 DEF SupervisorShutdown, AskToExit, GraceEnds, Terminate, JoinTerminated, ShutdownOnly
<1>6. CASE Runtime
  BY <1>6 DEF Runtime, HealthTick, CleanupEnds, ShutdownAsync, AsyncEnds, Leave, envVars
<1>7. CASE ListenerFails \/ Stop
  <2>1. ~ListenerFails
    BY FaultCounts DEF ListenerFails
  <2>2. QED  BY <1>7, <2>1 DEF Stop, ServingTypeOK
<1>8. QED
  BY <1>1, <1>2, <1>3, <1>4, <1>5, <1>6, <1>7, NextIs DEF ParentStep

(* Until something happens, only requests are under way, so no rank leaves.     *)
LEMMA CalmBack ==
  ASSUME ServingTypeOK, Next, Calm'
  PROVE  Calm
<1> USE DEF Calm
<1>1. ASSUME NEW c \in Children, ChildStep(c) \/ (c \in Ranks /\ RankDoes(c)) PROVE Calm
  <2>1. UNCHANGED <<main, stopping, interrupted>> /\ faults' = 0
    BY <1>1, ChildFrame
  <2>2. faults = 0
    BY <1>1, <2>1, ChildFrame, FaultCounts
  <2>3. QED  BY <2>1, <2>2
<1>2. CASE Request
  BY <1>2 DEF Request, parentVars, envVars
<1>3. CASE Start
  <2>1. ASSUME NEW c \in Children, Spawn(c) \/ TakeAck(c) PROVE Calm
    BY <2>1 DEF Spawn, TakeAck, Then, envVars
  <2>2. CASE SpawnFails \/ ExitDuringStartup
    BY <2>2 DEF SpawnFails, ExitDuringStartup, StartFails, Then
  <2>3. CASE CheckReady \/ NoAck \/ AllReady \/ StartServing
    BY <2>3 DEF CheckReady, NoAck, AllReady, StartServing, ParentOnly, Then, envVars
  <2>4. QED  BY <1>3, <2>1, <2>2, <2>3 DEF Start
<1>4. CASE StartupTimeout \/ StartInterrupted
  BY <1>4 DEF StartupTimeout, StartInterrupted, StartFails, Then
<1>5. CASE SupervisorShutdown
  BY <1>5 DEF SupervisorShutdown, AskToExit, GraceEnds, Terminate, JoinTerminated, ShutdownOnly
<1>6. CASE Runtime
  BY <1>6 DEF Runtime, HealthTick, CleanupEnds, ShutdownAsync, AsyncEnds, Leave, Then, envVars
<1>7. CASE ListenerFails \/ Stop
  <2>1. ~ListenerFails
    BY FaultCounts DEF ListenerFails
  <2>2. QED  BY <1>7, <2>1 DEF Stop, Then, ServingTypeOK
<1>8. QED
  BY <1>1, <1>2, <1>3, <1>4, <1>5, <1>6, <1>7, NextIs DEF ParentStep

Receive == /\ inbox \in Seq(Requested) /\ raw \in Seq(Requested) /\ pub \in Seq(Requested)
           /\ pending \in [Ranks -> Seq(Requested)] /\ read \in [Ranks -> Nat]
           /\ pc \in [Ranks -> {"start", "block", "drain", "count", "publish", "fetch"}]

LEMMA ReceiveStep ==
  ASSUME Receive, NEW r \in Ranks, RankStep(r)
  PROVE  Receive'
<1> USE DEF Receive, Goto
<1>0. 0 \in Ranks
  BY ChildrenAre
<1>1. CASE Begin(r)
  BY <1>1 DEF Begin, inputVars
<1>2. CASE Iterate(r)
  <2>1. ~Exits(pending[r])
    BY DEF Exits, Requested
  <2>2. QED  BY <1>2, <2>1 DEF Iterate, inputVars
<1>3. ~LeaveBarrier(r)
  BY DEF LeaveBarrier
<1>4. CASE BlockingGet
  <2>1. Head(inbox) \in Requested /\ Tail(inbox) \in Seq(Requested)
    BY <1>4 DEF BlockingGet
  <2>2. QED  BY <1>0, <1>4, <2>1 DEF BlockingGet
<1>5. CASE Drain
  <2>1. Head(inbox) \in Requested /\ Tail(inbox) \in Seq(Requested)
    BY <1>5 DEF Drain
  <2>2. QED  BY <1>5, <2>1 DEF Drain, rankVars
<1>6. CASE BroadcastCount
  BY <1>6 DEF BroadcastCount
<1>7. CASE Publish
  <2>1. Head(raw) \in Requested /\ Tail(raw) \in Seq(Requested)
    BY <1>7 DEF Publish
  <2>2. Append(pending[0], Head(raw)) \in Seq(Requested) /\ Append(pub, Head(raw)) \in Seq(Requested)
    BY <1>0, <2>1
  <2>3. QED  BY <1>0, <1>7, <2>1, <2>2 DEF Publish
<1>8. ASSUME TakeNext(r)
      PROVE  pending' \in [Ranks -> Seq(Requested)] /\ read' \in [Ranks -> Nat]
  <2>1. pub[read[r] + 1] \in Requested
    BY <1>8 DEF TakeNext, Subscribed
  <2>2. Append(pending[r], pub[read[r] + 1]) \in Seq(Requested)
    BY <2>1
  <2>3. QED  BY <1>8, <2>2 DEF TakeNext
<1>9. CASE BlockingRead(r) \/ Fetch(r)
  BY <1>8, <1>9 DEF BlockingRead, Fetch, inputVars
<1>10. CASE TakeCount(r)
  BY <1>10 DEF TakeCount, inputVars
<1>11. QED
  BY <1>1, <1>2, <1>3, <1>4, <1>5, <1>6, <1>7, <1>9, <1>10 DEF RankStep, RootStep, FollowerStep

LEMMA CalmStep ==
  ASSUME ServingTypeOK, CalmInv, Next
  PROVE  CalmInv'
<1>1. SUFFICES ASSUME Calm' PROVE CalmInv'
  BY DEF CalmInv
<1>2. /\ Calm
      /\ Exited = {} /\ termed = {} /\ terminal = FALSE /\ cleanup = "none" /\ step = "idle" /\ Receive
  BY <1>1, CalmBack DEF CalmInv, Receive
<1> DEFINE Quiet == Exited = {} /\ termed = {} /\ terminal = FALSE /\ cleanup = "none" /\ step = "idle"
<1>3. SUFFICES Quiet' /\ Receive'
  BY DEF CalmInv, Receive
<1>4. /\ main # "start failed" /\ main' # "start failed" /\ stopping' = FALSE /\ interrupted = FALSE /\ interrupted' = FALSE
      /\ faults = 0 /\ faults' = 0
  BY <1>1, <1>2 DEF Calm
<1>5. ASSUME NEW c \in Children, ChildStep(c) \/ (c \in Ranks /\ RankDoes(c)) PROVE Quiet' /\ Receive'
  <2>1. ~InterruptEnds(c) /\ ~Killed(c) /\ ~Crash(c)
    BY <1>2, <1>4, FaultCounts DEF InterruptEnds, Killed, Crash
  <2>2. c \in Ranks => ~Interrupted(c) /\ ~Returns(c) /\ ~PeerLost(c)
    BY <1>2, <1>4 DEF Interrupted, Returns, PeerLost, Receive
  <2>3. CASE Built(c) \/ StartLoop(c)
    <3>1. UNCHANGED tpVars /\ UNCHANGED <<termed, terminal, cleanup, step>>
      BY <2>3 DEF Built, StartLoop, envVars
    <3>2. Exited' = {}
      BY <2>3, <1>2 DEF Built, StartLoop, Becomes, Exited, ServingTypeOK
    <3>3. Receive'
      BY <3>1, <1>2 DEF tpVars, inputVars, rankVars, Receive
    <3>4. QED  BY <1>2, <3>1, <3>2, <3>3
  <2>4. CASE c \in Ranks /\ RunRank(c)
    <3>1. Receive'
      BY <2>4, <1>2, ReceiveStep DEF RunRank
    <3>2. QED  BY <2>4, <3>1, <1>2 DEF RunRank, parentVars, envVars, Exited
  <2>5. QED  BY <1>5, <2>1, <2>2, <2>3, <2>4 DEF ChildStep, RankDoes
<1>6. CASE Request
  <2>1. PICK m \in Requested : Arrive(m)
    BY <1>6 DEF Request, Requested
  <2>2. Receive'
    BY <2>1, <1>2 DEF Arrive, rankVars, Receive
  <2>3. QED  BY <1>2, <1>6, <2>2 DEF Request, parentVars, envVars, Exited
<1>7. CASE ParentStep
  <2>1. ~SpawnFails /\ ~ExitDuringStartup /\ ~StartupTimeout /\ ~StartInterrupted
    BY <1>4, FaultCounts DEF SpawnFails, ExitDuringStartup, StartupTimeout, StartInterrupted, StartFails, Then
  <2>2. ~HealthTick /\ ~CleanupEnds /\ ~ShutdownAsync /\ ~ListenerFails /\ ~SupervisorShutdown
    <3>1. ~HealthTick /\ ~CleanupEnds
      BY <1>2 DEF HealthTick, ChildExited, SeesExit, CleanupEnds
    <3>2. ~ListenerFails
      BY <1>4, FaultCounts DEF ListenerFails
    <3>3. ~ShutdownAsync
      BY <1>4 DEF ShutdownAsync
    <3>4. ~SupervisorShutdown
      BY <1>2 DEF SupervisorShutdown, AskToExit, GraceEnds, Terminate, JoinTerminated
    <3>5. QED  BY <3>1, <3>2, <3>3, <3>4
  <2>3. ~Leave /\ (AsyncEnds => step' = "idle")
    BY <1>2, <1>4 DEF Leave, AsyncEnds
  <2>4. ASSUME NEW c \in Children, Spawn(c) PROVE Quiet' /\ UNCHANGED tpVars
    <3>1. Exited' = {}
      BY <2>4, <1>2 DEF Spawn, Becomes, Exited, ServingTypeOK
    <3>2. QED  BY <2>4, <3>1, <1>2 DEF Spawn, envVars
  <2>5. ASSUME NEW c \in Children, TakeAck(c) PROVE Quiet' /\ UNCHANGED tpVars
    BY <2>5, <1>2 DEF TakeAck, envVars, Exited
  <2>6. ASSUME CheckReady \/ NoAck \/ AllReady \/ StartServing \/ Stop \/ AsyncEnds
        PROVE  Quiet' /\ UNCHANGED tpVars
    <3>1. UNCHANGED <<child, termed, terminal, cleanup>> /\ UNCHANGED tpVars
      BY <2>6 DEF CheckReady, NoAck, AllReady, StartServing, ParentOnly, Stop, AsyncEnds, envVars
    <3>2. step' = "idle"
      BY <2>3, <2>6, <1>2 DEF CheckReady, NoAck, AllReady, StartServing, Stop
    <3>3. Exited' = {}
      BY <3>1, <1>2 DEF Exited
    <3>4. termed' = {} /\ terminal' = FALSE /\ cleanup' = "none"
      BY <3>1, <1>2
    <3>5. QED  BY <3>1, <3>2, <3>3, <3>4
  <2>7. \/ CheckReady \/ NoAck \/ AllReady \/ StartServing \/ Stop \/ AsyncEnds
        \/ \E c \in Children : Spawn(c) \/ TakeAck(c)
    BY <1>7, <2>1, <2>2, <2>3 DEF ParentStep, Start, Runtime
  <2> HIDE DEF Quiet
  <2>8. Quiet' /\ UNCHANGED tpVars
    BY <2>4, <2>5, <2>6, <2>7
  <2>9. Receive'
    BY <2>8, <1>2 DEF tpVars, inputVars, rankVars, Receive
  <2>10. QED  BY <2>8, <2>9 DEF Quiet
<1>8. QED  BY <1>5, <1>6, <1>7, NextIs

LEMMA CauseStep ==
  ASSUME ServingTypeOK, CalmInv, CauseInv, Next
  PROVE  CauseInv'
<1>1. SUFFICES ASSUME Untroubled' PROVE terminal' = FALSE
  BY DEF CauseInv
<1>2. Untroubled /\ terminal = FALSE /\ (terminal' = terminal \/ HealthTick)
  BY <1>1, UntroubledBack DEF CauseInv
<1>3. ~HealthTick
  <2>1. HealthTick => Calm
    BY <1>2 DEF HealthTick, MarkUnavailable, Reports, Untroubled, Calm, ServingTypeOK
  <2>2. QED  BY <2>1 DEF CalmInv, HealthTick, ChildExited, SeesExit
<1>4. QED  BY <1>2, <1>3

LEMMA ServingStarts ==
  ASSUME Init
  PROVE  ServingInv
<1>1. ServingTypeOK
  <2>1. faults \in 0 .. MaxFaults
    BY ServingAssumption DEF Init
  <2>2. QED  BY <2>1 DEF Init, ServingTypeOK
<1>5. StartupInv
  BY DEF Init, StartupInv, Starting
<1>2. EndInv
  BY DEF Init, EndInv
<1>3. CalmInv
  BY DEF Init, TPInit, CalmInv, Exited
<1>4. CauseInv
  BY DEF Init, CauseInv
<1>6. QED  BY <1>1, <1>2, <1>3, <1>4, <1>5 DEF ServingInv

(* THEOREM: the parent's book-keeping is right at every moment, for any number  *)
(* of ranks, workers, stubborn children, messages and faults.                   *)
THEOREM ServingInvHolds == Spec => []ServingInv
<1>1. Init => ServingInv
  BY ServingStarts
<1>2. ServingInv /\ [Next]_vars => ServingInv'
  <2> SUFFICES ASSUME ServingInv, [Next]_vars PROVE ServingInv'
    OBVIOUS
  <2>1. CASE Next
    BY <2>1, ServingTypesStep, StartupStep, EndStep, CalmStep, CauseStep DEF ServingInv
  <2>2. CASE UNCHANGED vars
    <3>1. /\ UNCHANGED <<child, acks, ready, main, terminal, stopping, cleanup, step, complete,
                         termed, interrupted, faults>>
          /\ UNCHANGED <<inbox, raw, pub, pending, read, pc>>
      BY <2>2 DEF vars, tpVars, inputVars, rankVars, parentVars, envVars
    <3>2. ServingTypeOK' /\ StartupInv'
      BY <3>1 DEF ServingInv, ServingTypeOK, StartupInv, Starting, IsBuilt
    <3>3. EndInv'
      BY <3>1 DEF ServingInv, EndInv, Settled, Alive
    <3>4. CalmInv'
      BY <3>1 DEF ServingInv, CalmInv, Calm, Exited
    <3>5. CauseInv'
      BY <3>1 DEF ServingInv, CauseInv, Untroubled
    <3>6. QED  BY <3>2, <3>3, <3>4, <3>5 DEF ServingInv
  <2>3. QED  BY <2>1, <2>2
<1>3. QED  BY <1>1, <1>2, PTL DEF Spec

(* THEOREM: nobody is served before every rank and every worker is built, the   *)
(* ranks that never acknowledge included.                                       *)
THEOREM StartupAlwaysSound == Spec => []StartupIsSound
<1>1. ServingInv => StartupIsSound
  <2> SUFFICES ASSUME ServingInv, main = "serving", NEW c \in Children
               PROVE  child[c] \notin {"absent", "building"}
    BY DEF StartupIsSound, ServesOnlyWhenReady, ServingInv
  <2>1. 0 \in ready /\ Workers \subseteq ready
    BY DEF ServingInv, StartupInv, ExpectedReady
  <2>2. c \in Ranks \/ c \in Workers
    BY ChildrenAre
  <2>3. IsBuilt(c)
    BY <2>1, <2>2 DEF ServingInv, StartupInv
  <2>4. QED  BY <2>3 DEF IsBuilt
<1>2. QED  BY <1>1, ServingInvHolds, PTL

(* THEOREM: whichever way the server stops, at most a child that SIGTERM does   *)
(* not end outlives it, and a shutdown that calls itself complete left nobody.  *)
THEOREM NeverOrphans == Spec => []NoOrphans
<1>1. ServingInv => NoOrphans
  BY DEF ServingInv, EndInv, Settled, NoOrphans
<1>2. QED  BY <1>1, ServingInvHolds, PTL

(* THEOREM: the terminal error is never the work of an orderly stop.  Not        *)
(* inductive: it takes that before the first fault nobody has gone, which in     *)
(* turn takes that no ExitMsg is anywhere in the receive path of any rank.       *)
THEOREM StopIsNeverFailure == Spec => []StopIsNotFailure
<1>1. ServingInv => StopIsNotFailure
  <2> SUFFICES ASSUME ServingInv, terminal, ~(faults > 0), ~interrupted PROVE FALSE
    BY DEF StopIsNotFailure
  <2>1. faults = 0
    <3>1. faults \in 0 .. MaxFaults
      BY DEF ServingInv, ServingTypeOK
    <3>2. QED  BY <3>1, ServingAssumption
  <2>2. interrupted = FALSE
    BY DEF ServingInv, ServingTypeOK
  <2>3. QED  BY <2>1, <2>2 DEF ServingInv, CauseInv, Untroubled
<1>2. QED  BY <1>1, ServingInvHolds, PTL
================================================================================

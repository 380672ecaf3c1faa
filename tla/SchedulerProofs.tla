---------------------------- MODULE SchedulerProofs ----------------------------
(***************************************************************************)
(* Safety of the scheduler for every number of requests, rows and pages,   *)
(* every page size, all lengths and budgets, and both loops.               *)
(*                                                                         *)
(* The invariants the runs check lean on each other and on facts about the *)
(* rows in flight that none of them states, so they are proved together:   *)
(* IInv is inductive and implies each of them.  With what it says of the   *)
(* replies (Reported), every step moves each request as RequestContract    *)
(* allows, so the scheduler implements its contract.                       *)
(***************************************************************************)
EXTENDS Scheduler, TLAPS, FiniteSetTheorems

-------------------------------------------------------------------------------
\* Where the rows in flight are at each point of the loop.
LoopShape ==
  /\ pc \in {"receive", "schedule"} => ongoing.rows = {}
  /\ ~Overlap => last.rows = {}
  /\ Receiving /\ blocking => last.rows = {} /\ pending = {} /\ running = {}

\* A batch has one row per request, two batches give a request two epochs, the
\* outstanding epochs are those of the rows and lie below the next one.
RowsAreDistinct ==
  /\ \A q, r \in last.rows : q.uid = r.uid => q = r
  /\ \A q, r \in ongoing.rows : q.uid = r.uid => q = r
  /\ \A q \in last.rows, r \in ongoing.rows : q.uid = r.uid => q.epoch # r.epoch
  /\ \A u \in Uids : outstanding[u] = {r.epoch : r \in {q \in InFlight : q.uid = u}}
  /\ \A r \in InFlight : r.epoch < nextEpoch[r.uid]

\* The live requests are those with a table row; everything that will be issued
\* again or has a row in flight is live, or pending and never scheduled.
Residency ==
  /\ \A u \in Uids : u \in live <=> slotOf[u] # NoSlot
  /\ \A r \in InFlight : r.uid \in live
  /\ running \subseteq live /\ chunked \subseteq live
  /\ chunked \subseteq pending /\ pending \cap running = {}
  /\ pending \cap live \subseteq chunked
  /\ \A u \in pending \cup running : state[u] = "ACTIVE"
  /\ \A u \in Uids : state[u] = "ACTIVE" => u \in pending \cup live
  /\ \A u \in Uids : u \notin live => cachedLen[u] = 0 \/ state[u] = "RETIRED"

\* The pages of a resident request cover what is cached, which covers the rows
\* in flight and stays within the request's and the model's bound.
Coverage ==
  /\ \A u \in live : pages[u] = DivCeil(cachedLen[u], PageSize)
  /\ \A r \in InFlight : r.pos <= cachedLen[r.uid]
  /\ \A u \in Uids : cachedLen[u] <= MaxDeviceLen(u) /\ MaxDeviceLen(u) <= MaxSeqLen
  /\ \A u \in pending : cachedLen[u] < inputLen[u]

\* The rows, none or one per batch, that will commit a token of u.
LastLag(u) == IF \E r \in last.rows : r.uid = u /\ ~r.chunked THEN 1 ELSE 0
OngoingLag(u) == IF \E r \in ongoing.rows : r.uid = u /\ ~r.chunked THEN 1 ELSE 0

\* The requests whose prompt is in.
Decoding == {u \in live \ chunked : state[u] = "ACTIVE"}

\* The device is ahead of the host by the rows in flight, in their order; a
\* request decodes as long as the device has room for a token.
HostFollowsDevice ==
  /\ \A r \in InFlight : r.uid \in chunked => r.chunked
  /\ \A u \in Decoding :
       /\ deviceLen[u] = hostLen[u] + LastLag(u) + OngoingLag(u)
       /\ deviceLen[u] = cachedLen[u] + 1
       /\ \A r \in last.rows : r.uid = u /\ ~r.chunked => r.pos = hostLen[u]
       /\ \A r \in ongoing.rows : r.uid = u /\ ~r.chunked => r.pos = hostLen[u] + LastLag(u)
       /\ u \in running <=> deviceLen[u] < MaxDeviceLen(u)
       /\ deviceLen[u] = hostLen[u] => hostLen[u] < MaxDeviceLen(u)

IInv ==
  /\ TypeOK
  /\ LoopShape
  /\ RowsAreDistinct
  /\ RetirementIsOwned
  /\ SlotsArePartitioned
  /\ Residency
  /\ Coverage
  /\ HostFollowsDevice

-------------------------------------------------------------------------------
(* Recording a scheduled phase keeps a policy a policy: its limit stays      *)
(* positive and its counter never goes below zero (record_scheduled).        *)
LEMMA RecordType ==
  ASSUME NEW pol \in Policies, NEW phase \in Phases \cup {NoPhase},
         NEW p \in BOOLEAN, NEW d \in BOOLEAN
  PROVE  /\ RecordScheduled(pol, phase, p, d) \in Policies
         /\ RecordScheduled(pol, phase, p, d).limit = pol.limit
<1>1. CASE phase = NoPhase \/ ~(p /\ d)
  BY <1>1 DEF Policies, Phases, NoPhase, RecordScheduled, ResetMixedState, NewPolicy
<1>2. CASE ~(phase = NoPhase \/ ~(p /\ d))
  <2> DEFINE run == IF phase = "decode" THEN pol.run + 1 ELSE 0
  <2>1. RecordScheduled(pol, phase, p, d)
          = [pol EXCEPT !.mixed = TRUE, !.last = phase, !.run = run]
    BY <1>2 DEF RecordScheduled
  <2>2. run \in Nat
    BY DEF Policies
  <2>3. QED  BY <2>1, <2>2 DEF Policies
<1>3. QED  BY <1>1, <1>2

(* Division is monotone.                                                      *)
LEMMA DivMonotone ==
  ASSUME NEW x \in Nat, NEW y \in Nat, NEW d \in Nat \ {0}, x <= y
  PROVE  x \div d <= y \div d
<1> DEFINE p == x \div d
           q == y \div d
<1>1. p \in Int /\ q \in Int
  OBVIOUS
<1>2. d * p <= x
  OBVIOUS
<1>3. y < d * q + d
  OBVIOUS
<1>4. SUFFICES ASSUME p > q PROVE FALSE
  BY <1>1
<1> HIDE DEF p, q
<1>5. PICK k \in Nat : p = q + 1 + k
  <2>1. p - q - 1 \in Nat /\ p = q + 1 + (p - q - 1)
    BY <1>1, <1>4
  <2>2. QED  BY <2>1
<1>6. d * p = d * q + d + d * k
  BY <1>1, <1>5
<1>7. d * k \in Nat /\ d * p \in Int /\ d * q \in Int
  BY <1>1
<1>8. QED  BY <1>2, <1>3, <1>6, <1>7

(* Pages for more tokens are never fewer, and none are needed for no token    *)
(* (utils div_ceil, allocate_paged).                                          *)
LEMMA DivCeilFacts ==
  /\ DivCeil(0, PageSize) = 0
  /\ \A a \in Nat : DivCeil(a, PageSize) \in Nat
  /\ \A a, b \in Nat : a <= b => DivCeil(a, PageSize) <= DivCeil(b, PageSize)
<1> USE SchedulerAssumption
<1>1. (PageSize - 1) \div PageSize = 0
  OBVIOUS
<1>2. ASSUME NEW a \in Nat PROVE (a + PageSize - 1) \div PageSize \in Nat
  OBVIOUS
<1>3. ASSUME NEW a \in Nat, NEW b \in Nat, a <= b
      PROVE  (a + PageSize - 1) \div PageSize <= (b + PageSize - 1) \div PageSize
  <2>1. a + PageSize - 1 \in Nat /\ b + PageSize - 1 \in Nat
        /\ a + PageSize - 1 <= b + PageSize - 1
    BY <1>3
  <2>2. QED  BY <2>1, DivMonotone
<1>4. QED  BY <1>1, <1>2, <1>3 DEF DivCeil

-------------------------------------------------------------------------------
(* The places of a queue are natural numbers (the order of pending_list).     *)
LEMMA PlacesAreNaturals ==
  ASSUME NEW S \in SUBSET Uids
  PROVE  Cardinality(S) \in Nat
<1>1. IsFiniteSet(S)
  BY SchedulerAssumption, FS_Subset
<1>2. QED  BY <1>1, FS_CardinalityType

(* The initial state satisfies the invariant.                                 *)
LEMMA InitInv == Init => IInv
<1> SUFFICES ASSUME Init PROVE IInv
  OBVIOUS
<1> USE SchedulerAssumption DEF Init
<1>1. TypeOK
  BY DEF TypeOK, Batches, Rows, NoBatch, NoPhase, Phases, Policies, NewPolicy, States, Reasons
<1>2. LoopShape
  BY DEF LoopShape, NoBatch
<1>3. RowsAreDistinct
  BY DEF RowsAreDistinct, NoBatch, InFlight
<1>4. RetirementIsOwned
  BY DEF RetirementIsOwned
<1>5. SlotsArePartitioned
  BY DEF SlotsArePartitioned
<1>6. Residency
  BY DEF Residency, InFlight, NoBatch
<1>7. Coverage
  BY DEF Coverage, InFlight, NoBatch, MaxDeviceLen
<1>8. HostFollowsDevice
  BY DEF HostFollowsDevice, Decoding, InFlight, NoBatch
<1>9. QED  BY <1>1, <1>2, <1>3, <1>4, <1>5, <1>6, <1>7, <1>8 DEF IInv

-------------------------------------------------------------------------------
(* A step that moves the loop and leaves the requests alone.                  *)
LEMMA LoopStep ==
  ASSUME IInv, LoopShape',
         UNCHANGED <<last, lifeVars, queueVars, reqVars, resVars, aborted, sent, finals>>,
         blocking' = blocking,
         ongoing' \in Batches, ongoing'.rows = ongoing.rows,
         policy' \in Policies,
         pc' \in {"receive", "schedule", "process", "raised"}
  PROVE  IInv'
<1> USE DEF IInv, lifeVars, queueVars, reqVars, resVars
<1>1. InFlight' = InFlight
  BY DEF InFlight
<1>2. TypeOK'
  BY DEF TypeOK
<1>3. RowsAreDistinct'
  BY <1>1 DEF RowsAreDistinct
<1>4. RetirementIsOwned' /\ SlotsArePartitioned'
  BY DEF RetirementIsOwned, SlotsArePartitioned
<1>5. Residency'
  BY <1>1 DEF Residency
<1>6. Coverage'
  BY <1>1 DEF Coverage, MaxDeviceLen
<1>7. HostFollowsDevice'
  BY <1>1 DEF HostFollowsDevice, Decoding, LastLag, OngoingLag, MaxDeviceLen
<1>8. QED  BY <1>2, <1>3, <1>4, <1>5, <1>6, <1>7

(* Scheduling records a policy (record_scheduled).                            *)
LEMMA RecordKeepsPolicy ==
  ASSUME TypeOK, NEW phase \in Phases \cup {NoPhase}, Record(phase)
  PROVE  policy' \in Policies
BY RecordType DEF TypeOK, Record, PrefillRunnable, DecodeRunnable

(* The steps that end the process or find nothing to do preserve the          *)
(* invariant (EndReceive, ScheduleNothing, AllocationFails, CommitFails).     *)
LEMMA QuietStep ==
  ASSUME IInv, EndReceive \/ ScheduleNothing \/ AllocationFails \/ CommitFails
  PROVE  IInv'
<1>1. CASE EndReceive
  <2>1. LoopShape'
    BY <1>1 DEF IInv, EndReceive, LoopShape, Receiving, queueVars
  <2>2. QED
    BY <1>1, <2>1, LoopStep DEF IInv, TypeOK, EndReceive
<1>2. CASE ScheduleNothing
  <2>1. ongoing.rows = {} /\ ongoing' = NoBatch /\ policy' \in Policies
    BY <1>2, RecordKeepsPolicy DEF IInv, LoopShape, ScheduleNothing, Scheduling
  <2>2. LoopShape' /\ pc' = "process"
    BY <1>2 DEF IInv, ScheduleNothing, LoopShape, Receiving, queueVars
  <2>3. NoBatch \in Batches /\ NoBatch.rows = {}
    BY DEF NoBatch, Batches
  <2>4. QED
    BY <1>2, <2>1, <2>2, <2>3, LoopStep DEF ScheduleNothing
<1>3. CASE AllocationFails \/ CommitFails
  <2>1. pc' = "raised" /\ UNCHANGED <<blocking, last, ongoing, policy, lifeVars, queueVars,
                                       reqVars, resVars, aborted, sent, finals>>
    BY <1>3 DEF AllocationFails, CommitFails
  <2>2. LoopShape'
    BY <2>1 DEF IInv, LoopShape, Receiving, queueVars
  <2>3. QED
    BY <2>1, <2>2, LoopStep DEF IInv, TypeOK
<1>4. QED  BY <1>1, <1>2, <1>3

-------------------------------------------------------------------------------
(* Refusing a request preserves the invariant.                                *)
LEMMA RejectStep ==
  ASSUME IInv, NEW u \in Uids, NEW input \in InputLens, NEW output \in OutputLens,
         RejectUserMsg(u, input, output)
  PROVE  IInv'
<1> USE DEF IInv, RejectUserMsg, queueVars, reqVars, resVars
<1>1. InFlight' = InFlight
  BY DEF InFlight
<1>2. u \notin pending \cup running \cup owners /\ slotOf[u] = NoSlot
  BY DEF TypeOK, Residency, RetirementIsOwned, SlotsArePartitioned
<1>3. TypeOK'
  <2>1. state' \in [Uids -> States] /\ reason' \in [Uids -> Reasons]
    BY DEF TypeOK, States, Reasons
  <2>2. finals' \in [Uids -> Nat]
    BY DEF TypeOK
  <2>3. QED  BY <2>1, <2>2 DEF TypeOK
<1>4. LoopShape'
  BY DEF LoopShape, Receiving
<1>5. RowsAreDistinct'
  BY <1>1 DEF RowsAreDistinct
<1>6. RetirementIsOwned'
  BY <1>2 DEF TypeOK, RetirementIsOwned
<1>7. SlotsArePartitioned'
  BY <1>2 DEF TypeOK, SlotsArePartitioned
<1>8. Residency'
  BY <1>1, <1>2 DEF TypeOK, Residency
<1>9. Coverage'
  BY <1>1 DEF Coverage, MaxDeviceLen
<1>10. HostFollowsDevice'
  <2>1. Decoding' = Decoding
    BY <1>2 DEF TypeOK, Decoding, Residency
  <2>2. QED
    BY <1>1, <2>1 DEF HostFollowsDevice, LastLag, OngoingLag, MaxDeviceLen
<1>11. QED  BY <1>3, <1>4, <1>5, <1>6, <1>7, <1>8, <1>9, <1>10

(* Queueing a request, with its max_tokens clamped, preserves the invariant:  *)
(* the clamp keeps its last position within the model's bound.                *)
LEMMA AcceptStep ==
  ASSUME IInv, NEW u \in Uids, NEW input \in InputLens, NEW output \in OutputLens,
         AcceptUserMsg(u, input, output)
  PROVE  IInv'
<1> USE DEF IInv, AcceptUserMsg, resVars
<1>1. InFlight' = InFlight
  BY DEF InFlight
<1>2. u \notin pending \cup running \cup owners \cup live \cup chunked /\ slotOf[u] = NoSlot
  BY DEF TypeOK, Residency, RetirementIsOwned, SlotsArePartitioned
<1>3. input \in Nat \ {0} /\ output \in Nat /\ MaxSeqLen \in Nat
  BY SchedulerAssumption
<1>4. /\ Least(output, MaxSeqLen - input) \in Nat
      /\ input + Least(output, MaxSeqLen - input) <= MaxSeqLen
  BY <1>3 DEF Accepted, Least
<1>5. TypeOK'
  <2>1. place' \in [Uids -> Nat]
    BY PlacesAreNaturals DEF TypeOK
  <2>2. QED
    BY <1>3, <1>4, <2>1 DEF TypeOK, States
<1>6. LoopShape'
  BY DEF LoopShape, Receiving
<1>7. RowsAreDistinct'
  BY <1>1 DEF RowsAreDistinct
<1>8. RetirementIsOwned'
  BY <1>2 DEF TypeOK, RetirementIsOwned
<1>9. SlotsArePartitioned'
  BY <1>2 DEF TypeOK, SlotsArePartitioned
<1>10. Residency'
  BY <1>1, <1>2 DEF TypeOK, Residency
<1>11. Coverage'
  <2>1. cachedLen[u] = 0
    BY <1>2 DEF TypeOK, Residency
  <2>2. \A v \in Uids : MaxDeviceLen(v)' =
          IF v = u THEN input + Least(output, MaxSeqLen - input) ELSE MaxDeviceLen(v)
    BY DEF TypeOK, MaxDeviceLen
  <2>3. \A v \in Uids : cachedLen'[v] <= MaxDeviceLen(v)' /\ MaxDeviceLen(v)' <= MaxSeqLen
    BY <1>3, <1>4, <2>1, <2>2 DEF Coverage
  <2>4. \A v \in pending' : cachedLen'[v] < inputLen'[v]
    BY <1>3, <2>1 DEF TypeOK, Coverage
  <2>5. (\A v \in live : pages[v] = DivCeil(cachedLen[v], PageSize))'
    BY DEF Coverage
  <2>6. (\A r \in InFlight : r.pos <= cachedLen[r.uid])'
    BY <1>1 DEF Coverage
  <2>7. QED
    BY <2>3, <2>4, <2>5, <2>6 DEF Coverage
<1>12. HostFollowsDevice'
  <2>1. Decoding' = Decoding /\ u \notin Decoding
    BY <1>2 DEF TypeOK, Decoding, Residency
  <2>2. \A v \in Decoding : MaxDeviceLen(v)' = MaxDeviceLen(v)
    BY <2>1 DEF TypeOK, MaxDeviceLen, Decoding
  <2>3. QED
    BY <1>1, <2>1, <2>2 DEF HostFollowsDevice, LastLag, OngoingLag
<1>13. QED
  BY <1>5, <1>6, <1>7, <1>8, <1>9, <1>10, <1>11, <1>12

-------------------------------------------------------------------------------
(* Retirement keeps the division of the table rows, whichever live requests   *)
(* it releases (_free_req_resources).                                         *)
LEMMA RetireFacts ==
  ASSUME IInv, NEW terminal \in SUBSET Uids, NEW released \in SUBSET live,
         Retire(terminal, released)
  PROVE  /\ state' \in [Uids -> States] /\ owners' \subseteq Uids /\ live' \subseteq Uids
         /\ running' \subseteq Uids /\ freeSlots' \subseteq Slots
         /\ slotOwner' \in [Slots -> Uids \cup {NoOwner}]
         /\ slotOf' \in [Uids -> Slots \cup {NoSlot}] /\ pages' \in [Uids -> Nat]
         /\ SlotsArePartitioned'
         /\ \A u \in Uids : u \in live' <=> slotOf'[u] # NoSlot
<1> USE DEF IInv
<1>1. \A u \in released : u \in Uids /\ slotOf[u] \in Slots /\ slotOwner[slotOf[u]] = u
  BY SchedulerAssumption DEF TypeOK, Residency, SlotsArePartitioned
<1>2. /\ state' \in [Uids -> States] /\ owners' \subseteq Uids /\ live' \subseteq Uids
      /\ running' \subseteq Uids
  BY DEF TypeOK, States, Retire, RemoveReq
<1>3. freeSlots' \subseteq Slots
  BY <1>1 DEF TypeOK, Retire
<1>4. /\ slotOwner' \in [Slots -> Uids \cup {NoOwner}]
      /\ slotOf' \in [Uids -> Slots \cup {NoSlot}] /\ pages' \in [Uids -> Nat]
  BY DEF TypeOK, Retire
<1>5. \A u \in Uids : u \in live' <=> slotOf'[u] # NoSlot
  BY DEF TypeOK, Retire, Residency
<1>6. SlotsArePartitioned'
  <2>1. \A u \in Uids : slotOf'[u] = IF u \in released THEN NoSlot ELSE slotOf[u]
    BY DEF Retire
  <2>2. \A s \in Slots : slotOwner'[s] =
          IF \E u \in released : slotOf[u] = s THEN NoOwner ELSE slotOwner[s]
    BY DEF Retire
  <2>3. \A s \in Slots : s \in freeSlots' <=> slotOwner'[s] = NoOwner
    BY <1>1, <2>2 DEF SlotsArePartitioned, Retire
  <2>4. ASSUME NEW u \in Uids, NEW s \in Slots
        PROVE  slotOf'[u] = s <=> slotOwner'[s] = u
    <3>1. slotOf[u] = s <=> slotOwner[s] = u
      BY DEF SlotsArePartitioned
    <3>2. s # NoSlot /\ u # NoOwner
      BY SchedulerAssumption
    <3>3. CASE u \in released
      BY <1>1, <2>1, <2>2, <3>1, <3>2, <3>3
    <3>4. CASE u \notin released
      BY <1>1, <2>1, <2>2, <3>1, <3>2, <3>4
    <3>5. QED  BY <3>3, <3>4
  <2>5. \A u \in Uids : slotOf'[u] = NoSlot => pages'[u] = 0
    BY <2>1 DEF SlotsArePartitioned, Retire
  <2>6. \A u \in Uids : slotOf'[u] # NoSlot =>
          state'[u] \in {"ACTIVE", "TERMINAL_PENDING_RETIRE"}
    BY <2>1 DEF SlotsArePartitioned, Retire
  <2>7. QED  BY <2>3, <2>4, <2>5, <2>6 DEF SlotsArePartitioned
<1>7. QED  BY <1>2, <1>3, <1>4, <1>5, <1>6

(* A request without an outstanding epoch has no row in flight.               *)
LEMMA NoEpochNoRow ==
  ASSUME IInv, NEW u \in Uids
  PROVE  outstanding[u] = {} <=> \A r \in InFlight : r.uid # u
BY DEF IInv, RowsAreDistinct

(* An abort preserves the invariant, whether it finds the request before its  *)
(* first chunk, between two chunks, decoding, with its last forward in        *)
(* flight, ended already or not at all.                                       *)
LEMMA AbortStep ==
  ASSUME IInv, NEW u \in Uids, AbortBackendMsg(u)
  PROVE  IInv'
<1> DEFINE left == pending \ {u}
<1>1. /\ pc = "receive" /\ pending' = left /\ chunked' = chunked \ {u} /\ blocking' = FALSE
      /\ aborted' = aborted \cup {u}
      /\ UNCHANGED <<pc, last, ongoing, policy, outstanding, nextEpoch, granted,
                     reqVars, sent, finals>>
  BY DEF AbortBackendMsg, Receiving
<1>2. InFlight' = InFlight
  BY <1>1 DEF InFlight
<1>3. place' \in [Uids -> Nat]
  <2>1. left \in SUBSET Uids
    BY DEF IInv, TypeOK
  <2>2. place' = Ranked(left, LAMBDA v, w : place[v] < place[w])
    BY DEF AbortBackendMsg
  <2>3. \A v \in Uids : {w \in left : w = v \/ place[w] < place[v]} \in SUBSET Uids
    BY <2>1
  <2>4. QED  BY <2>2, <2>3, PlacesAreNaturals DEF Ranked
<1>4. reason' \in [Uids -> Reasons]
  BY DEF AbortBackendMsg, IInv, TypeOK, Reasons
<1>5. LoopShape' /\ RowsAreDistinct'
  BY <1>1, <1>2 DEF IInv, LoopShape, RowsAreDistinct, Receiving
<1>6. CASE u \in pending /\ ~Found(u)
  <2>1. /\ state' = [state EXCEPT ![u] = "dropped"]
        /\ UNCHANGED <<live, owners, running, resVars>>
    BY <1>6 DEF AbortBackendMsg
  <2>2. u \notin live \cup chunked \cup running \cup owners /\ slotOf[u] = NoSlot
    BY <1>6 DEF Found, IInv, TypeOK, Residency, RetirementIsOwned
  <2>3. TypeOK'
    BY <1>1, <1>3, <1>4, <2>1 DEF IInv, TypeOK, States, reqVars, resVars
  <2>4. RetirementIsOwned'
    BY <1>1, <2>1, <2>2 DEF IInv, TypeOK, RetirementIsOwned
  <2>5. SlotsArePartitioned'
    BY <2>1, <2>2 DEF IInv, TypeOK, SlotsArePartitioned, resVars
  <2>6. Residency'
    BY <1>1, <1>2, <1>6, <2>1, <2>2 DEF IInv, TypeOK, Residency, resVars, reqVars
  <2>7. Coverage'
    BY <1>1, <1>2, <2>1 DEF IInv, Coverage, MaxDeviceLen, resVars, reqVars
  <2>8. HostFollowsDevice'
    <3>1. Decoding' = Decoding /\ chunked' = chunked
      BY <1>1, <2>1, <2>2 DEF IInv, TypeOK, Decoding
    <3>2. QED
      BY <1>1, <1>2, <2>1, <3>1
      DEF IInv, HostFollowsDevice, LastLag, OngoingLag, MaxDeviceLen, reqVars
  <2>9. QED  BY <1>5, <2>3, <2>4, <2>5, <2>6, <2>7, <2>8 DEF IInv
<1>7. CASE ~(u \in pending /\ ~Found(u))
  <2> DEFINE ended    == state[u] \in {"ACTIVE", "TERMINAL_PENDING_RETIRE"}
             terminal == IF Found(u) /\ state[u] = "ACTIVE" THEN {u} ELSE {}
             released == IF Found(u) /\ ReadyToRelease(ended, outstanding[u])
                           THEN {u} ELSE {}
  <2>1. Retire(terminal, released)
    BY <1>7 DEF AbortBackendMsg
  <2>2. Found(u) => u \in live
    BY DEF Found, IInv, Residency
  <2>3. terminal \in SUBSET Uids /\ released \in SUBSET live
    BY <2>2
  <2>4. Found(u) => ended /\ slotOf[u] # NoSlot
    BY <2>2 DEF IInv, Residency, SlotsArePartitioned
  <2>5. state[u] = "ACTIVE" => u \in terminal
    BY <1>7 DEF Found, IInv, Residency
  <2>6. released # {} => outstanding[u] = {}
    BY DEF ReadyToRelease
  <2>7. Found(u) /\ outstanding[u] = {} => u \in released
    BY <2>4 DEF ReadyToRelease
  <2>8. /\ SlotsArePartitioned'
        /\ \A v \in Uids : v \in live' <=> slotOf'[v] # NoSlot
    BY <2>1, <2>3, RetireFacts
  <2>9. TypeOK'
    BY <1>1, <1>3, <1>4, <2>1, <2>3, RetireFacts DEF IInv, TypeOK, reqVars
  <2>10. /\ state' = [v \in Uids |-> IF v \in released THEN "RETIRED"
                                     ELSE IF v \in terminal THEN "TERMINAL_PENDING_RETIRE"
                                     ELSE state[v]]
         /\ owners' = (owners \cup terminal) \ released
         /\ live' = live \ released /\ running' = running \ terminal
         /\ \A v \in Uids \ released : pages'[v] = pages[v]
    BY <2>1 DEF Retire, RemoveReq
  <2> HIDE DEF ended
  <2>11. RetirementIsOwned'
    <3>1. \A v \in Uids : v \in owners' <=> state'[v] = "TERMINAL_PENDING_RETIRE"
      BY <2>10 DEF IInv, RetirementIsOwned
    <3>2. ASSUME NEW v \in Uids, v \in owners'
          PROVE  outstanding'[v] # {} /\ v \in live' /\ v \notin pending' \cup running'
      <4>1. CASE v = u
        BY <1>1, <2>2, <2>7, <2>10, <3>2, <4>1 DEF IInv, RetirementIsOwned
      <4>2. CASE v # u
        BY <1>1, <2>10, <3>2, <4>2 DEF IInv, RetirementIsOwned
      <4>3. QED  BY <4>1, <4>2
    <3>3. QED  BY <3>1, <3>2 DEF RetirementIsOwned
  <2>12. \A r \in InFlight : r.uid \notin released
    BY <2>6, NoEpochNoRow
  <2>13. Residency'
    <3>1. \A r \in InFlight : r.uid \in live'
      BY <2>10, <2>12 DEF IInv, Residency
    <3>2. running' \subseteq live' /\ chunked' \subseteq live'
      BY <1>1, <2>5, <2>10 DEF IInv, Residency
    <3>3. /\ chunked' \subseteq pending' /\ pending' \cap running' = {}
          /\ pending' \cap live' \subseteq chunked'
      BY <1>1, <2>10 DEF IInv, Residency
    <3>4. \A v \in pending' \cup running' : state'[v] = "ACTIVE"
      BY <1>1, <2>5, <2>10 DEF IInv, TypeOK, Residency
    <3>5. \A v \in Uids : state'[v] = "ACTIVE" => v \in pending' \cup live'
      BY <1>1, <2>5, <2>10 DEF IInv, Residency
    <3>6. \A v \in Uids : v \notin live' => cachedLen'[v] = 0 \/ state'[v] = "RETIRED"
      BY <1>1, <2>2, <2>10 DEF IInv, Residency, reqVars
    <3>7. QED  BY <1>2, <2>8, <3>1, <3>2, <3>3, <3>4, <3>5, <3>6 DEF Residency
  <2>14. Coverage'
    BY <1>1, <1>2, <2>10 DEF IInv, TypeOK, Coverage, MaxDeviceLen, reqVars
  <2>15. HostFollowsDevice'
    <3>1. Decoding' = Decoding \ {u}
      BY <1>1, <2>5, <2>10 DEF IInv, TypeOK, Decoding
    <3>2. \A v \in Decoding' : v \in running' <=> v \in running
      BY <2>10, <3>1
    <3>3. \A v \in Uids : /\ MaxDeviceLen(v)' = MaxDeviceLen(v)
                          /\ LastLag(v)' = LastLag(v) /\ OngoingLag(v)' = OngoingLag(v)
      BY <1>1 DEF LastLag, OngoingLag, MaxDeviceLen, reqVars
    <3>4. QED
      BY <1>1, <1>2, <3>1, <3>2, <3>3 DEF IInv, HostFollowsDevice, Decoding, TypeOK, reqVars
  <2>16. QED  BY <1>5, <2>8, <2>9, <2>11, <2>13, <2>14, <2>15 DEF IInv
<1>8. QED  BY <1>6, <1>7

-------------------------------------------------------------------------------
(* Issuing a batch of one row per member gives each row a new epoch, which    *)
(* the ledger of its request records (_issue_batch_refs).                     *)
LEMMA IssueFacts ==
  ASSUME IInv, pc = "schedule", NEW members \in SUBSET Uids, NEW rows \in SUBSET Rows,
         \A r \in rows : r.uid \in members /\ r.epoch = nextEpoch[r.uid],
         \A u \in members : \E r \in rows : r.uid = u,
         \A q, r \in rows : q.uid = r.uid => q = r,
         last' = last, ongoing'.rows = rows, IssueBatchRefs(members)
  PROVE  /\ outstanding' \in [Uids -> SUBSET Nat] /\ nextEpoch' \in [Uids -> Nat]
         /\ InFlight' = last.rows \cup rows
         /\ RowsAreDistinct'
<1> USE DEF IInv
<1>1. /\ outstanding' \in [Uids -> SUBSET Nat] /\ nextEpoch' \in [Uids -> Nat]
  BY DEF TypeOK, IssueBatchRefs
<1>2. InFlight = last.rows /\ InFlight' = last.rows \cup rows
  BY DEF LoopShape, InFlight
<1>3. \A r \in last.rows : r.uid \in Uids /\ r.epoch \in Nat /\ r.epoch < nextEpoch[r.uid]
  BY <1>2 DEF TypeOK, Batches, Rows, RowsAreDistinct
<1>4. \A u \in Uids : /\ nextEpoch[u] \in Nat
                      /\ nextEpoch'[u] = IF u \in members THEN nextEpoch[u] + 1 ELSE nextEpoch[u]
  BY DEF TypeOK, IssueBatchRefs
<1>5. \A q \in last.rows, r \in rows : q.uid = r.uid => q.epoch # r.epoch
  BY <1>3, <1>4
<1>6. \A r \in InFlight' : r.epoch < nextEpoch'[r.uid]
  BY <1>2, <1>3, <1>4 DEF Rows
<1>7. ASSUME NEW u \in Uids
      PROVE  outstanding'[u] = {r.epoch : r \in {q \in InFlight' : q.uid = u}}
  <2>1. outstanding[u] = {r.epoch : r \in {q \in last.rows : q.uid = u}}
    BY <1>2 DEF RowsAreDistinct
  <2>2. CASE u \in members
    <3>1. {r.epoch : r \in {q \in rows : q.uid = u}} = {nextEpoch[u]}
      BY <2>2
    <3>2. outstanding'[u] = outstanding[u] \cup {nextEpoch[u]}
      BY <2>2 DEF IssueBatchRefs
    <3>3. QED  BY <1>2, <2>1, <3>1, <3>2
  <2>3. CASE u \notin members
    <3>1. outstanding'[u] = outstanding[u]
      BY <2>3 DEF IssueBatchRefs
    <3>2. {q \in InFlight' : q.uid = u} = {q \in last.rows : q.uid = u}
      BY <1>2, <2>3
    <3>3. QED  BY <2>1, <3>1, <3>2
  <2>4. QED  BY <2>2, <2>3
<1>8. RowsAreDistinct'
  BY <1>5, <1>6, <1>7 DEF RowsAreDistinct
<1>9. QED  BY <1>1, <1>2, <1>8

(* A decode forward preserves the invariant: every member had a position      *)
(* left, and its row follows the one that may still be in flight.             *)
LEMMA DecodeStep ==
  ASSUME IInv, ScheduleDecode
  PROVE  IInv'
<1> DEFINE rows == ongoing'.rows
<1>1. /\ pc = "schedule" /\ pc' = "process" /\ DecodeBatch # {} /\ DecodeBatch = running
      /\ IssueBatchRefs(running) /\ Record("decode")
      /\ ongoing' = [phase |-> "decode",
                     rows |-> IssuedRows(running, {}, deviceLen)]
      /\ pages' = [u \in Uids |-> IF u \in running
                     THEN pages[u] + NewPages(cachedLen[u], deviceLen[u]) ELSE pages[u]]
      /\ cachedLen' = [u \in Uids |-> IF u \in running THEN deviceLen[u] ELSE cachedLen[u]]
      /\ deviceLen' = [u \in Uids |-> IF u \in running THEN deviceLen[u] + 1 ELSE deviceLen[u]]
      /\ running' = {u \in running : RemainLen(u) > 1}
      /\ UNCHANGED <<blocking, last, pending, place, chunked, granted, inputLen, outputLen,
                     hostLen, slotOf, freeSlots, slotOwner, aborted, sent, finals>>
  BY DEF ScheduleDecode, DecodeBatch, Scheduling
<1>2. /\ UNCHANGED <<state, reason, owners>> /\ live' = live
      /\ \A u \in Uids : outstanding[u] \subseteq outstanding'[u]
  BY <1>1 DEF IssueBatchRefs, IInv, Residency
<1>3. /\ running \subseteq Uids /\ running \subseteq Decoding
      /\ \A u \in running : u \notin pending /\ slotOf[u] # NoSlot
  BY DEF IInv, TypeOK, Residency, Decoding
<1>4. \A u \in running : /\ deviceLen[u] = cachedLen[u] + 1 /\ deviceLen[u] < MaxDeviceLen(u)
                         /\ deviceLen[u] \in Nat /\ cachedLen[u] \in Nat
                         /\ MaxDeviceLen(u) \in Nat
  BY <1>3 DEF IInv, HostFollowsDevice, TypeOK, MaxDeviceLen
<1>5. /\ \A r \in rows : /\ r.uid \in running /\ r.epoch = nextEpoch[r.uid]
                         /\ r.chunked = FALSE /\ r.pos = deviceLen[r.uid]
      /\ \A u \in running : \E r \in rows : r.uid = u
      /\ \A q, r \in rows : q.uid = r.uid => q = r
      /\ rows \in SUBSET Rows
  <2>1. rows = {[uid |-> u, epoch |-> nextEpoch[u], chunked |-> u \in {}, pos |-> deviceLen[u]]
                  : u \in running}
    BY <1>1 DEF IssuedRows
  <2>2. \A u \in running : u \in Uids /\ nextEpoch[u] \in Nat /\ deviceLen[u] \in Nat
    BY <1>3, <1>4 DEF IInv, TypeOK
  <2> HIDE DEF rows
  <2>3. ASSUME NEW r \in rows
        PROVE  /\ r.uid \in running /\ r.epoch = nextEpoch[r.uid]
               /\ r.chunked = FALSE /\ r.pos = deviceLen[r.uid]
               /\ r = [uid |-> r.uid, epoch |-> nextEpoch[r.uid],
                      chunked |-> FALSE, pos |-> deviceLen[r.uid]]
               /\ r \in Rows
    <3>1. PICK u \in running : r = [uid |-> u, epoch |-> nextEpoch[u],
                                   chunked |-> u \in {}, pos |-> deviceLen[u]]
      BY <2>1
    <3>2. (u \in {}) = FALSE
      OBVIOUS
    <3>3. QED  BY <2>2, <3>1, <3>2 DEF Rows
  <2>4. ASSUME NEW u \in running PROVE \E r \in rows : r.uid = u
    <3>1. [uid |-> u, epoch |-> nextEpoch[u], chunked |-> u \in {}, pos |-> deviceLen[u]]
            \in rows
      BY <2>1
    <3>2. QED  BY <3>1
  <2>5. ASSUME NEW q \in rows, NEW r \in rows, q.uid = r.uid PROVE q = r
    BY <2>3, <2>5
  <2>6. QED  BY <2>3, <2>4, <2>5
<1> HIDE DEF rows
<1>6. ongoing'.rows = rows
  BY DEF rows
<1>7. /\ outstanding' \in [Uids -> SUBSET Nat] /\ nextEpoch' \in [Uids -> Nat]
      /\ InFlight' = last.rows \cup rows
      /\ RowsAreDistinct'
  <2>1. /\ running \in SUBSET Uids /\ rows \in SUBSET Rows
        /\ \A r \in rows : r.uid \in running /\ r.epoch = nextEpoch[r.uid]
        /\ \A u \in running : \E r \in rows : r.uid = u
        /\ \A q, r \in rows : q.uid = r.uid => q = r
        /\ pc = "schedule" /\ last' = last /\ ongoing'.rows = rows
        /\ IssueBatchRefs(running)
    BY <1>1, <1>3, <1>5, <1>6
  <2>2. QED  BY ONLY IInv, <2>1, IssueFacts
<1>8. InFlight = last.rows
  BY <1>1 DEF IInv, LoopShape, InFlight
<1>9. \A u \in running : pages'[u] = DivCeil(deviceLen[u], PageSize) /\ pages'[u] \in Nat
  <2> SUFFICES ASSUME NEW u \in running
               PROVE  pages'[u] = DivCeil(deviceLen[u], PageSize) /\ pages'[u] \in Nat
    OBVIOUS
  <2>1. pages[u] = DivCeil(cachedLen[u], PageSize)
    BY DEF IInv, Coverage, Residency
  <2>2. /\ DivCeil(cachedLen[u], PageSize) \in Nat /\ DivCeil(deviceLen[u], PageSize) \in Nat
    BY <1>4, DivCeilFacts
  <2>3. QED  BY <1>1, <1>3, <2>1, <2>2 DEF NewPages
<1>10. TypeOK'
  <2>1. ongoing' \in Batches
    BY <1>1, <1>5, <1>6 DEF Batches, Phases
  <2>2. policy' \in Policies
    BY <1>1, RecordKeepsPolicy DEF IInv, Phases
  <2>3. pages' \in [Uids -> Nat]
    BY <1>1, <1>9 DEF IInv, TypeOK
  <2>4. cachedLen' \in [Uids -> Nat] /\ deviceLen' \in [Uids -> Nat] /\ running' \subseteq Uids
    BY <1>1, <1>3 DEF IInv, TypeOK
  <2>5. QED
    BY <1>1, <1>2, <1>7, <2>1, <2>2, <2>3, <2>4 DEF IInv, TypeOK
<1>11. LoopShape'
  BY <1>1 DEF IInv, LoopShape, Receiving
<1>12. RetirementIsOwned'
  BY <1>1, <1>2 DEF IInv, RetirementIsOwned
<1>13. SlotsArePartitioned'
  BY <1>1, <1>2, <1>3 DEF IInv, SlotsArePartitioned
<1>14. Residency'
  <2>1. \A r \in InFlight' : r.uid \in live'
    BY <1>2, <1>5, <1>7, <1>8 DEF IInv, Residency
  <2>2. \A u \in Uids : u \notin live => cachedLen'[u] = cachedLen[u]
    BY <1>1 DEF IInv, Residency
  <2>3. QED
    BY <1>1, <1>2, <2>1, <2>2 DEF IInv, Residency
<1>15. Coverage'
  <2>1. \A u \in live' : pages'[u] = DivCeil(cachedLen'[u], PageSize)
    BY <1>1, <1>2, <1>9 DEF IInv, TypeOK, Coverage
  <2>2. \A r \in InFlight' : r.pos <= cachedLen'[r.uid]
    <3>1. \A u \in Uids : cachedLen[u] <= cachedLen'[u] /\ cachedLen[u] \in Nat
                         /\ cachedLen'[u] \in Nat
      BY <1>1, <1>4 DEF IInv, TypeOK
    <3>2. \A r \in last.rows : r.uid \in Uids /\ r.pos \in Nat /\ r.pos <= cachedLen[r.uid]
      BY <1>8 DEF IInv, TypeOK, Batches, Rows, Coverage
    <3>3. \A r \in rows : r.pos <= cachedLen'[r.uid]
      BY <1>1, <1>3, <1>4, <1>5
    <3>4. QED  BY <1>7, <3>1, <3>2, <3>3
  <2>3. \A u \in Uids : MaxDeviceLen(u)' = MaxDeviceLen(u)
    BY <1>1 DEF MaxDeviceLen
  <2>4. \A u \in Uids : cachedLen'[u] <= MaxDeviceLen(u) /\ MaxDeviceLen(u) <= MaxSeqLen
    BY <1>1, <1>4 DEF IInv, Coverage
  <2>5. \A u \in pending' : cachedLen'[u] < inputLen'[u]
    BY <1>1, <1>3 DEF IInv, TypeOK, Coverage
  <2>6. QED  BY <2>1, <2>2, <2>3, <2>4, <2>5 DEF Coverage
<1>16. HostFollowsDevice'
  <2>1. Decoding' = Decoding
    BY <1>1, <1>2 DEF Decoding
  <2>2. \A r \in InFlight' : r.uid \in chunked' => r.chunked
    BY <1>1, <1>3, <1>5, <1>7, <1>8 DEF IInv, HostFollowsDevice, Residency
  <2>3. \A u \in Uids : /\ LastLag(u)' = LastLag(u) /\ LastLag(u) \in {0, 1}
                        /\ OngoingLag(u) = 0
                        /\ OngoingLag(u)' = IF u \in running THEN 1 ELSE 0
    <3> SUFFICES ASSUME NEW u \in Uids
                 PROVE  /\ LastLag(u)' = LastLag(u) /\ LastLag(u) \in {0, 1}
                        /\ OngoingLag(u) = 0
                        /\ OngoingLag(u)' = IF u \in running THEN 1 ELSE 0
      OBVIOUS
    <3>1. LastLag(u)' = LastLag(u) /\ LastLag(u) \in {0, 1}
      BY <1>1 DEF LastLag
    <3>2. OngoingLag(u) = 0
      BY <1>1 DEF OngoingLag, IInv, LoopShape
    <3>3. OngoingLag(u)' = IF \E r \in rows : r.uid = u /\ ~r.chunked THEN 1 ELSE 0
      BY <1>6 DEF OngoingLag
    <3>4. QED  BY <1>5, <3>1, <3>2, <3>3
  <2>4. \A u \in Uids : MaxDeviceLen(u)' = MaxDeviceLen(u) /\ MaxDeviceLen(u) \in Nat
                       /\ hostLen[u] \in Nat /\ deviceLen[u] \in Nat
    BY <1>1 DEF MaxDeviceLen, IInv, TypeOK
  <2>5. ASSUME NEW u \in Decoding
        PROVE  /\ deviceLen'[u] = hostLen'[u] + LastLag(u)' + OngoingLag(u)'
               /\ deviceLen'[u] = cachedLen'[u] + 1
               /\ \A r \in last'.rows : r.uid = u /\ ~r.chunked => r.pos = hostLen'[u]
               /\ \A r \in ongoing'.rows : r.uid = u /\ ~r.chunked =>
                    r.pos = hostLen'[u] + LastLag(u)'
               /\ u \in running' <=> deviceLen'[u] < MaxDeviceLen(u)'
               /\ deviceLen'[u] = hostLen'[u] => hostLen'[u] < MaxDeviceLen(u)'
    <3>1. /\ u \in Uids
          /\ deviceLen[u] = hostLen[u] + LastLag(u) /\ deviceLen[u] = cachedLen[u] + 1
          /\ \A r \in last.rows : r.uid = u /\ ~r.chunked => r.pos = hostLen[u]
          /\ u \in running <=> deviceLen[u] < MaxDeviceLen(u)
          /\ deviceLen[u] = hostLen[u] => hostLen[u] < MaxDeviceLen(u)
      BY <2>3, <2>4 DEF IInv, HostFollowsDevice, Decoding, TypeOK
    <3>2. hostLen'[u] = hostLen[u] /\ last' = last
      BY <1>1
    <3>3. CASE u \in running
      <4>1. deviceLen'[u] = deviceLen[u] + 1 /\ cachedLen'[u] = deviceLen[u]
        BY <1>1, <3>1, <3>3
      <4>2. \A r \in rows : r.uid = u => r.pos = deviceLen[u]
        BY <1>5
      <4>3. u \in running' <=> deviceLen[u] + 1 < MaxDeviceLen(u)
        BY <1>1, <2>4, <3>1, <3>3 DEF RemainLen
      <4>4. QED
        BY <1>6, <2>3, <2>4, <3>1, <3>2, <3>3, <4>1, <4>2, <4>3
    <3>4. CASE u \notin running
      <4>1. deviceLen'[u] = deviceLen[u] /\ cachedLen'[u] = cachedLen[u] /\ u \notin running'
        BY <1>1, <3>1, <3>4
      <4>2. \A r \in rows : r.uid # u
        BY <1>5, <3>4
      <4>3. QED
        BY <1>6, <2>3, <2>4, <3>1, <3>2, <3>4, <4>1, <4>2
    <3>5. QED  BY <3>3, <3>4
  <2>6. QED  BY <2>1, <2>2, <2>5 DEF HostFollowsDevice
<1>17. QED
  BY <1>7, <1>10, <1>11, <1>12, <1>13, <1>14, <1>15, <1>16 DEF IInv

(* A prefill forward preserves the invariant: the batch comes from the pending *)
(* list, its new members take rows that nobody owns, and a request whose       *)
(* prompt ends here starts its decode one token ahead of the host.             *)
LEMMA PrefillStep ==
  ASSUME IInv, SchedulePrefill
  PROVE  IInv'
<1> DEFINE taken  == PrefillBatch
           chunk  == Chunks(Budget, taken)
           new    == taken \ chunked
           ends   == {u \in taken : cachedLen[u] + chunk[u] = inputLen[u]}
           length == [u \in taken |-> cachedLen[u] + chunk[u]]
           rows   == ongoing'.rows
<1>1. /\ pc = "schedule" /\ pc' = "process"
      /\ \A u \in taken : chunk[u] \in 1..PrefillRemaining(u)
      /\ pages' = [u \in Uids |-> IF u \in taken
                     THEN pages[u] + NewPages(cachedLen[u], length[u]) ELSE pages[u]]
      /\ granted' = [u \in Uids |-> IF u \in taken THEN granted[u] + chunk[u] ELSE granted[u]]
      /\ pending' = pending \ ends
      /\ place' = Ranked(pending \ ends, LAMBDA u, v :
                    \/ u \notin taken /\ v \in taken
                    \/ (u \in taken <=> v \in taken) /\ place[u] < place[v])
      /\ chunked' = (chunked \cup taken) \ ends
      /\ IssueBatchRefs(taken)
      /\ ongoing' = [phase |-> "prefill",
                     rows |-> IssuedRows(taken, taken \ ends, length)]
      /\ hostLen' = [u \in Uids |-> IF u \in taken THEN length[u] ELSE hostLen[u]]
      /\ cachedLen' = [u \in Uids |-> IF u \in taken THEN length[u] ELSE cachedLen[u]]
      /\ deviceLen' = [u \in Uids |-> IF u \in taken THEN length[u] + 1 ELSE deviceLen[u]]
      /\ running' = running \cup {u \in ends : outputLen[u] > 1}
      /\ Record("prefill")
      /\ UNCHANGED <<blocking, last, inputLen, outputLen, aborted, sent, finals>>
  BY DEF SchedulePrefill, Scheduling
<1>2. PICK row \in [new -> freeSlots] :
        /\ \A u, v \in new : u # v => row[u] # row[v]
        /\ slotOf' = [u \in Uids |-> IF u \in new THEN row[u] ELSE slotOf[u]]
        /\ freeSlots' = freeSlots \ {row[u] : u \in new}
        /\ slotOwner' = [s \in Slots |-> IF \E u \in new : row[u] = s
                           THEN CHOOSE u \in new : row[u] = s ELSE slotOwner[s]]
  BY DEF SchedulePrefill
<1>3. taken \subseteq pending
  BY DEF PrefillBatch, Prepared, FirstPreparable
<1> HIDE DEF taken, chunk
<1>4. ends \subseteq taken
  OBVIOUS
<1>5. \A u \in taken :
        /\ u \in Uids /\ state[u] = "ACTIVE" /\ u \notin running
        /\ cachedLen[u] \in Nat /\ inputLen[u] \in Nat /\ outputLen[u] \in Nat
        /\ chunk[u] \in Nat /\ length[u] \in Nat
        /\ cachedLen[u] < length[u] /\ length[u] <= inputLen[u]
        /\ u \in ends <=> length[u] = inputLen[u]
  <2> SUFFICES ASSUME NEW u \in taken
               PROVE /\ u \in Uids /\ state[u] = "ACTIVE" /\ u \notin running
                     /\ cachedLen[u] \in Nat /\ inputLen[u] \in Nat /\ outputLen[u] \in Nat
                     /\ chunk[u] \in Nat /\ length[u] \in Nat
                     /\ cachedLen[u] < length[u] /\ length[u] <= inputLen[u]
                     /\ u \in ends <=> length[u] = inputLen[u]
    OBVIOUS
  <2>1. /\ u \in Uids /\ state[u] = "ACTIVE" /\ u \notin running
        /\ cachedLen[u] \in Nat /\ inputLen[u] \in Nat /\ outputLen[u] \in Nat
    BY <1>3 DEF IInv, TypeOK, Residency
  <2>2. chunk[u] \in 1..(inputLen[u] - cachedLen[u])
    BY <1>1 DEF PrefillRemaining
  <2>3. QED  BY <2>1, <2>2
<1>6. \A u \in new : /\ u \notin live /\ slotOf[u] = NoSlot /\ pages[u] = 0
                     /\ cachedLen[u] = 0
  BY <1>3, <1>5 DEF IInv, TypeOK, Residency, SlotsArePartitioned
<1>7. /\ \A r \in rows : /\ r.uid \in taken /\ r.epoch = nextEpoch[r.uid]
                         /\ r.chunked = (r.uid \notin ends) /\ r.pos = length[r.uid]
      /\ \A u \in taken : \E r \in rows : r.uid = u
      /\ \A q, r \in rows : q.uid = r.uid => q = r
      /\ rows \in SUBSET Rows
  <2>1. rows = {[uid |-> u, epoch |-> nextEpoch[u], chunked |-> u \in taken \ ends,
                 pos |-> length[u]] : u \in taken}
    BY <1>1 DEF IssuedRows
  <2>2. \A u \in taken : u \in Uids /\ nextEpoch[u] \in Nat /\ length[u] \in Nat
    BY <1>5 DEF IInv, TypeOK
  <2> HIDE DEF rows, ends, length
  <2>3. ASSUME NEW r \in rows
        PROVE  /\ r.uid \in taken /\ r.epoch = nextEpoch[r.uid]
               /\ r.chunked = (r.uid \notin ends) /\ r.pos = length[r.uid]
               /\ r = [uid |-> r.uid, epoch |-> nextEpoch[r.uid],
                      chunked |-> r.uid \notin ends, pos |-> length[r.uid]]
               /\ r \in Rows
    <3>1. PICK u \in taken : r = [uid |-> u, epoch |-> nextEpoch[u],
                                  chunked |-> u \notin ends, pos |-> length[u]]
      BY <2>1
    <3>2. (u \notin ends) \in BOOLEAN
      OBVIOUS
    <3>3. QED  BY <2>2, <3>1, <3>2 DEF Rows
  <2>4. ASSUME NEW u \in taken PROVE \E r \in rows : r.uid = u
    <3>1. [uid |-> u, epoch |-> nextEpoch[u], chunked |-> u \notin ends,
           pos |-> length[u]] \in rows
      BY <2>1
    <3>2. QED  BY <3>1
  <2>5. ASSUME NEW q \in rows, NEW r \in rows, q.uid = r.uid PROVE q = r
    BY <2>3, <2>5
  <2>6. QED  BY <2>3, <2>4, <2>5
<1>8. ongoing'.rows = rows
  OBVIOUS
<1> HIDE DEF rows, ends, length
<1>9. /\ outstanding' \in [Uids -> SUBSET Nat] /\ nextEpoch' \in [Uids -> Nat]
      /\ InFlight' = last.rows \cup rows
      /\ RowsAreDistinct'
  <2>1. /\ taken \in SUBSET Uids /\ rows \in SUBSET Rows
        /\ \A r \in rows : r.uid \in taken /\ r.epoch = nextEpoch[r.uid]
        /\ \A u \in taken : \E r \in rows : r.uid = u
        /\ \A q, r \in rows : q.uid = r.uid => q = r
        /\ pc = "schedule" /\ last' = last /\ ongoing'.rows = rows
        /\ IssueBatchRefs(taken)
    BY <1>1, <1>5, <1>7, <1>8
  <2>2. QED  BY ONLY IInv, <2>1, IssueFacts
<1>10. InFlight = last.rows
  BY <1>1 DEF IInv, LoopShape, InFlight
<1> DEFINE len(f, u) == IF u \in taken THEN length[u] ELSE f[u]
<1>22. /\ \A u \in Uids : cachedLen'[u] = len(cachedLen, u)
       /\ \A u \in Uids : hostLen'[u] = len(hostLen, u)
       /\ \A u \in Uids : deviceLen'[u] = IF u \in taken THEN length[u] + 1 ELSE deviceLen[u]
       /\ \A u \in Uids : pages'[u] = IF u \in taken
            THEN pages[u] + NewPages(cachedLen[u], length[u]) ELSE pages[u]
       /\ inputLen' = inputLen /\ outputLen' = outputLen
  BY <1>1
<1>23. \A u \in Uids : /\ cachedLen[u] \in Nat /\ hostLen[u] \in Nat /\ deviceLen[u] \in Nat
                       /\ inputLen[u] \in Nat /\ outputLen[u] \in Nat /\ pages[u] \in Nat
  BY DEF IInv, TypeOK
<1>24. \A u \in taken : /\ u \in Uids /\ length[u] \in Nat
                        /\ cachedLen[u] < length[u] /\ length[u] <= inputLen[u]
  BY <1>5
<1>11. /\ UNCHANGED <<state, reason, owners>> /\ live' = live \cup taken
       /\ \A u \in Uids : outstanding[u] \subseteq outstanding'[u]
  BY <1>1 DEF IssueBatchRefs
<1>12. \A u \in taken : pages'[u] = DivCeil(length[u], PageSize) /\ pages'[u] \in Nat
  <2> SUFFICES ASSUME NEW u \in taken
               PROVE  pages'[u] = DivCeil(length[u], PageSize) /\ pages'[u] \in Nat
    OBVIOUS
  <2>1. pages[u] = DivCeil(cachedLen[u], PageSize)
    BY <1>6, DivCeilFacts DEF IInv, Coverage, Residency
  <2>2. /\ DivCeil(cachedLen[u], PageSize) \in Nat /\ DivCeil(length[u], PageSize) \in Nat
    BY <1>5, DivCeilFacts
  <2>3. QED  BY <1>22, <1>24, <2>1, <2>2 DEF NewPages
<1>13. /\ \A u \in new : row[u] \in Slots /\ row[u] \in freeSlots /\ slotOwner[row[u]] = NoOwner
       /\ \A u \in new : slotOwner'[row[u]] = u
       /\ \A s \in Slots : (\A u \in new : row[u] # s) => slotOwner'[s] = slotOwner[s]
  <2>1. \A u \in new : row[u] \in Slots /\ row[u] \in freeSlots /\ slotOwner[row[u]] = NoOwner
    BY <1>2 DEF IInv, TypeOK, SlotsArePartitioned
  <2>2. ASSUME NEW u \in new PROVE slotOwner'[row[u]] = u
    <3>1. \A v \in new : row[v] = row[u] => v = u
      BY <1>2
    <3>2. (CHOOSE v \in new : row[v] = row[u]) = u
      BY <3>1
    <3>3. QED  BY <1>2, <2>1, <3>2
  <2>3. \A s \in Slots : (\A u \in new : row[u] # s) => slotOwner'[s] = slotOwner[s]
    BY <1>2
  <2>4. QED  BY <2>1, <2>2, <2>3
<1>14. TypeOK'
  <2>1. ongoing' \in Batches
    BY <1>1, <1>7, <1>8 DEF Batches, Phases
  <2>2. policy' \in Policies
    BY <1>1, RecordKeepsPolicy DEF IInv, Phases
  <2>3. pages' \in [Uids -> Nat]
    BY <1>1, <1>12 DEF IInv, TypeOK
  <2>4. /\ cachedLen' \in [Uids -> Nat] /\ deviceLen' \in [Uids -> Nat]
        /\ hostLen' \in [Uids -> Nat] /\ granted' \in [Uids -> Nat]
    <3>1. \A u \in Uids : len(cachedLen, u) \in Nat /\ len(hostLen, u) \in Nat
      BY <1>23, <1>24
    <3>2. \A u \in taken : length[u] + 1 \in Nat
      BY <1>24
    <3>3. \A u \in taken : granted[u] + chunk[u] \in Nat
      BY <1>5 DEF IInv, TypeOK
    <3>4. QED  BY <1>1, <3>1, <3>2, <3>3 DEF IInv, TypeOK
  <2>5. /\ running' \subseteq Uids /\ pending' \subseteq Uids /\ chunked' \subseteq Uids
        /\ live' \subseteq Uids
    BY <1>1, <1>4, <1>5, <1>11 DEF IInv, TypeOK
  <2>6. place' \in [Uids -> Nat]
    <3>1. \A S \in SUBSET Uids : Cardinality(S) \in Nat
      BY PlacesAreNaturals
    <3>2. \A v \in Uids : {w \in pending \ ends : w = v \/
                             (\/ w \notin taken /\ v \in taken
                              \/ (w \in taken <=> v \in taken) /\ place[w] < place[v])}
                           \in SUBSET Uids
      BY DEF IInv, TypeOK
    <3>3. QED  BY <1>1, <3>1, <3>2 DEF Ranked
  <2>7. /\ slotOf' \in [Uids -> Slots \cup {NoSlot}] /\ freeSlots' \subseteq Slots
    BY <1>2, <1>13 DEF IInv, TypeOK
  <2>8. slotOwner' \in [Slots -> Uids \cup {NoOwner}]
    <3>1. ASSUME NEW s \in Slots PROVE slotOwner'[s] \in Uids \cup {NoOwner}
      <4>1. CASE \E u \in new : row[u] = s
        BY <1>5, <1>13, <4>1
      <4>2. CASE \A u \in new : row[u] # s
        BY <1>13, <4>2 DEF IInv, TypeOK
      <4>3. QED  BY <4>1, <4>2
    <3>2. slotOwner' = [s \in Slots |-> slotOwner'[s]]
      BY <1>2
    <3>3. QED  BY <3>1, <3>2
  <2>9. QED
    BY <1>1, <1>9, <1>11, <2>1, <2>2, <2>3, <2>4, <2>5, <2>6, <2>7, <2>8 DEF IInv, TypeOK
<1>15. LoopShape'
  BY <1>1 DEF IInv, LoopShape, Receiving
<1>16. RetirementIsOwned'
  <2>1. \A u \in owners : u \notin taken
    BY <1>5 DEF IInv, TypeOK, RetirementIsOwned
  <2>2. QED  BY <1>1, <1>4, <1>11, <2>1 DEF IInv, TypeOK, RetirementIsOwned
<1>17. SlotsArePartitioned'
  <2>1. \A s \in Slots : s \in freeSlots' <=> slotOwner'[s] = NoOwner
    <3> SUFFICES ASSUME NEW s \in Slots PROVE s \in freeSlots' <=> slotOwner'[s] = NoOwner
      OBVIOUS
    <3>1. CASE \E u \in new : row[u] = s
      BY <1>2, <1>5, <1>13, <3>1, SchedulerAssumption
    <3>2. CASE \A u \in new : row[u] # s
      BY <1>2, <1>13, <3>2 DEF IInv, SlotsArePartitioned
    <3>3. QED  BY <3>1, <3>2
  <2>2. ASSUME NEW u \in Uids, NEW s \in Slots
        PROVE  slotOf'[u] = s <=> slotOwner'[s] = u
    <3>1. slotOf[u] = s <=> slotOwner[s] = u
      BY DEF IInv, SlotsArePartitioned
    <3>2. slotOf'[u] = IF u \in new THEN row[u] ELSE slotOf[u]
      BY <1>2
    <3>3. u # NoOwner /\ s # NoSlot
      BY SchedulerAssumption
    <3>4. CASE \E v \in new : row[v] = s
      BY <1>6, <1>13, <3>1, <3>2, <3>3, <3>4
    <3>5. CASE \A v \in new : row[v] # s
      BY <1>6, <1>13, <3>1, <3>2, <3>3, <3>5
    <3>6. QED  BY <3>4, <3>5
  <2>3. \A u \in Uids : slotOf'[u] = NoSlot => pages'[u] = 0
    <3>1. \A u \in Uids : slotOf'[u] = NoSlot => slotOf[u] = NoSlot /\ u \notin new
      BY <1>2, <1>13, SchedulerAssumption
    <3>2. \A u \in taken : u \notin new => u \in live
      BY DEF IInv, Residency
    <3>3. \A u \in Uids : slotOf'[u] = NoSlot => u \notin taken
      BY <3>1, <3>2 DEF IInv, Residency
    <3>4. QED  BY <1>1, <3>1, <3>3 DEF IInv, SlotsArePartitioned
  <2>4. \A u \in Uids : slotOf'[u] # NoSlot =>
          state'[u] \in {"ACTIVE", "TERMINAL_PENDING_RETIRE"}
    BY <1>2, <1>5, <1>11 DEF IInv, SlotsArePartitioned
  <2>5. QED  BY <2>1, <2>2, <2>3, <2>4 DEF SlotsArePartitioned
<1>18. Residency'
  <2>1. \A u \in Uids : u \in live' <=> slotOf'[u] # NoSlot
    <3>1. \A u \in taken : u \notin new => u \in live
      BY DEF IInv, Residency
    <3>2. \A u \in Uids : slotOf'[u] = IF u \in new THEN row[u] ELSE slotOf[u]
      BY <1>2
    <3>3. \A u \in new : row[u] # NoSlot
      BY <1>13, SchedulerAssumption
    <3>4. QED  BY <1>11, <3>1, <3>2, <3>3 DEF IInv, Residency
  <2>2. \A r \in InFlight' : r.uid \in live'
    BY <1>7, <1>9, <1>10, <1>11 DEF IInv, Residency
  <2>3. running' \subseteq live' /\ chunked' \subseteq live'
    BY <1>1, <1>4, <1>11 DEF IInv, Residency
  <2>4. /\ chunked' \subseteq pending' /\ pending' \cap running' = {}
        /\ pending' \cap live' \subseteq chunked'
    BY <1>1, <1>3, <1>4, <1>11 DEF IInv, Residency
  <2>5. \A u \in pending' \cup running' : state'[u] = "ACTIVE"
    BY <1>1, <1>4, <1>5, <1>11 DEF IInv, Residency
  <2>6. \A u \in Uids : state'[u] = "ACTIVE" => u \in pending' \cup live'
    BY <1>1, <1>4, <1>11 DEF IInv, Residency
  <2>7. \A u \in Uids : u \notin live' => cachedLen'[u] = 0 \/ state'[u] = "RETIRED"
    BY <1>1, <1>11 DEF IInv, Residency
  <2>8. QED  BY <2>1, <2>2, <2>3, <2>4, <2>5, <2>6, <2>7 DEF Residency
<1>19. Coverage'
  <2>1. \A u \in live' : pages'[u] = DivCeil(cachedLen'[u], PageSize)
    BY <1>1, <1>5, <1>11, <1>12 DEF IInv, TypeOK, Coverage
  <2>2. \A r \in InFlight' : r.pos <= cachedLen'[r.uid]
    <3>1. \A u \in Uids : cachedLen[u] <= cachedLen'[u] /\ cachedLen[u] \in Nat
                         /\ cachedLen'[u] \in Nat
      BY <1>22, <1>23, <1>24
    <3>2. \A r \in last.rows : r.uid \in Uids /\ r.pos \in Nat /\ r.pos <= cachedLen[r.uid]
      BY <1>10 DEF IInv, TypeOK, Batches, Rows, Coverage
    <3>3. \A r \in rows : r.pos <= cachedLen'[r.uid]
      BY <1>7, <1>22, <1>24
    <3>4. QED  BY <1>9, <3>1, <3>2, <3>3
  <2>3. \A u \in Uids : MaxDeviceLen(u)' = MaxDeviceLen(u)
    BY <1>1 DEF MaxDeviceLen
  <2>4. \A u \in Uids : cachedLen'[u] <= MaxDeviceLen(u) /\ MaxDeviceLen(u) <= MaxSeqLen
    <3>1. \A u \in taken : length[u] <= MaxDeviceLen(u)
      BY <1>5 DEF MaxDeviceLen
    <3>2. QED  BY <1>22, <3>1 DEF IInv, Coverage
  <2>5. \A u \in pending' : cachedLen'[u] < inputLen'[u]
    <3>1. \A u \in pending' : u \in pending /\ u \in Uids /\ u \notin ends
      BY <1>1 DEF IInv, TypeOK
    <3>2. \A u \in taken : u \notin ends => length[u] # inputLen[u]
      BY <1>5
    <3>3. \A u \in pending : cachedLen[u] < inputLen[u]
      BY DEF IInv, Coverage
    <3>4. QED  BY <1>22, <1>23, <1>24, <3>1, <3>2, <3>3
  <2>6. QED  BY <2>1, <2>2, <2>3, <2>4, <2>5 DEF Coverage
<1>20. HostFollowsDevice'
  <2>1. /\ Decoding' = Decoding \cup ends
        /\ \A u \in Decoding : u \in Uids /\ u \notin taken
    <3>1. \A u \in Decoding : u \in Uids /\ u \notin taken
      BY <1>3 DEF Decoding, IInv, TypeOK, Residency
    <3>2. QED  BY <1>1, <1>4, <1>5, <1>11, <3>1 DEF Decoding
  <2>2. \A r \in last.rows : r.uid \in taken => r.chunked
    BY <1>6, <1>10 DEF IInv, Residency, HostFollowsDevice
  <2>3. \A r \in InFlight' : r.uid \in chunked' => r.chunked
    <3>1. \A r \in last.rows : r.uid \in chunked' => r.chunked
      BY <1>1, <1>10, <2>2 DEF IInv, HostFollowsDevice
    <3>2. \A r \in rows : r.uid \in chunked' => r.chunked
      BY <1>1, <1>7
    <3>3. QED  BY <1>9, <3>1, <3>2
  <2>4. \A u \in Uids : /\ LastLag(u)' = LastLag(u) /\ LastLag(u) \in {0, 1}
                        /\ u \in taken => LastLag(u) = 0
                        /\ OngoingLag(u) = 0
                        /\ OngoingLag(u)' = IF u \in ends THEN 1 ELSE 0
    <3> SUFFICES ASSUME NEW u \in Uids
                 PROVE  /\ LastLag(u)' = LastLag(u) /\ LastLag(u) \in {0, 1}
                        /\ u \in taken => LastLag(u) = 0
                        /\ OngoingLag(u) = 0
                        /\ OngoingLag(u)' = IF u \in ends THEN 1 ELSE 0
      OBVIOUS
    <3>1. LastLag(u)' = LastLag(u) /\ LastLag(u) \in {0, 1}
      BY <1>1 DEF LastLag
    <3>2. u \in taken => LastLag(u) = 0
      BY <2>2 DEF LastLag
    <3>3. OngoingLag(u) = 0
      BY <1>1 DEF OngoingLag, IInv, LoopShape
    <3>4. OngoingLag(u)' = IF \E r \in rows : r.uid = u /\ ~r.chunked THEN 1 ELSE 0
      BY <1>8 DEF OngoingLag
    <3>5. (\E r \in rows : r.uid = u /\ ~r.chunked) <=> u \in ends
      BY <1>4, <1>7, ZenonT(40)
    <3>6. QED  BY <3>1, <3>2, <3>3, <3>4, <3>5
  <2>5. \A u \in Uids : MaxDeviceLen(u)' = MaxDeviceLen(u) /\ MaxDeviceLen(u) \in Nat
                       /\ hostLen[u] \in Nat /\ deviceLen[u] \in Nat
    BY <1>22, <1>23 DEF MaxDeviceLen
  <2>6. ASSUME NEW u \in Uids, u \in Decoding'
        PROVE  /\ deviceLen'[u] = hostLen'[u] + LastLag(u)' + OngoingLag(u)'
               /\ deviceLen'[u] = cachedLen'[u] + 1
               /\ \A r \in last'.rows : r.uid = u /\ ~r.chunked => r.pos = hostLen'[u]
               /\ \A r \in ongoing'.rows : r.uid = u /\ ~r.chunked =>
                    r.pos = hostLen'[u] + LastLag(u)'
               /\ u \in running' <=> deviceLen'[u] < MaxDeviceLen(u)'
               /\ deviceLen'[u] = hostLen'[u] => hostLen'[u] < MaxDeviceLen(u)'
    <3>1. last' = last
      BY <1>1
    <3>2. CASE u \in ends
      <4>1. /\ u \in Uids /\ u \in taken /\ length[u] \in Nat /\ length[u] = inputLen[u]
            /\ outputLen[u] \in Nat /\ u \notin running
        BY <1>4, <1>5, <3>2
      <4>2. /\ deviceLen'[u] = length[u] + 1 /\ cachedLen'[u] = length[u]
            /\ hostLen'[u] = length[u]
        BY <1>22, <4>1
      <4>3. \A r \in rows : r.uid = u => r.pos = length[u]
        BY <1>7
      <4>4. LastLag(u)' = 0 /\ OngoingLag(u)' = 1
        BY <2>4, <3>2, <4>1
      <4>5. u \in running' <=> deviceLen'[u] < MaxDeviceLen(u)'
        <5>1. u \in running' <=> outputLen[u] > 1
          BY <1>1, <3>2, <4>1
        <5>2. MaxDeviceLen(u)' = inputLen[u] + outputLen[u]
          BY <1>22 DEF MaxDeviceLen
        <5>3. QED  BY <4>1, <4>2, <5>1, <5>2
      <4>6. \A r \in last.rows : r.uid = u => r.chunked
        BY <2>2, <4>1
      <4>7. QED  BY <1>8, <3>1, <4>1, <4>2, <4>3, <4>4, <4>5, <4>6
    <3>3. CASE u \notin ends
      <4>1. u \in Decoding /\ u \in Uids /\ u \notin taken
        BY <2>1, <2>6, <3>3
      <4>2. /\ deviceLen[u] = hostLen[u] + LastLag(u) /\ deviceLen[u] = cachedLen[u] + 1
            /\ \A r \in last.rows : r.uid = u /\ ~r.chunked => r.pos = hostLen[u]
            /\ u \in running <=> deviceLen[u] < MaxDeviceLen(u)
            /\ deviceLen[u] = hostLen[u] => hostLen[u] < MaxDeviceLen(u)
        BY <2>4, <2>5, <4>1 DEF IInv, HostFollowsDevice
      <4>3. /\ deviceLen'[u] = deviceLen[u] /\ cachedLen'[u] = cachedLen[u]
            /\ hostLen'[u] = hostLen[u] /\ (u \in running' <=> u \in running)
        BY <1>1, <3>3, <4>1
      <4>4. \A r \in rows : r.uid # u
        BY <1>7, <4>1
      <4>5. LastLag(u)' = LastLag(u) /\ OngoingLag(u)' = 0 /\ LastLag(u) \in {0, 1}
        BY <2>4, <3>3, <4>1
      <4>6. /\ deviceLen'[u] = hostLen'[u] + LastLag(u)' + OngoingLag(u)'
            /\ deviceLen'[u] = cachedLen'[u] + 1
        BY <1>23, <4>1, <4>2, <4>3, <4>5
      <4>7. /\ u \in running' <=> deviceLen'[u] < MaxDeviceLen(u)'
            /\ deviceLen'[u] = hostLen'[u] => hostLen'[u] < MaxDeviceLen(u)'
        BY <2>5, <4>2, <4>3
      <4>8. QED
        BY <1>8, <3>1, <4>2, <4>3, <4>4, <4>6, <4>7
    <3>4. QED  BY <3>2, <3>3
  <2>7. Decoding' \subseteq Uids
    BY <1>4, <1>5, <2>1
  <2>8. QED  BY <2>3, <2>6, <2>7 DEF HostFollowsDevice
<1>21. QED
  BY <1>9, <1>14, <1>15, <1>16, <1>17, <1>18, <1>19, <1>20 DEF IInv

(* Processing the results of a forward preserves the invariant: every row     *)
(* completes, the committed ones advance the host, and a request is released  *)
(* exactly if it has ended and none of the rows still in flight is its own.   *)
LEMMA ProcessStep ==
  ASSUME IInv, ProcessLastData
  PROVE  IInv'
<1> DEFINE done      == LastData.rows
           rest      == last'.rows
           committed == {r.uid : r \in CommittedRows}
<1>1. PICK eos \in SUBSET committed :
        LET terminal == {u \in committed : u \in eos \/ hostLen[u] + 1 = MaxDeviceLen(u)}
            ended(u) == u \in terminal \/ state[u] = "TERMINAL_PENDING_RETIRE"
            released == {u \in {r.uid : r \in LastData.rows} :
                           ReadyToRelease(ended(u), RemainingEpochs(u))}
        IN  /\ pc = "process"
            /\ \A u \in committed : CanCommitToken(u)
            /\ hostLen' = [u \in Uids |-> IF u \in committed THEN hostLen[u] + 1
                                          ELSE hostLen[u]]
            /\ sent' = [u \in Uids |-> IF u \in committed THEN sent[u] + 1 ELSE sent[u]]
            /\ finals' = [u \in Uids |-> IF u \in terminal THEN finals[u] + 1 ELSE finals[u]]
            /\ reason' = [u \in Uids |-> IF u \in terminal
                            THEN (IF u \in eos THEN "stop" ELSE "length") ELSE reason[u]]
            /\ outstanding' = [u \in Uids |-> RemainingEpochs(u)]
            /\ Retire(terminal, released)
            /\ last' = IF Overlap THEN ongoing ELSE NoBatch
            /\ ongoing' = NoBatch
            /\ blocking' = Blocking(last', running')
            /\ pc' = "receive"
            /\ UNCHANGED <<policy, nextEpoch, pending, place, chunked, granted,
                           inputLen, outputLen, cachedLen, deviceLen, aborted>>
  BY Zenon DEF ProcessLastData
<1> DEFINE terminal == {u \in committed : u \in eos \/ hostLen[u] + 1 = MaxDeviceLen(u)}
           ended(u) == u \in terminal \/ state[u] = "TERMINAL_PENDING_RETIRE"
           released == {u \in {r.uid : r \in done} :
                          ReadyToRelease(ended(u), RemainingEpochs(u))}
<1>2. /\ pc = "process" /\ pc' = "receive"
      /\ \A u \in committed : CanCommitToken(u)
      /\ hostLen' = [u \in Uids |-> IF u \in committed THEN hostLen[u] + 1 ELSE hostLen[u]]
      /\ sent' = [u \in Uids |-> IF u \in committed THEN sent[u] + 1 ELSE sent[u]]
      /\ finals' = [u \in Uids |-> IF u \in terminal THEN finals[u] + 1 ELSE finals[u]]
      /\ reason' = [u \in Uids |-> IF u \in terminal
                      THEN (IF u \in eos THEN "stop" ELSE "length") ELSE reason[u]]
  BY <1>1
<1>3. /\ last' = IF Overlap THEN ongoing ELSE NoBatch
      /\ ongoing' = NoBatch
      /\ blocking' = Blocking(last', running')
      /\ UNCHANGED <<policy, nextEpoch, pending, place, chunked, granted,
                     inputLen, outputLen, cachedLen, deviceLen, aborted>>
  BY <1>1
<1>4. /\ outstanding' = [u \in Uids |-> RemainingEpochs(u)]
      /\ Retire(terminal, released)
  BY <1>1
<1>5. /\ InFlight = done \cup rest /\ InFlight' = rest /\ ongoing'.rows = {}
      /\ \A q \in done, r \in rest : q.uid = r.uid => q.epoch # r.epoch
      /\ \A q, r \in rest : q.uid = r.uid => q = r
      /\ InFlight \subseteq Rows
      /\ last' \in Batches
  <2>1. InFlight \subseteq Rows
    BY DEF IInv, TypeOK, Batches, InFlight
  <2>2. NoBatch \in Batches /\ NoBatch.rows = {}
    BY DEF NoBatch, Batches
  <2>3. CASE Overlap
    <3>1. done = last.rows /\ last' = ongoing /\ rest = ongoing.rows
      BY <1>3, <2>3 DEF LastData
    <3>2. QED  BY <1>3, <2>1, <2>2, <3>1 DEF IInv, TypeOK, RowsAreDistinct, InFlight
  <2>4. CASE ~Overlap
    <3>1. done = ongoing.rows /\ last.rows = {} /\ last' = NoBatch /\ rest = {}
      BY <1>3, <2>2, <2>4 DEF LastData, IInv, LoopShape
    <3>2. QED  BY <1>3, <2>1, <2>2, <3>1 DEF InFlight
  <2>5. QED  BY <2>3, <2>4
<1>6. \A r \in InFlight : r.uid \in live /\ r.uid \in Uids /\ r.epoch \in Nat
  BY <1>5 DEF IInv, Residency, Rows
<1>7. /\ \A u \in committed : /\ \E r \in done : r.uid = u /\ ~r.chunked
                             /\ state[u] = "ACTIVE" /\ u \in Uids /\ u \in live
      /\ \A r \in done : state[r.uid] = "ACTIVE" /\ ~r.chunked => r.uid \in committed
  BY <1>5, <1>6 DEF CommittedRows
<1>8. \A u \in Uids : /\ outstanding'[u] = {r.epoch : r \in {q \in rest : q.uid = u}}
                      /\ outstanding'[u] = RemainingEpochs(u)
  <2> SUFFICES ASSUME NEW u \in Uids
               PROVE  /\ outstanding'[u] = {r.epoch : r \in {q \in rest : q.uid = u}}
                      /\ outstanding'[u] = RemainingEpochs(u)
    OBVIOUS
  <2>1. outstanding[u] = {r.epoch : r \in {q \in InFlight : q.uid = u}}
    BY DEF IInv, RowsAreDistinct
  <2>2. outstanding'[u] = RemainingEpochs(u)
    BY <1>4
  <2>3. RemainingEpochs(u) = outstanding[u] \ {r.epoch : r \in {q \in done : q.uid = u}}
    BY DEF RemainingEpochs
  <2> HIDE DEF done, rest
  <2>4. QED  BY <1>5, <2>1, <2>2, <2>3
<1> HIDE DEF done, rest, committed
<1>9. /\ terminal \subseteq committed
      /\ \A u \in terminal : u \in Uids /\ state[u] = "ACTIVE" /\ u \in live
                             /\ \E r \in done : r.uid = u /\ ~r.chunked
  BY <1>7
<1>10. /\ released \subseteq live /\ released \subseteq Uids
       /\ \A u \in released : ended(u) /\ outstanding'[u] = {}
       /\ \A u \in Uids : ended(u) /\ outstanding'[u] = {} /\ (\E r \in done : r.uid = u)
            => u \in released
  <2>1. \A u \in released : u \in Uids /\ u \in live /\ ended(u) /\ RemainingEpochs(u) = {}
    BY <1>5, <1>6 DEF ReadyToRelease
  <2>2. \A u \in Uids : ended(u) /\ RemainingEpochs(u) = {} /\ (\E r \in done : r.uid = u)
          => u \in released
    BY DEF ReadyToRelease
  <2> HIDE DEF ended, released
  <2>3. QED  BY <1>8, <2>1, <2>2
<1>11. /\ \A u \in terminal : u \notin chunked /\ u \notin pending
       /\ \A u \in released : u \in terminal \/ u \in owners
       /\ \A u \in released : u \notin chunked /\ u \notin pending
       /\ \A u \in released : u \notin terminal => u \notin running
  <2>1. \A u \in terminal : u \notin chunked /\ u \notin pending
    BY <1>5, <1>9 DEF IInv, Residency, HostFollowsDevice
  <2>2. \A u \in released : u \in terminal \/ u \in owners
    BY <1>10 DEF IInv, RetirementIsOwned
  <2>3. \A u \in owners : u \notin pending /\ u \notin running /\ u \notin chunked
    BY DEF IInv, TypeOK, RetirementIsOwned, Residency
  <2>4. QED  BY <2>1, <2>2, <2>3
<1>12. /\ state' = [u \in Uids |-> IF u \in released THEN "RETIRED"
                                   ELSE IF u \in terminal THEN "TERMINAL_PENDING_RETIRE"
                                   ELSE state[u]]
       /\ owners' = (owners \cup terminal) \ released
       /\ live' = live \ released /\ running' = running \ terminal
       /\ \A u \in Uids : u \notin released => pages'[u] = pages[u]
  BY <1>4 DEF Retire, RemoveReq
<1>13. /\ state' \in [Uids -> States] /\ owners' \subseteq Uids /\ live' \subseteq Uids
       /\ running' \subseteq Uids /\ freeSlots' \subseteq Slots
       /\ slotOwner' \in [Slots -> Uids \cup {NoOwner}]
       /\ slotOf' \in [Uids -> Slots \cup {NoSlot}] /\ pages' \in [Uids -> Nat]
       /\ SlotsArePartitioned'
       /\ \A u \in Uids : u \in live' <=> slotOf'[u] # NoSlot
  <2>1. terminal \in SUBSET Uids /\ released \in SUBSET live
    BY <1>9, <1>10
  <2> HIDE DEF terminal, released
  <2>2. QED  BY ONLY IInv, <1>4, <2>1, RetireFacts
<1>14. \A r \in rest : r.uid \notin released
  <2>1. \A r \in rest : r.uid \in Uids /\ r.epoch \in outstanding'[r.uid]
    BY <1>5, <1>6, <1>8
  <2>2. \A u \in released : outstanding'[u] = {}
    BY <1>10
  <2> HIDE DEF released, ended
  <2>3. QED  BY <2>1, <2>2
<1>15. /\ \A u \in Uids : state'[u] = "ACTIVE" <=>
             state[u] = "ACTIVE" /\ u \notin terminal
       /\ \A u \in owners : state[u] = "TERMINAL_PENDING_RETIRE"
  <2>1. \A u \in owners : u \in Uids /\ state[u] = "TERMINAL_PENDING_RETIRE"
    BY DEF IInv, TypeOK, RetirementIsOwned
  <2> HIDE DEF terminal, released
  <2>2. QED  BY <1>11, <1>12, <2>1
<1> HIDE DEF released, ended
<1>16. TypeOK'
  <2>1. /\ hostLen' \in [Uids -> Nat] /\ sent' \in [Uids -> Nat] /\ finals' \in [Uids -> Nat]
    BY <1>2 DEF IInv, TypeOK
  <2>2. reason' \in [Uids -> Reasons]
    BY <1>2 DEF IInv, TypeOK, Reasons
  <2>3. outstanding' \in [Uids -> SUBSET Nat]
    <3>1. \A u \in Uids : outstanding'[u] \subseteq Nat
      BY <1>5, <1>6, <1>8
    <3>2. QED  BY <1>4, <3>1
  <2>4. blocking' \in BOOLEAN /\ ongoing' \in Batches
    BY <1>3 DEF Blocking, NoBatch, Batches
  <2>5. QED
    BY <1>2, <1>3, <1>5, <1>13, <2>1, <2>2, <2>3, <2>4 DEF IInv, TypeOK
<1>17. LoopShape'
  <2>1. ~Overlap => rest = {}
    BY <1>3 DEF rest, NoBatch
  <2>2. blocking' => rest = {} /\ pending' = {} /\ running' = {}
    <3>1. blocking' => last' = NoBatch /\ pending = {} /\ running' = {}
      BY <1>3, Zenon DEF Blocking
    <3>2. QED  BY <1>3, <3>1 DEF rest, NoBatch
  <2>3. QED  BY <1>5, <2>1, <2>2 DEF LoopShape, rest
<1>18. RowsAreDistinct'
  <2>1. \A u \in Uids : outstanding'[u] = {r.epoch : r \in {q \in InFlight' : q.uid = u}}
    BY <1>5, <1>8
  <2>2. \A r \in InFlight' : r.epoch < nextEpoch'[r.uid]
    BY <1>3, <1>5 DEF IInv, RowsAreDistinct
  <2>3. QED  BY <1>5, <2>1, <2>2 DEF RowsAreDistinct, rest
<1>19. RetirementIsOwned'
  <2>1. \A u \in Uids : u \in owners' <=> state'[u] = "TERMINAL_PENDING_RETIRE"
    BY <1>12 DEF IInv, RetirementIsOwned
  <2>2. ASSUME NEW u \in Uids, u \in owners'
        PROVE  outstanding'[u] # {} /\ u \in live' /\ u \notin pending' \cup running'
    <3>1. u \in owners \cup terminal /\ u \notin released
      BY <1>12, <2>2
    <3>2. u \in live /\ u \notin pending /\ u \notin running'
      BY <1>9, <1>11, <1>12, <3>1 DEF IInv, RetirementIsOwned
    <3>3. ended(u)
      BY <1>15, <3>1 DEF ended
    <3>4. CASE \E r \in done : r.uid = u
      BY <1>3, <1>10, <1>12, <3>1, <3>2, <3>3, <3>4
    <3>5. CASE \A r \in done : r.uid # u
      <4>1. u \in owners /\ outstanding[u] # {}
        BY <1>9, <3>1, <3>5 DEF IInv, RetirementIsOwned
      <4>2. \E r \in InFlight : r.uid = u
        BY <4>1 DEF IInv, RowsAreDistinct
      <4>3. \E r \in rest : r.uid = u
        BY <1>5, <3>5, <4>2
      <4>4. outstanding'[u] # {}
        BY <1>8, <4>3
      <4>5. QED  BY <1>3, <1>12, <3>1, <3>2, <4>4
    <3>6. QED  BY <3>4, <3>5
  <2>3. QED  BY <2>1, <2>2 DEF RetirementIsOwned
<1>20. Residency'
  <2>1. \A r \in InFlight' : r.uid \in live'
    BY <1>5, <1>6, <1>12, <1>14
  <2>2. running' \subseteq live' /\ chunked' \subseteq live'
    BY <1>3, <1>11, <1>12 DEF IInv, Residency
  <2>3. /\ chunked' \subseteq pending' /\ pending' \cap running' = {}
        /\ pending' \cap live' \subseteq chunked'
    BY <1>3, <1>12 DEF IInv, Residency
  <2>4. \A u \in pending' \cup running' : state'[u] = "ACTIVE"
    BY <1>3, <1>11, <1>12, <1>15 DEF IInv, TypeOK, Residency
  <2>5. \A u \in Uids : state'[u] = "ACTIVE" => u \in pending' \cup live'
    <3>1. \A u \in Uids : state'[u] = "ACTIVE" => u \notin released
      BY <1>12
    <3>2. QED  BY <1>3, <1>12, <1>15, <3>1 DEF IInv, Residency
  <2>6. \A u \in Uids : u \notin live' => cachedLen'[u] = 0 \/ state'[u] = "RETIRED"
    <3>1. \A u \in Uids : state[u] = "RETIRED" /\ u \notin released => state'[u] = "RETIRED"
      BY <1>9, <1>12
    <3>2. QED  BY <1>3, <1>12, <3>1 DEF IInv, Residency
  <2>7. QED  BY <1>13, <2>1, <2>2, <2>3, <2>4, <2>5, <2>6 DEF Residency
<1>21. Coverage'
  <2>1. \A u \in Uids : MaxDeviceLen(u)' = MaxDeviceLen(u)
    BY <1>3 DEF MaxDeviceLen
  <2>2. \A u \in live' : pages'[u] = DivCeil(cachedLen'[u], PageSize)
    BY <1>3, <1>12 DEF IInv, TypeOK, Coverage
  <2>3. QED  BY <1>3, <1>5, <2>1, <2>2 DEF IInv, Coverage
<1>22. HostFollowsDevice'
  <2> DEFINE DoneLag(u) == IF \E r \in done : r.uid = u /\ ~r.chunked THEN 1 ELSE 0
             RestLag(u) == IF \E r \in rest : r.uid = u /\ ~r.chunked THEN 1 ELSE 0
  <2>1. \A r \in InFlight' : r.uid \in chunked' => r.chunked
    BY <1>3, <1>5 DEF IInv, HostFollowsDevice
  <2>2. \A u \in Uids : u \in Decoding' <=> u \in Decoding /\ u \notin terminal
    <3>1. \A u \in released : state'[u] # "ACTIVE"
      BY <1>10, <1>12
    <3>2. QED  BY <1>3, <1>12, <1>15, <3>1 DEF Decoding
  <2>3. \A u \in Decoding : u \in Uids /\ state[u] = "ACTIVE"
    BY DEF Decoding, IInv, TypeOK
  <2>4. ASSUME NEW u \in Decoding
        PROVE  /\ deviceLen[u] = hostLen[u] + DoneLag(u) + RestLag(u)
               /\ \A r \in rest : r.uid = u /\ ~r.chunked => r.pos = hostLen[u] + DoneLag(u)
    <3>1. hostLen[u] \in Nat
      BY <2>3 DEF IInv, TypeOK
    <3>2. /\ deviceLen[u] = hostLen[u] + LastLag(u) + OngoingLag(u)
          /\ \A r \in ongoing.rows : r.uid = u /\ ~r.chunked => r.pos = hostLen[u] + LastLag(u)
      BY DEF IInv, HostFollowsDevice
    <3>3. CASE Overlap
      <4>1. done = last.rows /\ rest = ongoing.rows
        BY <1>3, <3>3 DEF done, rest, LastData
      <4>2. DoneLag(u) = LastLag(u) /\ RestLag(u) = OngoingLag(u)
        BY <4>1 DEF LastLag, OngoingLag
      <4> HIDE DEF DoneLag, RestLag
      <4>3. QED  BY <3>2, <4>1, <4>2
    <3>4. CASE ~Overlap
      <4>1. done = ongoing.rows /\ rest = {} /\ last.rows = {}
        BY <1>3, <3>4 DEF done, rest, LastData, NoBatch, IInv, LoopShape
      <4>2. DoneLag(u) = OngoingLag(u) /\ RestLag(u) = 0 /\ LastLag(u) = 0
        BY <4>1 DEF LastLag, OngoingLag
      <4>3. DoneLag(u) \in {0, 1}
        OBVIOUS
      <4> HIDE DEF DoneLag, RestLag
      <4>4. QED  BY <3>1, <3>2, <4>1, <4>2, <4>3
    <3>5. QED  BY <3>3, <3>4
  <2>5. \A u \in Uids : LastLag(u)' = RestLag(u) /\ OngoingLag(u)' = 0
    BY <1>5 DEF LastLag, OngoingLag, rest
  <2>6. \A u \in Uids : DoneLag(u) \in {0, 1} /\ RestLag(u) \in {0, 1}
    OBVIOUS
  <2>7. \A u \in Decoding : /\ hostLen'[u] = hostLen[u] + DoneLag(u)
                            /\ DoneLag(u) = 1 <=> u \in committed
    <3> SUFFICES ASSUME NEW u \in Decoding
                 PROVE  /\ hostLen'[u] = hostLen[u] + DoneLag(u)
                        /\ DoneLag(u) = 1 <=> u \in committed
      OBVIOUS
    <3>1. DoneLag(u) = 1 <=> u \in committed
      BY <1>7, <2>3
    <3>2. u \in Uids /\ hostLen[u] \in Nat
      BY <2>3 DEF IInv, TypeOK
    <3>3. DoneLag(u) \in {0, 1}
      OBVIOUS
    <3> HIDE DEF DoneLag
    <3>4. QED  BY <1>2, <3>1, <3>2, <3>3
  <2> HIDE DEF DoneLag, RestLag
  <2>8. ASSUME NEW u \in Uids, u \in Decoding'
        PROVE  /\ deviceLen'[u] = hostLen'[u] + LastLag(u)' + OngoingLag(u)'
               /\ deviceLen'[u] = cachedLen'[u] + 1
               /\ \A r \in last'.rows : r.uid = u /\ ~r.chunked => r.pos = hostLen'[u]
               /\ \A r \in ongoing'.rows : r.uid = u /\ ~r.chunked =>
                    r.pos = hostLen'[u] + LastLag(u)'
               /\ u \in running' <=> deviceLen'[u] < MaxDeviceLen(u)'
               /\ deviceLen'[u] = hostLen'[u] => hostLen'[u] < MaxDeviceLen(u)'
    <3>1. u \in Decoding /\ u \notin terminal
      BY <2>2, <2>8
    <3>2. /\ deviceLen'[u] = deviceLen[u] /\ cachedLen'[u] = cachedLen[u]
          /\ MaxDeviceLen(u)' = MaxDeviceLen(u)
      BY <1>3 DEF MaxDeviceLen
    <3>3. hostLen[u] \in Nat /\ deviceLen[u] \in Nat /\ MaxDeviceLen(u) \in Nat
      BY DEF IInv, TypeOK, MaxDeviceLen
    <3>4. /\ deviceLen[u] = cachedLen[u] + 1
          /\ u \in running <=> deviceLen[u] < MaxDeviceLen(u)
          /\ deviceLen[u] = hostLen[u] => hostLen[u] < MaxDeviceLen(u)
      BY <3>1 DEF IInv, HostFollowsDevice
    <3>5. u \in running' <=> u \in running
      BY <1>12, <3>1
    <3>6. /\ hostLen'[u] = hostLen[u] + DoneLag(u)
          /\ DoneLag(u) \in {0, 1} /\ RestLag(u) \in {0, 1}
          /\ deviceLen[u] = hostLen[u] + DoneLag(u) + RestLag(u)
      BY <2>4, <2>6, <2>7, <3>1
    <3>7. deviceLen'[u] = hostLen'[u] + LastLag(u)' + OngoingLag(u)'
      BY <2>5, <3>2, <3>3, <3>6
    <3>8. \A r \in last'.rows : r.uid = u /\ ~r.chunked => r.pos = hostLen'[u]
      BY <2>4, <3>1, <3>6 DEF rest
    <3>9. deviceLen'[u] = hostLen'[u] => hostLen'[u] < MaxDeviceLen(u)'
      <4>1. CASE u \in committed
        <5>1. hostLen[u] + 1 # MaxDeviceLen(u)
          BY <3>1, <4>1
        <5>2. hostLen[u] < MaxDeviceLen(u)
          BY <1>2, <4>1 DEF CanCommitToken
        <5>3. hostLen'[u] = hostLen[u] + 1
          BY <1>2, <4>1
        <5>4. QED  BY <3>2, <3>3, <5>1, <5>2, <5>3
      <4>2. CASE u \notin committed
        <5>1. hostLen'[u] = hostLen[u]
          BY <1>2, <4>2
        <5>2. QED  BY <3>2, <3>4, <5>1
      <4>3. QED  BY <4>1, <4>2
    <3>10. QED
      BY <1>5, <3>2, <3>4, <3>5, <3>7, <3>8, <3>9
  <2>9. Decoding' \subseteq Uids
    BY <1>13 DEF Decoding
  <2>10. QED  BY <2>1, <2>8, <2>9 DEF HostFollowsDevice
<1>23. QED
  BY <1>13, <1>16, <1>17, <1>18, <1>19, <1>20, <1>21, <1>22 DEF IInv

-------------------------------------------------------------------------------
(* Every step preserves the invariant.                                        *)
LEMMA NextInv == IInv /\ [Next]_vars => IInv'
<1> SUFFICES ASSUME IInv, [Next]_vars PROVE IInv'
  OBVIOUS
<1>1. ASSUME NEW u \in Uids, NEW input \in InputLens, NEW output \in OutputLens,
             RejectUserMsg(u, input, output)
      PROVE  IInv'
  BY <1>1, RejectStep
<1>2. ASSUME NEW u \in Uids, NEW input \in InputLens, NEW output \in OutputLens,
             AcceptUserMsg(u, input, output)
      PROVE  IInv'
  BY <1>2, AcceptStep
<1>3. ASSUME NEW u \in Uids, AbortBackendMsg(u) PROVE IInv'
  BY <1>3, AbortStep
<1>4. CASE EndReceive \/ ScheduleNothing \/ AllocationFails \/ CommitFails
  BY <1>4, QuietStep
<1>5. CASE SchedulePrefill
  BY <1>5, PrefillStep
<1>6. CASE ScheduleDecode
  BY <1>6, DecodeStep
<1>7. CASE ProcessLastData
  BY <1>7, ProcessStep
<1>8. CASE UNCHANGED vars
  <2>1. /\ UNCHANGED <<last, lifeVars, queueVars, reqVars, resVars, aborted, sent, finals>>
        /\ UNCHANGED <<pc, blocking, last, ongoing, policy>>
    BY <1>8 DEF vars, loopVars
  <2>2. LoopShape'
    BY <2>1 DEF IInv, LoopShape, Receiving, queueVars
  <2>3. QED  BY <2>1, <2>2, LoopStep DEF IInv, TypeOK
<1>9. QED
  BY <1>1, <1>2, <1>3, <1>4, <1>5, <1>6, <1>7, <1>8 DEF Next, Loop, Quiescent

(* IInv is an invariant of the scheduler.                                     *)
THEOREM Invariance == Spec => []IInv
BY InitInv, NextInv, PTL DEF Spec

(* The state stays within its types (no counter goes negative).               *)
THEOREM TypeCorrect == Spec => []TypeOK
<1>1. IInv => TypeOK
  BY DEF IInv
<1>2. QED  BY <1>1, Invariance, PTL

(* Aborts and finishes never take the row, the sequence slot or the pages of  *)
(* a request whose forward is still in flight, and no forward goes beyond the *)
(* model's bound (_maybe_release_terminal_resources).                         *)
THEOREM ResourcesOutliveForwards == Spec => []NoUseAfterRelease
<1>1. IInv => NoUseAfterRelease
  <2> SUFFICES ASSUME IInv, NEW r \in InFlight
               PROVE  /\ slotOf[r.uid] \in Slots \ freeSlots
                      /\ slotOwner[slotOf[r.uid]] = r.uid
                      /\ DivCeil(r.pos, PageSize) <= pages[r.uid]
                      /\ r.pos <= MaxSeqLen
    BY DEF NoUseAfterRelease
  <2>1. r.uid \in Uids /\ r.uid \in live /\ r.pos \in Nat
    BY DEF IInv, TypeOK, Batches, Rows, InFlight, Residency
  <2>2. slotOf[r.uid] \in Slots
    BY <2>1 DEF IInv, TypeOK, Residency
  <2>3. slotOwner[slotOf[r.uid]] = r.uid /\ slotOf[r.uid] \notin freeSlots
    BY <2>1, <2>2, SchedulerAssumption DEF IInv, SlotsArePartitioned
  <2>4. /\ cachedLen[r.uid] \in Nat /\ MaxDeviceLen(r.uid) \in Nat /\ MaxSeqLen \in Nat
        /\ r.pos <= cachedLen[r.uid] /\ cachedLen[r.uid] <= MaxDeviceLen(r.uid)
        /\ MaxDeviceLen(r.uid) <= MaxSeqLen
        /\ pages[r.uid] = DivCeil(cachedLen[r.uid], PageSize)
    BY <2>1, SchedulerAssumption DEF IInv, TypeOK, Coverage, MaxDeviceLen
  <2>5. DivCeil(r.pos, PageSize) <= pages[r.uid]
    BY <2>1, <2>4, DivCeilFacts
  <2>6. QED  BY <2>1, <2>2, <2>3, <2>4, <2>5
<1>2. QED  BY <1>1, Invariance, PTL

(* The ledger of a lifecycle is exact at every point of the loop, so the last *)
(* completion is the one that releases (RequestLifecycle.issue, complete).    *)
THEOREM LedgerIsExact == Spec => []LedgerMatchesFlight
<1>1. IInv => LedgerMatchesFlight
  BY DEF IInv, RowsAreDistinct, LedgerMatchesFlight, InFlight
<1>2. QED  BY <1>1, Invariance, PTL

(* A terminal request has exactly one way out: the owner that waits for its   *)
(* last forward (_retirement_owners).                                         *)
THEOREM RetirementHasOwner == Spec => []RetirementIsOwned
<1>1. IInv => RetirementIsOwned
  BY DEF IInv
<1>2. QED  BY <1>1, Invariance, PTL

(* No table row or sequence slot is ever shared, lost or freed twice, however *)
(* prefills, finishes and aborts follow each other (TableManager,             *)
(* acquire_sequence_slot, release_sequence_slot).                             *)
THEOREM SlotsPartition == Spec => []SlotsArePartitioned
<1>1. IInv => SlotsArePartitioned
  BY DEF IInv
<1>2. QED  BY <1>1, Invariance, PTL

(* No admitted request falls out of every queue before its last token is on   *)
(* its way (filter_reqs removes it from running_reqs before that).            *)
LEMMA ActiveIsKept == IInv => NoRequestIsLost
<1> SUFFICES ASSUME IInv, NEW u \in Uids, state[u] = "ACTIVE",
                    u \notin pending, u \notin running
             PROVE  \E r \in InFlight : r.uid = u /\ ~r.chunked /\ r.pos + 1 >= MaxDeviceLen(u)
  BY DEF NoRequestIsLost
<1>1. u \in Decoding
  BY DEF Decoding, IInv, Residency
<1>2. hostLen[u] \in Nat /\ MaxDeviceLen(u) \in Nat
  BY DEF IInv, TypeOK, MaxDeviceLen
<1>3. /\ deviceLen[u] = hostLen[u] + LastLag(u) + OngoingLag(u)
      /\ \A r \in last.rows : r.uid = u /\ ~r.chunked => r.pos = hostLen[u]
      /\ \A r \in ongoing.rows : r.uid = u /\ ~r.chunked => r.pos = hostLen[u] + LastLag(u)
      /\ ~(deviceLen[u] < MaxDeviceLen(u))
      /\ deviceLen[u] = hostLen[u] => hostLen[u] < MaxDeviceLen(u)
  BY <1>1 DEF IInv, HostFollowsDevice
<1>4. LastLag(u) \in {0, 1} /\ OngoingLag(u) \in {0, 1}
  BY DEF LastLag, OngoingLag
<1>5. CASE OngoingLag(u) = 1
  <2>1. PICK r \in ongoing.rows : r.uid = u /\ ~r.chunked
    BY <1>5 DEF OngoingLag
  <2>2. r.pos + 1 >= MaxDeviceLen(u)
    BY <1>2, <1>3, <1>4, <1>5, <2>1
  <2>3. QED  BY <2>1, <2>2 DEF InFlight
<1>6. CASE OngoingLag(u) = 0
  <2>1. LastLag(u) = 1
    BY <1>2, <1>3, <1>4, <1>6
  <2>2. PICK r \in last.rows : r.uid = u /\ ~r.chunked
    BY <2>1 DEF LastLag
  <2>3. r.pos + 1 >= MaxDeviceLen(u)
    BY <1>2, <1>3, <1>6, <2>1, <2>2
  <2>4. QED  BY <2>2, <2>3 DEF InFlight
<1>7. QED  BY <1>4, <1>5, <1>6

(* No admitted request is ever forgotten, from any reachable state.            *)
THEOREM RequestsAreKept == Spec => []NoRequestIsLost
BY ActiveIsKept, Invariance, PTL

(* When the loop blocks in a receive, nothing of any request is left: the     *)
(* integrity check of run_when_idle finds all rows and pages back.            *)
THEOREM IdleLeavesNothing == Spec => []IdleIsClean
<1>1. IInv => IdleIsClean
  <2> SUFFICES ASSUME IInv, Receiving, blocking
               PROVE  /\ live = {} /\ owners = {} /\ chunked = {}
                      /\ freeSlots = Slots
                      /\ \A u \in Uids : outstanding[u] = {} /\ pages[u] = 0
                                         /\ state[u] # "ACTIVE"
    BY DEF IdleIsClean
  <2>1. InFlight = {} /\ pending = {} /\ running = {} /\ chunked = {}
    BY DEF IInv, LoopShape, InFlight, Receiving, Residency
  <2>2. \A u \in Uids : outstanding[u] = {} /\ state[u] # "ACTIVE"
    BY <2>1, ActiveIsKept DEF IInv, RowsAreDistinct, NoRequestIsLost
  <2>3. owners = {}
    BY <2>2 DEF IInv, TypeOK, RetirementIsOwned
  <2>4. \A u \in Uids : slotOf[u] = NoSlot
    BY <2>2, <2>3 DEF IInv, RetirementIsOwned, SlotsArePartitioned
  <2>5. live = {}
    BY <2>4 DEF IInv, TypeOK, Residency
  <2>6. \A s \in Slots : slotOwner[s] = NoOwner
    BY <2>4, SchedulerAssumption DEF IInv, TypeOK, SlotsArePartitioned
  <2>7. freeSlots = Slots
    <3>1. \A s \in Slots : s \in freeSlots
      BY <2>6 DEF IInv, SlotsArePartitioned
    <3>2. freeSlots \subseteq Slots
      BY DEF IInv, TypeOK
    <3>3. QED  BY <3>1, <3>2
  <2>8. \A u \in Uids : pages[u] = 0
    BY <2>4 DEF IInv, SlotsArePartitioned
  <2>9. QED  BY <2>1, <2>2, <2>3, <2>5, <2>7, <2>8
<1>2. QED  BY <1>1, Invariance, PTL

(* The rows of one batch for a request are none or one, so counting them is   *)
(* the lag.                                                                   *)
LEMMA CountOfOne ==
  ASSUME NEW S, \A x, y \in S : x = y
  PROVE  IsFiniteSet(S) /\ Cardinality(S) = IF S = {} THEN 0 ELSE 1
<1>1. CASE S = {}
  BY <1>1, FS_EmptySet
<1>2. CASE S # {}
  <2>1. PICK x \in S : S = {x}
    BY <1>2
  <2>2. QED  BY <2>1, FS_Singleton
<1>3. QED  BY <1>1, <1>2

(* A request's tokens are committed in the order of their positions, and the  *)
(* device is ahead of the host by exactly the rows in flight (complete_one,   *)
(* append_host).                                                              *)
THEOREM TokensKeepOrder == Spec => []TokensInOrder
<1>1. IInv => TokensInOrder
  <2> SUFFICES ASSUME IInv PROVE TokensInOrder
    OBVIOUS
  <2>1. ASSUME pc = "process", NEW r \in CommittedRows PROVE r.pos = hostLen[r.uid]
    <3>1. r \in LastData.rows /\ state[r.uid] = "ACTIVE" /\ ~r.chunked /\ r \in InFlight
      BY DEF CommittedRows, LastData, InFlight
    <3>2. r.uid \in Uids /\ r.uid \in Decoding
      BY <3>1 DEF Decoding, IInv, TypeOK, Residency, HostFollowsDevice
    <3>3. hostLen[r.uid] \in Nat
      BY <3>2 DEF IInv, TypeOK
    <3>4. CASE Overlap
      BY <3>1, <3>2, <3>4 DEF LastData, IInv, HostFollowsDevice
    <3>5. CASE ~Overlap
      <4>1. r \in ongoing.rows /\ LastLag(r.uid) = 0
        BY <3>1, <3>5 DEF LastData, LastLag, IInv, LoopShape
      <4>2. r.pos = hostLen[r.uid] + LastLag(r.uid)
        BY <3>1, <3>2, <4>1 DEF IInv, HostFollowsDevice
      <4>3. QED  BY <3>3, <4>1, <4>2
    <3>6. QED  BY <3>4, <3>5
  <2>2. ASSUME NEW u \in running
        PROVE  deviceLen[u] = hostLen[u] +
                 Cardinality({r \in InFlight : r.uid = u /\ ~r.chunked})
    <3> DEFINE older == {r \in last.rows : r.uid = u /\ ~r.chunked}
               newer == {r \in ongoing.rows : r.uid = u /\ ~r.chunked}
    <3>1. u \in Uids /\ u \in Decoding /\ hostLen[u] \in Nat
      BY DEF Decoding, IInv, TypeOK, Residency
    <3>2. deviceLen[u] = hostLen[u] + LastLag(u) + OngoingLag(u)
      BY <3>1 DEF IInv, HostFollowsDevice
    <3>3. {r \in InFlight : r.uid = u /\ ~r.chunked} = older \cup newer
      BY DEF InFlight
    <3>4. /\ \A x, y \in older : x = y
          /\ \A x, y \in newer : x = y
          /\ older \cap newer = {}
      BY DEF IInv, RowsAreDistinct
    <3>5. /\ LastLag(u) = IF older = {} THEN 0 ELSE 1
          /\ OngoingLag(u) = IF newer = {} THEN 0 ELSE 1
      BY DEF LastLag, OngoingLag
    <3> HIDE DEF older, newer
    <3>6. /\ IsFiniteSet(older) /\ Cardinality(older) = LastLag(u)
          /\ IsFiniteSet(newer) /\ Cardinality(newer) = OngoingLag(u)
      BY <3>4, <3>5, CountOfOne
    <3>7. LastLag(u) \in Nat /\ OngoingLag(u) \in Nat
      BY <3>5
    <3>8. Cardinality(older \cup newer) =
            LastLag(u) + OngoingLag(u) - Cardinality(older \cap newer)
      BY <3>6, FS_Union
    <3>9. Cardinality(older \cap newer) = 0
      BY <3>4, FS_EmptySet
    <3>10. Cardinality(older \cup newer) = LastLag(u) + OngoingLag(u)
      BY <3>7, <3>8, <3>9
    <3>11. deviceLen[u] = hostLen[u] + (LastLag(u) + OngoingLag(u))
      BY <3>1, <3>2, <3>7
    <3>12. QED  BY <3>3, <3>10, <3>11
  <2>3. QED  BY <2>1, <2>2 DEF TokensInOrder
<1>2. QED  BY <1>1, Invariance, PTL

-------------------------------------------------------------------------------
(* The contract of a request.                                                *)

\* What the replies sent so far say of a request: none before it is decoding,
\* then one per token the host has beyond the prompt; and a row that samples no
\* token is of a request that is still a chunked one.
Reported ==
  /\ \A u \in Uids : state[u] = "none" => sent[u] = 0 /\ finals[u] = 0
  /\ \A u \in pending : sent[u] = 0
  /\ \A u \in Decoding : hostLen[u] = inputLen[u] + sent[u]
  /\ \A r \in InFlight : r.chunked /\ state[r.uid] = "ACTIVE" => sent[r.uid] = 0
  /\ \A r \in ongoing.rows : r.chunked => r.uid \in chunked

RInv == IInv /\ Reported

\* A request as its contract sees it, and a step of it.
Status(u) ==
  CASE state[u] = "none" -> "new"
    [] state[u] = "ACTIVE" -> "active"
    [] state[u] = "TERMINAL_PENDING_RETIRE" -> "ending"
    [] OTHER -> "done"

Known(status, limit, tokens, final, inFlight, rows) ==
  [status |-> status, limit |-> limit, tokens |-> tokens, finals |-> final,
   inFlight |-> inFlight, rows |-> rows]

View(u) ==
  Known(Status(u), outputLen[u], sent[u], finals[u],
        Cardinality({r \in InFlight : r.uid = u}), IF slotOf[u] = NoSlot THEN 0 ELSE 1)

Moves(u) == Contract!Move(View(u), View(u)') \/ View(u)' = View(u)

(* The initial state is the contract's.                                       *)
LEMMA ContractStarts == Init => Contract!Init /\ Reported
<1> SUFFICES ASSUME Init PROVE Contract!Init /\ Reported
  OBVIOUS
<1> USE DEF Init
<1>1. InFlight = {}
  BY DEF InFlight, NoBatch
<1>2. Cardinality({}) = 0
  BY FS_EmptySet
<1>3. \A u \in Uids : {r \in InFlight : r.uid = u} = {}
  BY <1>1
<1>4. Contract!Init
  BY <1>2, <1>3 DEF Contract!Init, Contract!New
<1>5. Reported
  BY <1>1 DEF Reported, Decoding, NoBatch
<1>6. QED  BY <1>4, <1>5

(* If every request moves, the contract takes a step.                         *)
LEMMA MovesAreSteps ==
  ASSUME \A u \in Uids : Moves(u)
  PROVE  Contract!Next
BY DEF Moves, View, Known, Status, Contract!Next

\* The number of forwards that work on a request, batch by batch.
HasRow(rows, u) == IF \E r \in rows : r.uid = u THEN 1 ELSE 0

(* The rows of a request in two batches of one row each are counted by asking  *)
(* each batch for one.                                                         *)
LEMMA CountOfTwo ==
  ASSUME NEW A, NEW B, NEW u,
         \A q, r \in A : q.uid = r.uid => q = r,
         \A q, r \in B : q.uid = r.uid => q = r,
         \A q \in A, r \in B : q.uid = r.uid => q.epoch # r.epoch
  PROVE  Cardinality({r \in A \cup B : r.uid = u})
           = HasRow(A, u) + HasRow(B, u)
<1> DEFINE inA == {r \in A : r.uid = u}
           inB == {r \in B : r.uid = u}
<1>1. {r \in A \cup B : r.uid = u} = inA \cup inB
  OBVIOUS
<1>2. /\ \A x, y \in inA : x = y
      /\ \A x, y \in inB : x = y
      /\ inA \cap inB = {}
  OBVIOUS
<1>3. /\ HasRow(A, u) = IF inA = {} THEN 0 ELSE 1
      /\ HasRow(B, u) = IF inB = {} THEN 0 ELSE 1
  BY DEF HasRow
<1> HIDE DEF inA, inB
<1>4. /\ IsFiniteSet(inA) /\ Cardinality(inA) = HasRow(A, u)
      /\ IsFiniteSet(inB) /\ Cardinality(inB) = HasRow(B, u)
  BY <1>2, <1>3, CountOfOne
<1>5. Cardinality(inA \cup inB) = Cardinality(inA) + Cardinality(inB) - Cardinality(inA \cap inB)
  BY <1>4, FS_Union
<1>6. Cardinality(inA \cap inB) = 0
  BY <1>2, FS_EmptySet
<1>7. HasRow(A, u) \in Nat /\ HasRow(B, u) \in Nat
  BY DEF HasRow
<1>8. Cardinality(inA \cup inB) = HasRow(A, u) + HasRow(B, u)
  BY <1>4, <1>5, <1>6, <1>7
<1>9. QED  BY <1>1, <1>8

(* A request has a row or none in each batch.                                  *)
LEMMA InFlightCount ==
  ASSUME IInv, NEW u \in Uids
  PROVE  /\ Cardinality({r \in InFlight : r.uid = u})
              = HasRow(last.rows, u) + HasRow(ongoing.rows, u)
         /\ outstanding[u] = {} <=> Cardinality({r \in InFlight : r.uid = u}) = 0
<1>1. Cardinality({r \in InFlight : r.uid = u})
        = HasRow(last.rows, u) + HasRow(ongoing.rows, u)
  <2>1. /\ \A q, r \in last.rows : q.uid = r.uid => q = r
        /\ \A q, r \in ongoing.rows : q.uid = r.uid => q = r
        /\ \A q \in last.rows, r \in ongoing.rows : q.uid = r.uid => q.epoch # r.epoch
    BY DEF IInv, RowsAreDistinct
  <2>2. QED  BY <2>1, CountOfTwo DEF InFlight
<1>2. outstanding[u] = {} <=> ~(\E r \in last.rows : r.uid = u) /\ ~(\E r \in ongoing.rows : r.uid = u)
  BY NoEpochNoRow DEF InFlight
<1>3. QED  BY <1>1, <1>2 DEF HasRow

-------------------------------------------------------------------------------
(* A request that nothing is done to stands still for its contract.            *)
LEMMA Unmoved ==
  ASSUME NEW u, state'[u] = state[u], outputLen'[u] = outputLen[u], sent'[u] = sent[u],
         finals'[u] = finals[u], slotOf'[u] = slotOf[u],
         {r \in InFlight' : r.uid = u} = {r \in InFlight : r.uid = u}
  PROVE  Moves(u)
BY DEF Moves, View, Status

(* The fields of the record.                                                   *)
LEMMA KnownFields ==
  ASSUME NEW s, NEW l, NEW t, NEW f, NEW n, NEW k
  PROVE  /\ Known(s, l, t, f, n, k).status = s
         /\ Known(s, l, t, f, n, k).limit = l
         /\ Known(s, l, t, f, n, k).tokens = t
         /\ Known(s, l, t, f, n, k).finals = f
         /\ Known(s, l, t, f, n, k).inFlight = n
         /\ Known(s, l, t, f, n, k).rows = k
BY DEF Known

(* What the operators and steps of the contract do to the record.              *)
LEMMA CompletedView ==
  ASSUME NEW s, NEW l, NEW t, NEW f, NEW n, NEW k, NEW m, m = n - 1
  PROVE  Contract!Completed(Known(s, l, t, f, n, k)) = Known(s, l, t, f, m, k)
<1>1. Known(s, l, t, f, n, k).inFlight = n
  BY KnownFields
<1>2. [Known(s, l, t, f, n, k) EXCEPT !.inFlight = m]
        = Known(s, l, t, f, m, k)
  BY DEF Known
<1>3. QED  BY <1>1, <1>2, Zenon DEF Contract!Completed

LEMMA EndedView ==
  ASSUME NEW s, NEW l, NEW t, NEW f, NEW n, NEW k
  PROVE  /\ n = 0 => Contract!Ended(Known(s, l, t, f, n, k)) = Known("done", l, t, f, n, 0)
         /\ n # 0 => Contract!Ended(Known(s, l, t, f, n, k)) = Known("ending", l, t, f, n, k)
<1>1. Known(s, l, t, f, n, k).inFlight = n /\ Known(s, l, t, f, n, k).rows = k
  BY KnownFields
<1>2. ASSUME NEW x, NEW y, x = IF n = 0 THEN "done" ELSE "ending", y = IF n = 0 THEN 0 ELSE k
      PROVE  Contract!Ended(Known(s, l, t, f, n, k)) = Known(x, l, t, f, n, y)
  <2>1. [Known(s, l, t, f, n, k) EXCEPT !.status = x, !.rows = y]
          = Known(x, l, t, f, n, y)
    <3>1. [Known(s, l, t, f, n, k) EXCEPT !.status = x] = Known(x, l, t, f, n, k)
      BY DEF Known
    <3>2. [Known(x, l, t, f, n, k) EXCEPT !.rows = y] = Known(x, l, t, f, n, y)
      BY DEF Known
    <3>3. [Known(s, l, t, f, n, k) EXCEPT !.status = x, !.rows = y]
            = [[Known(s, l, t, f, n, k) EXCEPT !.status = x] EXCEPT !.rows = y]
      BY DEF Known
    <3>4. QED  BY <3>1, <3>2, <3>3
  <2>2. QED  BY <1>1, <1>2, <2>1, Zenon DEF Contract!Ended
<1>3. QED  BY <1>2

LEMMA RefuseView ==
  ASSUME NEW l, NEW t, NEW f, NEW n, NEW k, NEW g, g = 1
  PROVE  Contract!Refuse(Known("new", l, t, f, n, k), Known("done", l, t, g, n, k))
<1>1. Known("new", l, t, f, n, k).status = "new"
  BY KnownFields
<1>2. [Known("new", l, t, f, n, k) EXCEPT !.status = "done", !.finals = g]
        = Known("done", l, t, g, n, k)
  <2>1. [Known("new", l, t, f, n, k) EXCEPT !.status = "done"] = Known("done", l, t, f, n, k)
    BY DEF Known
  <2>2. [Known("done", l, t, f, n, k) EXCEPT !.finals = g] = Known("done", l, t, g, n, k)
    BY DEF Known
  <2>3. [Known("new", l, t, f, n, k) EXCEPT !.status = "done", !.finals = g]
          = [[Known("new", l, t, f, n, k) EXCEPT !.status = "done"] EXCEPT !.finals = g]
    BY DEF Known
  <2>4. QED  BY <2>1, <2>2, <2>3
<1>3. QED  BY <1>1, <1>2, Zenon DEF Contract!Refuse

LEMMA AdmitView ==
  ASSUME NEW l, NEW t, NEW f, NEW n, NEW k, NEW m \in Nat
  PROVE  Contract!Admit(Known("new", l, t, f, n, k), Known("active", m, t, f, n, k))
<1>1. Known("new", l, t, f, n, k).status = "new" /\ Known("active", m, t, f, n, k).limit = m
  BY KnownFields
<1>2. [Known("new", l, t, f, n, k) EXCEPT !.status = "active", !.limit = m]
        = Known("active", m, t, f, n, k)
  <2>1. [Known("new", l, t, f, n, k) EXCEPT !.status = "active"] = Known("active", l, t, f, n, k)
    BY DEF Known
  <2>2. [Known("active", l, t, f, n, k) EXCEPT !.limit = m] = Known("active", m, t, f, n, k)
    BY DEF Known
  <2>3. [Known("new", l, t, f, n, k) EXCEPT !.status = "active", !.limit = m]
          = [[Known("new", l, t, f, n, k) EXCEPT !.status = "active"] EXCEPT !.limit = m]
    BY DEF Known
  <2>4. QED  BY <2>1, <2>2, <2>3
<1>3. QED  BY <1>1, <1>2, Zenon DEF Contract!Admit

LEMMA IssueView ==
  ASSUME NEW l, NEW t, NEW f, NEW n, NEW k, NEW m, NEW j, m = n + 1, j = 1,
         n < IF Overlap THEN 2 ELSE 1
  PROVE  Contract!Issue(Known("active", l, t, f, n, k), Known("active", l, t, f, m, j))
<1>1. /\ Known("active", l, t, f, n, k).status = "active"
      /\ Known("active", l, t, f, n, k).inFlight = n
  BY KnownFields
<1>2. [Known("active", l, t, f, n, k) EXCEPT !.inFlight = m, !.rows = j]
        = Known("active", l, t, f, m, j)
  <2>1. [Known("active", l, t, f, n, k) EXCEPT !.inFlight = m] = Known("active", l, t, f, m, k)
    BY DEF Known
  <2>2. [Known("active", l, t, f, m, k) EXCEPT !.rows = j] = Known("active", l, t, f, m, j)
    BY DEF Known
  <2>3. [Known("active", l, t, f, n, k) EXCEPT !.inFlight = m, !.rows = j]
          = [[Known("active", l, t, f, n, k) EXCEPT !.inFlight = m] EXCEPT !.rows = j]
    BY DEF Known
  <2>4. QED  BY <2>1, <2>2, <2>3
<1>3. QED  BY <1>1, <1>2, Zenon DEF Contract!Issue

LEMMA CompletePartView ==
  ASSUME NEW l, NEW t, NEW f, NEW n, NEW k, NEW m, m = n - 1, n > 0, t = 0
  PROVE  Contract!CompletePart(Known("active", l, t, f, n, k), Known("active", l, t, f, m, k))
<1>1. /\ Known("active", l, t, f, n, k).status = "active"
      /\ Known("active", l, t, f, n, k).inFlight = n
      /\ Known("active", l, t, f, n, k).tokens = t
  BY KnownFields
<1>2. Contract!Completed(Known("active", l, t, f, n, k)) = Known("active", l, t, f, m, k)
  BY CompletedView
<1>3. QED  BY <1>1, <1>2, Zenon DEF Contract!CompletePart

LEMMA CommitView ==
  ASSUME NEW l, NEW t, NEW f, NEW n, NEW k, NEW m, NEW c, m = n - 1, n > 0, c = t + 1, t + 1 < l
  PROVE  Contract!Commit(Known("active", l, t, f, n, k), Known("active", l, c, f, m, k))
<1>1. /\ Known("active", l, t, f, n, k).status = "active"
      /\ Known("active", l, t, f, n, k).inFlight = n
      /\ Known("active", l, t, f, n, k).tokens = t
      /\ Known("active", l, t, f, n, k).limit = l
      /\ Known("active", l, t, f, m, k).tokens = t
  BY KnownFields
<1>2. Contract!Completed(Known("active", l, t, f, n, k)) = Known("active", l, t, f, m, k)
  BY CompletedView
<1>3. [Known("active", l, t, f, m, k) EXCEPT !.tokens = c]
        = Known("active", l, c, f, m, k)
  BY DEF Known
<1>4. QED  BY <1>1, <1>2, <1>3, Zenon DEF Contract!Commit

LEMMA FinishView ==
  ASSUME NEW l, NEW t, NEW f, NEW n, NEW k, NEW m, NEW c, NEW g, NEW x, NEW y,
         m = n - 1, n > 0, c = t + 1, t + 1 <= l, g = f + 1,
         x = IF m = 0 THEN "done" ELSE "ending", y = IF m = 0 THEN 0 ELSE k
  PROVE  Contract!Finish(Known("active", l, t, f, n, k), Known(x, l, c, g, m, y))
<1>1. /\ Known("active", l, t, f, n, k).status = "active"
      /\ Known("active", l, t, f, n, k).inFlight = n
      /\ Known("active", l, t, f, n, k).tokens = t
      /\ Known("active", l, t, f, n, k).limit = l
      /\ Known("active", l, t, f, m, k).tokens = t
      /\ Known("active", l, t, f, m, k).finals = f
  BY KnownFields
<1>2. Contract!Completed(Known("active", l, t, f, n, k)) = Known("active", l, t, f, m, k)
  BY CompletedView
<1>3. [Known("active", l, t, f, m, k) EXCEPT !.tokens = c, !.finals = g]
        = Known("active", l, c, g, m, k)
  <2>1. [Known("active", l, t, f, m, k) EXCEPT !.tokens = c] = Known("active", l, c, f, m, k)
    BY DEF Known
  <2>2. [Known("active", l, c, f, m, k) EXCEPT !.finals = g] = Known("active", l, c, g, m, k)
    BY DEF Known
  <2>3. [Known("active", l, t, f, m, k) EXCEPT !.tokens = c, !.finals = g]
          = [[Known("active", l, t, f, m, k) EXCEPT !.tokens = c] EXCEPT !.finals = g]
    BY DEF Known
  <2>4. QED  BY <2>1, <2>2, <2>3
<1>4. Contract!Ended(Known("active", l, c, g, m, k)) = Known(x, l, c, g, m, y)
  <2>1. /\ m = 0 => x = "done" /\ y = 0
        /\ m # 0 => x = "ending" /\ y = k
    OBVIOUS
  <2>2. QED  BY ONLY <2>1, EndedView
<1>5. [Contract!Completed(Known("active", l, t, f, n, k)) EXCEPT !.tokens = @ + 1, !.finals = @ + 1]
        = Known("active", l, c, g, m, k)
  BY <1>1, <1>2, <1>3, Zenon
<1>6. QED  BY <1>1, <1>4, <1>5, Zenon DEF Contract!Finish

LEMMA AbortView ==
  ASSUME NEW l, NEW t, NEW f, NEW n, NEW k, NEW x, NEW y,
         x = IF n = 0 THEN "done" ELSE "ending", y = IF n = 0 THEN 0 ELSE k
  PROVE  Contract!Abort(Known("active", l, t, f, n, k), Known(x, l, t, f, n, y))
<1>1. Known("active", l, t, f, n, k).status = "active"
  BY KnownFields
<1>2. Contract!Ended(Known("active", l, t, f, n, k)) = Known(x, l, t, f, n, y)
  BY EndedView
<1>3. QED  BY <1>1, <1>2, Zenon DEF Contract!Abort

LEMMA DrainView ==
  ASSUME NEW l, NEW t, NEW f, NEW n, NEW k, NEW m, NEW x, NEW y, m = n - 1,
         x = IF m = 0 THEN "done" ELSE "ending", y = IF m = 0 THEN 0 ELSE k
  PROVE  Contract!Drain(Known("ending", l, t, f, n, k), Known(x, l, t, f, m, y))
<1>1. Known("ending", l, t, f, n, k).status = "ending"
  BY KnownFields
<1>2. Contract!Completed(Known("ending", l, t, f, n, k)) = Known("ending", l, t, f, m, k)
  BY CompletedView
<1>3. Contract!Ended(Known("ending", l, t, f, m, k)) = Known(x, l, t, f, m, y)
  <2>1. /\ m = 0 => x = "done" /\ y = 0
        /\ m # 0 => x = "ending" /\ y = k
    OBVIOUS
  <2>2. QED  BY ONLY <2>1, EndedView
<1>4. QED  BY <1>1, <1>2, <1>3, Zenon DEF Contract!Drain

(* Issuing a forward is Issue for its members and nothing for the others: a    *)
(* request that is scheduled has at most the row of the forward before in      *)
(* flight, and none without overlap (_issue_batch_refs).                       *)
LEMMA IssueMoves ==
  ASSUME IInv, RowsAreDistinct', pc = "schedule", NEW members \in SUBSET Uids, NEW rows,
         \A r \in rows : r.uid \in members,
         \A u \in members : state[u] = "ACTIVE" /\ slotOf'[u] # NoSlot,
         \A u \in Uids \ members : slotOf'[u] = slotOf[u],
         \A u \in members : \E r \in rows : r.uid = u,
         last' = last, ongoing'.rows = rows,
         UNCHANGED <<state, outputLen, sent, finals>>,
         NEW u \in Uids
  PROVE  Moves(u)
<1>1. ongoing.rows = {} /\ InFlight = last.rows /\ InFlight' = last.rows \cup rows
  BY DEF IInv, LoopShape, InFlight
<1>2. CASE u \notin members
  <2>1. {r \in InFlight' : r.uid = u} = {r \in InFlight : r.uid = u}
    BY <1>1, <1>2
  <2>2. QED  BY <1>2, <2>1, Unmoved
<1>3. CASE u \in members
  <2> DEFINE before == Cardinality({r \in InFlight : r.uid = u})
             after  == Cardinality({r \in InFlight' : r.uid = u})
  <2>1. before = HasRow(last.rows, u)
    BY <1>1, InFlightCount DEF HasRow
  <2>2. after = HasRow(last.rows, u) + 1
    <3>1. /\ \A q, r \in last.rows : q.uid = r.uid => q = r
          /\ \A q, r \in rows : q.uid = r.uid => q = r
          /\ \A q \in last.rows, r \in rows : q.uid = r.uid => q.epoch # r.epoch
      BY DEF RowsAreDistinct
    <3>2. after = HasRow(last.rows, u) + HasRow(rows, u)
      BY <1>1, <3>1, CountOfTwo
    <3>3. QED  BY <1>3, <3>2 DEF HasRow
  <2>3. HasRow(last.rows, u) \in {0, 1} /\ (~Overlap => HasRow(last.rows, u) = 0)
    BY DEF HasRow, IInv, LoopShape
  <2> HIDE DEF before, after
  <2>4. after = before + 1 /\ before < IF Overlap THEN 2 ELSE 1
    BY <2>1, <2>2, <2>3, SchedulerAssumption
  <2>5. View(u) = Known("active", outputLen[u], sent[u], finals[u], before,
                        IF slotOf[u] = NoSlot THEN 0 ELSE 1)
    BY <1>3 DEF View, Status, before
  <2>6. View(u)' = Known("active", outputLen[u], sent[u], finals[u], after, 1)
    BY <1>3 DEF View, Status, after, Known
  <2>7. Contract!Issue(View(u), View(u)')
    <3>1. before \in Nat
      BY <2>1, <2>3
    <3>2. QED  BY <2>4, <2>5, <2>6, <3>1, IssueView
  <2>8. QED  BY <2>7 DEF Moves, Contract!Move
<1>4. QED  BY <1>2, <1>3

(* A refused request is refused for its contract, an accepted one admitted.    *)
LEMMA MessageMoves ==
  ASSUME RInv, NEW u \in Uids, NEW input \in InputLens, NEW output \in OutputLens,
         RejectUserMsg(u, input, output) \/ AcceptUserMsg(u, input, output)
  PROVE  Reported' /\ \A v \in Uids : Moves(v)
<1>1. state[u] = "none" /\ sent[u] = 0 /\ finals[u] = 0 /\ sent' = sent /\ slotOf' = slotOf
  BY DEF RInv, Reported, RejectUserMsg, AcceptUserMsg, resVars
<1>2. /\ InFlight' = InFlight /\ live' = live /\ chunked' = chunked /\ hostLen' = hostLen
      /\ ongoing' = ongoing
  BY DEF RejectUserMsg, AcceptUserMsg, InFlight, queueVars, reqVars
<1>3. u \notin live
  BY <1>1 DEF RInv, IInv, Residency, SlotsArePartitioned
<1>4. \A v \in Uids : v # u => /\ state'[v] = state[v] /\ outputLen'[v] = outputLen[v]
                               /\ finals'[v] = finals[v] /\ inputLen'[v] = inputLen[v]
  BY DEF RejectUserMsg, AcceptUserMsg, RInv, IInv, TypeOK, reqVars
<1>5. pending' \subseteq pending \cup {u} /\ state'[u] # "none"
  BY DEF RejectUserMsg, AcceptUserMsg, queueVars, RInv, IInv, TypeOK
<1>6. Decoding' = Decoding /\ u \notin Decoding /\ Decoding \subseteq Uids
  BY <1>2, <1>3, <1>4 DEF Decoding, RInv, IInv, TypeOK
<1>7. \A r \in InFlight : r.uid \in live /\ r.uid \in Uids
  BY DEF RInv, IInv, TypeOK, Residency
<1>8. Reported'
  <2>1. \A v \in Uids : state'[v] = "none" => sent'[v] = 0 /\ finals'[v] = 0
    BY <1>1, <1>4, <1>5 DEF RInv, Reported
  <2>2. \A v \in pending' : sent'[v] = 0
    BY <1>1, <1>5 DEF RInv, Reported
  <2>3. \A v \in Decoding' : hostLen'[v] = inputLen'[v] + sent'[v]
    BY <1>1, <1>2, <1>4, <1>6 DEF RInv, Reported
  <2>4. \A r \in InFlight' : r.chunked /\ state'[r.uid] = "ACTIVE" => sent'[r.uid] = 0
    BY <1>1, <1>2, <1>3, <1>4, <1>7 DEF RInv, Reported
  <2>5. \A r \in ongoing'.rows : r.chunked => r.uid \in chunked'
    BY <1>2 DEF RInv, Reported
  <2>6. QED  BY <2>1, <2>2, <2>3, <2>4, <2>5 DEF Reported
<1>9. ASSUME NEW v \in Uids, v # u PROVE Moves(v)
  BY <1>1, <1>2, <1>4, <1>9, Unmoved
<1>10. Moves(u)
  <2> DEFINE n == Cardinality({r \in InFlight : r.uid = u})
             k == IF slotOf[u] = NoSlot THEN 0 ELSE 1
  <2>1. View(u) = Known("new", outputLen[u], sent[u], finals[u], n, k)
    BY <1>1 DEF View, Status
  <2>2. CASE RejectUserMsg(u, input, output)
    <3>1. /\ state'[u] = "rejected" /\ finals'[u] = 1 /\ outputLen'[u] = outputLen[u]
      BY <1>1, <2>2 DEF RejectUserMsg, RInv, IInv, TypeOK, reqVars
    <3>2. View(u)' = Known("done", outputLen[u], sent[u], finals'[u], n, k)
      BY <1>1, <1>2, <3>1 DEF View, Status
    <3> HIDE DEF n, k
    <3>3. Contract!Refuse(View(u), View(u)')
      BY <2>1, <3>1, <3>2, RefuseView
    <3>4. QED  BY <3>3 DEF Moves, Contract!Move
  <2>3. CASE AcceptUserMsg(u, input, output)
    <3>1. /\ state'[u] = "ACTIVE" /\ finals'[u] = finals[u]
      BY <1>1, <2>3 DEF AcceptUserMsg, RInv, IInv, TypeOK
    <3>2. outputLen'[u] \in Nat
      BY <2>3, AcceptStep DEF RInv, IInv, TypeOK
    <3>3. View(u)' = Known("active", outputLen'[u], sent[u], finals[u], n, k)
      BY <1>1, <1>2, <3>1 DEF View, Status
    <3> HIDE DEF n, k
    <3>4. Contract!Admit(View(u), View(u)')
      BY <2>1, <3>2, <3>3, AdmitView
    <3>5. QED  BY <3>4 DEF Moves, Contract!Move
  <2>4. QED  BY <2>2, <2>3
<1>11. QED  BY <1>8, <1>9, <1>10

(* An abort ends a request that is active, at once or when its last forward    *)
(* has been processed, and does nothing to any other.                          *)
LEMMA AbortMoves ==
  ASSUME RInv, NEW u \in Uids, AbortBackendMsg(u)
  PROVE  Reported' /\ \A v \in Uids : Moves(v)
<1>1. /\ sent' = sent /\ finals' = finals /\ outputLen' = outputLen /\ inputLen' = inputLen
      /\ hostLen' = hostLen /\ ongoing' = ongoing /\ InFlight' = InFlight
      /\ pending' = pending \ {u} /\ chunked' = chunked \ {u}
      /\ pc = "receive" /\ outstanding' = outstanding
  BY DEF AbortBackendMsg, Receiving, reqVars, InFlight
<1>2. ongoing.rows = {}
  BY <1>1 DEF RInv, IInv, LoopShape
<1>3. \A v \in Uids : v # u => state'[v] = state[v] /\ slotOf'[v] = slotOf[v]
  <2>1. CASE u \in pending /\ ~Found(u)
    BY <2>1 DEF AbortBackendMsg, resVars, RInv, IInv, TypeOK
  <2>2. CASE ~(u \in pending /\ ~Found(u))
    BY <2>2 DEF AbortBackendMsg, Retire
  <2>3. QED  BY <2>1, <2>2
<1>4. /\ Found(u) <=> u \in live
      /\ state[u] = "ACTIVE" => Found(u) \/ u \in pending
      /\ u \in pending => state[u] = "ACTIVE"
      /\ u \in live <=> slotOf[u] # NoSlot
      /\ u \in live => state[u] \in {"ACTIVE", "TERMINAL_PENDING_RETIRE"}
      /\ state[u] = "TERMINAL_PENDING_RETIRE" => outstanding[u] # {}
  BY DEF Found, RInv, IInv, TypeOK, Residency, SlotsArePartitioned, RetirementIsOwned
<1>5. /\ outstanding[u] = {} <=> Cardinality({r \in InFlight : r.uid = u}) = 0
      /\ u \notin live => outstanding[u] = {}
  BY InFlightCount, NoEpochNoRow DEF RInv, IInv, Residency
<1>6. /\ state[u] # "ACTIVE" => state'[u] = state[u] /\ slotOf'[u] = slotOf[u]
      /\ live' \subseteq live
  <2>1. CASE u \in pending /\ ~Found(u)
    BY <1>4, <2>1 DEF AbortBackendMsg
  <2>2. CASE ~(u \in pending /\ ~Found(u))
    <3>1. live' \subseteq live
      BY <2>2 DEF AbortBackendMsg, Retire
    <3>2. ASSUME state[u] # "ACTIVE" PROVE state'[u] = state[u] /\ slotOf'[u] = slotOf[u]
      BY <1>4, <2>2, <3>2 DEF AbortBackendMsg, Retire, ReadyToRelease
    <3>3. QED  BY <3>1, <3>2
  <2>3. QED  BY <2>1, <2>2
<1>7. state[u] = "ACTIVE" =>
        IF outstanding[u] = {}
          THEN state'[u] \in {"dropped", "RETIRED"} /\ slotOf'[u] = NoSlot
          ELSE state'[u] = "TERMINAL_PENDING_RETIRE" /\ slotOf'[u] = slotOf[u]
  <2> SUFFICES ASSUME state[u] = "ACTIVE"
               PROVE  IF outstanding[u] = {}
                        THEN state'[u] \in {"dropped", "RETIRED"} /\ slotOf'[u] = NoSlot
                        ELSE state'[u] = "TERMINAL_PENDING_RETIRE" /\ slotOf'[u] = slotOf[u]
    OBVIOUS
  <2>1. CASE u \in pending /\ ~Found(u)
    <3>1. state'[u] = "dropped" /\ slotOf' = slotOf
      BY <2>1 DEF AbortBackendMsg, resVars, RInv, IInv, TypeOK
    <3>2. QED  BY <1>4, <1>5, <2>1, <3>1
  <2>2. CASE ~(u \in pending /\ ~Found(u))
    <3>1. Found(u)
      BY <1>4, <2>2
    <3>2. CASE outstanding[u] = {}
      BY <2>2, <3>1, <3>2 DEF AbortBackendMsg, Retire, ReadyToRelease
    <3>3. CASE outstanding[u] # {}
      BY <2>2, <3>1, <3>3 DEF AbortBackendMsg, Retire, ReadyToRelease
    <3>4. QED  BY <3>2, <3>3
  <2>3. QED  BY <2>1, <2>2
<1>8. state'[u] # "ACTIVE" /\ (state'[u] = "none" => state[u] = "none")
  BY <1>6, <1>7
<1>9. Reported'
  <2>1. \A v \in Uids : state'[v] = "none" => sent'[v] = 0 /\ finals'[v] = 0
    BY <1>1, <1>3, <1>8 DEF RInv, Reported
  <2>2. \A v \in pending' : sent'[v] = 0
    BY <1>1 DEF RInv, Reported
  <2>3. Decoding' \subseteq Decoding
    BY <1>1, <1>3, <1>6, <1>8 DEF Decoding, RInv, IInv, TypeOK
  <2>4. \A v \in Decoding' : hostLen'[v] = inputLen'[v] + sent'[v]
    BY <1>1, <2>3 DEF RInv, Reported
  <2>5. \A r \in InFlight' : r.chunked /\ state'[r.uid] = "ACTIVE" => sent'[r.uid] = 0
    <3>1. \A r \in InFlight : r.uid \in Uids
      BY DEF RInv, IInv, TypeOK, Residency
    <3>2. QED  BY <1>1, <1>3, <1>8, <3>1 DEF RInv, Reported
  <2>6. \A r \in ongoing'.rows : r.chunked => r.uid \in chunked'
    BY <1>1, <1>2
  <2>7. QED  BY <2>1, <2>2, <2>4, <2>5, <2>6 DEF Reported
<1>10. ASSUME NEW v \in Uids, v # u \/ state[u] # "ACTIVE" PROVE Moves(v)
  BY <1>1, <1>3, <1>6, <1>10, Unmoved
<1>11. CASE state[u] = "ACTIVE"
  <2> DEFINE n == Cardinality({r \in InFlight : r.uid = u})
             k == IF slotOf[u] = NoSlot THEN 0 ELSE 1
             x == IF n = 0 THEN "done" ELSE "ending"
             y == IF n = 0 THEN 0 ELSE k
  <2>1. View(u) = Known("active", outputLen[u], sent[u], finals[u], n, k)
    BY <1>11 DEF View, Status
  <2>2. Status(u)' = x /\ (IF slotOf'[u] = NoSlot THEN 0 ELSE 1) = y
    BY <1>5, <1>7, <1>11 DEF Status
  <2>3. View(u)' = Known(x, outputLen[u], sent[u], finals[u], n, y)
    BY <1>1, <2>2 DEF View
  <2> HIDE DEF n, k
  <2>4. Contract!Abort(View(u), View(u)')
    BY <2>1, <2>3, AbortView
  <2>5. Moves(u)
    BY <2>4 DEF Moves, Contract!Move
  <2>6. QED  BY <1>9, <1>10, <2>5
<1>12. QED  BY <1>9, <1>10, <1>11

(* The rows issued for the members of a batch: one each, with its next epoch.  *)
LEMMA IssuedRowsAre ==
  ASSUME NEW members, NEW partial, NEW length
  PROVE  /\ \A r \in IssuedRows(members, partial, length) :
              r.uid \in members /\ (r.chunked => r.uid \in partial)
         /\ \A u \in members : \E r \in IssuedRows(members, partial, length) : r.uid = u
<1> DEFINE Row(u) == [uid |-> u, epoch |-> nextEpoch[u], chunked |-> u \in partial,
                      pos |-> length[u]]
<1>1. \A u : Row(u).uid = u /\ (Row(u).chunked => u \in partial)
  OBVIOUS
<1>2. IssuedRows(members, partial, length) = {Row(u) : u \in members}
  BY DEF IssuedRows
<1> HIDE DEF Row
<1>3. QED  BY <1>1, <1>2

(* A decode forward.                                                           *)
LEMMA DecodeMoves ==
  ASSUME RInv, ScheduleDecode
  PROVE  Reported' /\ \A u \in Uids : Moves(u)
<1> DEFINE rows == ongoing'.rows
<1>1. /\ pc = "schedule" /\ IssueBatchRefs(running) /\ last' = last
      /\ rows = IssuedRows(running, {}, deviceLen)
      /\ UNCHANGED <<pending, chunked, inputLen, outputLen, hostLen, slotOf, sent, finals>>
  BY DEF ScheduleDecode, DecodeBatch, Scheduling
<1>2. state' = state /\ live' = live
  BY <1>1 DEF IssueBatchRefs, RInv, IInv, Residency
<1>3. /\ running \in SUBSET Uids
      /\ \A u \in running : state[u] = "ACTIVE" /\ slotOf[u] # NoSlot
  BY DEF RInv, IInv, TypeOK, Residency
<1>4. /\ \A r \in rows : r.uid \in running /\ ~r.chunked
      /\ \A u \in running : \E r \in rows : r.uid = u
  BY <1>1, IssuedRowsAre
<1>5. RowsAreDistinct'
  BY DecodeStep DEF RInv, IInv
<1> HIDE DEF rows
<1>6. ongoing'.rows = rows /\ InFlight' = last.rows \cup rows /\ InFlight = last.rows
  BY <1>1 DEF rows, InFlight, RInv, IInv, LoopShape
<1>7. \A u \in Uids : Moves(u)
  BY <1>1, <1>2, <1>3, <1>4, <1>5, <1>6, IssueMoves DEF RInv
<1>8. Reported'
  BY <1>1, <1>2, <1>4, <1>6 DEF RInv, Reported, Decoding
<1>9. QED  BY <1>7, <1>8

(* A prefill forward: the members are pending, so nothing of them has been     *)
(* sent; those whose prompt ends here have the whole prompt on the host.       *)
LEMMA PrefillMoves ==
  ASSUME RInv, SchedulePrefill
  PROVE  Reported' /\ \A u \in Uids : Moves(u)
<1> DEFINE taken  == PrefillBatch
           chunk  == Chunks(Budget, taken)
           new    == taken \ chunked
           ends   == {u \in taken : cachedLen[u] + chunk[u] = inputLen[u]}
           length == [u \in taken |-> cachedLen[u] + chunk[u]]
           rows   == ongoing'.rows
<1>1. /\ pc = "schedule" /\ IssueBatchRefs(taken) /\ last' = last
      /\ rows = IssuedRows(taken, taken \ ends, length)
      /\ hostLen' = [u \in Uids |-> IF u \in taken THEN length[u] ELSE hostLen[u]]
      /\ pending' = pending \ ends
      /\ chunked' = (chunked \cup taken) \ ends
      /\ UNCHANGED <<inputLen, outputLen, sent, finals>>
  BY DEF SchedulePrefill, Scheduling
<1>2. PICK row \in [new -> freeSlots] :
        slotOf' = [u \in Uids |-> IF u \in new THEN row[u] ELSE slotOf[u]]
  BY DEF SchedulePrefill
<1>3. taken \subseteq pending
  BY DEF PrefillBatch, Prepared, FirstPreparable
<1> HIDE DEF taken, chunk
<1>4. state' = state /\ live' = live \cup taken
  BY <1>1 DEF IssueBatchRefs
<1>5. /\ taken \in SUBSET Uids
      /\ \A u \in taken : state[u] = "ACTIVE" /\ sent[u] = 0
  BY <1>3 DEF RInv, IInv, TypeOK, Residency, Reported
<1>6. \A u \in taken : slotOf'[u] # NoSlot
  <2> SUFFICES ASSUME NEW u \in taken PROVE slotOf'[u] # NoSlot
    OBVIOUS
  <2>1. CASE u \in chunked
    BY <1>2, <1>5, <2>1 DEF RInv, IInv, Residency
  <2>2. CASE u \notin chunked
    <3>1. slotOf'[u] = row[u] /\ row[u] \in freeSlots
      BY <1>2, <1>5, <2>2
    <3>2. QED  BY <3>1, SchedulerAssumption DEF RInv, IInv, TypeOK
  <2>3. QED  BY <2>1, <2>2
<1>7. \A u \in Uids \ taken : slotOf'[u] = slotOf[u]
  BY <1>2
<1>8. /\ \A r \in rows : r.uid \in taken /\ (r.chunked => r.uid \in taken \ ends)
      /\ \A u \in taken : \E r \in rows : r.uid = u
  <2> HIDE DEF rows, ends, length
  <2>1. QED  BY <1>1, IssuedRowsAre
<1>9. RowsAreDistinct'
  BY PrefillStep DEF RInv, IInv
<1>10. \A u \in ends : u \in taken /\ length[u] = inputLen[u]
  OBVIOUS
<1> HIDE DEF rows, ends, length
<1>11. ongoing'.rows = rows /\ InFlight' = last.rows \cup rows /\ InFlight = last.rows
  BY <1>1 DEF rows, InFlight, RInv, IInv, LoopShape
<1>12. \A u \in Uids : Moves(u)
  <2>1. /\ IInv /\ RowsAreDistinct' /\ pc = "schedule" /\ taken \in SUBSET Uids
        /\ \A r \in rows : r.uid \in taken
        /\ \A u \in taken : state[u] = "ACTIVE" /\ slotOf'[u] # NoSlot
        /\ \A u \in Uids \ taken : slotOf'[u] = slotOf[u]
        /\ \A u \in taken : \E r \in rows : r.uid = u
        /\ last' = last /\ ongoing'.rows = rows
        /\ UNCHANGED <<state, outputLen, sent, finals>>
    BY <1>1, <1>4, <1>5, <1>6, <1>7, <1>8, <1>9, <1>11 DEF RInv
  <2>2. QED  BY ONLY <2>1, IssueMoves
<1>13. Reported'
  <2>1. \A u \in Uids : state'[u] = "none" => sent'[u] = 0 /\ finals'[u] = 0
    BY <1>1, <1>4 DEF RInv, Reported
  <2>2. \A u \in pending' : sent'[u] = 0
    BY <1>1 DEF RInv, Reported
  <2>3. ASSUME NEW u \in Decoding' PROVE hostLen'[u] = inputLen'[u] + sent'[u]
    <3>1. u \in Uids /\ u \in live \cup taken /\ u \notin chunked' /\ state[u] = "ACTIVE"
      BY <1>4, <1>5 DEF Decoding, RInv, IInv, TypeOK
    <3>2. CASE u \in taken
      <4>1. hostLen'[u] = inputLen[u] /\ sent[u] = 0 /\ inputLen[u] \in Nat
        BY <1>1, <1>5, <1>10, <3>1, <3>2 DEF RInv, IInv, TypeOK
      <4>2. QED  BY <1>1, <4>1
    <3>3. CASE u \notin taken
      <4>1. u \in Decoding /\ hostLen'[u] = hostLen[u]
        BY <1>1, <1>10, <3>1, <3>3 DEF Decoding
      <4>2. QED  BY <1>1, <4>1 DEF RInv, Reported
    <3>4. QED  BY <3>2, <3>3
  <2>4. \A r \in InFlight' : r.chunked /\ state'[r.uid] = "ACTIVE" => sent'[r.uid] = 0
    BY <1>1, <1>4, <1>5, <1>8, <1>11 DEF RInv, Reported
  <2>5. \A r \in ongoing'.rows : r.chunked => r.uid \in chunked'
    BY <1>1, <1>8, <1>11
  <2>6. QED  BY <2>1, <2>2, <2>3, <2>4, <2>5 DEF Reported
<1>14. QED  BY <1>12, <1>13

(* Processing a forward: each of its rows commits a token, ends its request,   *)
(* is a part of a prompt, or is dropped because its request has ended.         *)
LEMMA ProcessMoves ==
  ASSUME RInv, ProcessLastData
  PROVE  Reported' /\ \A u \in Uids : Moves(u)
<1> DEFINE done      == LastData.rows
           rest      == last'.rows
           committed == {r.uid : r \in CommittedRows}
<1>1. PICK eos \in SUBSET committed :
        LET terminal == {u \in committed : u \in eos \/ hostLen[u] + 1 = MaxDeviceLen(u)}
            ended(u) == u \in terminal \/ state[u] = "TERMINAL_PENDING_RETIRE"
            released == {u \in {r.uid : r \in LastData.rows} :
                           ReadyToRelease(ended(u), RemainingEpochs(u))}
        IN  /\ \A u \in committed : CanCommitToken(u)
            /\ hostLen' = [u \in Uids |-> IF u \in committed THEN hostLen[u] + 1
                                          ELSE hostLen[u]]
            /\ sent' = [u \in Uids |-> IF u \in committed THEN sent[u] + 1 ELSE sent[u]]
            /\ finals' = [u \in Uids |-> IF u \in terminal THEN finals[u] + 1 ELSE finals[u]]
            /\ outstanding' = [u \in Uids |-> RemainingEpochs(u)]
            /\ Retire(terminal, released)
            /\ last' = IF Overlap THEN ongoing ELSE NoBatch
            /\ ongoing' = NoBatch
            /\ UNCHANGED <<pending, chunked, inputLen, outputLen>>
  BY Zenon DEF ProcessLastData
<1> DEFINE terminal == {u \in committed : u \in eos \/ hostLen[u] + 1 = MaxDeviceLen(u)}
           ended(u) == u \in terminal \/ state[u] = "TERMINAL_PENDING_RETIRE"
           released == {u \in {r.uid : r \in done} :
                          ReadyToRelease(ended(u), RemainingEpochs(u))}
<1>2. /\ \A u \in committed : CanCommitToken(u)
      /\ hostLen' = [u \in Uids |-> IF u \in committed THEN hostLen[u] + 1 ELSE hostLen[u]]
      /\ sent' = [u \in Uids |-> IF u \in committed THEN sent[u] + 1 ELSE sent[u]]
      /\ finals' = [u \in Uids |-> IF u \in terminal THEN finals[u] + 1 ELSE finals[u]]
  BY <1>1
<1>3. /\ last' = IF Overlap THEN ongoing ELSE NoBatch
      /\ ongoing' = NoBatch
      /\ UNCHANGED <<pending, chunked, inputLen, outputLen>>
  BY <1>1
<1>4. /\ outstanding' = [u \in Uids |-> RemainingEpochs(u)]
      /\ Retire(terminal, released)
  BY <1>1
<1>5. /\ InFlight = done \cup rest /\ InFlight' = rest /\ ongoing'.rows = {}
      /\ \A q, r \in done : q.uid = r.uid => q = r
      /\ \A q, r \in rest : q.uid = r.uid => q = r
      /\ \A q \in done, r \in rest : q.uid = r.uid => q.epoch # r.epoch
      /\ \A r \in rest : r.chunked => r.uid \in chunked
  <2>1. NoBatch.rows = {}
    BY DEF NoBatch
  <2>2. CASE Overlap
    <3>1. done = last.rows /\ last' = ongoing /\ rest = ongoing.rows
      BY <1>3, <2>2 DEF LastData
    <3>2. QED  BY <1>3, <2>1, <3>1 DEF RInv, IInv, RowsAreDistinct, InFlight, Reported
  <2>3. CASE ~Overlap
    <3>1. done = ongoing.rows /\ last.rows = {} /\ rest = {}
      BY <1>3, <2>1, <2>3 DEF LastData, RInv, IInv, LoopShape
    <3>2. QED  BY <1>3, <2>1, <3>1 DEF RInv, IInv, RowsAreDistinct, InFlight
  <2>4. QED  BY <2>2, <2>3
<1>6. \A r \in InFlight : /\ r.uid \in live /\ r.uid \in Uids
                          /\ ~r.chunked => r.uid \notin chunked
  BY DEF RInv, IInv, TypeOK, Residency, HostFollowsDevice
<1>7. /\ \A u \in committed : /\ \E r \in done : r.uid = u /\ ~r.chunked
                             /\ state[u] = "ACTIVE" /\ u \in Uids /\ u \in live /\ u \notin chunked
      /\ \A r \in done : state[r.uid] = "ACTIVE" /\ ~r.chunked => r.uid \in committed
  BY <1>5, <1>6 DEF CommittedRows
<1>8. \A u \in committed : u \in Decoding /\ u \notin pending
  BY <1>7 DEF Decoding, RInv, IInv, Residency
<1> HIDE DEF done, rest, committed
<1>9. \A u \in Uids : outstanding'[u] = {r.epoch : r \in {q \in rest : q.uid = u}}
                      /\ outstanding'[u] = RemainingEpochs(u)
  <2> SUFFICES ASSUME NEW u \in Uids
               PROVE  outstanding'[u] = {r.epoch : r \in {q \in rest : q.uid = u}}
                      /\ outstanding'[u] = RemainingEpochs(u)
    OBVIOUS
  <2>1. outstanding[u] = {r.epoch : r \in {q \in InFlight : q.uid = u}}
    BY DEF RInv, IInv, RowsAreDistinct
  <2>2. outstanding'[u] = RemainingEpochs(u)
    BY <1>4
  <2>3. RemainingEpochs(u) = outstanding[u] \ {r.epoch : r \in {q \in done : q.uid = u}}
    BY DEF RemainingEpochs, done
  <2>4. QED  BY <1>5, <2>1, <2>2, <2>3
<1>10. /\ released \subseteq live /\ released \subseteq Uids /\ terminal \subseteq committed
       /\ \A u \in Uids : u \in released <=>
            /\ ended(u) /\ ~(\E r \in rest : r.uid = u)
            /\ \E r \in done : r.uid = u
  <2>1. \A u \in Uids : RemainingEpochs(u) = {} <=> ~(\E r \in rest : r.uid = u)
    BY <1>9
  <2>2. \A u \in released : u \in Uids /\ u \in live
    BY <1>5, <1>6
  <2>3. \A u : u \in released <=> (ended(u) /\ RemainingEpochs(u) = {} /\ \E r \in done : r.uid = u)
    BY DEF ReadyToRelease
  <2>4. terminal \subseteq committed
    OBVIOUS
  <2> HIDE DEF ended, released, terminal
  <2>5. QED  BY <2>1, <2>2, <2>3, <2>4
<1>11. \A u \in Uids : /\ state'[u] = IF u \in released THEN "RETIRED"
                                      ELSE IF u \in terminal THEN "TERMINAL_PENDING_RETIRE"
                                      ELSE state[u]
                       /\ slotOf'[u] = IF u \in released THEN NoSlot ELSE slotOf[u]
  BY <1>4 DEF Retire
<1>12. live' = live \ released
  BY <1>4 DEF Retire
<1>13. \A u \in Uids : u \in terminal <=> u \in committed /\ (u \in eos \/ hostLen[u] + 1 = MaxDeviceLen(u))
  OBVIOUS
<1>14. \A u \in Uids : u \in released => state[u] \in {"ACTIVE", "TERMINAL_PENDING_RETIRE"}
  BY <1>10 DEF RInv, IInv, Residency, SlotsArePartitioned
<1> HIDE DEF terminal, released
<1>15. Reported'
  <2>1. \A u \in Uids : state'[u] = "none" => sent'[u] = 0 /\ finals'[u] = 0
    BY <1>2, <1>7, <1>10, <1>11 DEF RInv, Reported
  <2>2. \A u \in pending' : sent'[u] = 0
    BY <1>2, <1>3, <1>8 DEF RInv, IInv, TypeOK, Reported
  <2>3. ASSUME NEW u \in Decoding' PROVE hostLen'[u] = inputLen'[u] + sent'[u]
    <3>1. u \in Decoding /\ u \in Uids
      BY <1>3, <1>11, <1>12 DEF Decoding, RInv, IInv, TypeOK
    <3>2. /\ hostLen[u] = inputLen[u] + sent[u]
          /\ hostLen[u] \in Nat /\ inputLen[u] \in Nat /\ sent[u] \in Nat
      BY <3>1 DEF RInv, IInv, TypeOK, Reported
    <3>3. CASE u \in committed
      BY <1>2, <1>3, <3>1, <3>2, <3>3
    <3>4. CASE u \notin committed
      BY <1>2, <1>3, <3>1, <3>2, <3>4
    <3>5. QED  BY <3>3, <3>4
  <2>4. ASSUME NEW r \in InFlight', r.chunked, state'[r.uid] = "ACTIVE" PROVE sent'[r.uid] = 0
    <3>1. r \in InFlight /\ r.uid \in chunked /\ r.uid \in Uids
      BY <1>5, <1>6, <2>4
    <3>2. r.uid \notin committed
      BY <1>7, <3>1
    <3>3. state[r.uid] = "ACTIVE"
      BY <1>11, <2>4, <3>1
    <3>4. QED  BY <1>2, <2>4, <3>1, <3>2, <3>3 DEF RInv, Reported
  <2>5. \A r \in ongoing'.rows : r.chunked => r.uid \in chunked'
    BY <1>5
  <2>6. QED  BY <2>1, <2>2, <2>3, <2>4, <2>5 DEF Reported
<1>16. ASSUME NEW u \in Uids PROVE Moves(u)
  <2> DEFINE n == Cardinality({r \in InFlight : r.uid = u})
             m == Cardinality({r \in InFlight' : r.uid = u})
             k == IF slotOf[u] = NoSlot THEN 0 ELSE 1
             x == IF m = 0 THEN "done" ELSE "ending"
             y == IF m = 0 THEN 0 ELSE k
  <2>1. n = HasRow(done, u) + HasRow(rest, u) /\ m = HasRow(rest, u) + HasRow({}, u)
    <3>1. rest = rest \cup {}
      OBVIOUS
    <3>2. n = HasRow(done, u) + HasRow(rest, u)
      BY <1>5, CountOfTwo
    <3>3. m = HasRow(rest, u) + HasRow({}, u)
      <4>1. Cardinality({r \in rest \cup {} : r.uid = u}) = HasRow(rest, u) + HasRow({}, u)
        BY ONLY <1>5, CountOfTwo
      <4>2. QED  BY <1>5, <3>1, <4>1
    <3>4. QED  BY <3>2, <3>3
  <2>2. /\ HasRow({}, u) = 0
        /\ HasRow(rest, u) = IF \E r \in rest : r.uid = u THEN 1 ELSE 0
        /\ HasRow(done, u) = IF \E r \in done : r.uid = u THEN 1 ELSE 0
    BY DEF HasRow
  <2>3. View(u) = Known(Status(u), outputLen[u], sent[u], finals[u], n, k)
    BY DEF View
  <2> HIDE DEF n
  <2>4. CASE ~(\E r \in done : r.uid = u)
    <3>1. u \notin committed /\ u \notin terminal /\ u \notin released
      BY <1>7, <1>10, <2>4
    <3>2. {r \in InFlight' : r.uid = u} = {r \in InFlight : r.uid = u}
      BY <1>5, <2>4
    <3>3. QED  BY <1>2, <1>3, <1>11, <3>1, <3>2, Unmoved
  <2>5. CASE \E r \in done : r.uid = u
    <3>1. m = n - 1 /\ n > 0 /\ (m = 0 <=> ~(\E r \in rest : r.uid = u))
      BY <2>1, <2>2, <2>5
    <3>2. state[u] \in {"ACTIVE", "TERMINAL_PENDING_RETIRE"}
      BY <1>5, <1>6, <2>5 DEF RInv, IInv, Residency, SlotsArePartitioned
    <3>3. u \in released <=> ended(u) /\ m = 0
      BY <1>10, <2>5, <3>1
    <3>4. View(u)' = Known(Status(u)', outputLen[u], sent'[u], finals'[u], m,
                           IF slotOf'[u] = NoSlot THEN 0 ELSE 1)
      BY <1>3 DEF View
    <3>5. /\ Status(u) = IF state[u] = "ACTIVE" THEN "active" ELSE "ending"
          /\ Status(u)' = IF u \in released THEN "done"
                          ELSE IF u \in terminal THEN "ending" ELSE Status(u)
      BY <1>11, <3>2 DEF Status
    <3>6. ASSUME ended(u)
          PROVE  Status(u)' = x /\ (IF slotOf'[u] = NoSlot THEN 0 ELSE 1) = y
      BY <1>11, <3>2, <3>3, <3>5, <3>6
    <3>7. /\ hostLen[u] \in Nat /\ inputLen[u] \in Nat /\ outputLen[u] \in Nat
          /\ sent[u] \in Nat /\ finals[u] \in Nat
      BY DEF RInv, IInv, TypeOK
    <3>8. u \in committed => sent[u] + 1 <= outputLen[u]
                             /\ (u \notin terminal => sent[u] + 1 < outputLen[u])
      <4> SUFFICES ASSUME u \in committed
                   PROVE  sent[u] + 1 <= outputLen[u]
                          /\ (u \notin terminal => sent[u] + 1 < outputLen[u])
        OBVIOUS
      <4>1. hostLen[u] = inputLen[u] + sent[u] /\ hostLen[u] < inputLen[u] + outputLen[u]
        BY <1>2, <1>8 DEF RInv, Reported, CanCommitToken, MaxDeviceLen
      <4>2. u \notin terminal => hostLen[u] + 1 # inputLen[u] + outputLen[u]
        BY <1>13 DEF MaxDeviceLen
      <4>3. sent[u] + 1 <= outputLen[u]
        BY <3>7, <4>1
      <4>4. ASSUME u \notin terminal PROVE sent[u] + 1 < outputLen[u]
        <5>1. hostLen[u] + 1 # inputLen[u] + outputLen[u]
          BY <4>2, <4>4
        <5>2. QED  BY <3>7, <4>1, <5>1
      <4>5. QED  BY <4>3, <4>4
    <3> HIDE DEF m, k
    <3>9. CASE u \notin committed /\ state[u] = "TERMINAL_PENDING_RETIRE"
      <4>1. sent'[u] = sent[u] /\ finals'[u] = finals[u] /\ u \notin terminal
        BY <1>2, <1>10, <3>9
      <4>2. View(u) = Known("ending", outputLen[u], sent[u], finals[u], n, k)
        BY <2>3, <3>5, <3>9
      <4>3. View(u)' = Known(x, outputLen[u], sent[u], finals[u], m, y)
        BY <3>4, <3>6, <3>9, <4>1
      <4>4. Contract!Drain(View(u), View(u)')
        BY <3>1, <4>2, <4>3, DrainView
      <4>5. QED  BY <4>4 DEF Moves, Contract!Move
    <3>10. CASE u \in terminal
      <4>1. u \in committed /\ state[u] = "ACTIVE"
        BY <1>7, <1>10, <3>10
      <4>2. sent'[u] = sent[u] + 1 /\ finals'[u] = finals[u] + 1
        BY <1>2, <3>10, <4>1
      <4>3. View(u) = Known("active", outputLen[u], sent[u], finals[u], n, k)
        BY <2>3, <3>5, <4>1
      <4>4. View(u)' = Known(x, outputLen[u], sent'[u], finals'[u], m, y)
        BY <3>4, <3>6, <3>10
      <4>5. Contract!Finish(View(u), View(u)')
        BY <3>1, <3>8, <4>1, <4>2, <4>3, <4>4, FinishView
      <4>6. QED  BY <4>5 DEF Moves, Contract!Move
    <3>11. CASE u \in committed /\ u \notin terminal
      <4>1. state[u] = "ACTIVE" /\ u \notin released
        BY <1>7, <3>3, <3>11
      <4>2. sent'[u] = sent[u] + 1 /\ finals'[u] = finals[u] /\ slotOf'[u] = slotOf[u]
        BY <1>2, <1>11, <3>11, <4>1
      <4>3. View(u) = Known("active", outputLen[u], sent[u], finals[u], n, k)
        BY <2>3, <3>5, <4>1
      <4>4. View(u)' = Known("active", outputLen[u], sent'[u], finals[u], m, k)
        BY <3>4, <3>5, <3>11, <4>1, <4>2 DEF k
      <4>5. Contract!Commit(View(u), View(u)')
        BY <3>1, <3>8, <3>11, <4>2, <4>3, <4>4, CommitView
      <4>6. QED  BY <4>5 DEF Moves, Contract!Move
    <3>12. CASE u \notin committed /\ state[u] = "ACTIVE"
      <4>1. u \notin terminal /\ u \notin released
        BY <1>10, <3>3, <3>12
      <4>2. sent'[u] = sent[u] /\ finals'[u] = finals[u] /\ slotOf'[u] = slotOf[u]
        BY <1>2, <1>11, <3>12, <4>1
      <4>3. sent[u] = 0
        BY <1>5, <1>7, <2>5, <3>12 DEF RInv, Reported
      <4>4. View(u) = Known("active", outputLen[u], sent[u], finals[u], n, k)
        BY <2>3, <3>5, <3>12
      <4>5. View(u)' = Known("active", outputLen[u], sent[u], finals[u], m, k)
        BY <3>4, <3>5, <3>12, <4>1, <4>2 DEF k
      <4>6. Contract!CompletePart(View(u), View(u)')
        BY <3>1, <4>3, <4>4, <4>5, CompletePartView
      <4>7. QED  BY <4>6 DEF Moves, Contract!Move
    <3>13. QED  BY <1>7, <1>10, <3>2, <3>9, <3>10, <3>11, <3>12
  <2>6. QED  BY <2>4, <2>5
<1>17. QED  BY <1>15, <1>16

(* The other steps of the loop leave the requests alone.                       *)
LEMMA QuietMoves ==
  ASSUME RInv, EndReceive \/ ScheduleNothing \/ AllocationFails \/ CommitFails
               \/ UNCHANGED vars
  PROVE  Reported' /\ \A u \in Uids : Moves(u)
<1>1. /\ UNCHANGED <<last, lifeVars, queueVars, reqVars, resVars, sent, finals>>
      /\ ongoing'.rows = ongoing.rows
  BY DEF EndReceive, ScheduleNothing, AllocationFails, CommitFails, vars, loopVars,
         Scheduling, NoBatch, RInv, IInv, LoopShape
<1>2. InFlight' = InFlight
  BY <1>1 DEF InFlight
<1>3. Reported'
  BY <1>1, <1>2 DEF RInv, Reported, Decoding, lifeVars, queueVars, reqVars
<1>4. \A u \in Uids : Moves(u)
  BY <1>1, <1>2, Unmoved DEF lifeVars, reqVars, resVars
<1>5. QED  BY <1>3, <1>4

(* Every step of the scheduler moves every request as its contract allows.     *)
LEMMA NextMoves == RInv /\ [Next]_vars => RInv' /\ Contract!Next
<1> SUFFICES ASSUME RInv, [Next]_vars PROVE RInv' /\ Contract!Next
  OBVIOUS
<1>1. IInv'
  BY NextInv DEF RInv
<1>2. Reported' /\ \A u \in Uids : Moves(u)
  <2>1. ASSUME NEW u \in Uids, NEW input \in InputLens, NEW output \in OutputLens,
               RejectUserMsg(u, input, output) \/ AcceptUserMsg(u, input, output)
        PROVE  Reported' /\ \A v \in Uids : Moves(v)
    BY <2>1, MessageMoves
  <2>2. ASSUME NEW u \in Uids, AbortBackendMsg(u)
        PROVE  Reported' /\ \A v \in Uids : Moves(v)
    BY <2>2, AbortMoves
  <2>3. QED
    BY <2>1, <2>2, DecodeMoves, PrefillMoves, ProcessMoves, QuietMoves DEF Next, Loop, Quiescent
<1>3. QED  BY <1>1, <1>2, MovesAreSteps DEF RInv

(* Whatever is scheduled and whenever an abort arrives, each request sees its   *)
(* contract: at most its tokens, one final reply, none after an abort, at most  *)
(* two forwards in flight (one without overlap), its row given back once.       *)
THEOREM ContractKept == Spec => ImplementsContract
<1>1. Init => RInv /\ Contract!Init
  BY InitInv, ContractStarts DEF RInv
<1>2. QED
  BY <1>1, NextMoves, PTL DEF Spec, ImplementsContract, Contract!Spec

===============================================================================

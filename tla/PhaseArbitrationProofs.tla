------------------------ MODULE PhaseArbitrationProofs ------------------------
(***************************************************************************)
(* What PhaseArbitration and PrefillTurns guarantee for every limit, budget *)
(* and page size.                                                          *)
(* PrefillTriedInTime is not inductive: a prefill that was chosen but found *)
(* inadmissible leaves the run counter where it is, so the number of calls  *)
(* that passed the prefill queue over is bounded by the counter, and only   *)
(* through the counter by the limit.  The prefill queue of PrefillTurns is  *)
(* one of the queues that PhaseArbitration leaves arbitrary, so what holds  *)
(* for these holds for it.                                                  *)
(*                                                                         *)
(* The second half is about that queue.  Its loops are functions of the    *)
(* number of passes: Loop says that such a definition has one outcome, and *)
(* UpTo is the induction along it.  The chunks of a forward are even after  *)
(* every round (Even), and waiting pays: a request that was passed over     *)
(* stands further ahead the longer it waited (WaitingPays).                 *)
(***************************************************************************)
EXTENDS PrefillTurns, FiniteSetTheorems, TLAPS

\* The run counter bounds what was passed over; a conflict that is not going on
\* has no run, and a prefill ends one.
RunCoversPassedOver ==
  /\ passedOver <= policy.run
  /\ passedOver <= policy.limit
  /\ ~policy.mixed => policy.run = 0
  /\ policy.last = "prefill" => policy.run = 0

-------------------------------------------------------------------------------
(* Recording a scheduled phase keeps a policy a policy: its limit stays      *)
(* positive and its counter never goes below zero (record_scheduled).        *)
LEMMA RecordType ==
  ASSUME NEW pol \in Policies, NEW phase \in Phases \cup {NoPhase},
         NEW p \in BOOLEAN, NEW d \in BOOLEAN
  PROVE  /\ RecordScheduled(pol, phase, p, d) \in Policies
         /\ RecordScheduled(pol, phase, p, d).limit = pol.limit
<1>1. CASE phase = NoPhase \/ ~(p /\ d)
  BY <1>1 DEF Policies, Phases, NoPhase, RecordScheduled, ResetMixedState, NewPolicy
<1>2. CASE ~(phase = NoPhase \/ ~(p /\ d))
  <2> DEFINE run == IF phase = "decode" THEN pol.run + 1 ELSE 0
  <2>1. RecordScheduled(pol, phase, p, d)
          = [pol EXCEPT !.mixed = TRUE, !.last = phase, !.run = run]
    BY <1>2 DEF RecordScheduled
  <2>2. run \in Nat
    BY DEF Policies
  <2>3. QED  BY <2>1, <2>2 DEF Policies
<1>3. QED  BY <1>1, <1>2

(* Whatever the arbitration is asked, it answers with a phase or with none,   *)
(* and so does the batch that is built from its answer (choose).              *)
LEMMA PhaseType ==
  ASSUME NEW pol \in Policies, NEW p \in BOOLEAN, NEW d \in BOOLEAN, NEW r \in BOOLEAN
  PROVE  /\ Choose(pol, p, d) \in Phases \cup {NoPhase}
         /\ BuiltPhase(Choose(pol, p, d), d, r) \in Phases \cup {NoPhase}
<1>1. ResolveConflict(pol) \in Phases
  BY DEF Policies, Phases, ResolveConflict
<1>2. Choose(pol, p, d) \in Phases \cup {NoPhase}
  BY <1>1 DEF Choose, Phases, NoPhase
<1>3. BuiltPhase(Choose(pol, p, d), d, r) \in Phases \cup {NoPhase}
  BY <1>2 DEF BuiltPhase, Phases, NoPhase
<1>4. QED  BY <1>2, <1>3

(* The state variables of the arbitration keep their types.                  *)
THEOREM TypeCorrect == Spec => []TypeOK
<1>1. ASSUME Init PROVE TypeOK
  <2>1. PICK limit \in DecodeLimits, first \in Phases : policy = NewPolicy(limit, first)
    BY <1>1 DEF Init
  <2>2. policy \in Policies
    BY <2>1, ArbitrationAssumption DEF NewPolicy, Policies, Phases, NoPhase
  <2>3. QED  BY <1>1, <2>2 DEF Init, TypeOK, Calls, NoPhase
<1>2. TypeOK /\ [Next]_vars => TypeOK'
  <2> SUFFICES ASSUME TypeOK, [Next]_vars PROVE TypeOK'
    OBVIOUS
  <2>1. CASE UNCHANGED vars
    BY <2>1 DEF TypeOK, vars
  <2>2. CASE Next
    <3>1. PICK p \in BOOLEAN, d \in BOOLEAN, r \in BOOLEAN : ScheduleNextBatch(p, d, r)
      BY <2>2 DEF Next
    <3> DEFINE phase == BuiltPhase(Choose(policy, p, d), d, r)
    <3>2. phase \in Phases \cup {NoPhase}
      BY PhaseType DEF TypeOK
    <3>3. policy' \in Policies
      BY <3>1, <3>2, RecordType DEF TypeOK, ScheduleNextBatch
    <3>4. GrantedBudget(PrefillBudget, MixedPrefillBudget, d) \in Nat
      BY ArbitrationAssumption DEF GrantedBudget
    <3>5. call' \in Calls
      BY <3>1, <3>2, <3>4 DEF ScheduleNextBatch, Calls
    <3>6. passedOver' \in Nat /\ unprotected' \in Nat
      BY <3>1 DEF TypeOK, ScheduleNextBatch
    <3>7. QED  BY <3>3, <3>5, <3>6 DEF TypeOK
  <2>3. QED  BY <2>1, <2>2
<1>3. QED  BY <1>1, <1>2, PTL DEF Spec

(* A runnable prefill queue is passed over by at most max_consecutive_decode  *)
(* decode batches in a row, for every limit, every first_conflict and every   *)
(* sequence of queue states (phase_policy.choose, record_scheduled).          *)
THEOREM PrefillIsTriedInTime == Spec => []PrefillTriedInTime
<1>1. Init => RunCoversPassedOver
  BY ArbitrationAssumption DEF Init, RunCoversPassedOver, NewPolicy, NoPhase
<1>2. TypeOK /\ RunCoversPassedOver /\ [Next]_vars => RunCoversPassedOver'
  <2> SUFFICES ASSUME TypeOK, RunCoversPassedOver, [Next]_vars
               PROVE  RunCoversPassedOver'
    OBVIOUS
  <2>1. CASE UNCHANGED vars
    BY <2>1 DEF RunCoversPassedOver, vars
  <2>2. CASE Next
    <3>1. PICK p \in BOOLEAN, d \in BOOLEAN, r \in BOOLEAN : ScheduleNextBatch(p, d, r)
      BY <2>2 DEF Next
    <3> DEFINE choice == Choose(policy, p, d)
               phase  == BuiltPhase(choice, d, r)
    <3>2. policy \in Policies /\ passedOver \in Nat
      BY DEF TypeOK
    <3>3. /\ policy' = RecordScheduled(policy, phase, p, d)
          /\ passedOver' = IF p /\ choice = "decode" THEN passedOver + 1 ELSE 0
      BY <3>1 DEF ScheduleNextBatch
    <3>4. CASE p /\ choice = "decode"
      <4>1. d /\ ResolveConflict(policy) = "decode"
        BY <3>4 DEF Choose, NoPhase
      <4>2. phase = "decode"
        BY <3>4 DEF BuiltPhase
      <4>3. policy' = [policy EXCEPT !.mixed = TRUE, !.last = "decode",
                                     !.run = policy.run + 1]
        BY <3>3, <3>4, <4>1, <4>2 DEF RecordScheduled, NoPhase
      <4>4. policy.run = 0 \/ policy.run < policy.limit
        BY <3>2, <4>1 DEF RunCoversPassedOver, ResolveConflict, Policies
      <4>5. /\ policy'.mixed /\ policy'.last = "decode"
            /\ policy'.run = policy.run + 1 /\ policy'.limit = policy.limit
        BY <3>2, <4>3 DEF Policies
      <4>6. /\ passedOver' = passedOver + 1
            /\ policy.run \in Nat /\ policy.limit \in Nat \ {0}
        BY <3>2, <3>3, <3>4 DEF Policies
      <4>7. QED  BY <3>2, <4>4, <4>5, <4>6 DEF RunCoversPassedOver
    <3>5. CASE ~(p /\ choice = "decode")
      <4>1. policy' \in Policies
        BY <3>2, <3>3, PhaseType, RecordType
      <4>2. /\ ~policy'.mixed => policy'.run = 0
            /\ policy'.last = "prefill" => policy'.run = 0
        BY <3>2, <3>3 DEF RecordScheduled, ResetMixedState, NewPolicy, Policies, NoPhase
      <4>3. QED  BY <3>3, <3>5, <4>1, <4>2 DEF RunCoversPassedOver, Policies
    <3>6. QED  BY <3>4, <3>5
  <2>3. QED  BY <2>1, <2>2
<1>3. RunCoversPassedOver => PrefillTriedInTime
  BY DEF RunCoversPassedOver, PrefillTriedInTime
<1>4. QED  BY <1>1, <1>2, <1>3, TypeCorrect, PTL DEF Spec

(* Two prefill batches are never built one after the other while decode was   *)
(* runnable at both calls, for every limit and every sequence of queue states *)
(* ("Never allow two prefill forwards between protected decode slots").       *)
THEOREM DecodeIsProtected == Spec => []DecodeProtected
<1> DEFINE Protected == /\ unprotected <= 1
                        /\ unprotected = 1 => policy.mixed /\ policy.last = "prefill"
<1>1. Init => Protected
  BY DEF Init
<1>2. TypeOK /\ Protected /\ [Next]_vars => Protected'
  <2> SUFFICES ASSUME TypeOK, Protected, [Next]_vars PROVE Protected'
    OBVIOUS
  <2>1. CASE UNCHANGED vars
    BY <2>1 DEF vars
  <2>2. CASE Next
    <3>1. PICK p \in BOOLEAN, d \in BOOLEAN, r \in BOOLEAN : ScheduleNextBatch(p, d, r)
      BY <2>2 DEF Next
    <3> DEFINE choice == Choose(policy, p, d)
               phase  == BuiltPhase(choice, d, r)
    <3>2. /\ policy' = RecordScheduled(policy, phase, p, d)
          /\ unprotected' = IF d /\ phase = "prefill" THEN unprotected + 1 ELSE 0
          /\ r => p
      BY <3>1 DEF ScheduleNextBatch
    <3>3. policy \in Policies /\ unprotected \in Nat
      BY DEF TypeOK
    <3>4. CASE d /\ phase = "prefill"
      <4>1. choice = "prefill" /\ p
        BY <3>2, <3>4 DEF BuiltPhase, NoPhase
      <4>2. ResolveConflict(policy) = "prefill"
        BY <3>4, <4>1 DEF Choose, NoPhase
      <4>3. ~(policy.mixed /\ policy.last = "prefill")
        BY <4>2 DEF ResolveConflict
      <4>4. unprotected' = 1
        BY <3>2, <3>3, <3>4, <4>3
      <4>5. policy' = [policy EXCEPT !.mixed = TRUE, !.last = "prefill", !.run = 0]
        BY <3>2, <3>4, <4>1 DEF RecordScheduled, NoPhase
      <4>6. QED  BY <3>3, <4>4, <4>5 DEF Policies
    <3>5. CASE ~(d /\ phase = "prefill")
      BY <3>2, <3>5
    <3>6. QED  BY <3>4, <3>5
  <2>3. QED  BY <2>1, <2>2
<1>3. Protected => DecodeProtected
  BY DEF DecodeProtected
<1>4. QED  BY <1>1, <1>2, <1>3, TypeCorrect, PTL DEF Spec

(* No call comes back without a batch while decode was runnable or a pending  *)
(* request could be prefilled, and next to runnable decodes a prefill batch   *)
(* gets at most the mixed budget (_schedule_next_batch's fallbacks).          *)
THEOREM WorkIsConserved == Spec => []WorkConserving
<1>1. Init => WorkConserving
  BY DEF Init, WorkConserving, NoPhase
<1>2. TypeOK /\ WorkConserving /\ [Next]_vars => WorkConserving'
  <2> SUFFICES ASSUME TypeOK, WorkConserving, [Next]_vars PROVE WorkConserving'
    OBVIOUS
  <2>1. CASE UNCHANGED vars
    BY <2>1 DEF WorkConserving, vars
  <2>2. CASE Next
    <3>1. PICK p \in BOOLEAN, d \in BOOLEAN, r \in BOOLEAN : ScheduleNextBatch(p, d, r)
      BY <2>2 DEF Next
    <3> DEFINE choice == Choose(policy, p, d)
               phase  == BuiltPhase(choice, d, r)
    <3>2. /\ r => p
          /\ call'.phase = phase /\ call'.decodeRunnable = d /\ call'.ready = r
          /\ call'.budget = IF phase = "prefill"
                              THEN GrantedBudget(PrefillBudget, MixedPrefillBudget, d)
                              ELSE 0
      BY <3>1 DEF ScheduleNextBatch
    <3>3. ResolveConflict(policy) \in Phases
      BY DEF TypeOK, Policies, Phases, ResolveConflict
    <3>4. phase = NoPhase => ~d /\ ~r
      BY <3>2, <3>3 DEF Choose, BuiltPhase, Phases, NoPhase
    <3>5. d => GrantedBudget(PrefillBudget, MixedPrefillBudget, d) <= MixedPrefillBudget
      BY ArbitrationAssumption DEF GrantedBudget
    <3>6. QED  BY <3>2, <3>4, <3>5 DEF WorkConserving
  <2>3. QED  BY <2>1, <2>2
<1>3. QED  BY <1>1, <1>2, TypeCorrect, PTL DEF Spec

-------------------------------------------------------------------------------
(* The arbitration over a real prefill queue is the one over any queues: a    *)
(* call sees the queue through the flag that it is not empty, an arrival      *)
(* leaves the policy alone (_schedule_next_batch, PrefillManager.runnable).   *)
THEOREM TurnsArbitrate == TurnsSpec => Spec
<1>1. TurnsInit => Init
  BY DEF TurnsInit
<1>2. [TurnsNext]_turnVars => [Next]_vars
  <2> SUFFICES ASSUME [TurnsNext]_turnVars PROVE [Next]_vars
    OBVIOUS
  <2>1. CASE UNCHANGED turnVars
    BY <2>1 DEF turnVars
  <2>2. CASE \E r \in Requests : Arrives(r)
    BY <2>2 DEF Arrives
  <2>3. CASE \E decodeRunnable, ready \in BOOLEAN : Turn(decodeRunnable, ready)
    <3>1. PICK d \in BOOLEAN, ready \in BOOLEAN : ScheduleNextBatch(pendingList # <<>>, d, ready)
      BY <2>3 DEF Turn
    <3> DEFINE p == pendingList # <<>>
    <3>2. p \in BOOLEAN /\ ScheduleNextBatch(p, d, ready)
      BY <3>1
    <3> HIDE DEF p
    <3>3. QED  BY <3>2 DEF Next
  <2>4. QED  BY <2>1, <2>2, <2>3 DEF TurnsNext
<1>3. QED  BY <1>1, <1>2, PTL DEF TurnsSpec, Spec

(* Over the real queue: a queue with a pending request is passed over by at   *)
(* most max_consecutive_decode decode batches, no two prefill batches are     *)
(* built next to runnable decodes, and no call idles while it could run.      *)
THEOREM TurnsAreSound == TurnsSpec => [](PrefillTriedInTime /\ DecodeProtected /\ WorkConserving)
BY TurnsArbitrate, PrefillIsTriedInTime, DecodeIsProtected, WorkIsConserved, PTL

\* A transitive and irreflexive relation has a least element in a finite set.
LEMMA LeastOf ==
  ASSUME NEW S, IsFiniteSet(S), S # {}, NEW R,
         \A x \in S : <<x, x>> \notin R,
         \A x, y, z \in S : <<x, y>> \in R /\ <<y, z>> \in R => <<x, z>> \in R
  PROVE  \E m \in S : \A y \in S : <<y, m>> \notin R
<1> DEFINE Under(m) == {x \in S : <<x, m>> \in R}
           T == {Under(m) : m \in S}
<1>1. FiniteSubsetsOf(S) = SUBSET S
  BY FS_FiniteSubsetsOfFinite
<1>2. T \subseteq FiniteSubsetsOf(S) /\ T # {}
  <2>1. \A m \in S : Under(m) \in SUBSET S
    OBVIOUS
  <2> HIDE DEF Under
  <2>2. T \subseteq SUBSET S /\ T # {}
    BY <2>1
  <2>3. QED
    BY <1>1, <2>2
<1>3. PICK D \in T : \A U \in T : <<U, D>> \notin StrictSubsetOrdering(S)
  <2>1. IsWellFoundedOn(StrictSubsetOrdering(S), FiniteSubsetsOf(S))
    BY FS_StrictSubsetOrderingWellFounded
  <2>2. QED
    BY <1>2, <2>1, WFMin, Zenon
<1>4. PICK m \in S : D = Under(m)
  BY <1>3
<1>5. ASSUME NEW y \in S, <<y, m>> \in R PROVE FALSE
  <2>1. Under(y) \subseteq Under(m) /\ y \in Under(m) /\ y \notin Under(y)
    BY <1>5
  <2>2. Under(y) # Under(m)
    BY <2>1
  <2>3. <<Under(y), D>> \in StrictSubsetOrdering(S)
    BY <2>1, <2>2, <1>4 DEF StrictSubsetOrdering
  <2>4. Under(y) \in T
    BY <1>5
  <2>5. QED
    BY <1>3, <2>3, <2>4
<1>6. QED
  BY <1>5

(* Induction up to n, over a set instead of a formula. *)
LEMMA UpTo ==
  ASSUME NEW n \in Nat, NEW S, 0 \in S, \A k \in 0 .. n - 1 : k \in S => k + 1 \in S
  PROVE  0 .. n \subseteq S
<1> DEFINE Bad == (0 .. n) \ S
           R == {p \in Bad \X Bad : p[1] < p[2]}
<1>1. SUFFICES ASSUME Bad # {} PROVE FALSE
  BY DEF Bad
<1>2. IsFiniteSet(Bad)
  <2>1. IsFiniteSet(0 .. n)
    BY FS_Interval
  <2>2. Bad \in SUBSET (0 .. n)
    OBVIOUS
  <2> HIDE DEF Bad
  <2>3. QED  BY <2>1, <2>2, FS_Subset
<1>3. /\ \A x \in Bad : <<x, x>> \notin R
      /\ \A x, y, z \in Bad : <<x, y>> \in R /\ <<y, z>> \in R => <<x, z>> \in R
  OBVIOUS
<1>4. PICK m \in Bad : \A y \in Bad : <<y, m>> \notin R
  <2> HIDE DEF Bad, R
  <2>1. QED  BY <1>1, <1>2, <1>3, LeastOf
<1>5. m \in 1 .. n
  OBVIOUS
<1>6. m - 1 \in S
  <2>1. m - 1 \in 0 .. n /\ m - 1 < m
    BY <1>5
  <2>2. m - 1 \notin Bad
    BY <1>4, <2>1
  <2>3. QED  BY <2>1, <2>2
<1>7. QED  BY <1>5, <1>6

(* A loop of N passes over states V, where pass k makes F[k][v] of v: g follows *)
(* it from v0 for as long as it stays in V.                                     *)
Follows(g, N, V, v0, F) ==
  /\ g = [k \in 0 .. N |-> g[k]]
  /\ g[0] = v0
  /\ \A k \in 1 .. N : g[k-1] \in V => g[k] = F[k][g[k-1]]

\* The states of such a loop, which are the only ones that follow it.
Outcome(f, N, V, v0, F) ==
  /\ f \in [0 .. N -> V]
  /\ f[0] = v0
  /\ \A k \in 1 .. N : f[k] = F[k][f[k-1]]
  /\ \A g : Follows(g, N, V, v0, F) => g = f

\* Such a loop has one outcome, whichever function its definition chooses.
LEMMA Loop ==
  ASSUME NEW N \in Nat, NEW V, NEW v0 \in V, NEW F \in [1 .. N -> [V -> V]]
  PROVE  \E f : Outcome(f, N, V, v0, F)
<1> DEFINE Good(f, n) == /\ f \in [0 .. n -> V]
                         /\ f[0] = v0
                         /\ \A k \in 1 .. n : f[k] = F[k][f[k-1]]
           S == {n \in 0 .. N : \E f : Good(f, n)}
<1>1. 0 \in S
  <2>1. Good([k \in 0 .. 0 |-> v0], 0)
    OBVIOUS
  <2>2. 0 \in 0 .. N
    OBVIOUS
  <2> HIDE DEF Good
  <2>3. QED  BY <2>1, <2>2
<1>2. ASSUME NEW n \in 0 .. N - 1, n \in S PROVE n + 1 \in S
  <2>1. PICK f : Good(f, n)
    BY <1>2
  <2> DEFINE g == [k \in 0 .. n + 1 |-> IF k = n + 1 THEN F[n + 1][f[n]] ELSE f[k]]
  <2>2. n \in Nat /\ n + 1 \in 1 .. N /\ f[n] \in V /\ f[0] = v0
    BY <2>1
  <2>3. F[n + 1][f[n]] \in V
    BY <2>2
  <2>4. g \in [0 .. n + 1 -> V]
    BY <2>1, <2>2, <2>3
  <2>5. g[0] = v0 /\ g[n + 1] = F[n + 1][g[n]]
    BY <2>2
  <2>6. \A k \in 1 .. n : g[k] = F[k][g[k-1]]
    BY <2>1, <2>2
  <2>7. Good(g, n + 1)
    <3>1. \A k \in 1 .. n + 1 : k = n + 1 \/ k \in 1 .. n
      BY <2>2
    <3>2. n + 1 - 1 = n
      BY <2>2
    <3> HIDE DEF g
    <3>3. QED  BY <2>4, <2>5, <2>6, <3>1, <3>2
  <2> HIDE DEF Good, g
  <2>8. QED  BY <2>2, <2>7
<1>3. N \in S
  <2> HIDE DEF S
  <2>1. 0 .. N \subseteq S
    BY <1>1, <1>2, UpTo
  <2>2. QED  BY <2>1
<1>4. PICK f : Good(f, N)
  BY <1>3
<1>5. ASSUME NEW g, Follows(g, N, V, v0, F) PROVE g = f
  <2> DEFINE T == {k \in 0 .. N : g[k] = f[k]}
  <2>0. /\ g = [k \in 0 .. N |-> g[k]] /\ g[0] = v0
        /\ \A k \in 1 .. N : g[k-1] \in V => g[k] = F[k][g[k-1]]
    BY <1>5 DEF Follows
  <2>1. 0 \in T
    BY <1>4, <2>0
  <2>2. ASSUME NEW k \in 0 .. N - 1, k \in T PROVE k + 1 \in T
    <3>1. k + 1 \in 1 .. N /\ k + 1 - 1 = k /\ f[k] \in V /\ g[k] = f[k]
      BY <2>2, <1>4
    <3>2. f[k + 1] = F[k + 1][f[k]]
      BY <3>1, <1>4
    <3>3. g[k + 1] = F[k + 1][g[k]]
      BY <3>1, <2>0, SMTT(30)
    <3>4. QED  BY <3>1, <3>2, <3>3
  <2>3. 0 .. N \subseteq T
    <3> HIDE DEF T
    <3>1. QED  BY <2>1, <2>2, UpTo
  <2>4. \A k \in 0 .. N : g[k] = f[k]
    BY <2>3
  <2>5. f = [k \in 0 .. N |-> f[k]]
    BY <1>4
  <2>6. QED  BY <2>4, <2>5, <2>0
<1>6. QED
  <2>1. f \in [0 .. N -> V] /\ f[0] = v0 /\ \A k \in 1 .. N : f[k] = F[k][f[k-1]]
    BY <1>4
  <2>2. Outcome(f, N, V, v0, F)
    BY <1>5, <2>1 DEF Outcome
  <2>3. QED  BY <2>2

-------------------------------------------------------------------------------
(* Sums. *)

\* p gives the sums of the first elements of f.
Sums(f, n, p) == /\ p \in [0 .. n -> Nat]
                 /\ p[0] = 0
                 /\ \A i \in 1 .. n : p[i] = p[i-1] + f[i]

\* The total of a sequence is the last of its partial sums.
LEMMA TotalIs ==
  ASSUME NEW n \in Nat, NEW f \in [1 .. n -> Nat], Len(f) = n
  PROVE  \E p : Sums(f, n, p) /\ TotalOf(f) = p[n]
<1> DEFINE F == [k \in 1 .. n |-> [v \in Nat |-> v + f[k]]]
           Step(g) == [i \in 0 .. n |-> IF i = 0 THEN 0 ELSE g[i-1] + f[i]]
           h == CHOOSE g : g = Step(g)
<1>1. F \in [1 .. n -> [Nat -> Nat]]
  OBVIOUS
<1>2. \A k \in 1 .. n, v \in Nat : F[k][v] = v + f[k]
  OBVIOUS
<1> HIDE DEF F
<1>3. PICK p : Outcome(p, n, Nat, 0, F)
  <2>1. 0 \in Nat
    OBVIOUS
  <2>2. QED  BY <1>1, <2>1, Loop, Zenon
<1>11. p \in [0 .. n -> Nat] /\ p[0] = 0 /\ \A k \in 1 .. n : p[k] = F[k][p[k-1]]
  BY <1>3 DEF Outcome
<1>4. \A k \in 1 .. n : k - 1 \in 0 .. n /\ p[k-1] \in Nat /\ p[k] = p[k-1] + f[k]
  <2> TAKE k \in 1 .. n
  <2>1. k - 1 \in 0 .. n /\ p[k-1] \in Nat
    BY <1>11
  <2>2. QED  BY <2>1, <1>2, <1>11
<1>5. p = Step(p)
  <2>1. p = [k \in 0 .. n |-> p[k]]
    BY <1>11
  <2>2. \A k \in 0 .. n : k = 0 \/ k \in 1 .. n
    OBVIOUS
  <2>3. \A k \in 0 .. n : p[k] = IF k = 0 THEN 0 ELSE p[k-1] + f[k]
    BY <1>11, <1>4, <2>2
  <2>4. QED  BY <2>1, <2>3
<1>6. h = Step(h)
  <2> HIDE DEF Step
  <2>1. QED  BY <1>5
<1>8. TotalOf(f) = h[n]
  BY DEF TotalOf
<1> HIDE DEF h
<1>7. h = p
  <2>1. h = [k \in 0 .. n |-> h[k]] /\ h[0] = 0
    BY <1>6
  <2>2. ASSUME NEW k \in 1 .. n, h[k-1] \in Nat PROVE h[k] = F[k][h[k-1]]
    <3>1. h[k] = h[k-1] + f[k]
      BY <1>6
    <3>2. QED  BY <3>1, <2>2, <1>2
  <2>3. Follows(h, n, Nat, 0, F)
    BY <2>1, <2>2 DEF Follows
  <2>4. QED  BY <2>3, <1>3 DEF Outcome
<1>9. Sums(f, n, p)
  BY <1>11, <1>4 DEF Sums
<1>10. QED  BY <1>7, <1>8, <1>9

(* A function on 1 .. n is a sequence of length n. *)
LEMMA LenOf ==
  ASSUME NEW n \in Nat, NEW S, NEW f \in [1 .. n -> S]
  PROVE  Len(f) = n
OBVIOUS

\* Granting t more to one of them adds t to the total.
LEMMA TotalOfGrant ==
  ASSUME NEW n \in Nat, NEW f \in [1 .. n -> Nat], NEW i \in 1 .. n, NEW t \in Nat,
         NEW g \in [1 .. n -> Nat], g[i] = f[i] + t, \A j \in 1 .. n : j # i => g[j] = f[j]
  PROVE  TotalOf(g) = TotalOf(f) + t
<1>1. PICK p : Sums(f, n, p) /\ TotalOf(f) = p[n]
  BY LenOf, TotalIs
<1>2. PICK q : Sums(g, n, q) /\ TotalOf(g) = q[n]
  BY LenOf, TotalIs
<1> DEFINE T == {k \in 0 .. n : q[k] = IF i <= k THEN p[k] + t ELSE p[k]}
<1>3. 0 \in T
  BY <1>1, <1>2 DEF Sums
<1>4. ASSUME NEW k \in 0 .. n - 1, k \in T PROVE k + 1 \in T
  <2>1. k + 1 \in 1 .. n /\ (k + 1) - 1 = k /\ k \in 0 .. n
    OBVIOUS
  <2>2. p[k + 1] = p[k] + f[k + 1] /\ q[k + 1] = q[k] + g[k + 1] /\ p[k] \in Nat /\ q[k] \in Nat
    BY <2>1, <1>1, <1>2 DEF Sums
  <2>3. f[k + 1] \in Nat /\ g[k + 1] = IF k + 1 = i THEN f[k + 1] + t ELSE f[k + 1]
    BY <2>1
  <2>4. q[k] = IF i <= k THEN p[k] + t ELSE p[k]
    BY <1>4
  <2>5. q[k + 1] = IF i <= k + 1 THEN p[k + 1] + t ELSE p[k + 1]
    <3>1. CASE i <= k
      BY <3>1, <2>1, <2>2, <2>3, <2>4, SMTT(30)
    <3>2. CASE i = k + 1
      BY <3>2, <2>1, <2>2, <2>3, <2>4
    <3>3. CASE i > k + 1
      BY <3>3, <2>1, <2>2, <2>3, <2>4
    <3>4. QED  BY <3>1, <3>2, <3>3
  <2>6. QED  BY <2>1, <2>5
<1>5. 0 .. n \subseteq T
  <2> HIDE DEF T
  <2>1. QED  BY <1>3, <1>4, UpTo
<1>6. QED  BY <1>1, <1>2, <1>5

\* Nothing granted is nothing in total.
LEMMA TotalOfNothing ==
  ASSUME NEW n \in Nat
  PROVE  TotalOf([j \in 1 .. n |-> 0]) = 0
<1> DEFINE f == [j \in 1 .. n |-> 0]
<1>1. f \in [1 .. n -> Nat] /\ \A j \in 1 .. n : f[j] = 0
  OBVIOUS
<1> HIDE DEF f
<1>2. PICK p : Sums(f, n, p) /\ TotalOf(f) = p[n]
  BY <1>1, LenOf, TotalIs
<1> DEFINE T == {k \in 0 .. n : p[k] = 0}
<1>3. 0 \in T
  BY <1>2 DEF Sums
<1>4. ASSUME NEW k \in 0 .. n - 1, k \in T PROVE k + 1 \in T
  <2>1. k + 1 \in 1 .. n /\ (k + 1) - 1 = k
    OBVIOUS
  <2>2. p[k + 1] = p[k] + f[k + 1] /\ p[k] = 0 /\ f[k + 1] = 0
    BY <2>1, <1>1, <1>2, <1>4 DEF Sums
  <2>3. QED  BY <2>1, <2>2
<1>5. 0 .. n \subseteq T
  <2> HIDE DEF T
  <2>1. QED  BY <1>3, <1>4, UpTo
<1>6. p[n] = 0
  BY <1>5
<1>7. QED  BY <1>2, <1>6 DEF f

\* One more element adds itself.
LEMMA TotalOfLonger ==
  ASSUME NEW n \in Nat, NEW f \in [1 .. n -> Nat], NEW g \in [1 .. n + 1 -> Nat],
         \A j \in 1 .. n : g[j] = f[j]
  PROVE  TotalOf(g) = TotalOf(f) + g[n + 1]
<1>1. PICK p : Sums(f, n, p) /\ TotalOf(f) = p[n]
  BY LenOf, TotalIs
<1>2. PICK q : Sums(g, n + 1, q) /\ TotalOf(g) = q[n + 1]
  <2>1. n + 1 \in Nat
    OBVIOUS
  <2>2. QED  BY <2>1, LenOf, TotalIs
<1> DEFINE T == {k \in 0 .. n : q[k] = p[k]}
<1>3. 0 \in T
  BY <1>1, <1>2 DEF Sums
<1>4. ASSUME NEW k \in 0 .. n - 1, k \in T PROVE k + 1 \in T
  <2>1. k + 1 \in 1 .. n /\ k + 1 \in 1 .. n + 1 /\ (k + 1) - 1 = k
    OBVIOUS
  <2>2. p[k + 1] = p[k] + f[k + 1] /\ q[k + 1] = q[k] + g[k + 1] /\ g[k + 1] = f[k + 1]
    BY <2>1, <1>1, <1>2 DEF Sums
  <2>3. QED  BY <2>1, <2>2, <1>4
<1>5. 0 .. n \subseteq T
  <2> HIDE DEF T
  <2>1. QED  BY <1>3, <1>4, UpTo
<1>6. q[n] = p[n]
  BY <1>5
<1>7. n + 1 \in 1 .. n + 1 /\ (n + 1) - 1 = n
  OBVIOUS
<1>8. q[n + 1] = q[n] + g[n + 1]
  BY <1>2, <1>7 DEF Sums
<1>9. QED  BY <1>1, <1>2, <1>6, <1>8

-------------------------------------------------------------------------------
(* One division. *)

\* Grants to n requests, and what is left of the budget; nobody is granted more
\* than it needs.
Grants(n) == [alloc : [1 .. n -> Nat], left : Nat]
Divisions(n, rem) == {d \in Grants(n) : \A i \in 1 .. n : d.alloc[i] <= rem[i]}

\* What becomes of d when t more go to i.
Granted(n, d, i, t, e) ==
  /\ e \in Grants(n)
  /\ e.left = d.left - t
  /\ e.alloc[i] = d.alloc[i] + t
  /\ \A j \in 1 .. n : j # i => e.alloc[j] = d.alloc[j]
  /\ TotalOf(e.alloc) + e.left = TotalOf(d.alloc) + d.left
  /\ t = 0 => e = d

\* What Grant does: it moves t tokens from what is left to i.
LEMMA GrantIs ==
  ASSUME NEW n \in Nat, NEW d \in Grants(n), NEW i \in 1 .. n, NEW t \in Nat, t <= d.left,
         NEW e, e = Grant(d, i, t)
  PROVE  Granted(n, d, i, t, e)
<1>1. d \in [alloc : [1 .. n -> Nat], left : Nat]
  BY DEF Grants
<1>2. d.alloc \in [1 .. n -> Nat] /\ d.left \in Nat
  BY <1>1
<1>3. e.left = d.left - t /\ e.alloc = [d.alloc EXCEPT ![i] = @ + t]
  BY DEF Grant
<1>4. e.alloc[i] = d.alloc[i] + t /\ \A j \in 1 .. n : j # i => e.alloc[j] = d.alloc[j]
  BY <1>2, <1>3
<1>5. e.alloc \in [1 .. n -> Nat] /\ e.left \in Nat
  BY <1>2, <1>3
<1>6. e \in [alloc : [1 .. n -> Nat], left : Nat]
  BY <1>5 DEF Grant
<1>8. TotalOf(e.alloc) = TotalOf(d.alloc) + t
  BY <1>2, <1>4, <1>5, TotalOfGrant, ZenonT(40)
<1>9. TotalOf(d.alloc) \in Nat
  <2>1. PICK p : Sums(d.alloc, n, p) /\ TotalOf(d.alloc) = p[n]
    BY <1>2, LenOf, TotalIs
  <2>2. QED  BY <2>1 DEF Sums
<1>10. TotalOf(e.alloc) + e.left = TotalOf(d.alloc) + d.left
  BY <1>3, <1>2, <1>8, <1>9
<1>11. t = 0 => e = d
  <2> HAVE t = 0
  <2>1. \A j \in 1 .. n : e.alloc[j] = d.alloc[j]
    BY <1>2, <1>4
  <2>5. e.alloc = [j \in 1 .. n |-> e.alloc[j]] /\ d.alloc = [j \in 1 .. n |-> d.alloc[j]]
    BY <1>2, <1>5
  <2>2. e.alloc = d.alloc
    BY <2>1, <2>5
  <2>3. e.left = d.left
    BY <1>3, <1>2
  <2>4. QED  BY <1>1, <1>6, <2>2, <2>3
<1>12. e \in Grants(n)
  BY <1>6 DEF Grants
<1>13. QED  BY <1>3, <1>4, <1>10, <1>11, <1>12 DEF Granted

-------------------------------------------------------------------------------
(* The first shares. *)

\* The divisions the loop of the first shares goes through.
SharesOf(s, n, rem, B, Q) ==
  /\ s \in [0 .. n -> Grants(n)]
  /\ s[0] = [alloc |-> [j \in 1 .. n |-> 0], left |-> B]
  /\ \A k \in 1 .. n :
       s[k] = Grant(s[k-1], k, Lesser(Lesser(rem[k], Q), s[k-1].left))

\* The loop of the first shares, as a sequence of divisions.
LEMMA FirstSharesAre ==
  ASSUME NEW n \in Nat, NEW rem \in [1 .. n -> Nat], NEW B \in Nat, NEW Q \in Nat
  PROVE  \E s : SharesOf(s, n, rem, B, Q) /\ FirstShares(B, Q, rem) = s[n]
<1> DEFINE V == Grants(n)
           v0 == [alloc |-> [j \in 1 .. n |-> 0], left |-> B]
           Pass(k, v) == Grant(v, k, Lesser(Lesser(rem[k], Q), v.left))
           F == [k \in 1 .. n |-> [v \in V |-> Pass(k, v)]]
           Step(g) == [k \in 0 .. n |-> IF k = 0 THEN v0 ELSE Pass(k, g[k-1])]
           h == CHOOSE g : g = Step(g)
<1>0. Len(rem) = n
  BY LenOf
<1>1. v0 \in V
  BY DEF Grants
<1>2. ASSUME NEW k \in 1 .. n, NEW v \in V PROVE Pass(k, v) \in V
  <2>1. rem[k] \in Nat /\ v.left \in Nat
    BY DEF Grants
  <2>2. Lesser(Lesser(rem[k], Q), v.left) \in Nat /\ Lesser(Lesser(rem[k], Q), v.left) <= v.left
    BY <2>1 DEF Lesser
  <2>3. QED  BY <2>2, GrantIs DEF Granted
<1>3. FirstShares(B, Q, rem) = h[n]
  BY <1>0 DEF FirstShares
<1> HIDE DEF v0, Pass, V
<1>4. F \in [1 .. n -> [V -> V]] /\ \A k \in 1 .. n, v \in V : F[k][v] = Pass(k, v)
  BY <1>2
<1> HIDE DEF F
<1>5. PICK s : Outcome(s, n, V, v0, F)
  BY <1>1, <1>4, Loop, Zenon
<1>6. /\ s \in [0 .. n -> V] /\ s[0] = v0
      /\ \A k \in 1 .. n : s[k-1] \in V /\ s[k] = Pass(k, s[k-1])
  <2>1. s \in [0 .. n -> V] /\ s[0] = v0 /\ \A k \in 1 .. n : s[k] = F[k][s[k-1]]
    BY <1>5 DEF Outcome
  <2>2. \A k \in 1 .. n : k - 1 \in 0 .. n
    OBVIOUS
  <2>3. QED  BY <2>1, <2>2, <1>4
<1>7. s = Step(s)
  <2>1. \A k \in 0 .. n : k = 0 \/ k \in 1 .. n
    OBVIOUS
  <2>2. s = [k \in 0 .. n |-> s[k]]
    BY <1>6
  <2>3. \A k \in 0 .. n : s[k] = IF k = 0 THEN v0 ELSE Pass(k, s[k-1])
    BY <1>6, <2>1
  <2>4. QED  BY <2>2, <2>3
<1>8. h = Step(h)
  <2> HIDE DEF Step
  <2>1. QED  BY <1>7
<1> HIDE DEF h
<1>9. h = s
  <2>1. h = [k \in 0 .. n |-> h[k]] /\ h[0] = v0 /\ \A k \in 1 .. n : h[k] = Pass(k, h[k-1])
    BY <1>8
  <2>2. Follows(h, n, V, v0, F)
    BY <2>1, <1>4 DEF Follows
  <2>3. QED  BY <2>2, <1>5 DEF Outcome
<1>10. SharesOf(s, n, rem, B, Q)
  BY <1>6 DEF SharesOf, V, v0, Pass
<1>11. QED  BY <1>3, <1>9, <1>10

\* What each of them wants at first, and all of them.
Firsts(n, rem, Q) == [i \in 1 .. n |-> Lesser(rem[i], Q)]

(* The first shares are a division of the budget; where all first shares fit  *)
(* into it, everyone gets its own, and the first request always gets its own   *)
(* or all there is.                                                           *)
SharedOut(n, rem, Q, B, d) ==
  /\ d \in Divisions(n, rem)
  /\ TotalOf(d.alloc) + d.left = B
  /\ TotalOf(Firsts(n, rem, Q)) <= B => \A i \in 1 .. n : d.alloc[i] = Lesser(rem[i], Q)
  /\ n > 0 => d.alloc[1] = Lesser(Lesser(rem[1], Q), B)

LEMMA FirstSharesDivide ==
  ASSUME NEW n \in Nat, NEW rem \in [1 .. n -> Nat], NEW B \in Nat, NEW Q \in Nat,
         NEW d, d = FirstShares(B, Q, rem)
  PROVE  SharedOut(n, rem, Q, B, d)
<1>0. PICK s : SharesOf(s, n, rem, B, Q) /\ d = s[n]
  BY FirstSharesAre
<1>1. /\ s \in [0 .. n -> Grants(n)]
      /\ s[0] = [alloc |-> [j \in 1 .. n |-> 0], left |-> B]
      /\ \A k \in 1 .. n :
           s[k] = Grant(s[k-1], k, Lesser(Lesser(rem[k], Q), s[k-1].left))
      /\ d = s[n]
  BY <1>0 DEF SharesOf
<1> DEFINE want == Firsts(n, rem, Q)
<1>2. want \in [1 .. n -> Nat] /\ \A i \in 1 .. n : want[i] = Lesser(rem[i], Q) /\ want[i] <= rem[i]
  BY DEF Firsts, Lesser
<1> HIDE DEF want
<1>3. PICK p : Sums(want, n, p) /\ TotalOf(want) = p[n]
  BY <1>2, LenOf, TotalIs
<1>4. \A k \in 0 .. n : s[k].alloc \in [1 .. n -> Nat] /\ s[k].left \in Nat
  BY <1>1 DEF Grants
<1>5. ASSUME NEW k \in 1 .. n
      PROVE  /\ k - 1 \in 0 .. n
             /\ s[k].left = s[k-1].left - Lesser(want[k], s[k-1].left)
             /\ s[k].alloc[k] = s[k-1].alloc[k] + Lesser(want[k], s[k-1].left)
             /\ \A j \in 1 .. n : j # k => s[k].alloc[j] = s[k-1].alloc[j]
             /\ TotalOf(s[k].alloc) + s[k].left = TotalOf(s[k-1].alloc) + s[k-1].left
  <2>1. k - 1 \in 0 .. n /\ s[k-1] \in Grants(n) /\ s[k-1].left \in Nat
    BY <1>1, <1>4
  <2>2. s[k] = Grant(s[k-1], k, Lesser(want[k], s[k-1].left))
    BY <1>1, <1>2
  <2>3. Lesser(want[k], s[k-1].left) \in Nat /\ Lesser(want[k], s[k-1].left) <= s[k-1].left
    BY <2>1, <1>2 DEF Lesser
  <2> DEFINE t == Lesser(want[k], s[k-1].left)
  <2> HIDE DEF want, t
  <2>4. Granted(n, s[k-1], k, t, s[k])
    BY <2>1, <2>2, <2>3, GrantIs DEF t
  <2>5. QED  BY <2>1, <2>4 DEF Granted, t
<1> DEFINE T == {k \in 0 .. n :
                   /\ TotalOf(s[k].alloc) + s[k].left = B
                   /\ \A j \in 1 .. n : /\ s[k].alloc[j] <= rem[j]
                                        /\ j > k => s[k].alloc[j] = 0}
           U == {k \in 0 .. n : /\ s[k].left + p[k] = B
                                /\ \A j \in 1 .. n : j <= k => s[k].alloc[j] = want[j]}
<1>6. 0 .. n \subseteq T
  <2>1. 0 \in T
    <3>1. s[0].left = B /\ s[0].alloc = [j \in 1 .. n |-> 0]
      BY <1>1
    <3>2. TotalOf(s[0].alloc) + s[0].left = B
      BY <3>1, TotalOfNothing
    <3>3. QED  BY <3>1, <3>2
  <2>2. ASSUME NEW k \in 0 .. n - 1, k \in T PROVE k + 1 \in T
    <3>1. k + 1 \in 1 .. n /\ k + 1 \in 0 .. n /\ (k + 1) - 1 = k /\ k \in 0 .. n
      OBVIOUS
    <3>2. /\ s[k+1].alloc[k+1] = s[k].alloc[k+1] + Lesser(want[k+1], s[k].left)
          /\ \A j \in 1 .. n : j # k + 1 => s[k+1].alloc[j] = s[k].alloc[j]
          /\ TotalOf(s[k+1].alloc) + s[k+1].left = TotalOf(s[k].alloc) + s[k].left
      BY <3>1, <1>5
    <3>3. s[k].alloc[k+1] = 0 /\ \A j \in 1 .. n : s[k].alloc[j] <= rem[j]
      BY <2>2, <3>1
    <3>4. Lesser(want[k+1], s[k].left) <= rem[k+1]
      BY <3>1, <1>2, <1>4 DEF Lesser
    <3>9. Lesser(want[k+1], s[k].left) \in Nat
      BY <3>1, <1>2, <1>4 DEF Lesser
    <3>10. s[k+1].alloc[k+1] <= rem[k+1]
      BY <3>2, <3>3, <3>4, <3>9
    <3>5. ASSUME NEW j \in 1 .. n PROVE s[k+1].alloc[j] <= rem[j]
      <4>1. j = k + 1 \/ s[k+1].alloc[j] = s[k].alloc[j]
        BY <3>2
      <4>2. QED  BY <4>1, <3>10, <3>3
    <3>6. ASSUME NEW j \in 1 .. n, j > k + 1 PROVE s[k+1].alloc[j] = 0
      <4>1. j # k + 1 /\ j > k
        BY <3>6, <3>1
      <4>2. s[k].alloc[j] = 0
        BY <4>1, <2>2
      <4>3. s[k+1].alloc[j] = s[k].alloc[j]
        BY <4>1, <3>2
      <4>4. QED  BY <4>2, <4>3
    <3>7. TotalOf(s[k+1].alloc) + s[k+1].left = B
      BY <3>2, <2>2
    <3>8. QED  BY <3>1, <3>5, <3>6, <3>7
  <2> HIDE DEF T
  <2>3. QED  BY <2>1, <2>2, UpTo
<1>7. ASSUME TotalOf(want) <= B PROVE 0 .. n \subseteq U
  <2>0. \A k \in 0 .. n : p[k] <= p[n]
    <3> SUFFICES ASSUME NEW k \in 0 .. n PROVE p[k] <= p[n]
      OBVIOUS
    <3> DEFINE W == {m \in 0 .. n : k <= m => p[k] <= p[m]}
    <3>1. 0 \in W
      BY <1>3 DEF Sums
    <3>2. ASSUME NEW m \in 0 .. n - 1, m \in W PROVE m + 1 \in W
      <4>1. m + 1 \in 1 .. n /\ (m + 1) - 1 = m /\ m \in 0 .. n
        OBVIOUS
      <4>2. p[m + 1] = p[m] + want[m + 1] /\ p[m] \in Nat /\ want[m + 1] \in Nat /\ p[k] \in Nat
        BY <4>1, <1>2, <1>3 DEF Sums
      <4>3. k <= m => p[k] <= p[m]
        BY <3>2
      <4>4. k <= m + 1 => p[k] <= p[m + 1]
        BY <4>2, <4>3, <4>1
      <4>5. QED  BY <4>1, <4>4
    <3>3. 0 .. n \subseteq W
      <4> HIDE DEF W
      <4>1. QED  BY <3>1, <3>2, UpTo
    <3>4. n \in W
      BY <3>3
    <3>5. QED  BY <3>4
  <2>1. 0 \in U
    <3>1. s[0].left = B /\ p[0] = 0
      BY <1>1, <1>3 DEF Sums
    <3>2. QED  BY <3>1
  <2>2. ASSUME NEW k \in 0 .. n - 1, k \in U PROVE k + 1 \in U
    <3>1. k + 1 \in 1 .. n /\ k + 1 \in 0 .. n /\ (k + 1) - 1 = k /\ k \in 0 .. n
      OBVIOUS
    <3>2. /\ s[k+1].left = s[k].left - Lesser(want[k+1], s[k].left)
          /\ s[k+1].alloc[k+1] = s[k].alloc[k+1] + Lesser(want[k+1], s[k].left)
          /\ \A j \in 1 .. n : j # k + 1 => s[k+1].alloc[j] = s[k].alloc[j]
      BY <3>1, <1>5
    <3>3. /\ p[k + 1] = p[k] + want[k + 1] /\ p[k] \in Nat /\ want[k + 1] \in Nat /\ p[n] \in Nat
          /\ p[k + 1] <= p[n]
      BY <3>1, <1>2, <1>3, <2>0 DEF Sums
    <3>4. s[k].left + p[k] = B /\ s[k].left \in Nat
      BY <2>2, <1>4, <3>1
    <3>5. Lesser(want[k+1], s[k].left) = want[k+1]
      BY <3>3, <3>4, <1>7, <1>3 DEF Lesser
    <3>6. s[k].alloc[k+1] = 0
      <4>1. k \in T
        BY <1>6, <3>1
      <4>2. QED  BY <4>1, <3>1
    <3>7. s[k+1].left + p[k + 1] = B
      BY <3>2, <3>3, <3>4, <3>5, SMTT(30)
    <3>8. \A j \in 1 .. n : j <= k => s[k].alloc[j] = want[j]
      BY <2>2
    <3>9. s[k+1].alloc[k+1] = want[k+1]
      BY <3>2, <3>3, <3>5, <3>6
    <3>10. ASSUME NEW j \in 1 .. n, j <= k + 1 PROVE s[k+1].alloc[j] = want[j]
      <4>1. j = k + 1 \/ (j # k + 1 /\ j <= k)
        BY <3>10, <3>1
      <4>2. CASE j = k + 1
        BY <4>2, <3>9
      <4>3. CASE j # k + 1 /\ j <= k
        <5>1. s[k+1].alloc[j] = s[k].alloc[j]
          BY <4>3, <3>2
        <5>2. QED  BY <5>1, <4>3, <3>8
      <4>4. QED  BY <4>1, <4>2, <4>3
    <3>11. QED  BY <3>1, <3>7, <3>10
  <2> HIDE DEF U
  <2>3. QED  BY <2>1, <2>2, UpTo
<1>8. n \in 0 .. n
  OBVIOUS
<1> DEFINE V == {k \in 0 .. n : k >= 1 => s[k].alloc[1] = Lesser(want[1], B)}
<1>12. 0 .. n \subseteq V
  <2>1. 0 \in V
    OBVIOUS
  <2>2. ASSUME NEW k \in 0 .. n - 1, k \in V PROVE k + 1 \in V
    <3>1. k + 1 \in 1 .. n /\ k + 1 \in 0 .. n /\ (k + 1) - 1 = k /\ k \in 0 .. n /\ 1 \in 1 .. n
      OBVIOUS
    <3>2. CASE k = 0
      <4>1. s[1].alloc[1] = s[0].alloc[1] + Lesser(want[1], s[0].left)
        BY <3>1, <3>2, <1>5
      <4>2. s[0].alloc[1] = 0 /\ s[0].left = B
        BY <1>1, <3>1
      <4>3. Lesser(want[1], B) \in Nat
        BY <1>2, <3>1 DEF Lesser
      <4>4. s[1].alloc[1] = Lesser(want[1], B)
        BY <4>1, <4>2, <4>3
      <4>5. QED  BY <3>1, <3>2, <4>4
    <3>3. CASE k # 0
      <4>1. s[k+1].alloc[1] = s[k].alloc[1] /\ k >= 1
        BY <3>1, <3>3, <1>5
      <4>2. QED  BY <2>2, <3>1, <4>1
    <3>4. QED  BY <3>2, <3>3
  <2> HIDE DEF V
  <2>3. QED  BY <2>1, <2>2, UpTo
<1>13. n > 0 => d.alloc[1] = Lesser(Lesser(rem[1], Q), B)
  <2>1. n > 0 => n >= 1 /\ 1 \in 1 .. n
    OBVIOUS
  <2>2. QED  BY <1>1, <1>2, <1>8, <1>12, <2>1
<1>9. d \in Grants(n) /\ TotalOf(d.alloc) + d.left = B /\ \A i \in 1 .. n : d.alloc[i] <= rem[i]
  BY <1>1, <1>6, <1>8
<1>10. TotalOf(want) <= B => \A i \in 1 .. n : d.alloc[i] = Lesser(rem[i], Q)
  BY <1>1, <1>2, <1>7, <1>8
<1>11. QED  BY <1>9, <1>10, <1>13 DEF Divisions, want, SharedOut

-------------------------------------------------------------------------------
(* A round. *)

Servings(n, rem) == [division : Divisions(n, rem), todo : SUBSET (1 .. n)]

\* Among the requests still to be served there is one that is ahead of the others.
LEMMA NextIs ==
  ASSUME NEW n \in Nat, NEW sch \in [1 .. n -> Nat], NEW start \in Grants(n),
         NEW todo \in SUBSET (1 .. n), todo # {}
  PROVE  \E i \in todo : \A j \in todo \ {i} : IsAhead(start, sch, i, j)
<1> DEFINE at == [k \in 1 .. n |-> sch[k] + start.alloc[k]]
           R == {p \in todo \X todo : IsAhead(start, sch, p[1], p[2])}
<1>1. at \in [1 .. n -> Nat]
  BY DEF Grants
<1>2. ASSUME NEW i \in 1 .. n, NEW j \in 1 .. n
      PROVE  IsAhead(start, sch, i, j) <=> at[i] < at[j] \/ (at[i] = at[j] /\ i < j)
  BY DEF IsAhead
<1>3. IsFiniteSet(todo)
  <2>1. IsFiniteSet(1 .. n)
    BY FS_Interval
  <2>2. QED  BY <2>1, FS_Subset
<1>4. \A x, y \in todo : <<x, y>> \in R <=> IsAhead(start, sch, x, y)
  OBVIOUS
<1> HIDE DEF R, at
<1>5. \A x \in todo : <<x, x>> \notin R
  BY <1>1, <1>2, <1>4
<1>6. \A x, y, z \in todo : <<x, y>> \in R /\ <<y, z>> \in R => <<x, z>> \in R
  <2> SUFFICES ASSUME NEW x \in todo, NEW y \in todo, NEW z \in todo,
                      IsAhead(start, sch, x, y), IsAhead(start, sch, y, z)
               PROVE  IsAhead(start, sch, x, z)
    BY <1>4
  <2>1. x \in 1 .. n /\ y \in 1 .. n /\ z \in 1 .. n /\ at[x] \in Nat /\ at[y] \in Nat /\ at[z] \in Nat
    BY <1>1
  <2>2. QED  BY <2>1, <1>2, SMTT(30)
<1>7. PICK m \in todo : \A y \in todo : <<y, m>> \notin R
  BY <1>3, <1>5, <1>6, LeastOf
<1>8. \A j \in todo \ {m} : IsAhead(start, sch, m, j)
  <2> TAKE j \in todo \ {m}
  <2>1. m \in 1 .. n /\ j \in 1 .. n /\ j # m /\ at[m] \in Nat /\ at[j] \in Nat
    BY <1>1
  <2>2. ~IsAhead(start, sch, j, m)
    BY <1>4, <1>7
  <2>3. QED  BY <2>1, <2>2, <1>2
<1>9. QED  BY <1>8

\* A pass of a round serves one of them, ahead of the others.
Serves(n, rem, sch, Q, start, s, t, i) ==
  /\ i \in s.todo
  /\ \A j \in s.todo \ {i} : IsAhead(start, sch, i, j)
  /\ t.todo = s.todo \ {i}
  /\ Granted(n, s.division, i, FurtherGrant(s.division, Q, rem, i), t.division)

\* A further grant fits into what is left and into what i still needs.
LEMMA FurtherGrantIs ==
  ASSUME NEW n \in Nat, NEW rem \in [1 .. n -> Nat], NEW Q \in Nat \ {0},
         NEW d \in Divisions(n, rem), NEW i \in 1 .. n
  PROVE  /\ Lesser(Q, rem[i] - d.alloc[i]) \in Nat
         /\ FurtherGrant(d, Q, rem, i) \in Nat
         /\ FurtherGrant(d, Q, rem, i) <= d.left
         /\ d.alloc[i] + FurtherGrant(d, Q, rem, i) <= rem[i]
<1>1. d.alloc[i] \in Nat /\ d.left \in Nat /\ rem[i] \in Nat /\ d.alloc[i] <= rem[i]
  BY DEF Divisions, Grants
<1>2. QED  BY <1>1 DEF FurtherGrant, Lesser

\* One pass of a round serves the one that is ahead of all others to be served.
LEMMA ServeIs ==
  ASSUME NEW n \in Nat, NEW rem \in [1 .. n -> Nat], NEW sch \in [1 .. n -> Nat],
         NEW Q \in Nat \ {0}, NEW start \in Grants(n),
         NEW s \in Servings(n, rem), s.todo # {}, NEW t, t = ServeNext(s, start, Q, sch, rem)
  PROVE  t \in Servings(n, rem) /\ \E i \in 1 .. n : Serves(n, rem, sch, Q, start, s, t, i)
<1>1. s.todo \in SUBSET (1 .. n) /\ s.division \in Divisions(n, rem) /\ s.division \in Grants(n)
  BY DEF Servings, Divisions
<1> DEFINE i == CHOOSE i \in s.todo : \A j \in s.todo \ {i} : IsAhead(start, sch, i, j)
           d == s.division
           g == FurtherGrant(d, Q, rem, i)
<1>2. i \in s.todo /\ \A j \in s.todo \ {i} : IsAhead(start, sch, i, j)
  BY <1>1, NextIs
<1>3. t = [division |-> Grant(d, i, g), todo |-> s.todo \ {i}]
  BY DEF ServeNext
<1> HIDE DEF i
<1>4. i \in 1 .. n /\ d \in Divisions(n, rem) /\ d \in Grants(n)
  BY <1>1, <1>2
<1>5. g \in Nat /\ g <= d.left /\ d.alloc[i] + g <= rem[i]
  BY <1>4, FurtherGrantIs
<1>6. t.division = Grant(d, i, g) /\ t.todo = s.todo \ {i}
  BY <1>3
<1>7. Granted(n, d, i, g, t.division)
  <2> HIDE DEF g, d
  <2>1. QED  BY <1>4, <1>5, <1>6, GrantIs
<1>8. t.division \in Divisions(n, rem)
  <2>1. t.division \in Grants(n)
    BY <1>7 DEF Granted
  <2>2. ASSUME NEW j \in 1 .. n PROVE t.division.alloc[j] <= rem[j]
    <3>1. CASE j = i
      BY <3>1, <1>5, <1>7 DEF Granted
    <3>2. CASE j # i
      BY <3>2, <1>4, <1>7 DEF Granted, Divisions
    <3>3. QED  BY <3>1, <3>2
  <2>3. QED  BY <2>1, <2>2 DEF Divisions
<1>9. t \in Servings(n, rem)
  <2>1. t.todo \in SUBSET (1 .. n)
    BY <1>1, <1>6
  <2>2. QED  BY <1>3, <1>6, <1>8, <2>1 DEF Servings
<1>10. Serves(n, rem, sch, Q, start, s, t, i)
  BY <1>2, <1>6, <1>7 DEF Serves
<1>11. QED  BY <1>4, <1>9, <1>10

RoundOf(s, n, rem, sch, Q, start) ==
  /\ s \in [0 .. n -> Servings(n, rem)]
  /\ s[0] = [division |-> start, todo |-> Unfinished(start, rem)]
  /\ \A k \in 1 .. n :
       s[k] = IF s[k-1].todo = {} THEN s[k-1] ELSE ServeNext(s[k-1], start, Q, sch, rem)

\* The loop of a round, as a sequence of servings.
LEMMA RoundIs ==
  ASSUME NEW n \in Nat, NEW rem \in [1 .. n -> Nat], NEW sch \in [1 .. n -> Nat],
         NEW Q \in Nat \ {0}, NEW start \in Divisions(n, rem)
  PROVE  \E s : RoundOf(s, n, rem, sch, Q, start) /\ Round(start, Q, sch, rem) = s[n].division
<1> DEFINE V == Servings(n, rem)
           v0 == [division |-> start, todo |-> Unfinished(start, rem)]
           Pass(v) == IF v.todo = {} THEN v ELSE ServeNext(v, start, Q, sch, rem)
           F == [k \in 1 .. n |-> [v \in V |-> Pass(v)]]
           Step(g) == [k \in 0 .. n |-> IF k = 0 THEN v0 ELSE Pass(g[k-1])]
           h == CHOOSE g : g = Step(g)
<1>0. Len(rem) = n
  BY LenOf
<1>1. v0 \in V
  BY <1>0 DEF Servings, Unfinished
<1>2. ASSUME NEW v \in V PROVE Pass(v) \in V
  <2>1. start \in Grants(n)
    BY DEF Divisions
  <2>2. QED  BY <2>1, ServeIs
<1>3. Round(start, Q, sch, rem) = h[n].division
  BY <1>0 DEF Round
<1> HIDE DEF v0, Pass, V
<1>4. F \in [1 .. n -> [V -> V]] /\ \A k \in 1 .. n, v \in V : F[k][v] = Pass(v)
  BY <1>2
<1> HIDE DEF F
<1>5. PICK s : Outcome(s, n, V, v0, F)
  BY <1>1, <1>4, Loop, Zenon
<1>6. /\ s \in [0 .. n -> V] /\ s[0] = v0
      /\ \A k \in 1 .. n : s[k-1] \in V /\ s[k] = Pass(s[k-1])
  <2>1. s \in [0 .. n -> V] /\ s[0] = v0 /\ \A k \in 1 .. n : s[k] = F[k][s[k-1]]
    BY <1>5 DEF Outcome
  <2>2. \A k \in 1 .. n : k - 1 \in 0 .. n
    OBVIOUS
  <2>3. QED  BY <2>1, <2>2, <1>4
<1>7. s = Step(s)
  <2>1. \A k \in 0 .. n : k = 0 \/ k \in 1 .. n
    OBVIOUS
  <2>2. s = [k \in 0 .. n |-> s[k]]
    BY <1>6
  <2>3. \A k \in 0 .. n : s[k] = IF k = 0 THEN v0 ELSE Pass(s[k-1])
    BY <1>6, <2>1
  <2>4. QED  BY <2>2, <2>3
<1>8. h = Step(h)
  <2> HIDE DEF Step
  <2>1. QED  BY <1>7
<1> HIDE DEF h
<1>9. h = s
  <2>1. h = [k \in 0 .. n |-> h[k]] /\ h[0] = v0 /\ \A k \in 1 .. n : h[k] = Pass(h[k-1])
    BY <1>8, SMTT(30)
  <2>2. Follows(h, n, V, v0, F)
    BY <2>1, <1>4 DEF Follows
  <2>3. QED  BY <2>2, <1>5 DEF Outcome
<1>10. RoundOf(s, n, rem, sch, Q, start)
  BY <1>6 DEF RoundOf, V, v0, Pass
<1>11. QED  BY <1>3, <1>9, <1>10

\* The requests that a division does not finish.
Open(n, rem, d) == {i \in 1 .. n : d.alloc[i] < rem[i]}

\* Nobody's next share fits into what is left.
Stuck(n, rem, Q, d) == \A i \in Open(n, rem, d) : Lesser(Q, rem[i] - d.alloc[i]) > d.left

(* What a round has made of its start when it has served all but todo.  Who   *)
(* was served and still is not finished got a whole quantum, or nothing       *)
(* because less than that was left, and those were behind all that got one.   *)
ServingInv(n, rem, sch, Q, start, s) ==
  LET d == s.division
      served == Open(n, rem, start) \ s.todo
  IN
  /\ s \in Servings(n, rem)
  /\ s.todo \subseteq Open(n, rem, start)
  /\ \A i \in 1 .. n : d.alloc[i] >= start.alloc[i]
  /\ \A i \in s.todo : d.alloc[i] = start.alloc[i]
  /\ TotalOf(d.alloc) + d.left = TotalOf(start.alloc) + start.left
  /\ d.left <= start.left
  /\ \/ d.left < start.left
     \/ /\ d = start
        /\ \A i \in served : Lesser(Q, rem[i] - start.alloc[i]) > start.left
  /\ Stuck(n, rem, Q, start) => d = start
  /\ \A i \in served : d.alloc[i] < rem[i] =>
       \/ d.alloc[i] = start.alloc[i] + Q /\ Q <= start.left
       \/ d.alloc[i] = start.alloc[i] /\ d.left < Q
  /\ \A i \in served, j \in s.todo : IsAhead(start, sch, i, j)
  /\ \A i, j \in served :
       /\ d.alloc[i] < rem[i] /\ d.alloc[i] = start.alloc[i] + Q
       /\ d.alloc[j] < rem[j] /\ d.alloc[j] = start.alloc[j]
       => IsAhead(start, sch, i, j)

\* A round begins with nobody served.
LEMMA ServingStarts ==
  ASSUME NEW n \in Nat, NEW rem \in [1 .. n -> Nat], NEW sch \in [1 .. n -> Nat],
         NEW Q \in Nat \ {0}, NEW start \in Divisions(n, rem),
         NEW s, s = [division |-> start, todo |-> Unfinished(start, rem)]
  PROVE  ServingInv(n, rem, sch, Q, start, s)
<1>1. Len(rem) = n
  BY LenOf
<1>2. s.todo = Open(n, rem, start) /\ s.division = start
  BY <1>1 DEF Unfinished, Open
<1>3. s \in Servings(n, rem)
  BY <1>2 DEF Servings, Open
<1>4. start.left \in Nat /\ start.alloc \in [1 .. n -> Nat]
  BY DEF Divisions, Grants
<1>5. Open(n, rem, start) \ s.todo = {}
  BY <1>2
<1>6. QED  BY <1>2, <1>3, <1>4, <1>5 DEF ServingInv

\* Serving the one ahead of the others keeps what the round has made of its start.
LEMMA ServingStep ==
  ASSUME NEW n \in Nat, NEW rem \in [1 .. n -> Nat], NEW sch \in [1 .. n -> Nat],
         NEW Q \in Nat \ {0}, NEW start \in Divisions(n, rem),
         NEW s, ServingInv(n, rem, sch, Q, start, s),
         NEW t \in Servings(n, rem), NEW i \in 1 .. n, Serves(n, rem, sch, Q, start, s, t, i)
  PROVE  ServingInv(n, rem, sch, Q, start, t)
<1> DEFINE d == s.division
           e == t.division
           g == FurtherGrant(d, Q, rem, i)
           w == Lesser(Q, rem[i] - d.alloc[i])
           U == Open(n, rem, start)
           old == U \ s.todo
           new == U \ t.todo
<1>1. /\ s \in Servings(n, rem)
      /\ s.todo \subseteq U
      /\ \A j \in 1 .. n : d.alloc[j] >= start.alloc[j]
      /\ \A j \in s.todo : d.alloc[j] = start.alloc[j]
      /\ TotalOf(d.alloc) + d.left = TotalOf(start.alloc) + start.left
      /\ d.left <= start.left
      /\ \/ d.left < start.left
         \/ /\ d = start
            /\ \A j \in old : Lesser(Q, rem[j] - start.alloc[j]) > start.left
      /\ Stuck(n, rem, Q, start) => d = start
  BY DEF ServingInv
<1>2. /\ \A j \in old : d.alloc[j] < rem[j] =>
           \/ d.alloc[j] = start.alloc[j] + Q /\ Q <= start.left
           \/ d.alloc[j] = start.alloc[j] /\ d.left < Q
      /\ \A a \in old, b \in s.todo : IsAhead(start, sch, a, b)
      /\ \A a, b \in old :
           /\ d.alloc[a] < rem[a] /\ d.alloc[a] = start.alloc[a] + Q
           /\ d.alloc[b] < rem[b] /\ d.alloc[b] = start.alloc[b]
           => IsAhead(start, sch, a, b)
  BY DEF ServingInv
<1>3. /\ i \in s.todo
      /\ \A j \in s.todo \ {i} : IsAhead(start, sch, i, j)
      /\ t.todo = s.todo \ {i}
      /\ Granted(n, d, i, g, e)
  BY DEF Serves
<1>4. /\ e.left = d.left - g
      /\ e.alloc[i] = d.alloc[i] + g
      /\ \A j \in 1 .. n : j # i => e.alloc[j] = d.alloc[j]
      /\ TotalOf(e.alloc) + e.left = TotalOf(d.alloc) + d.left
      /\ g = 0 => e = d
  BY <1>3 DEF Granted
<1>5. /\ d \in Divisions(n, rem) /\ d.left \in Nat /\ \A j \in 1 .. n : d.alloc[j] \in Nat
      /\ start.left \in Nat /\ \A j \in 1 .. n : start.alloc[j] \in Nat
      /\ e.left \in Nat /\ \A j \in 1 .. n : e.alloc[j] \in Nat
  BY <1>1 DEF Servings, Divisions, Grants
<1>6. w \in Nat /\ w > 0 /\ g = IF w <= d.left THEN w ELSE 0
  <2>1. i \in U /\ d.alloc[i] = start.alloc[i]
    BY <1>1, <1>3
  <2>2. d.alloc[i] < rem[i]
    BY <2>1 DEF Open
  <2>3. rem[i] \in Nat /\ d.alloc[i] \in Nat
    BY <1>5
  <2>4. w \in Nat /\ w > 0
    BY <2>2, <2>3, SMTT(30) DEF Lesser
  <2>5. g = IF w <= d.left THEN w ELSE 0
    BY DEF FurtherGrant
  <2>6. QED  BY <2>4, <2>5
<1>7. new = old \cup {i} /\ t.todo \subseteq U /\ U \subseteq 1 .. n
  BY <1>1, <1>3 DEF Open
<1> HIDE DEF d, e, g, U, old, new
<1>8. d.alloc[i] = start.alloc[i] /\ i \in U
  BY <1>1, <1>3
<1>9. \A j \in 1 .. n : e.alloc[j] >= start.alloc[j]
  <2> TAKE j \in 1 .. n
  <2>1. CASE j = i
    BY <2>1, <1>4, <1>5, <1>6, <1>8
  <2>2. CASE j # i
    BY <2>2, <1>1, <1>4
  <2>3. QED  BY <2>1, <2>2
<1>10. \A j \in t.todo : e.alloc[j] = start.alloc[j]
  BY <1>1, <1>3, <1>4, <1>7
<1>11. TotalOf(e.alloc) + e.left = TotalOf(start.alloc) + start.left /\ e.left <= start.left
  BY <1>1, <1>4, <1>5, <1>6
<1>12. \/ e.left < start.left
       \/ /\ e = start
          /\ \A j \in new : Lesser(Q, rem[j] - start.alloc[j]) > start.left
  <2>1. CASE d.left < start.left
    BY <2>1, <1>4, <1>5, <1>6
  <2>2. CASE d = start /\ \A j \in old : Lesser(Q, rem[j] - start.alloc[j]) > start.left
    <3>1. CASE g = 0
      <4>1. w > d.left
        BY <3>1, <1>5, <1>6
      <4>2. Lesser(Q, rem[i] - start.alloc[i]) > start.left
        BY <4>1, <2>2, <1>8
      <4>3. QED  BY <3>1, <4>2, <2>2, <1>4, <1>7
    <3>2. CASE g # 0
      BY <3>2, <2>2, <1>4, <1>5, <1>6, SMTT(30)
    <3>3. QED  BY <3>1, <3>2
  <2>3. QED  BY <2>1, <2>2, <1>1
<1>13. Stuck(n, rem, Q, start) => e = start
  <2> HAVE Stuck(n, rem, Q, start)
  <2>1. d = start
    BY <1>1
  <2>2. w > d.left
    BY <2>1, <1>8 DEF Stuck, U
  <2>3. g = 0
    BY <2>2, <1>5, <1>6, SMTT(30)
  <2>4. QED  BY <2>1, <2>3, <1>4
<1>14. ASSUME e.alloc[i] < rem[i]
       PROVE  \/ e.alloc[i] = start.alloc[i] + Q /\ Q <= start.left /\ Q <= d.left
              \/ e.alloc[i] = start.alloc[i] /\ e.left < Q
  <2>1. rem[i] \in Nat /\ d.alloc[i] \in Nat
    BY <1>5
  <2>2. CASE w <= d.left
    <3>1. g = w
      BY <2>2, <1>6
    <3>2. d.alloc[i] + w < rem[i]
      BY <1>4, <1>14, <3>1
    <3>3. w = Q
      BY <3>2, <2>1 DEF Lesser
    <3>4. e.alloc[i] = start.alloc[i] + Q /\ Q <= d.left
      BY <3>1, <3>3, <2>2, <1>4, <1>8
    <3>5. QED  BY <3>4, <1>1, <1>5
  <2>3. CASE w > d.left
    <3>1. g = 0
      BY <2>3, <1>5, <1>6
    <3>2. w <= Q
      BY <2>1 DEF Lesser
    <3>3. QED  BY <3>1, <3>2, <2>3, <1>4, <1>5, <1>6, <1>8
  <2>4. QED  BY <2>2, <2>3, <1>5, <1>6
<1>15. \A j \in old : e.alloc[j] = d.alloc[j] /\ j # i /\ j \in 1 .. n
  BY <1>3, <1>4, <1>7 DEF old
<1>16. \A j \in new : e.alloc[j] < rem[j] =>
           \/ e.alloc[j] = start.alloc[j] + Q /\ Q <= start.left
           \/ e.alloc[j] = start.alloc[j] /\ e.left < Q
  <2> SUFFICES ASSUME NEW j \in old, e.alloc[j] < rem[j]
               PROVE  \/ e.alloc[j] = start.alloc[j] + Q /\ Q <= start.left
                      \/ e.alloc[j] = start.alloc[j] /\ e.left < Q
    BY <1>7, <1>14
  <2>1. e.left <= d.left
    BY <1>4, <1>5, <1>6
  <2>2. e.alloc[j] = d.alloc[j]
    BY <1>15
  <2>3. QED  BY <2>1, <2>2, <1>2, <1>5
<1>17. \A a \in new, b \in t.todo : IsAhead(start, sch, a, b)
  BY <1>2, <1>3, <1>7
<1>18. ASSUME NEW a \in new, NEW b \in new,
              e.alloc[a] < rem[a], e.alloc[a] = start.alloc[a] + Q,
              e.alloc[b] < rem[b], e.alloc[b] = start.alloc[b]
       PROVE  IsAhead(start, sch, a, b)
  <2>9. a \in 1 .. n /\ b \in 1 .. n
    BY <1>7, <1>15
  <2>0. a \in 1 .. n /\ b \in 1 .. n /\ start.alloc[a] \in Nat /\ start.alloc[b] \in Nat /\ a # b
    BY <1>5, <2>9, <1>18
  <2>1. CASE a \in old /\ b \in old
    BY <2>1, <1>2, <1>15, <1>18
  <2>2. CASE a \in old /\ b = i
    BY <2>2, <1>2, <1>3
  <2>3. CASE a = i /\ b \in old
    <3>1. Q <= d.left
      BY <2>3, <2>0, <1>14, <1>18, SMTT(30)
    <3>2. d.alloc[b] = start.alloc[b] /\ d.alloc[b] < rem[b]
      BY <2>3, <1>15, <1>18
    <3>5. d.alloc[b] = start.alloc[b] + Q \/ d.left < Q
      BY <3>2, <2>3, <1>2
    <3>3. d.left < Q
      BY <3>2, <3>5, <2>0
    <3>4. QED  BY <3>1, <3>3, <1>5
  <2>4. QED  BY <2>0, <2>1, <2>2, <2>3, <1>7
<1>19. QED
  BY <1>7, <1>9, <1>10, <1>11, <1>12, <1>13, <1>16, <1>17, <1>18 DEF ServingInv, e, new, U

(* A round makes a division of a division.  It grants something unless nobody *)
(* could be granted anything, and then it changes nothing.                    *)
RoundMakes(n, rem, sch, Q, start, e) ==
  /\ e \in Divisions(n, rem)
  /\ \A i \in 1 .. n : e.alloc[i] >= start.alloc[i]
  /\ TotalOf(e.alloc) + e.left = TotalOf(start.alloc) + start.left
  /\ e.left <= start.left
  /\ \/ e.left < start.left
     \/ e = start /\ Stuck(n, rem, Q, start)
  /\ Stuck(n, rem, Q, start) => e = start
  /\ \A i \in Open(n, rem, e) :
       \/ e.alloc[i] = start.alloc[i] + Q /\ Q <= start.left
       \/ e.alloc[i] = start.alloc[i] /\ e.left < Q
  /\ \A i, j \in Open(n, rem, e) :
       e.alloc[i] = start.alloc[i] + Q /\ e.alloc[j] = start.alloc[j] => IsAhead(start, sch, i, j)

\* What a whole round makes of its start.
LEMMA RoundMakesDivision ==
  ASSUME NEW n \in Nat, NEW rem \in [1 .. n -> Nat], NEW sch \in [1 .. n -> Nat],
         NEW Q \in Nat \ {0}, NEW start \in Divisions(n, rem),
         NEW e, e = Round(start, Q, sch, rem)
  PROVE  RoundMakes(n, rem, sch, Q, start, e)
<1>1. PICK s : RoundOf(s, n, rem, sch, Q, start) /\ e = s[n].division
  <2>1. \E s : RoundOf(s, n, rem, sch, Q, start) /\ Round(start, Q, sch, rem) = s[n].division
    BY RoundIs, Zenon
  <2>2. QED  BY <2>1
<1>2. /\ s \in [0 .. n -> Servings(n, rem)]
      /\ s[0] = [division |-> start, todo |-> Unfinished(start, rem)]
      /\ \A k \in 1 .. n :
           s[k] = IF s[k-1].todo = {} THEN s[k-1] ELSE ServeNext(s[k-1], start, Q, sch, rem)
  BY <1>1 DEF RoundOf
<1>3. start \in Grants(n) /\ start.left \in Nat /\ start.alloc \in [1 .. n -> Nat]
  BY DEF Divisions, Grants
<1> DEFINE T == {k \in 0 .. n : /\ ServingInv(n, rem, sch, Q, start, s[k])
                                /\ IsFiniteSet(s[k].todo)
                                /\ Cardinality(s[k].todo) \in Nat
                                /\ Cardinality(s[k].todo) <= n - k}
<1>4. 0 \in T
  <2>1. s[0].todo \subseteq 1 .. n
    BY <1>2, LenOf DEF Unfinished
  <2>2. IsFiniteSet(1 .. n) /\ Cardinality(1 .. n) = n
    BY FS_Interval
  <2>3. /\ IsFiniteSet(s[0].todo) /\ Cardinality(s[0].todo) <= n
        /\ Cardinality(s[0].todo) \in Nat
    BY <2>1, <2>2, FS_Subset, FS_CardinalityType
  <2>4. ServingInv(n, rem, sch, Q, start, s[0])
    BY <1>2, ServingStarts
  <2>5. QED  BY <2>3, <2>4
<1>5. ASSUME NEW k \in 0 .. n - 1, k \in T PROVE k + 1 \in T
  <2>1. k + 1 \in 1 .. n /\ k + 1 \in 0 .. n /\ (k + 1) - 1 = k /\ k \in 0 .. n /\ n - (k + 1) \in Nat
    OBVIOUS
  <2>2. s[k + 1] = IF s[k].todo = {} THEN s[k] ELSE ServeNext(s[k], start, Q, sch, rem)
    BY <1>2, <2>1
  <2>3. /\ ServingInv(n, rem, sch, Q, start, s[k]) /\ IsFiniteSet(s[k].todo)
        /\ Cardinality(s[k].todo) \in Nat /\ Cardinality(s[k].todo) <= n - k
    BY <1>5
  <2> HIDE DEF T
  <2>4. CASE s[k].todo = {}
    <3>1. s[k + 1] = s[k]
      BY <2>2, <2>4
    <3>2. Cardinality(s[k].todo) = 0
      BY <2>4, FS_EmptySet
    <3>3. QED  BY <2>1, <2>3, <3>1, <3>2 DEF T
  <2>5. CASE s[k].todo # {}
    <3>1. s[k] \in Servings(n, rem) /\ s[k + 1] = ServeNext(s[k], start, Q, sch, rem)
      BY <1>2, <2>1, <2>2, <2>5
    <3> DEFINE a == s[k]
               b == s[k + 1]
    <3>2. a \in Servings(n, rem) /\ a.todo # {} /\ b = ServeNext(a, start, Q, sch, rem)
      BY <3>1, <2>5
    <3> HIDE DEF a, b
    <3>3. PICK i \in 1 .. n : b \in Servings(n, rem) /\ Serves(n, rem, sch, Q, start, a, b, i)
      BY <3>2, <1>3, ServeIs
    <3>4. ServingInv(n, rem, sch, Q, start, b)
      <4>1. ServingInv(n, rem, sch, Q, start, a)
        BY <2>3 DEF a
      <4>2. QED  BY <4>1, <3>3, ServingStep
    <3>5. i \in a.todo /\ b.todo = a.todo \ {i}
      BY <3>3 DEF Serves
    <3>6. IsFiniteSet(b.todo) /\ Cardinality(b.todo) = Cardinality(a.todo) - 1
      <4>1. IsFiniteSet(a.todo)
        BY <2>3 DEF a
      <4>2. /\ IsFiniteSet(a.todo \ {i})
            /\ Cardinality(a.todo \ {i}) = IF i \in a.todo THEN Cardinality(a.todo) - 1 ELSE Cardinality(a.todo)
        BY <4>1, FS_RemoveElement
      <4>3. QED  BY <4>2, <3>5
    <3>7. Cardinality(b.todo) \in Nat
      BY <3>6, FS_CardinalityType
    <3>8. Cardinality(b.todo) <= n - (k + 1)
      BY <3>6, <2>3, <2>1 DEF a
    <3>9. QED  BY <2>1, <3>4, <3>6, <3>7, <3>8 DEF T, b
  <2>6. QED  BY <2>4, <2>5
<1>6. ServingInv(n, rem, sch, Q, start, s[n]) /\ s[n].todo = {}
  <2>1. 0 .. n \subseteq T
    <3> HIDE DEF T
    <3>1. QED  BY <1>4, <1>5, UpTo
  <2>2. n \in T
    BY <2>1
  <2>3. Cardinality(s[n].todo) = 0 /\ IsFiniteSet(s[n].todo)
    BY <2>2
  <2>4. QED  BY <2>2, <2>3, FS_EmptySet
<1>7. /\ e \in Divisions(n, rem) /\ e.left \in Nat
      /\ \A i \in 1 .. n : e.alloc[i] >= start.alloc[i] /\ e.alloc[i] \in Nat
  BY <1>1, <1>6 DEF ServingInv, Servings, Divisions, Grants
<1>8. Open(n, rem, e) \subseteq Open(n, rem, start)
  BY <1>7, <1>3, SMTT(30) DEF Open
<1>9. Open(n, rem, start) \ s[n].todo = Open(n, rem, start)
  BY <1>6
<1>10. \/ e.left < start.left
       \/ e = start /\ Stuck(n, rem, Q, start)
  BY <1>1, <1>6, <1>9 DEF ServingInv, Stuck
<1>11. \A i \in Open(n, rem, e) :
       \/ e.alloc[i] = start.alloc[i] + Q /\ Q <= start.left
       \/ e.alloc[i] = start.alloc[i] /\ e.left < Q
  BY <1>1, <1>6, <1>8, <1>9 DEF ServingInv, Open
<1>12. \A i, j \in Open(n, rem, e) :
       e.alloc[i] = start.alloc[i] + Q /\ e.alloc[j] = start.alloc[j] => IsAhead(start, sch, i, j)
  BY <1>1, <1>6, <1>8, <1>9 DEF ServingInv, Open
<1>13. /\ TotalOf(e.alloc) + e.left = TotalOf(start.alloc) + start.left /\ e.left <= start.left
       /\ Stuck(n, rem, Q, start) => e = start
  BY <1>1, <1>6 DEF ServingInv
<1>14. QED  BY <1>7, <1>10, <1>11, <1>12, <1>13 DEF RoundMakes

\* The progress and the queue order of the requests before a forward.
Leads(sch, i, j) == sch[i] < sch[j] \/ (sch[i] = sch[j] /\ i < j)

(* Fair and on page boundaries: whoever is not finished has whole quanta, all *)
(* of them as many, up to one more for those that lead once less than a       *)
(* quantum is left.                                                           *)
Even(n, rem, sch, Q, d) ==
  /\ \A i \in Open(n, rem, d) : \E m \in Nat : d.alloc[i] = m * Q
  /\ \A i, j \in Open(n, rem, d) :
       \/ d.alloc[i] = d.alloc[j]
       \/ d.left < Q /\ d.alloc[i] = d.alloc[j] + Q /\ Leads(sch, i, j)
       \/ d.left < Q /\ d.alloc[j] = d.alloc[i] + Q /\ Leads(sch, j, i)

\* A round keeps an even division even.
LEMMA RoundKeepsEven ==
  ASSUME NEW n \in Nat, NEW rem \in [1 .. n -> Nat], NEW sch \in [1 .. n -> Nat],
         NEW Q \in Nat \ {0}, NEW start \in Divisions(n, rem),
         NEW e, RoundMakes(n, rem, sch, Q, start, e), Even(n, rem, sch, Q, start)
  PROVE  Even(n, rem, sch, Q, e)
<1>1. /\ e \in Divisions(n, rem)
      /\ \A i \in 1 .. n : e.alloc[i] >= start.alloc[i]
      /\ e.left <= start.left
      /\ \A i \in Open(n, rem, e) :
           \/ e.alloc[i] = start.alloc[i] + Q /\ Q <= start.left
           \/ e.alloc[i] = start.alloc[i] /\ e.left < Q
      /\ \A i, j \in Open(n, rem, e) :
           e.alloc[i] = start.alloc[i] + Q /\ e.alloc[j] = start.alloc[j] => IsAhead(start, sch, i, j)
  BY DEF RoundMakes
<1>2. /\ e.left \in Nat /\ start.left \in Nat
      /\ \A i \in 1 .. n : e.alloc[i] \in Nat /\ start.alloc[i] \in Nat /\ rem[i] \in Nat /\ sch[i] \in Nat
  BY <1>1 DEF Divisions, Grants
<1>3. \A i \in Open(n, rem, e) : i \in 1 .. n /\ i \in Open(n, rem, start)
  BY <1>1, <1>2 DEF Open
<1>4. ASSUME NEW i \in Open(n, rem, e) PROVE \E m \in Nat : e.alloc[i] = m * Q
  <2>1. PICK m \in Nat : start.alloc[i] = m * Q
    BY <1>3 DEF Even
  <2>2. (m + 1) * Q = m * Q + Q /\ m + 1 \in Nat
    OBVIOUS
  <2>3. e.alloc[i] = m * Q \/ e.alloc[i] = (m + 1) * Q
    BY <2>1, <2>2, <1>1
  <2>4. QED  BY <2>2, <2>3
<1>5. ASSUME NEW i \in Open(n, rem, e), NEW j \in Open(n, rem, e)
      PROVE  \/ e.alloc[i] = e.alloc[j]
             \/ e.left < Q /\ e.alloc[i] = e.alloc[j] + Q /\ Leads(sch, i, j)
             \/ e.left < Q /\ e.alloc[j] = e.alloc[i] + Q /\ Leads(sch, j, i)
  <2>1. /\ i \in 1 .. n /\ j \in 1 .. n
        /\ i \in Open(n, rem, start) /\ j \in Open(n, rem, start)
    BY <1>3
  <2>2. \/ start.alloc[i] = start.alloc[j]
        \/ start.left < Q /\ start.alloc[i] = start.alloc[j] + Q /\ Leads(sch, i, j)
        \/ start.left < Q /\ start.alloc[j] = start.alloc[i] + Q /\ Leads(sch, j, i)
    BY <2>1 DEF Even
  <2>3. /\ \/ e.alloc[i] = start.alloc[i] + Q /\ Q <= start.left
           \/ e.alloc[i] = start.alloc[i] /\ e.left < Q
        /\ \/ e.alloc[j] = start.alloc[j] + Q /\ Q <= start.left
           \/ e.alloc[j] = start.alloc[j] /\ e.left < Q
    BY <1>1
  <2>4. /\ e.alloc[i] \in Nat /\ start.alloc[i] \in Nat /\ sch[i] \in Nat
        /\ e.alloc[j] \in Nat /\ start.alloc[j] \in Nat /\ sch[j] \in Nat
        /\ i \in Nat /\ j \in Nat
    BY <1>2, <2>1
  <2>5. CASE start.left < Q
    BY <2>5, <2>2, <2>3, <2>4, <1>1, <1>2, SMTT(30)
  <2>6. CASE start.alloc[i] = start.alloc[j]
    <3> DEFINE x == start.alloc[i]
               y == start.alloc[j]
    <3>6. /\ IsAhead(start, sch, i, j) <=>
               sch[i] + x < sch[j] + y \/ (sch[i] + x = sch[j] + y /\ i < j)
          /\ IsAhead(start, sch, j, i) <=>
               sch[j] + y < sch[i] + x \/ (sch[j] + y = sch[i] + x /\ j < i)
      BY DEF IsAhead
    <3>7. x = y /\ x \in Nat /\ y \in Nat
      BY <2>4, <2>6
    <3> HIDE DEF x, y
    <3>1. IsAhead(start, sch, i, j) => Leads(sch, i, j)
      BY <2>4, <3>6, <3>7, SMTT(30) DEF Leads
    <3>2. IsAhead(start, sch, j, i) => Leads(sch, j, i)
      BY <2>4, <3>6, <3>7, SMTT(30) DEF Leads
    <3>3. e.alloc[i] = start.alloc[i] + Q /\ e.alloc[j] = start.alloc[j] => IsAhead(start, sch, i, j)
      BY <1>1
    <3>4. e.alloc[j] = start.alloc[j] + Q /\ e.alloc[i] = start.alloc[i] => IsAhead(start, sch, j, i)
      BY <1>1
    <3>5. QED  BY <2>6, <2>3, <2>4, <3>1, <3>2, <3>3, <3>4
  <2>7. QED  BY <2>2, <2>5, <2>6
<1>6. QED  BY <1>4, <1>5 DEF Even

\* First shares of a quantum each, or less for a final tail, are even.
LEMMA FirstSharesAreEven ==
  ASSUME NEW n \in Nat, NEW rem \in [1 .. n -> Nat], NEW sch \in [1 .. n -> Nat],
         NEW Q \in Nat \ {0}, NEW d, \A i \in 1 .. n : d.alloc[i] = Lesser(rem[i], Q)
  PROVE  Even(n, rem, sch, Q, d)
<1>1. \A i \in Open(n, rem, d) : d.alloc[i] = Q
  BY DEF Open, Lesser
<1>2. Q = 1 * Q
  OBVIOUS
<1>3. QED  BY <1>1, <1>2 DEF Even

-------------------------------------------------------------------------------
(* The whole division. *)

RoundsOf(s, n, rem, sch, Q, B) ==
  /\ s \in [0 .. B -> Divisions(n, rem)]
  /\ s[0] = FirstShares(B, Q, rem)
  /\ \A k \in 1 .. B : s[k] = Round(s[k-1], Q, sch, rem)

\* The loop of the rounds, as a sequence of divisions.
LEMMA RoundsAre ==
  ASSUME NEW n \in Nat, NEW rem \in [1 .. n -> Nat], NEW sch \in [1 .. n -> Nat],
         NEW Q \in Nat \ {0}, NEW B \in Nat
  PROVE  \E s : RoundsOf(s, n, rem, sch, Q, B) /\ AllocateFairPrefillChunks(B, Q, sch, rem) = s[B].alloc
<1> DEFINE V == Divisions(n, rem)
           v0 == FirstShares(B, Q, rem)
           Pass(v) == Round(v, Q, sch, rem)
           F == [k \in 1 .. B |-> [v \in V |-> Pass(v)]]
           Step(g) == [k \in 0 .. B |-> IF k = 0 THEN v0 ELSE Pass(g[k-1])]
           h == CHOOSE g : g = Step(g)
<1>1. v0 \in V
  <2>1. Q \in Nat
    OBVIOUS
  <2>2. SharedOut(n, rem, Q, B, v0)
    BY <2>1, FirstSharesDivide, Zenon
  <2>3. QED  BY <2>2 DEF SharedOut
<1>2. ASSUME NEW v \in V PROVE Pass(v) \in V
  BY RoundMakesDivision DEF RoundMakes
<1>3. AllocateFairPrefillChunks(B, Q, sch, rem) = h[B].alloc
  BY DEF AllocateFairPrefillChunks
<1> HIDE DEF v0, Pass, V
<1>4. F \in [1 .. B -> [V -> V]] /\ \A k \in 1 .. B, v \in V : F[k][v] = Pass(v)
  BY <1>2
<1> HIDE DEF F
<1>5. PICK s : Outcome(s, B, V, v0, F)
  BY <1>1, <1>4, Loop, Zenon
<1>6. /\ s \in [0 .. B -> V] /\ s[0] = v0
      /\ \A k \in 1 .. B : s[k-1] \in V /\ s[k] = Pass(s[k-1])
  <2>1. s \in [0 .. B -> V] /\ s[0] = v0 /\ \A k \in 1 .. B : s[k] = F[k][s[k-1]]
    BY <1>5 DEF Outcome
  <2>2. \A k \in 1 .. B : k - 1 \in 0 .. B
    OBVIOUS
  <2>3. QED  BY <2>1, <2>2, <1>4
<1>7. s = Step(s)
  <2>1. \A k \in 0 .. B : k = 0 \/ k \in 1 .. B
    OBVIOUS
  <2>2. s = [k \in 0 .. B |-> s[k]]
    BY <1>6
  <2>3. \A k \in 0 .. B : s[k] = IF k = 0 THEN v0 ELSE Pass(s[k-1])
    BY <1>6, <2>1
  <2>4. QED  BY <2>2, <2>3
<1>8. h = Step(h)
  <2> HIDE DEF Step
  <2>1. QED  BY <1>7
<1> HIDE DEF h
<1>9. h = s
  <2>1. h = [k \in 0 .. B |-> h[k]] /\ h[0] = v0 /\ \A k \in 1 .. B : h[k] = Pass(h[k-1])
    BY <1>8, SMTT(30)
  <2>2. Follows(h, B, V, v0, F)
    BY <2>1, <1>4 DEF Follows
  <2>3. QED  BY <2>2, <1>5 DEF Outcome
<1>10. RoundsOf(s, n, rem, sch, Q, B)
  BY <1>6 DEF RoundsOf, V, v0, Pass
<1>11. QED  BY <1>3, <1>9, <1>10

(* The chunks are a division of the budget in which nobody could be given     *)
(* more.  Where all first shares fit into the budget, everyone has its own,   *)
(* and the division is even.                                                  *)
Divided(n, rem, sch, Q, B, d) ==
  /\ d \in Divisions(n, rem)
  /\ TotalOf(d.alloc) + d.left = B
  /\ Stuck(n, rem, Q, d)
  /\ TotalOf(Firsts(n, rem, Q)) <= B =>
       Even(n, rem, sch, Q, d) /\ \A i \in 1 .. n : d.alloc[i] >= Lesser(rem[i], Q)
  /\ n > 0 => d.alloc[1] >= Lesser(Lesser(rem[1], Q), B)

\* The chunks are the division that the rounds end with.
LEMMA ChunksDivide ==
  ASSUME NEW n \in Nat, NEW rem \in [1 .. n -> Nat], NEW sch \in [1 .. n -> Nat],
         NEW Q \in Nat \ {0}, NEW B \in Nat
  PROVE  \E d : Divided(n, rem, sch, Q, B, d) /\ AllocateFairPrefillChunks(B, Q, sch, rem) = d.alloc
<1>1. PICK s : RoundsOf(s, n, rem, sch, Q, B) /\ AllocateFairPrefillChunks(B, Q, sch, rem) = s[B].alloc
  BY RoundsAre, SMTT(30)
<1>2. /\ s \in [0 .. B -> Divisions(n, rem)]
      /\ s[0] = FirstShares(B, Q, rem)
      /\ \A k \in 1 .. B : s[k] = Round(s[k-1], Q, sch, rem)
  BY <1>1 DEF RoundsOf
<1> DEFINE Fits == TotalOf(Firsts(n, rem, Q)) <= B
           Good(k, d) == /\ TotalOf(d.alloc) + d.left = B
                         /\ d.left <= B - k \/ Stuck(n, rem, Q, d)
                         /\ Fits => /\ Even(n, rem, sch, Q, d)
                                    /\ \A i \in 1 .. n : d.alloc[i] >= Lesser(rem[i], Q)
                         /\ n > 0 => d.alloc[1] >= Lesser(Lesser(rem[1], Q), B)
           T == {k \in 0 .. B : Good(k, s[k])}
<1>3. 0 \in T
  <2> DEFINE d == s[0]
  <2>1. d = FirstShares(B, Q, rem) /\ d \in Divisions(n, rem)
    BY <1>2
  <2> HIDE DEF d
  <2>2. /\ TotalOf(d.alloc) + d.left = B
        /\ Fits => \A i \in 1 .. n : d.alloc[i] = Lesser(rem[i], Q)
        /\ n > 0 => d.alloc[1] = Lesser(Lesser(rem[1], Q), B)
    <3>1. Q \in Nat
      OBVIOUS
    <3>2. SharedOut(n, rem, Q, B, d)
      BY <2>1, <3>1, FirstSharesDivide, Zenon
    <3>3. QED  BY <3>2 DEF SharedOut
  <2>3. d.left \in Nat /\ d.alloc \in [1 .. n -> Nat]
    BY <2>1 DEF Divisions, Grants
  <2>4. TotalOf(d.alloc) \in Nat
    <3>1. PICK p : Sums(d.alloc, n, p) /\ TotalOf(d.alloc) = p[n]
      BY <2>3, LenOf, TotalIs
    <3>2. QED  BY <3>1 DEF Sums
  <2>5. d.left <= B - 0
    BY <2>2, <2>3, <2>4
  <2>6. Fits => Even(n, rem, sch, Q, d)
    BY <2>2, FirstSharesAreEven
  <2>7. Fits => \A i \in 1 .. n : d.alloc[i] >= Lesser(rem[i], Q)
    BY <2>2, <2>3
  <2>10. n > 0 => d.alloc[1] >= Lesser(Lesser(rem[1], Q), B)
    <3> SUFFICES ASSUME n > 0 PROVE d.alloc[1] >= Lesser(Lesser(rem[1], Q), B)
      OBVIOUS
    <3>1. 1 \in 1 .. n
      OBVIOUS
    <3>2. d.alloc[1] \in Nat /\ d.alloc[1] = Lesser(Lesser(rem[1], Q), B)
      BY <2>2, <2>3, <3>1
    <3>3. QED  BY <3>2
  <2>8. Good(0, d)
    BY <2>2, <2>5, <2>6, <2>7, <2>10
  <2>9. QED  BY <2>8 DEF d
<1>4. ASSUME NEW k \in 0 .. B - 1, k \in T PROVE k + 1 \in T
  <2>1. k + 1 \in 1 .. B /\ k + 1 \in 0 .. B /\ (k + 1) - 1 = k /\ k \in 0 .. B
    OBVIOUS
  <2> DEFINE d == s[k]
             e == s[k + 1]
  <2>2. Good(k, d) /\ d \in Divisions(n, rem) /\ e = Round(d, Q, sch, rem)
    BY <1>2, <1>4, <2>1
  <2> HIDE DEF d, e
  <2>3. RoundMakes(n, rem, sch, Q, d, e)
    BY <2>2, RoundMakesDivision
  <2>4. d.left \in Nat /\ e.left \in Nat /\ \A i \in 1 .. n : d.alloc[i] \in Nat /\ e.alloc[i] \in Nat
    BY <2>2, <2>3 DEF RoundMakes, Divisions, Grants
  <2>5. TotalOf(e.alloc) + e.left = B
    BY <2>2, <2>3 DEF RoundMakes
  <2>6. e.left <= B - (k + 1) \/ Stuck(n, rem, Q, e)
    <3>1. CASE Stuck(n, rem, Q, d)
      BY <3>1, <2>3 DEF RoundMakes
    <3>2. CASE ~Stuck(n, rem, Q, d)
      <4>1. e.left < d.left /\ d.left <= B - k
        BY <3>2, <2>2, <2>3 DEF RoundMakes
      <4>2. QED  BY <4>1, <2>4
    <3>3. QED  BY <3>1, <3>2
  <2>7. Fits => Even(n, rem, sch, Q, e)
    BY <2>2, <2>3, RoundKeepsEven
  <2>8. ASSUME Fits, NEW i \in 1 .. n PROVE e.alloc[i] >= Lesser(rem[i], Q)
    <3>1. d.alloc[i] >= Lesser(rem[i], Q) /\ e.alloc[i] >= d.alloc[i]
      BY <2>2, <2>3, <2>8 DEF RoundMakes
    <3>2. Lesser(rem[i], Q) \in Nat
      BY DEF Lesser
    <3>3. QED  BY <3>1, <3>2, <2>4, SMTT(30)
  <2>11. n > 0 => e.alloc[1] >= Lesser(Lesser(rem[1], Q), B)
    <3> SUFFICES ASSUME n > 0 PROVE e.alloc[1] >= Lesser(Lesser(rem[1], Q), B)
      OBVIOUS
    <3>1. 1 \in 1 .. n
      OBVIOUS
    <3>2. d.alloc[1] >= Lesser(Lesser(rem[1], Q), B) /\ e.alloc[1] >= d.alloc[1]
      BY <2>2, <2>3, <3>1 DEF RoundMakes
    <3>3. Lesser(Lesser(rem[1], Q), B) \in Nat
      BY <3>1 DEF Lesser
    <3>4. QED  BY <2>4, <3>1, <3>2, <3>3, SMTT(30)
  <2>9. Good(k + 1, e)
    BY <2>5, <2>6, <2>7, <2>8, <2>11
  <2>10. QED  BY <2>1, <2>9 DEF e
<1>5. Good(B, s[B]) /\ s[B] \in Divisions(n, rem)
  <2>1. 0 .. B \subseteq T
    <3> HIDE DEF T
    <3>1. QED  BY <1>3, <1>4, UpTo
  <2>2. B \in 0 .. B
    OBVIOUS
  <2>3. QED  BY <1>2, <2>1, <2>2
<1> DEFINE d == s[B]
<1>6. Good(B, d) /\ d \in Divisions(n, rem)
  BY <1>5
<1> HIDE DEF d
<1>7. Stuck(n, rem, Q, d)
  <2>1. CASE d.left <= B - B
    <3>1. d.left = 0 /\ \A i \in 1 .. n : d.alloc[i] \in Nat /\ rem[i] \in Nat
      BY <2>1, <1>6 DEF Divisions, Grants
    <3>2. QED  BY <3>1 DEF Stuck, Open, Lesser
  <2>2. QED  BY <2>1, <1>6
<1>8. Divided(n, rem, sch, Q, B, d)
  BY <1>6, <1>7 DEF Divided
<1>9. QED  BY <1>1, <1>8 DEF d

-------------------------------------------------------------------------------
(* The selection. *)

QueueType ==
  /\ pendingList \in Seq(Requests)
  /\ prompt \in [Requests -> Nat] /\ hit \in [Requests -> Nat]
  /\ scheduled \in [Requests -> Nat] /\ waited \in [Requests -> Nat]

\* Every request is pending once at most, and still needs tokens.
QueueSound ==
  /\ \A i, j \in 1 .. Len(pendingList) : pendingList[i] = pendingList[j] => i = j
  /\ \A i \in 1 .. Len(pendingList) :
       prompt[pendingList[i]] > hit[pendingList[i]] + scheduled[pendingList[i]]

Scans == [share : Int, picked : Seq(Requests), passed : Seq(Requests)]

ScansOf(s, B) ==
  /\ s \in [0 .. Len(pendingList) -> Scans]
  /\ s[0] = [share |-> B, picked |-> <<>>, passed |-> <<>>]
  /\ \A k \in 1 .. Len(pendingList) : s[k] = Consider(s[k-1], pendingList[k])

\* One pass of the selection passes a request over or picks it.
LEMMA ConsiderType ==
  ASSUME QueueType, NEW s \in Scans, NEW r \in Requests, NEW t, t = Consider(s, r)
  PROVE  /\ t \in Scans
         /\ Lesser(Quantum, Remaining(r)) \in Int
         /\ \/ /\ Lesser(Quantum, KnownRemaining(r)) > s.share
               /\ t.share = s.share /\ t.picked = s.picked /\ t.passed = Append(s.passed, r)
            \/ /\ Lesser(Quantum, KnownRemaining(r)) <= s.share
               /\ t.share = s.share - Lesser(Quantum, Remaining(r))
               /\ t.picked = Append(s.picked, r) /\ t.passed = s.passed
<1>1. s.share \in Int /\ s.picked \in Seq(Requests) /\ s.passed \in Seq(Requests)
  BY DEF Scans
<1>2. prompt[r] \in Nat /\ hit[r] \in Nat /\ scheduled[r] \in Nat
  BY DEF QueueType
<1>3. /\ Lesser(Quantum, Remaining(r)) \in Int
      /\ Lesser(Quantum, KnownRemaining(r)) \in Int
  BY <1>2, ForwardsAssumption DEF Remaining, KnownRemaining, Lesser
<1>4. CASE Lesser(Quantum, KnownRemaining(r)) > s.share
  <2>1. t = [s EXCEPT !.passed = Append(@, r)]
    BY <1>4 DEF Consider
  <2>2. /\ t = [share |-> s.share, picked |-> s.picked, passed |-> Append(s.passed, r)]
    BY <2>1 DEF Scans
  <2>3. t.share = s.share /\ t.picked = s.picked /\ t.passed = Append(s.passed, r)
    BY <2>2
  <2>4. t \in Scans
    BY <1>1, <2>2 DEF Scans
  <2>5. QED  BY <1>3, <1>4, <2>3, <2>4
<1>5. CASE ~(Lesser(Quantum, KnownRemaining(r)) > s.share)
  <2>1. t = [share |-> s.share - Lesser(Quantum, Remaining(r)),
             picked |-> Append(s.picked, r), passed |-> s.passed]
    BY <1>5 DEF Consider
  <2>2. /\ t.share = s.share - Lesser(Quantum, Remaining(r))
        /\ t.picked = Append(s.picked, r) /\ t.passed = s.passed
    BY <2>1
  <2>3. t \in Scans
    BY <1>1, <1>3, <2>1 DEF Scans
  <2>4. Lesser(Quantum, KnownRemaining(r)) <= s.share
    BY <1>1, <1>3, <1>5
  <2>5. QED  BY <1>3, <2>2, <2>3, <2>4
<1>6. QED  BY <1>4, <1>5

\* The loop of the selection, as a sequence of scans.
LEMMA ScanIs ==
  ASSUME QueueType, NEW B \in Nat
  PROVE  \E s : ScansOf(s, B) /\ Scan(B) = s[Len(pendingList)]
<1> DEFINE n == Len(pendingList)
           V == Scans
           v0 == [share |-> B, picked |-> <<>>, passed |-> <<>>]
           Pass(k, v) == Consider(v, pendingList[k])
           F == [k \in 1 .. n |-> [v \in V |-> Pass(k, v)]]
           Step(g) == [k \in 0 .. n |-> IF k = 0 THEN v0 ELSE Pass(k, g[k-1])]
           h == CHOOSE g : g = Step(g)
<1>0. n \in Nat /\ \A k \in 1 .. n : pendingList[k] \in Requests
  BY DEF QueueType
<1>1. v0 \in V
  BY DEF Scans
<1>2. ASSUME NEW k \in 1 .. n, NEW v \in V PROVE Pass(k, v) \in V
  BY <1>0, ConsiderType
<1>3. Scan(B) = h[n]
  BY DEF Scan
<1> HIDE DEF n, v0, Pass, V
<1>4. F \in [1 .. n -> [V -> V]] /\ \A k \in 1 .. n, v \in V : F[k][v] = Pass(k, v)
  BY <1>2
<1> HIDE DEF F
<1>5. PICK s : Outcome(s, n, V, v0, F)
  BY <1>0, <1>1, <1>4, Loop, Zenon
<1>6. /\ s \in [0 .. n -> V] /\ s[0] = v0
      /\ \A k \in 1 .. n : s[k-1] \in V /\ s[k] = Pass(k, s[k-1])
  <2>1. s \in [0 .. n -> V] /\ s[0] = v0 /\ \A k \in 1 .. n : s[k] = F[k][s[k-1]]
    BY <1>5 DEF Outcome
  <2>2. \A k \in 1 .. n : k - 1 \in 0 .. n
    BY <1>0
  <2>3. QED  BY <2>1, <2>2, <1>4
<1>7. s = Step(s)
  <2>1. \A k \in 0 .. n : k = 0 \/ k \in 1 .. n
    BY <1>0
  <2>2. s = [k \in 0 .. n |-> s[k]]
    BY <1>6
  <2>3. \A k \in 0 .. n : s[k] = IF k = 0 THEN v0 ELSE Pass(k, s[k-1])
    BY <1>6, <2>1
  <2>4. QED  BY <2>2, <2>3
<1>8. h = Step(h)
  <2> HIDE DEF Step
  <2>1. QED  BY <1>7
<1> HIDE DEF h
<1>9. h = s
  <2>1. h = [k \in 0 .. n |-> h[k]] /\ h[0] = v0 /\ \A k \in 1 .. n : h[k] = Pass(k, h[k-1])
    BY <1>0, <1>8
  <2>2. Follows(h, n, V, v0, F)
    BY <2>1, <1>4 DEF Follows
  <2>3. QED  BY <2>2, <1>5 DEF Outcome
<1>10. ScansOf(s, B)
  BY <1>6 DEF ScansOf, V, v0, Pass, n
<1>11. QED  BY <1>3, <1>9, <1>10 DEF n

\* The first shares of a list of requests.
FirstsOf(members) == [a \in 1 .. Len(members) |-> Lesser(Remaining(members[a]), Quantum)]

(* What the scan has made of the first k requests: each of them is in one of  *)
(* the two lists, and one that was passed over is not further back than it    *)
(* was, further ahead if the budget holds a page.                             *)
ScanInv(s, k, B) ==
  /\ s \in Scans /\ s.share \in Nat
  /\ Len(s.picked) + Len(s.passed) = k
  /\ \A a \in 1 .. Len(s.picked) :
       /\ \E j \in 1 .. k : s.picked[a] = pendingList[j]
       /\ B < Quantum => Remaining(s.picked[a]) < Quantum
  /\ \A a \in 1 .. Len(s.passed) :
       \E j \in 1 .. k : s.passed[a] = pendingList[j] /\ a <= j /\ (Quantum <= B => a < j)
  /\ \A a, b \in 1 .. Len(s.picked) : s.picked[a] = s.picked[b] => a = b
  /\ \A a, b \in 1 .. Len(s.passed) : s.passed[a] = s.passed[b] => a = b
  /\ \A a \in 1 .. Len(s.picked), b \in 1 .. Len(s.passed) : s.picked[a] # s.passed[b]
  /\ Quantum <= B /\ k > 0 => Len(s.picked) > 0
  /\ TotalOf(FirstsOf(s.picked)) + s.share = B

\* A pending request still needs tokens, and no more than the selection assumes.
LEMMA RemainingIs ==
  ASSUME QueueType, QueueSound, NEW j \in 1 .. Len(pendingList)
  PROVE  /\ pendingList[j] \in Requests
         /\ Remaining(pendingList[j]) \in Nat \ {0}
         /\ KnownRemaining(pendingList[j]) \in Nat \ {0}
         /\ Remaining(pendingList[j]) <= KnownRemaining(pendingList[j])
<1>1. pendingList[j] \in Requests
  BY DEF QueueType
<1> DEFINE r == pendingList[j]
<1>2. prompt[r] \in Nat /\ hit[r] \in Nat /\ scheduled[r] \in Nat /\ prompt[r] > hit[r] + scheduled[r]
  BY <1>1 DEF QueueType, QueueSound
<1> HIDE DEF r
<1>3. /\ Remaining(r) \in Nat \ {0} /\ KnownRemaining(r) \in Nat \ {0}
      /\ Remaining(r) <= KnownRemaining(r)
  BY <1>2 DEF Remaining, KnownRemaining
<1>4. QED  BY <1>1, <1>3 DEF r

\* Appending to a sequence.
LEMMA AppendOf ==
  ASSUME NEW S, NEW p \in Seq(S), NEW r \in S, NEW q, q = Append(p, r)
  PROVE  /\ q \in Seq(S) /\ Len(q) = Len(p) + 1 /\ q[Len(p) + 1] = r
         /\ \A a \in 1 .. Len(p) : q[a] = p[a]
OBVIOUS

\* The scan begins with two empty lists and the whole budget.
LEMMA ScanStarts ==
  ASSUME QueueType, NEW B \in Nat,
         NEW s, s = [share |-> B, picked |-> <<>>, passed |-> <<>>]
  PROVE  ScanInv(s, 0, B)
<1>1. s \in Scans /\ s.share = B /\ s.picked = <<>> /\ s.passed = <<>>
  BY DEF Scans
<1>2. TotalOf(FirstsOf(s.picked)) = 0
  <2>1. FirstsOf(s.picked) = [a \in 1 .. 0 |-> 0]
    BY <1>1 DEF FirstsOf
  <2>2. 0 \in Nat
    OBVIOUS
  <2>3. TotalOf([a \in 1 .. 0 |-> 0]) = 0
    BY <2>2, TotalOfNothing
  <2>4. QED  BY <2>1, <2>3
<1>3. QED  BY <1>1, <1>2 DEF ScanInv

\* Considering the next request keeps what the scan has made of the list.
LEMMA ScanStep ==
  ASSUME QueueType, QueueSound, NEW B \in Nat, NEW k \in 0 .. Len(pendingList) - 1,
         NEW s, ScanInv(s, k, B), NEW t, t = Consider(s, pendingList[k + 1])
  PROVE  ScanInv(t, k + 1, B)
<1> DEFINE r == pendingList[k + 1]
           p == s.picked
           q == s.passed
<1>0. Len(pendingList) \in Nat /\ k \in Nat /\ k + 1 \in 1 .. Len(pendingList) /\ Quantum \in Nat \ {0}
  BY ForwardsAssumption DEF QueueType
<1>1. /\ r \in Requests /\ Remaining(r) \in Nat \ {0} /\ KnownRemaining(r) \in Nat \ {0}
      /\ Remaining(r) <= KnownRemaining(r)
  BY <1>0, RemainingIs
<1>2. /\ s \in Scans /\ s.share \in Nat
      /\ Len(p) + Len(q) = k
      /\ \A a \in 1 .. Len(p) :
           /\ \E j \in 1 .. k : p[a] = pendingList[j]
           /\ B < Quantum => Remaining(p[a]) < Quantum
      /\ \A a \in 1 .. Len(q) :
           \E j \in 1 .. k : q[a] = pendingList[j] /\ a <= j /\ (Quantum <= B => a < j)
      /\ \A a, b \in 1 .. Len(p) : p[a] = p[b] => a = b
      /\ \A a, b \in 1 .. Len(q) : q[a] = q[b] => a = b
      /\ \A a \in 1 .. Len(p), b \in 1 .. Len(q) : p[a] # q[b]
      /\ Quantum <= B /\ k > 0 => Len(p) > 0
      /\ TotalOf(FirstsOf(p)) + s.share = B
  BY DEF ScanInv
<1>3. p \in Seq(Requests) /\ q \in Seq(Requests) /\ Len(p) \in Nat /\ Len(q) \in Nat
  BY <1>2 DEF Scans
<1>4. \A j \in 1 .. k : pendingList[j] # r
  BY <1>0 DEF QueueSound
<1>5. (\A a \in 1 .. Len(p) : p[a] # r) /\ (\A a \in 1 .. Len(q) : q[a] # r)
  <2> HIDE DEF p, q, r
  <2>1. \A a \in 1 .. Len(p) : \E j \in 1 .. k : p[a] = pendingList[j]
    BY <1>2
  <2>2. \A a \in 1 .. Len(q) : \E j \in 1 .. k : q[a] = pendingList[j]
    BY <1>2
  <2>3. QED  BY <2>1, <2>2, <1>4
<1>6. FirstsOf(p) \in [1 .. Len(p) -> Nat]
  <2>1. \A a \in 1 .. Len(p) : Remaining(p[a]) \in Nat
    <3> TAKE a \in 1 .. Len(p)
    <3>1. PICK j \in 1 .. k : p[a] = pendingList[j]
      BY <1>2
    <3>2. j \in 1 .. Len(pendingList)
      BY <1>0
    <3>3. QED  BY <3>1, <3>2, RemainingIs
  <2> HIDE DEF p
  <2>2. QED  BY <2>1, <1>0 DEF FirstsOf, Lesser
<1>7. TotalOf(FirstsOf(p)) \in Nat
  <2> DEFINE f == FirstsOf(p)
  <2>1. f \in [1 .. Len(p) -> Nat] /\ Len(p) \in Nat
    BY <1>3, <1>6
  <2> HIDE DEF f, p
  <2>2. PICK x : Sums(f, Len(p), x) /\ TotalOf(f) = x[Len(p)]
    BY <2>1, LenOf, TotalIs
  <2>3. QED  BY <2>1, <2>2 DEF Sums, f
<1>8. /\ t \in Scans
      /\ \/ /\ Lesser(Quantum, KnownRemaining(r)) > s.share
            /\ t.share = s.share /\ t.picked = p /\ t.passed = Append(q, r)
         \/ /\ Lesser(Quantum, KnownRemaining(r)) <= s.share
            /\ t.share = s.share - Lesser(Quantum, Remaining(r))
            /\ t.picked = Append(p, r) /\ t.passed = q
  <2>1. t = Consider(s, r) /\ r \in Requests /\ s \in Scans
    BY <1>1, <1>2
  <2> HIDE DEF r
  <2>2. QED  BY <2>1, ConsiderType
<1>9. CASE /\ Lesser(Quantum, KnownRemaining(r)) > s.share
           /\ t.share = s.share /\ t.picked = p /\ t.passed = Append(q, r)
  <2> DEFINE u == t.passed
  <2>1. u = Append(q, r)
    BY <1>9
  <2>2. Quantum <= B => k > 0 /\ Len(p) > 0
    <3> SUFFICES ASSUME Quantum <= B PROVE k > 0
      BY <1>2
    <3> SUFFICES ASSUME k = 0 PROVE FALSE
      BY <1>0
    <3>1. p = <<>> /\ Len(p) = 0
      BY <1>2, <1>3
    <3>2. FirstsOf(p) = [a \in 1 .. 0 |-> 0]
      BY <3>1 DEF FirstsOf
    <3>3. 0 \in Nat
      OBVIOUS
    <3>4. TotalOf([a \in 1 .. 0 |-> 0]) = 0
      BY <3>3, TotalOfNothing
    <3>5. s.share = B
      BY <3>2, <3>4, <1>2
    <3>6. QED  BY <3>5, <1>9, <1>0, <1>1 DEF Lesser
  <2> HIDE DEF u, p, q, r
  <2>3. /\ u \in Seq(Requests) /\ Len(u) = Len(q) + 1 /\ u[Len(q) + 1] = r
        /\ \A a \in 1 .. Len(q) : u[a] = q[a]
    BY <2>1, <1>1, <1>3, AppendOf
  <2>4. \A a \in 1 .. Len(u) : a = Len(q) + 1 \/ a \in 1 .. Len(q)
    BY <2>3, <1>3
  <2>5. \A a \in 1 .. Len(u) :
          \E j \in 1 .. k + 1 : u[a] = pendingList[j] /\ a <= j /\ (Quantum <= B => a < j)
    <3> TAKE a \in 1 .. Len(u)
    <3>1. CASE a \in 1 .. Len(q)
      <4>1. PICK j \in 1 .. k : q[a] = pendingList[j] /\ a <= j /\ (Quantum <= B => a < j)
        BY <3>1, <1>2
      <4>2. j \in 1 .. k + 1 /\ u[a] = pendingList[j]
        BY <3>1, <4>1, <2>3, <1>0
      <4>3. QED  BY <4>1, <4>2
    <3>2. CASE a = Len(q) + 1
      <4>1. u[a] = pendingList[k + 1] /\ k + 1 \in 1 .. k + 1
        BY <3>2, <2>3, <1>0 DEF r
      <4>2. a <= k + 1 /\ (Quantum <= B => a < k + 1)
        BY <3>2, <1>2, <1>3, <2>2
      <4>3. QED  BY <4>1, <4>2
    <3>3. QED  BY <3>1, <3>2, <2>4
  <2>6. \A a, b \in 1 .. Len(u) : u[a] = u[b] => a = b
    <3> TAKE a, b \in 1 .. Len(u)
    <3>1. CASE a \in 1 .. Len(q) /\ b \in 1 .. Len(q)
      BY <3>1, <1>2, <2>3
    <3>2. CASE a = Len(q) + 1 /\ b \in 1 .. Len(q)
      BY <3>2, <1>5, <2>3
    <3>3. CASE b = Len(q) + 1 /\ a \in 1 .. Len(q)
      BY <3>3, <1>5, <2>3
    <3>4. QED  BY <3>1, <3>2, <3>3, <2>4
  <2>7. \A a \in 1 .. Len(p), b \in 1 .. Len(u) : p[a] # u[b]
    BY <1>2, <1>5, <2>3, <2>4
  <2>8. \A a \in 1 .. Len(p) : \E j \in 1 .. k + 1 : p[a] = pendingList[j]
    <3> TAKE a \in 1 .. Len(p)
    <3>1. PICK j \in 1 .. k : p[a] = pendingList[j]
      BY <1>2
    <3>2. j \in 1 .. k + 1
      BY <1>0
    <3>3. QED  BY <3>1, <3>2
  <2>9. Len(p) + Len(u) = k + 1 /\ (Quantum <= B => Len(p) > 0)
    BY <1>0, <1>2, <1>3, <2>2, <2>3
  <2>10. t.picked = p /\ t.passed = u /\ t.share = s.share
    BY <1>9 DEF u
  <2>11. QED
    BY <1>2, <1>8, <2>5, <2>6, <2>7, <2>8, <2>9, <2>10 DEF ScanInv
<1>10. CASE /\ Lesser(Quantum, KnownRemaining(r)) <= s.share
            /\ t.share = s.share - Lesser(Quantum, Remaining(r))
            /\ t.picked = Append(p, r) /\ t.passed = q
  <2> DEFINE u == t.picked
  <2>1. u = Append(p, r)
    BY <1>10
  <2>2. Lesser(Quantum, Remaining(r)) \in Nat /\ Lesser(Quantum, Remaining(r)) <= s.share
    BY <1>0, <1>1, <1>2, <1>10 DEF Lesser
  <2>3. s.share <= B
    BY <1>2, <1>7
  <2>4. B < Quantum => Remaining(r) < Quantum
    BY <2>3, <1>0, <1>1, <1>2, <1>10 DEF Lesser
  <2>5. Lesser(Remaining(r), Quantum) = Lesser(Quantum, Remaining(r))
    BY <1>0, <1>1 DEF Lesser
  <2> HIDE DEF u, p, q, r
  <2>6. /\ u \in Seq(Requests) /\ Len(u) = Len(p) + 1 /\ u[Len(p) + 1] = r
        /\ \A a \in 1 .. Len(p) : u[a] = p[a]
    BY <2>1, <1>1, <1>3, AppendOf
  <2>7. \A a \in 1 .. Len(u) : a = Len(p) + 1 \/ a \in 1 .. Len(p)
    BY <2>6, <1>3
  <2>8. \A a \in 1 .. Len(u) : /\ \E j \in 1 .. k + 1 : u[a] = pendingList[j]
                               /\ B < Quantum => Remaining(u[a]) < Quantum
    <3> TAKE a \in 1 .. Len(u)
    <3>1. CASE a \in 1 .. Len(p)
      <4>1. PICK j \in 1 .. k : p[a] = pendingList[j]
        BY <3>1, <1>2
      <4>2. j \in 1 .. k + 1 /\ u[a] = p[a]
        BY <3>1, <2>6, <1>0
      <4>3. QED  BY <3>1, <4>1, <4>2, <1>2
    <3>2. CASE a = Len(p) + 1
      <4>1. u[a] = pendingList[k + 1] /\ k + 1 \in 1 .. k + 1 /\ u[a] = r
        BY <3>2, <2>6, <1>0 DEF r
      <4>2. QED  BY <4>1, <2>4
    <3>3. QED  BY <3>1, <3>2, <2>7
  <2>9. \A a, b \in 1 .. Len(u) : u[a] = u[b] => a = b
    <3> TAKE a, b \in 1 .. Len(u)
    <3>1. CASE a \in 1 .. Len(p) /\ b \in 1 .. Len(p)
      BY <3>1, <1>2, <2>6
    <3>2. CASE a = Len(p) + 1 /\ b \in 1 .. Len(p)
      BY <3>2, <1>5, <2>6
    <3>3. CASE b = Len(p) + 1 /\ a \in 1 .. Len(p)
      BY <3>3, <1>5, <2>6
    <3>4. QED  BY <3>1, <3>2, <3>3, <2>7
  <2>10. \A a \in 1 .. Len(u), b \in 1 .. Len(q) : u[a] # q[b]
    BY <1>2, <1>5, <2>6, <2>7, SMTT(30)
  <2>11. \A a \in 1 .. Len(q) :
           \E j \in 1 .. k + 1 : q[a] = pendingList[j] /\ a <= j /\ (Quantum <= B => a < j)
    <3> TAKE a \in 1 .. Len(q)
    <3>1. PICK j \in 1 .. k : q[a] = pendingList[j] /\ a <= j /\ (Quantum <= B => a < j)
      BY <1>2
    <3>2. j \in 1 .. k + 1
      BY <1>0
    <3>3. QED  BY <3>1, <3>2
  <2>12. TotalOf(FirstsOf(u)) = TotalOf(FirstsOf(p)) + Lesser(Remaining(r), Quantum)
    <3> DEFINE f == FirstsOf(p)
               g == FirstsOf(u)
    <3>1. f \in [1 .. Len(p) -> Nat] /\ \A a \in 1 .. Len(p) : f[a] = Lesser(Remaining(p[a]), Quantum)
      BY <1>6 DEF FirstsOf
    <3>2. g = [a \in 1 .. Len(p) + 1 |-> Lesser(Remaining(u[a]), Quantum)]
      BY <2>6 DEF FirstsOf
    <3>3. \A a \in 1 .. Len(p) : g[a] = f[a]
      BY <3>1, <3>2, <2>6, <1>3
    <3>4. g[Len(p) + 1] = Lesser(Remaining(r), Quantum)
      BY <3>2, <2>6, <1>3
    <3>5. \A a \in 1 .. Len(p) + 1 : a = Len(p) + 1 \/ a \in 1 .. Len(p)
      BY <1>3
    <3>6. g \in [1 .. Len(p) + 1 -> Nat]
      <4>1. \A a \in 1 .. Len(p) + 1 : g[a] \in Nat
        BY <3>1, <3>3, <3>4, <3>5, <2>2, <2>5
      <4>2. g = [a \in 1 .. Len(p) + 1 |-> g[a]]
        BY <3>2
      <4>3. QED  BY <4>1, <4>2
    <3> HIDE DEF f, g
    <3>7. TotalOf(g) = TotalOf(f) + g[Len(p) + 1]
      BY <3>1, <3>3, <3>6, <1>3, TotalOfLonger
    <3>8. QED  BY <3>4, <3>7 DEF f, g
  <2>13. TotalOf(FirstsOf(u)) + t.share = B
    BY <2>12, <2>2, <2>5, <1>2, <1>7, <1>10
  <2>14. Len(u) + Len(q) = k + 1 /\ Len(u) > 0 /\ t.share \in Nat
    <3>1. t.share = s.share - Lesser(Quantum, Remaining(r)) /\ s.share \in Nat
      BY <1>2, <1>10
    <3>2. t.share \in Nat
      BY <3>1, <2>2
    <3>3. Len(u) = Len(p) + 1 /\ Len(p) + Len(q) = k
      BY <1>2, <2>6
    <3>4. QED  BY <3>2, <3>3, <1>0, <1>3
  <2>15. t.picked = u /\ t.passed = q
    BY <1>10 DEF u
  <2>16. QED
    BY <1>2, <1>8, <2>8, <2>9, <2>10, <2>11, <2>13, <2>14, <2>15 DEF ScanInv
<1>11. QED  BY <1>8, <1>9, <1>10

(* A selection splits the pending list in two.  Nobody that is passed over    *)
(* falls back, and its next place is further ahead unless the budget is below *)
(* a page and finishes all that were picked.                                  *)
Splits(sel, B) ==
  /\ sel.picked \in Seq(Requests) /\ sel.passed \in Seq(Requests) /\ Len(sel.picked) > 0
  /\ \A a \in 1 .. Len(sel.picked) : \E j \in 1 .. Len(pendingList) : sel.picked[a] = pendingList[j]
  /\ \A a \in 1 .. Len(sel.passed) :
       \E j \in 1 .. Len(pendingList) :
         /\ sel.passed[a] = pendingList[j] /\ a <= j
         /\ \/ a < j
            \/ /\ B < Quantum /\ TotalOf(FirstsOf(sel.picked)) <= B
               /\ \A b \in 1 .. Len(sel.picked) : Remaining(sel.picked[b]) < Quantum
  /\ \A a, b \in 1 .. Len(sel.picked) : sel.picked[a] = sel.picked[b] => a = b
  /\ \A a, b \in 1 .. Len(sel.passed) : sel.passed[a] = sel.passed[b] => a = b
  /\ \A a \in 1 .. Len(sel.picked), b \in 1 .. Len(sel.passed) : sel.picked[a] # sel.passed[b]
  /\ TotalOf(FirstsOf(sel.picked)) <= B \/ (B < Quantum /\ Len(sel.picked) = 1)

\* The head and the tail of a sequence.
LEMMA TailOf ==
  ASSUME NEW S, NEW p \in Seq(S), Len(p) > 0, NEW h, h = <<Head(p)>>, NEW q, q = Tail(p)
  PROVE  /\ q \in Seq(S) /\ Len(q) + 1 = Len(p)
         /\ \A a \in 1 .. Len(q) : a + 1 \in 1 .. Len(p) /\ q[a] = p[a + 1]
         /\ h \in Seq(S) /\ Len(h) = 1 /\ h[1] = p[1]
OBVIOUS

\* What the scan makes of the whole pending list.
LEMMA ScanEnds ==
  ASSUME QueueType, QueueSound, NEW B \in Nat
  PROVE  ScanInv(Scan(B), Len(pendingList), B)
<1> DEFINE n == Len(pendingList)
<1>1. n \in Nat
  BY DEF QueueType
<1>2. PICK s : ScansOf(s, B) /\ Scan(B) = s[n]
  BY ScanIs
<1> DEFINE T == {k \in 0 .. n : ScanInv(s[k], k, B)}
<1>3. 0 \in T
  <2>1. s[0] = [share |-> B, picked |-> <<>>, passed |-> <<>>]
    BY <1>2 DEF ScansOf
  <2>2. ScanInv(s[0], 0, B)
    BY <2>1, ScanStarts
  <2>3. QED  BY <1>1, <2>2
<1>4. ASSUME NEW k \in 0 .. n - 1, k \in T PROVE k + 1 \in T
  <2>1. k + 1 \in 1 .. n /\ k + 1 \in 0 .. n /\ (k + 1) - 1 = k
    BY <1>1
  <2>2. s[k + 1] = Consider(s[k], pendingList[k + 1])
    BY <1>2, <2>1 DEF ScansOf
  <2>3. ScanInv(s[k], k, B)
    BY <1>4
  <2>4. ScanInv(s[k + 1], k + 1, B)
    BY <2>2, <2>3, ScanStep
  <2>5. QED  BY <2>1, <2>4
<1>5. 0 .. n \subseteq T
  <2> HIDE DEF T, n
  <2>1. QED  BY <1>1, <1>3, <1>4, UpTo
<1>6. QED  BY <1>1, <1>2, <1>5

\* A selection, with its fallback to the first request, splits the queue.
LEMMA SelectionSplits ==
  ASSUME QueueType, QueueSound, pendingList # <<>>, NEW B \in Nat, NEW sel, sel = Selected(B)
  PROVE  Splits(sel, B)
<1> DEFINE n == Len(pendingList)
           scan == Scan(B)
           p == sel.picked
           q == sel.passed
<1>0. n \in Nat /\ n > 0 /\ pendingList \in Seq(Requests) /\ Quantum \in Nat \ {0}
  BY ForwardsAssumption DEF QueueType
<1>1. /\ scan \in Scans /\ scan.share \in Nat
      /\ Len(scan.picked) + Len(scan.passed) = n
      /\ \A a \in 1 .. Len(scan.picked) :
           /\ \E j \in 1 .. n : scan.picked[a] = pendingList[j]
           /\ B < Quantum => Remaining(scan.picked[a]) < Quantum
      /\ \A a \in 1 .. Len(scan.passed) :
           \E j \in 1 .. n : scan.passed[a] = pendingList[j] /\ a <= j /\ (Quantum <= B => a < j)
      /\ \A a, b \in 1 .. Len(scan.picked) : scan.picked[a] = scan.picked[b] => a = b
      /\ \A a, b \in 1 .. Len(scan.passed) : scan.passed[a] = scan.passed[b] => a = b
      /\ \A a \in 1 .. Len(scan.picked), b \in 1 .. Len(scan.passed) : scan.picked[a] # scan.passed[b]
      /\ Quantum <= B /\ n > 0 => Len(scan.picked) > 0
      /\ TotalOf(FirstsOf(scan.picked)) + scan.share = B
  <2>1. ScanInv(Scan(B), n, B)
    BY ScanEnds
  <2>2. QED  BY <2>1 DEF ScanInv
<1>2. scan.picked \in Seq(Requests) /\ scan.passed \in Seq(Requests)
  BY <1>1 DEF Scans
<1>3. CASE scan.picked = <<>>
  <2>1. p = <<Head(pendingList)>> /\ q = Tail(pendingList)
    BY <1>3 DEF Selected
  <2>2. B < Quantum
    BY <1>0, <1>1, <1>3
  <2> HIDE DEF p, q, n
  <2>3. /\ q \in Seq(Requests) /\ Len(q) + 1 = Len(pendingList)
        /\ \A a \in 1 .. Len(q) : a + 1 \in 1 .. Len(pendingList) /\ q[a] = pendingList[a + 1]
        /\ p \in Seq(Requests) /\ Len(p) = 1 /\ p[1] = pendingList[1]
    <3>1. Len(pendingList) > 0
      BY <1>0 DEF n
    <3>2. QED  BY <1>0, <2>1, <3>1, TailOf
  <2>4. Len(q) \in Nat /\ 1 \in 1 .. Len(pendingList)
    BY <1>0, <2>3 DEF n
  <2>5. \A i, j \in 1 .. Len(pendingList) : pendingList[i] = pendingList[j] => i = j
    BY DEF QueueSound
  <2>6. \A a \in 1 .. Len(p) : a = 1
    BY <2>3
  <2>7. \A a \in 1 .. Len(q) : a + 1 \in 1 .. Len(pendingList) /\ q[a] = pendingList[a + 1]
                               /\ a <= a + 1 /\ a < a + 1
    BY <2>3, <2>4
  <2>8. \A a, b \in 1 .. Len(q) : q[a] = q[b] => a = b
    <3> TAKE a, b \in 1 .. Len(q)
    <3>1. q[a] = q[b] => a + 1 = b + 1
      BY <2>5, <2>7
    <3>2. QED  BY <3>1, <2>4
  <2>9. \A b \in 1 .. Len(q) : q[b] # pendingList[1]
    <3> TAKE b \in 1 .. Len(q)
    <3>1. b + 1 # 1
      BY <2>4
    <3>2. QED  BY <3>1, <2>4, <2>5, <2>7
  <2>10. /\ \A a \in 1 .. Len(p) : \E j \in 1 .. Len(pendingList) : p[a] = pendingList[j]
         /\ \A a, b \in 1 .. Len(p) : p[a] = p[b] => a = b
         /\ \A a \in 1 .. Len(p), b \in 1 .. Len(q) : p[a] # q[b]
    BY <2>3, <2>4, <2>6, <2>9
  <2>11. Splits(sel, B)
    BY <2>2, <2>3, <2>7, <2>8, <2>10 DEF Splits, p, q
  <2>12. QED  BY <2>11
<1>4. CASE scan.picked # <<>>
  <2>1. p = scan.picked /\ q = scan.passed
    BY <1>4 DEF Selected
  <2>2. Len(p) > 0
    BY <1>2, <1>4, <2>1
  <2>3. TotalOf(FirstsOf(p)) <= B
    <3> DEFINE x == TotalOf(FirstsOf(p))
    <3>1. x \in Nat
      <4> DEFINE f == FirstsOf(p)
      <4>1. Len(p) \in Nat
        BY <1>2, <2>1
      <4>2. \A a \in 1 .. Len(p) : Remaining(p[a]) \in Nat
        <5> TAKE a \in 1 .. Len(p)
        <5>1. \E j \in 1 .. n : scan.picked[a] = pendingList[j]
          BY <1>1, <2>1
        <5>2. PICK j \in 1 .. Len(pendingList) : p[a] = pendingList[j]
          BY <5>1, <2>1
        <5>3. QED  BY <5>2, RemainingIs
      <4>3. f \in [1 .. Len(p) -> Nat]
        <5> HIDE DEF p
        <5>1. QED  BY <4>2, <1>0 DEF FirstsOf, Lesser
      <4> HIDE DEF f, p
      <4>4. PICK y : Sums(f, Len(p), y) /\ TotalOf(f) = y[Len(p)]
        BY <4>1, <4>3, LenOf, TotalIs
      <4>5. QED  BY <4>1, <4>4 DEF Sums, f
    <3>2. x + scan.share = B /\ scan.share \in Nat
      BY <1>1, <2>1
    <3> HIDE DEF x
    <3>3. x <= B
      BY <3>1, <3>2
    <3>4. QED  BY <3>3 DEF x
  <2> HIDE DEF p, q, scan
  <2>4. ASSUME NEW a \in 1 .. Len(q)
        PROVE  \E j \in 1 .. n :
                 /\ q[a] = pendingList[j] /\ a <= j
                 /\ \/ a < j
                    \/ /\ B < Quantum /\ TotalOf(FirstsOf(p)) <= B
                       /\ \A b \in 1 .. Len(p) : Remaining(p[b]) < Quantum
    <3>1. PICK j \in 1 .. n : q[a] = pendingList[j] /\ a <= j /\ (Quantum <= B => a < j)
      BY <1>1, <2>1
    <3>2. CASE Quantum <= B
      BY <3>1, <3>2
    <3>3. CASE B < Quantum
      BY <3>1, <3>3, <1>1, <2>1, <2>3
    <3>4. QED  BY <3>2, <3>3, <1>0
  <2>5. p \in Seq(Requests) /\ q \in Seq(Requests)
    BY <1>2, <2>1
  <2>6. /\ \A a \in 1 .. Len(p) : \E j \in 1 .. n : p[a] = pendingList[j]
        /\ \A a, b \in 1 .. Len(p) : p[a] = p[b] => a = b
        /\ \A a, b \in 1 .. Len(q) : q[a] = q[b] => a = b
        /\ \A a \in 1 .. Len(p), b \in 1 .. Len(q) : p[a] # q[b]
    BY <1>1, <2>1
  <2>7. Splits(sel, B)
    BY <2>2, <2>3, <2>4, <2>5, <2>6 DEF Splits, p, q, n
  <2>8. QED  BY <2>7
<1>5. QED  BY <1>3, <1>4

\* A multiple of the quantum is aligned.
LEMMA MultipleAligned ==
  ASSUME NEW m \in Nat, NEW Q \in Nat \ {0}
  PROVE  (m * Q) % Q = 0
<1>1. m * Q \in Nat
  BY SMT
<1> DEFINE x == m * Q
           y == x \div Q
           z == x % Q
<1>2. x = Q * y + z /\ 0 <= z /\ z < Q /\ y \in Int /\ z \in Int
  BY <1>1, SMT
<1>3. z = Q * (m - y)
  BY <1>2, SMT
<1>4. m - y \in Int
  BY <1>2
<1> HIDE DEF x, y, z
<1> DEFINE u == m - y
<1>5. z = Q * u /\ u \in Int
  BY <1>3, <1>4
<1> HIDE DEF u
<1>6. u <= 0 => Q * u <= 0
  BY <1>5, SMT
<1>7. u >= 1 => Q * u >= Q
  BY <1>5, SMT
<1>8. z = 0
  BY <1>2, <1>5, <1>6, <1>7
<1>9. QED  BY <1>8 DEF z, x

(* The chunks of a forward: nothing usable is left over, and where the first   *)
(* shares fit into the budget, the chunks are whole quanta and fair.            *)
ChunksSound(n, rem, sch, Q, B, alloc) ==
  /\ alloc \in [1 .. n -> Nat]
  /\ \A i \in 1 .. n : alloc[i] <= rem[i]
  /\ TotalOf(alloc) <= B
  /\ n > 0 => alloc[1] >= Lesser(Lesser(rem[1], Q), B)
  /\ \A i \in 1 .. n : alloc[i] < rem[i] => B - TotalOf(alloc) < Lesser(Q, rem[i] - alloc[i])
  /\ TotalOf(Firsts(n, rem, Q)) <= B =>
       /\ \A i \in 1 .. n : alloc[i] >= Lesser(rem[i], Q)
       /\ \A i \in 1 .. n : alloc[i] < rem[i] => alloc[i] % Q = 0
       /\ \A i, j \in 1 .. n :
            alloc[i] < rem[i] /\ alloc[j] < rem[j] =>
              /\ alloc[i] - alloc[j] \in {-Q, 0, Q}
              /\ alloc[i] > alloc[j] => Leads(sch, i, j)

\* Whatever is asked of it, allocate_fair_prefill_chunks returns sound chunks.
LEMMA ChunksAreSound ==
  ASSUME NEW n \in Nat, NEW rem \in [1 .. n -> Nat], NEW sch \in [1 .. n -> Nat],
         NEW Q \in Nat \ {0}, NEW B \in Nat,
         NEW alloc, alloc = AllocateFairPrefillChunks(B, Q, sch, rem)
  PROVE  ChunksSound(n, rem, sch, Q, B, alloc)
<1>1. PICK d : Divided(n, rem, sch, Q, B, d) /\ alloc = d.alloc
  <2>1. \E d : Divided(n, rem, sch, Q, B, d) /\ AllocateFairPrefillChunks(B, Q, sch, rem) = d.alloc
    BY ChunksDivide, ZenonT(40)
  <2>2. QED  BY <2>1
<1>2. /\ d.alloc \in [1 .. n -> Nat] /\ d.left \in Nat
      /\ \A i \in 1 .. n : d.alloc[i] <= rem[i]
      /\ TotalOf(d.alloc) + d.left = B
      /\ Stuck(n, rem, Q, d)
      /\ n > 0 => d.alloc[1] >= Lesser(Lesser(rem[1], Q), B)
  BY <1>1 DEF Divided, Divisions, Grants
<1>3. TotalOf(alloc) \in Nat
  <2>1. alloc \in [1 .. n -> Nat]
    BY <1>1, <1>2
  <2>2. PICK p : Sums(alloc, n, p) /\ TotalOf(alloc) = p[n]
    BY <2>1, LenOf, TotalIs
  <2>3. QED  BY <2>2 DEF Sums
<1>4. B - TotalOf(alloc) = d.left
  BY <1>1, <1>2, <1>3
<1>5. \A i \in 1 .. n : alloc[i] < rem[i] <=> i \in Open(n, rem, d)
  BY <1>1 DEF Open
<1>6. \A i \in 1 .. n : alloc[i] < rem[i] => B - TotalOf(alloc) < Lesser(Q, rem[i] - alloc[i])
  <2> TAKE i \in 1 .. n
  <2> HAVE alloc[i] < rem[i]
  <2>1. Lesser(Q, rem[i] - alloc[i]) > d.left
    BY <1>1, <1>2, <1>5 DEF Stuck
  <2>2. Lesser(Q, rem[i] - alloc[i]) \in Int
    BY <1>1, <1>2, SMTT(30) DEF Lesser
  <2>3. QED  BY <2>1, <2>2, <1>2, <1>4
<1>7. ASSUME TotalOf(Firsts(n, rem, Q)) <= B
      PROVE  /\ \A i \in 1 .. n : alloc[i] >= Lesser(rem[i], Q)
             /\ \A i \in 1 .. n : alloc[i] < rem[i] => alloc[i] % Q = 0
             /\ \A i, j \in 1 .. n :
                  alloc[i] < rem[i] /\ alloc[j] < rem[j] =>
                    /\ alloc[i] - alloc[j] \in {-Q, 0, Q}
                    /\ alloc[i] > alloc[j] => Leads(sch, i, j)
  <2>1. Even(n, rem, sch, Q, d) /\ \A i \in 1 .. n : d.alloc[i] >= Lesser(rem[i], Q)
    BY <1>1, <1>7 DEF Divided
  <2>2. ASSUME NEW i \in 1 .. n, alloc[i] < rem[i] PROVE alloc[i] % Q = 0
    <3>1. PICK m \in Nat : d.alloc[i] = m * Q
      BY <2>1, <2>2, <1>5 DEF Even
    <3>2. QED  BY <3>1, <1>1, MultipleAligned
  <2>3. ASSUME NEW i \in 1 .. n, NEW j \in 1 .. n, alloc[i] < rem[i], alloc[j] < rem[j]
        PROVE  /\ alloc[i] - alloc[j] \in {-Q, 0, Q}
               /\ alloc[i] > alloc[j] => Leads(sch, i, j)
    <3>1. \/ alloc[i] = alloc[j]
          \/ alloc[i] = alloc[j] + Q /\ Leads(sch, i, j)
          \/ alloc[j] = alloc[i] + Q /\ Leads(sch, j, i)
      BY <2>1, <2>3, <1>1, <1>5 DEF Even
    <3>2. alloc[i] \in Nat /\ alloc[j] \in Nat
      BY <1>1, <1>2
    <3>3. QED  BY <3>1, <3>2, SMTT(30)
  <2>4. QED  BY <2>1, <2>2, <2>3, <1>1
<1>8. TotalOf(alloc) <= B
  BY <1>1, <1>2, <1>3
<1>9. QED  BY <1>1, <1>2, <1>6, <1>7, <1>8 DEF ChunksSound

-------------------------------------------------------------------------------
(* The members that a forward does not finish. *)

\* What the loop has collected of the first k members.
ChunkedInv(s, k, members, chunks, wanted) ==
  /\ s \in Seq(Requests) /\ Len(s) <= k
  /\ \A a \in 1 .. Len(s) : \E i \in 1 .. k : s[a] = members[i] /\ chunks[i] < wanted[i]
  /\ \A a, b \in 1 .. Len(s) : s[a] = s[b] => a = b

\* Looking at the next member keeps what was collected of those before.
LEMMA ChunkedStep ==
  ASSUME NEW members \in Seq(Requests), NEW chunks, NEW wanted, NEW k \in 0 .. Len(members) - 1,
         \A i, j \in 1 .. Len(members) : members[i] = members[j] => i = j,
         NEW s, ChunkedInv(s, k, members, chunks, wanted),
         NEW t, t = IF chunks[k + 1] < wanted[k + 1] THEN Append(s, members[k + 1]) ELSE s
  PROVE  ChunkedInv(t, k + 1, members, chunks, wanted)
<1> DEFINE r == members[k + 1]
<1>1. k \in Nat /\ k + 1 \in 1 .. Len(members) /\ r \in Requests
  OBVIOUS
<1>2. /\ s \in Seq(Requests) /\ Len(s) \in Nat /\ Len(s) <= k
      /\ \A a \in 1 .. Len(s) : \E i \in 1 .. k : s[a] = members[i] /\ chunks[i] < wanted[i]
      /\ \A a, b \in 1 .. Len(s) : s[a] = s[b] => a = b
  BY DEF ChunkedInv
<1>3. \A a \in 1 .. Len(s) : \E i \in 1 .. k + 1 : s[a] = members[i] /\ chunks[i] < wanted[i]
  <2> TAKE a \in 1 .. Len(s)
  <2>1. PICK i \in 1 .. k : s[a] = members[i] /\ chunks[i] < wanted[i]
    BY <1>2
  <2>2. i \in 1 .. k + 1
    BY <1>1
  <2>3. QED  BY <2>1, <2>2
<1>4. \A a \in 1 .. Len(s) : s[a] # r
  <2> TAKE a \in 1 .. Len(s)
  <2>1. PICK i \in 1 .. k : s[a] = members[i]
    BY <1>2
  <2>2. i \in 1 .. Len(members) /\ i # k + 1
    BY <1>1
  <2>3. QED  BY <1>1, <2>1, <2>2
<1>5. CASE ~(chunks[k + 1] < wanted[k + 1])
  <2>1. t = s /\ Len(s) <= k + 1
    BY <1>1, <1>2, <1>5
  <2>2. QED  BY <1>2, <1>3, <2>1 DEF ChunkedInv
<1>6. CASE chunks[k + 1] < wanted[k + 1]
  <2>1. t = Append(s, r)
    BY <1>6
  <2>2. r = members[k + 1] /\ k + 1 \in 1 .. k + 1
    BY <1>1
  <2> HIDE DEF r
  <2>3. /\ t \in Seq(Requests) /\ Len(t) = Len(s) + 1 /\ t[Len(s) + 1] = r
        /\ \A a \in 1 .. Len(s) : t[a] = s[a]
    BY <1>1, <1>2, <2>1, AppendOf
  <2>4. \A a \in 1 .. Len(t) : a = Len(s) + 1 \/ a \in 1 .. Len(s)
    BY <1>2, <2>3
  <2>5. \A a \in 1 .. Len(t) : \E i \in 1 .. k + 1 : t[a] = members[i] /\ chunks[i] < wanted[i]
    <3> TAKE a \in 1 .. Len(t)
    <3>1. CASE a \in 1 .. Len(s)
      BY <3>1, <1>3, <2>3
    <3>2. CASE a = Len(s) + 1
      BY <3>2, <1>6, <2>2, <2>3
    <3>3. QED  BY <3>1, <3>2, <2>4
  <2>6. \A a, b \in 1 .. Len(t) : t[a] = t[b] => a = b
    <3> TAKE a, b \in 1 .. Len(t)
    <3>1. CASE a \in 1 .. Len(s) /\ b \in 1 .. Len(s)
      BY <3>1, <1>2, <2>3
    <3>2. CASE a = Len(s) + 1 /\ b \in 1 .. Len(s)
      BY <3>2, <1>4, <2>3
    <3>3. CASE b = Len(s) + 1 /\ a \in 1 .. Len(s)
      BY <3>3, <1>4, <2>3
    <3>4. QED  BY <3>1, <3>2, <3>3, <2>4
  <2>7. Len(t) <= k + 1
    BY <1>1, <1>2, <2>3
  <2>8. QED  BY <2>3, <2>5, <2>6, <2>7 DEF ChunkedInv
<1>7. QED  BY <1>5, <1>6

\* What chunked_list holds in the end.
LEMMA ChunkedIs ==
  ASSUME NEW members \in Seq(Requests), NEW chunks, NEW wanted,
         \A i, j \in 1 .. Len(members) : members[i] = members[j] => i = j
  PROVE  ChunkedInv(Chunked(members, chunks, wanted), Len(members), members, chunks, wanted)
<1> DEFINE n == Len(members)
           V == Seq(Requests)
           v0 == <<>>
           Pass(k, v) == IF chunks[k] < wanted[k] THEN Append(v, members[k]) ELSE v
           F == [k \in 1 .. n |-> [v \in V |-> Pass(k, v)]]
           Step(g) == [k \in 0 .. n |-> IF k = 0 THEN v0 ELSE Pass(k, g[k-1])]
           h == CHOOSE g : g = Step(g)
<1>0. n \in Nat
  OBVIOUS
<1>1. v0 \in V
  OBVIOUS
<1>2. ASSUME NEW k \in 1 .. n, NEW v \in V PROVE Pass(k, v) \in V
  OBVIOUS
<1>3. Chunked(members, chunks, wanted) = h[n]
  <2>1. \A g : Step(g) = [i \in 0 .. Len(members) |->
                 IF i = 0 THEN <<>>
                 ELSE IF chunks[i] < wanted[i] THEN Append(g[i-1], members[i]) ELSE g[i-1]]
    OBVIOUS
  <2>2. QED  BY DEF Chunked
<1> HIDE DEF n, v0, Pass, V
<1>4. F \in [1 .. n -> [V -> V]] /\ \A k \in 1 .. n, v \in V : F[k][v] = Pass(k, v)
  BY <1>2
<1> HIDE DEF F
<1>5. PICK s : Outcome(s, n, V, v0, F)
  BY <1>0, <1>1, <1>4, Loop, Zenon
<1>6. /\ s \in [0 .. n -> V] /\ s[0] = v0
      /\ \A k \in 1 .. n : s[k-1] \in V /\ s[k] = Pass(k, s[k-1])
  <2>1. s \in [0 .. n -> V] /\ s[0] = v0 /\ \A k \in 1 .. n : s[k] = F[k][s[k-1]]
    BY <1>5 DEF Outcome
  <2>2. \A k \in 1 .. n : k - 1 \in 0 .. n
    BY <1>0
  <2>3. QED  BY <2>1, <2>2, <1>4
<1>7. s = Step(s)
  <2>1. \A k \in 0 .. n : k = 0 \/ k \in 1 .. n
    BY <1>0
  <2>2. s = [k \in 0 .. n |-> s[k]]
    BY <1>6
  <2>3. \A k \in 0 .. n : s[k] = IF k = 0 THEN v0 ELSE Pass(k, s[k-1])
    BY <1>6, <2>1
  <2>4. QED  BY <2>2, <2>3
<1>8. h = Step(h)
  <2> HIDE DEF Step
  <2>1. QED  BY <1>7
<1> HIDE DEF h
<1>9. h = s
  <2>1. h = [k \in 0 .. n |-> h[k]] /\ h[0] = v0 /\ \A k \in 1 .. n : h[k] = Pass(k, h[k-1])
    BY <1>0, <1>8, SMTT(30)
  <2>2. Follows(h, n, V, v0, F)
    BY <2>1, <1>4 DEF Follows
  <2>3. QED  BY <2>2, <1>5 DEF Outcome
<1> DEFINE T == {k \in 0 .. n : ChunkedInv(s[k], k, members, chunks, wanted)}
<1>10. 0 \in T
  <2>1. s[0] = <<>>
    BY <1>6 DEF v0
  <2>2. ChunkedInv(s[0], 0, members, chunks, wanted)
    BY <2>1 DEF ChunkedInv
  <2>3. QED  BY <1>0, <2>2
<1>11. ASSUME NEW k \in 0 .. n - 1, k \in T PROVE k + 1 \in T
  <2>1. k + 1 \in 1 .. n /\ k + 1 \in 0 .. n /\ (k + 1) - 1 = k
    BY <1>0
  <2>2. s[k + 1] = IF chunks[k + 1] < wanted[k + 1] THEN Append(s[k], members[k + 1]) ELSE s[k]
    BY <1>6, <2>1 DEF Pass
  <2>3. ChunkedInv(s[k], k, members, chunks, wanted)
    BY <1>11
  <2>4. k \in 0 .. Len(members) - 1
    BY DEF n
  <2>5. ChunkedInv(s[k + 1], k + 1, members, chunks, wanted)
    BY <2>2, <2>3, <2>4, ChunkedStep
  <2>6. QED  BY <2>1, <2>5
<1>12. 0 .. n \subseteq T
  <2> HIDE DEF T
  <2>1. QED  BY <1>0, <1>10, <1>11, UpTo
<1>13. ChunkedInv(s[n], n, members, chunks, wanted)
  BY <1>0, <1>12
<1>14. QED  BY <1>3, <1>9, <1>13 DEF n

(* The queue of a state.                                                       *)

Pending(r) == \E i \in 1 .. Len(pendingList) : pendingList[i] = r

\* The requests whose prefill is over.
Finished == {r \in Requests : prompt[r] # 0 /\ ~Pending(r)}

Resting ==
  \A r \in Requests : /\ ~Pending(r) => waited[r] = 0
                      /\ prompt[r] = 0 => scheduled[r] = 0

(* Waiting is paid for by getting ahead, and below a page by the requests that *)
(* finish meanwhile.                                                           *)
WaitingPays ==
  \A i \in 1 .. Len(pendingList) :
    waited[pendingList[i]] + i
      <= Cardinality(Requests) + (IF BudgetsHoldAPage THEN 0 ELSE Cardinality(Finished))

QueueInv == QueueType /\ QueueSound /\ Resting /\ WaitingPays /\ BudgetIsDivided /\ RoundsAreFair

Wanted(members) == [i \in 1 .. Len(members) |-> Remaining(members[i])]
Before(members) == [i \in 1 .. Len(members) |-> scheduled[members[i]]]

(* What a forward does with a budget: it splits the queue, divides the budget  *)
(* soundly and puts those that it does not finish behind those it passed over. *)
Forwards(B, sel, chunks, left) ==
  LET members == sel.picked
      n == Len(members)
  IN
  /\ Splits(sel, B)
  /\ ChunksSound(n, Wanted(members), Before(members), Quantum, B, chunks)
  /\ ChunkedInv(left, n, members, chunks, Wanted(members))
  /\ pendingList' = sel.passed \o left
  /\ scheduled' \in [Requests -> Nat]
  /\ \A i \in 1 .. n : scheduled'[members[i]] = scheduled[members[i]] + chunks[i]
  /\ \A r \in Requests : (\A i \in 1 .. n : members[i] # r) => scheduled'[r] = scheduled[r]
  /\ forward' = [budget |-> B, members |-> members, chunks |-> chunks,
                 before |-> Before(members), wanted |-> Wanted(members)]
  /\ waited' \in [Requests -> Nat]
  /\ \A a \in 1 .. Len(sel.passed) : waited'[sel.passed[a]] = waited[sel.passed[a]] + 1
  /\ \A r \in Requests : (\A a \in 1 .. Len(sel.passed) : sel.passed[a] # r) => waited'[r] = 0
  /\ UNCHANGED <<prompt, hit>>

\* What the members of a selection want, and their first shares.
LEMMA WantedType ==
  ASSUME QueueType, QueueSound, NEW B \in Nat, NEW sel, Splits(sel, B),
         NEW members, members = sel.picked
  PROVE  /\ members \in Seq(Requests) /\ Len(members) \in Nat
         /\ Wanted(members) \in [1 .. Len(members) -> Nat]
         /\ Before(members) \in [1 .. Len(members) -> Nat]
         /\ \A i \in 1 .. Len(members) : /\ members[i] \in Requests
                                         /\ Remaining(members[i]) \in Nat \ {0}
                                         /\ Wanted(members)[i] = Remaining(members[i])
         /\ Firsts(Len(members), Wanted(members), Quantum) = FirstsOf(members)
<1>1. /\ members \in Seq(Requests)
      /\ \A i \in 1 .. Len(members) : \E j \in 1 .. Len(pendingList) : members[i] = pendingList[j]
  BY DEF Splits
<1>2. \A i \in 1 .. Len(members) : members[i] \in Requests /\ Remaining(members[i]) \in Nat \ {0}
  <2> TAKE i \in 1 .. Len(members)
  <2>1. PICK j \in 1 .. Len(pendingList) : members[i] = pendingList[j]
    BY <1>1
  <2>2. QED  BY <2>1, RemainingIs
<1>3. \A i \in 1 .. Len(members) : scheduled[members[i]] \in Nat
  BY <1>2 DEF QueueType
<1>4. Wanted(members) \in [1 .. Len(members) -> Nat] /\ Before(members) \in [1 .. Len(members) -> Nat]
  BY <1>2, <1>3 DEF Wanted, Before
<1>5. \A i \in 1 .. Len(members) : Wanted(members)[i] = Remaining(members[i])
  BY DEF Wanted
<1>6. Firsts(Len(members), Wanted(members), Quantum) = FirstsOf(members)
  BY <1>5 DEF Firsts, FirstsOf
<1>7. QED  BY <1>1, <1>2, <1>4, <1>5, <1>6

\* RunForward forwards.
LEMMA RunForwardIs ==
  ASSUME QueueType, QueueSound, NEW B \in Nat, RunForward(B)
  PROVE  \E sel, chunks, left : Forwards(B, sel, chunks, left)
<1> DEFINE sel == Selected(B)
           members == sel.picked
           passed == sel.passed
           n == Len(members)
           chunks == AllocateFairPrefillChunks(B, Quantum, Before(members), Wanted(members))
           left == Chunked(members, chunks, Wanted(members))
<1>1. /\ pendingList # <<>>
      /\ scheduled' = [r \in Requests |->
                     IF \E i \in 1 .. n : members[i] = r
                       THEN scheduled[r] + chunks[CHOOSE i \in 1 .. n : members[i] = r]
                       ELSE scheduled[r]]
      /\ pendingList' = passed \o left
      /\ forward' = [budget |-> B, members |-> members, chunks |-> chunks,
                     before |-> Before(members), wanted |-> Wanted(members)]
      /\ waited' = [r \in Requests |->
                      IF \E i \in 1 .. Len(passed) : passed[i] = r THEN waited[r] + 1 ELSE 0]
      /\ UNCHANGED <<prompt, hit>>
  BY DEF RunForward, Rotated, Wanted, Before
<1>2. Splits(sel, B)
  BY <1>1, SelectionSplits
<1> HIDE DEF sel
<1>3. /\ members \in Seq(Requests) /\ n \in Nat
      /\ Wanted(members) \in [1 .. n -> Nat]
      /\ Before(members) \in [1 .. n -> Nat]
      /\ \A i \in 1 .. n : members[i] \in Requests
  BY <1>2, WantedType
<1>4. ChunksSound(n, Wanted(members), Before(members), Quantum, B, chunks)
  <2> HIDE DEF n, members
  <2>1. Quantum \in Nat \ {0}
    BY ForwardsAssumption
  <2>2. QED  BY <1>3, <2>1, ChunksAreSound
<1>5. /\ \A i, j \in 1 .. n : members[i] = members[j] => i = j
      /\ passed \in Seq(Requests)
      /\ \A a \in 1 .. Len(passed), b \in 1 .. Len(passed) : passed[a] = passed[b] => a = b
  BY <1>2 DEF Splits
<1> HIDE DEF chunks
<1>6. ChunkedInv(left, n, members, chunks, Wanted(members))
  <2> HIDE DEF members
  <2>1. QED  BY <1>3, <1>5, ChunkedIs DEF n
<1>7. chunks \in [1 .. n -> Nat]
  BY <1>4 DEF ChunksSound
<1> HIDE DEF left, members, passed
<1>8. \A i \in 1 .. n : scheduled'[members[i]] = scheduled[members[i]] + chunks[i]
  <2> TAKE i \in 1 .. n
  <2> DEFINE c == CHOOSE j \in 1 .. n : members[j] = members[i]
  <2>1. c \in 1 .. n /\ members[c] = members[i]
    OBVIOUS
  <2>2. c = i
    BY <2>1, <1>5
  <2>3. scheduled'[members[i]] = scheduled[members[i]] + chunks[c]
    BY <1>1, <1>3
  <2> HIDE DEF c
  <2>4. QED  BY <2>2, <2>3
<1>9. \A r \in Requests : (\A i \in 1 .. n : members[i] # r) => scheduled'[r] = scheduled[r]
  BY <1>1
<1>10. scheduled' \in [Requests -> Nat]
  <2>1. \A r \in Requests : scheduled'[r] \in Nat
    <3> TAKE r \in Requests
    <3>1. scheduled[r] \in Nat
      BY DEF QueueType
    <3>2. CASE \A i \in 1 .. n : members[i] # r
      BY <3>1, <3>2, <1>9
    <3>3. CASE \E i \in 1 .. n : members[i] = r
      <4>1. PICK i \in 1 .. n : members[i] = r
        BY <3>3
      <4>2. scheduled'[r] = scheduled[r] + chunks[i] /\ chunks[i] \in Nat
        BY <4>1, <1>7, <1>8
      <4>3. QED  BY <3>1, <4>2
    <3>4. QED  BY <3>2, <3>3
  <2>2. QED  BY <2>1, <1>1
<1>11. \A a \in 1 .. Len(passed) : passed[a] \in Requests
  BY <1>5
<1>12. /\ waited' \in [Requests -> Nat]
       /\ \A a \in 1 .. Len(passed) : waited'[passed[a]] = waited[passed[a]] + 1
       /\ \A r \in Requests : (\A a \in 1 .. Len(passed) : passed[a] # r) => waited'[r] = 0
  <2> DEFINE W(r) == IF \E i \in 1 .. Len(passed) : passed[i] = r THEN waited[r] + 1 ELSE 0
  <2>1. waited' = [r \in Requests |-> W(r)]
    BY <1>1
  <2>2. waited \in [Requests -> Nat]
    BY DEF QueueType
  <2>3. \A r \in Requests : W(r) \in Nat
    BY <2>2
  <2>4. \A a \in 1 .. Len(passed) : W(passed[a]) = waited[passed[a]] + 1
    OBVIOUS
  <2>5. \A r \in Requests : (\A a \in 1 .. Len(passed) : passed[a] # r) => W(r) = 0
    OBVIOUS
  <2> HIDE DEF W
  <2>6. QED  BY <2>1, <2>3, <2>4, <2>5, <1>11
<1>13. Forwards(B, sel, chunks, left)
  BY <1>1, <1>2, <1>4, <1>6, <1>8, <1>9, <1>10, <1>12 DEF Forwards, members, passed
<1>14. QED  BY <1>13

-------------------------------------------------------------------------------
\* Putting one sequence behind another.
LEMMA ConcatOf ==
  ASSUME NEW S, NEW q \in Seq(S), NEW s \in Seq(S), NEW p, p = q \o s
  PROVE  /\ p \in Seq(S) /\ Len(p) = Len(q) + Len(s)
         /\ \A i \in 1 .. Len(q) : p[i] = q[i]
         /\ \A i \in 1 .. Len(p) : \/ i \in 1 .. Len(q) /\ p[i] = q[i]
                                   \/ i - Len(q) \in 1 .. Len(s) /\ p[i] = s[i - Len(q)]
OBVIOUS

\* A queue without repetition has at most as many places as there are requests.
LEMMA PlacesBounded ==
  ASSUME NEW p \in Seq(Requests), \A i, j \in 1 .. Len(p) : p[i] = p[j] => i = j
  PROVE  Len(p) <= Cardinality(Requests)
<1>1. Len(p) \in Nat
  OBVIOUS
<1>2. p \in Injection(1 .. Len(p), Requests)
  BY DEF Injection, IsInjective
<1>3. Cardinality(1 .. Len(p)) <= Cardinality(Requests)
  BY <1>2, ForwardsAssumption, FS_Injection
<1>4. Cardinality(1 .. Len(p)) = Len(p)
  <2>1. 1 \in Int /\ Len(p) \in Int
    BY <1>1
  <2>2. Cardinality(1 .. Len(p)) = IF 1 > Len(p) THEN 0 ELSE Len(p) - 1 + 1
    BY <2>1, FS_Interval
  <2>3. QED  BY <1>1, <2>2
<1>5. QED  BY <1>3, <1>4

(* The places of the queue after a forward.                                    *)
Places(sel, chunks, left) ==
  /\ pendingList' \in Seq(Requests)
  /\ \A i, j \in 1 .. Len(pendingList') : pendingList'[i] = pendingList'[j] => i = j
  /\ \A i \in 1 .. Len(pendingList') :
       \/ i \in 1 .. Len(sel.passed) /\ pendingList'[i] = sel.passed[i]
       \/ \E m \in 1 .. Len(sel.picked) :
            /\ pendingList'[i] = sel.picked[m]
            /\ chunks[m] < Remaining(sel.picked[m])
  /\ \A a \in 1 .. Len(sel.passed) : \E i \in 1 .. Len(pendingList') : pendingList'[i] = sel.passed[a]

\* Where everyone is after a forward.
LEMMA PlacesAre ==
  ASSUME QueueType, QueueSound, NEW B \in Nat, NEW sel, NEW chunks, NEW left,
         Forwards(B, sel, chunks, left)
  PROVE  Places(sel, chunks, left)
<1> DEFINE members == sel.picked
           passed == sel.passed
           n == Len(members)
           pl == pendingList'
<1>1. /\ Splits(sel, B) /\ pl = passed \o left
      /\ ChunkedInv(left, n, members, chunks, Wanted(members))
  BY DEF Forwards
<1>2. /\ passed \in Seq(Requests)
      /\ \A a, b \in 1 .. Len(passed) : passed[a] = passed[b] => a = b
      /\ \A a \in 1 .. n, b \in 1 .. Len(passed) : members[a] # passed[b]
  BY <1>1 DEF Splits
<1>3. \A i \in 1 .. n : Wanted(members)[i] = Remaining(members[i])
  BY <1>1, WantedType
<1>4. /\ left \in Seq(Requests)
      /\ \A a \in 1 .. Len(left) : \E i \in 1 .. n : left[a] = members[i] /\ chunks[i] < Remaining(members[i])
      /\ \A a, b \in 1 .. Len(left) : left[a] = left[b] => a = b
  BY <1>1, <1>3 DEF ChunkedInv
<1> HIDE DEF members, passed, pl, n
<1>5. /\ pl \in Seq(Requests) /\ Len(pl) = Len(passed) + Len(left)
      /\ \A i \in 1 .. Len(passed) : pl[i] = passed[i]
      /\ \A i \in 1 .. Len(pl) : \/ i \in 1 .. Len(passed) /\ pl[i] = passed[i]
                                 \/ i - Len(passed) \in 1 .. Len(left) /\ pl[i] = left[i - Len(passed)]
  BY <1>1, <1>2, <1>4, ConcatOf
<1>6. Len(passed) \in Nat /\ Len(left) \in Nat
  BY <1>2, <1>4
<1>7. \A a \in 1 .. Len(left), b \in 1 .. Len(passed) : left[a] # passed[b]
  BY <1>2, <1>4
<1>8. \A i, j \in 1 .. Len(pl) : pl[i] = pl[j] => i = j
  <2> TAKE i, j \in 1 .. Len(pl)
  <2> HAVE pl[i] = pl[j]
  <2>1. CASE i \in 1 .. Len(passed) /\ j \in 1 .. Len(passed)
    BY <2>1, <1>2, <1>5
  <2>2. CASE i - Len(passed) \in 1 .. Len(left) /\ pl[i] = left[i - Len(passed)] /\ j \in 1 .. Len(passed)
    BY <2>2, <1>5, <1>7
  <2>3. CASE j - Len(passed) \in 1 .. Len(left) /\ pl[j] = left[j - Len(passed)] /\ i \in 1 .. Len(passed)
    BY <2>3, <1>5, <1>7
  <2>4. CASE /\ i - Len(passed) \in 1 .. Len(left) /\ pl[i] = left[i - Len(passed)]
             /\ j - Len(passed) \in 1 .. Len(left) /\ pl[j] = left[j - Len(passed)]
    <3>1. i - Len(passed) = j - Len(passed)
      BY <2>4, <1>4
    <3>2. QED  BY <3>1, <1>6
  <2>5. QED  BY <2>1, <2>2, <2>3, <2>4, <1>5
<1>9. \A i \in 1 .. Len(pl) :
        \/ i \in 1 .. Len(passed) /\ pl[i] = passed[i]
        \/ \E m \in 1 .. n : pl[i] = members[m] /\ chunks[m] < Remaining(members[m])
  <2> TAKE i \in 1 .. Len(pl)
  <2>1. CASE i \in 1 .. Len(passed) /\ pl[i] = passed[i]
    BY <2>1
  <2>2. CASE i - Len(passed) \in 1 .. Len(left) /\ pl[i] = left[i - Len(passed)]
    <3>1. \E m \in 1 .. n : /\ left[i - Len(passed)] = members[m]
                            /\ chunks[m] < Remaining(members[m])
      BY <2>2, <1>4
    <3>2. QED  BY <2>2, <3>1
  <2>3. QED  BY <2>1, <2>2, <1>5
<1>10. \A a \in 1 .. Len(passed) : \E i \in 1 .. Len(pl) : pl[i] = passed[a]
  <2> TAKE a \in 1 .. Len(passed)
  <2>1. a \in 1 .. Len(pl) /\ pl[a] = passed[a]
    BY <1>5, <1>6
  <2>2. QED  BY <2>1
<1>11. QED
  BY <1>5, <1>8, <1>9, <1>10 DEF Places, members, passed, pl, n

\* A forward leaves a sound queue behind.
LEMMA ForwardKeepsQueue ==
  ASSUME QueueInv, NEW B \in Nat, NEW sel, NEW chunks, NEW left,
         Forwards(B, sel, chunks, left), Places(sel, chunks, left)
  PROVE  QueueType' /\ QueueSound' /\ Resting'
<1> DEFINE members == sel.picked
           passed == sel.passed
           n == Len(members)
           pl == pendingList'
<1>1. QueueType /\ QueueSound /\ Resting
  BY DEF QueueInv
<1>2. /\ Splits(sel, B)
      /\ ChunksSound(n, Wanted(members), Before(members), Quantum, B, chunks)
      /\ scheduled' \in [Requests -> Nat] /\ waited' \in [Requests -> Nat]
      /\ \A i \in 1 .. n : scheduled'[members[i]] = scheduled[members[i]] + chunks[i]
      /\ \A r \in Requests : (\A i \in 1 .. n : members[i] # r) => scheduled'[r] = scheduled[r]
      /\ \A r \in Requests : (\A a \in 1 .. Len(passed) : passed[a] # r) => waited'[r] = 0
      /\ prompt' = prompt /\ hit' = hit
  BY DEF Forwards
<1>3. /\ passed \in Seq(Requests)
      /\ \A a \in 1 .. Len(passed) : \E j \in 1 .. Len(pendingList) : passed[a] = pendingList[j]
      /\ \A a \in 1 .. n : \E j \in 1 .. Len(pendingList) : members[a] = pendingList[j]
      /\ \A a \in 1 .. n, b \in 1 .. Len(passed) : members[a] # passed[b]
  BY <1>2 DEF Splits
<1>4. \A i \in 1 .. n : members[i] \in Requests /\ Remaining(members[i]) \in Nat \ {0}
  BY <1>1, <1>2, WantedType
<1>5. chunks \in [1 .. n -> Nat]
  BY <1>2 DEF ChunksSound
<1>6. /\ pl \in Seq(Requests)
      /\ \A i, j \in 1 .. Len(pl) : pl[i] = pl[j] => i = j
      /\ \A i \in 1 .. Len(pl) :
           \/ i \in 1 .. Len(passed) /\ pl[i] = passed[i]
           \/ \E m \in 1 .. n : pl[i] = members[m] /\ chunks[m] < Remaining(members[m])
      /\ \A a \in 1 .. Len(passed) : \E i \in 1 .. Len(pl) : pl[i] = passed[a]
  BY DEF Places
<1> HIDE DEF members, passed, n
<1>7. QueueType'
  BY <1>1, <1>2, <1>6 DEF QueueType
<1>8. ASSUME NEW i \in 1 .. Len(pl) PROVE prompt'[pl[i]] > hit'[pl[i]] + scheduled'[pl[i]]
  <2> DEFINE r == pl[i]
  <2>1. r \in Requests
    BY <1>6
  <2>2. prompt[r] \in Nat /\ hit[r] \in Nat /\ scheduled[r] \in Nat
    BY <1>1, <2>1 DEF QueueType
  <2>3. CASE i \in 1 .. Len(passed) /\ r = passed[i]
    <3>1. scheduled'[r] = scheduled[r]
      <4>1. \A m \in 1 .. n : members[m] # r
        BY <1>3, <2>3
      <4>2. QED  BY <1>2, <2>1, <4>1
    <3>2. PICK j \in 1 .. Len(pendingList) : r = pendingList[j]
      BY <1>3, <2>3
    <3>3. prompt[r] > hit[r] + scheduled[r]
      BY <1>1, <3>2 DEF QueueSound
    <3>4. QED  BY <1>2, <3>1, <3>3
  <2>4. CASE \E m \in 1 .. n : r = members[m] /\ chunks[m] < Remaining(members[m])
    <3>1. PICK m \in 1 .. n : r = members[m] /\ chunks[m] < Remaining(members[m])
      BY <2>4
    <3>2. scheduled'[r] = scheduled[r] + chunks[m] /\ chunks[m] \in Nat
      BY <1>2, <1>5, <3>1
    <3>3. chunks[m] < prompt[r] - hit[r] - scheduled[r]
      BY <3>1 DEF Remaining
    <3>4. QED  BY <1>2, <2>2, <3>2, <3>3
  <2>5. QED  BY <1>6, <2>3, <2>4
<1>9. QueueSound'
  BY <1>6, <1>8 DEF QueueSound
<1>10. ASSUME NEW r \in Requests, ~Pending(r)' PROVE waited'[r] = 0
  <2>1. \A i \in 1 .. Len(pl) : pl[i] # r
    BY <1>10 DEF Pending
  <2>2. \A a \in 1 .. Len(passed) : passed[a] # r
    BY <1>6, <2>1
  <2>3. QED  BY <1>2, <2>2
<1>11. ASSUME NEW r \in Requests, prompt'[r] = 0 PROVE scheduled'[r] = 0
  <2>1. prompt[r] = 0 /\ scheduled[r] = 0
    BY <1>1, <1>2, <1>11 DEF Resting
  <2>2. \A i \in 1 .. n : members[i] # r
    <3> TAKE i \in 1 .. n
    <3>1. PICK j \in 1 .. Len(pendingList) : members[i] = pendingList[j]
      BY <1>3
    <3>2. prompt[members[i]] > hit[members[i]] + scheduled[members[i]]
      BY <1>1, <3>1 DEF QueueSound
    <3>3. hit[members[i]] \in Nat /\ scheduled[members[i]] \in Nat
      BY <1>1, <1>4 DEF QueueType
    <3>4. QED  BY <2>1, <3>2, <3>3
  <2>3. QED  BY <1>2, <2>1, <2>2
<1>12. Resting'
  BY <1>10, <1>11 DEF Resting
<1>13. QED  BY <1>7, <1>9, <1>12

\* A forward makes everyone it passes over get ahead, or somebody finish.
LEMMA ForwardKeepsWaiting ==
  ASSUME QueueInv, NEW B \in Nat, BudgetsHoldAPage => Quantum <= B,
         NEW sel, NEW chunks, NEW left,
         Forwards(B, sel, chunks, left), Places(sel, chunks, left)
  PROVE  WaitingPays'
<1> DEFINE members == sel.picked
           passed == sel.passed
           n == Len(members)
           pl == pendingList'
           N == Cardinality(Requests)
           Slack == IF BudgetsHoldAPage THEN 0 ELSE Cardinality(Finished)
           Slack1 == IF BudgetsHoldAPage THEN 0 ELSE Cardinality(Finished')
<1>1. QueueType /\ QueueSound /\ WaitingPays
  BY DEF QueueInv
<1>2. /\ Splits(sel, B)
      /\ ChunksSound(n, Wanted(members), Before(members), Quantum, B, chunks)
      /\ \A a \in 1 .. Len(passed) : waited'[passed[a]] = waited[passed[a]] + 1
      /\ \A r \in Requests : (\A a \in 1 .. Len(passed) : passed[a] # r) => waited'[r] = 0
      /\ prompt' = prompt
  BY DEF Forwards
<1>3. /\ members \in Seq(Requests) /\ passed \in Seq(Requests) /\ n > 0 /\ n \in Nat
      /\ \A a \in 1 .. n : \E j \in 1 .. Len(pendingList) : members[a] = pendingList[j]
      /\ \A a \in 1 .. Len(passed) :
           \E j \in 1 .. Len(pendingList) :
             /\ passed[a] = pendingList[j] /\ a <= j
             /\ \/ a < j
                \/ /\ B < Quantum /\ TotalOf(FirstsOf(members)) <= B
                   /\ \A b \in 1 .. n : Remaining(members[b]) < Quantum
      /\ \A a, b \in 1 .. n : members[a] = members[b] => a = b
      /\ \A a \in 1 .. n, b \in 1 .. Len(passed) : members[a] # passed[b]
  BY <1>2 DEF Splits
<1>4. /\ \A i \in 1 .. n : /\ members[i] \in Requests /\ Remaining(members[i]) \in Nat \ {0}
                           /\ Wanted(members)[i] = Remaining(members[i])
      /\ Firsts(n, Wanted(members), Quantum) = FirstsOf(members)
  BY <1>1, <1>2, WantedType
<1>5. /\ chunks \in [1 .. n -> Nat]
      /\ TotalOf(FirstsOf(members)) <= B =>
           \A i \in 1 .. n : chunks[i] >= Lesser(Remaining(members[i]), Quantum)
  BY <1>2, <1>4 DEF ChunksSound
<1>6. /\ pl \in Seq(Requests)
      /\ \A i, j \in 1 .. Len(pl) : pl[i] = pl[j] => i = j
      /\ \A i \in 1 .. Len(pl) :
           \/ i \in 1 .. Len(passed) /\ pl[i] = passed[i]
           \/ \E m \in 1 .. n : pl[i] = members[m] /\ chunks[m] < Remaining(members[m])
  BY DEF Places
<1>7. IsFiniteSet(Requests) /\ N \in Nat /\ Quantum \in Nat \ {0}
  BY ForwardsAssumption, FS_CardinalityType
<1>8. Finished \subseteq Requests /\ Finished' \subseteq Requests
  BY DEF Finished
<1>9. /\ IsFiniteSet(Finished) /\ Cardinality(Finished) \in Nat
      /\ IsFiniteSet(Finished') /\ Cardinality(Finished') \in Nat
  <2>1. Finished \in SUBSET Requests /\ Finished' \in SUBSET Requests
    BY <1>8
  <2>2. IsFiniteSet(Finished) /\ IsFiniteSet(Finished')
    BY <1>7, <2>1, FS_Subset
  <2>3. QED  BY <2>2, FS_CardinalityType
<1>10. Finished \subseteq Finished'
  <2> SUFFICES ASSUME NEW r \in Finished PROVE r \in Finished'
    OBVIOUS
  <2>1. r \in Requests /\ prompt[r] # 0 /\ \A j \in 1 .. Len(pendingList) : pendingList[j] # r
    BY DEF Finished, Pending
  <2>2. \A i \in 1 .. Len(pl) : pl[i] # r
    <3> TAKE i \in 1 .. Len(pl)
    <3>1. CASE i \in 1 .. Len(passed) /\ pl[i] = passed[i]
      BY <3>1, <1>3, <2>1
    <3>2. CASE \E m \in 1 .. n : pl[i] = members[m]
      <4>1. PICK m \in 1 .. n : pl[i] = members[m]
        BY <3>2
      <4>2. \E j \in 1 .. Len(pendingList) : members[m] = pendingList[j]
        BY <1>3
      <4>3. QED  BY <4>1, <4>2, <2>1
    <3>3. QED  BY <3>1, <3>2, <1>6
  <2>3. prompt'[r] # 0 /\ ~Pending(r)'
    BY <1>2, <2>1, <2>2 DEF Pending
  <2>4. QED  BY <2>1, <2>3 DEF Finished
<1>11. Cardinality(Finished) <= Cardinality(Finished')
  <2>1. Finished \in SUBSET (Finished')
    BY <1>10
  <2>2. QED  BY <1>9, <2>1, FS_Subset
<1>12. ASSUME B < Quantum, TotalOf(FirstsOf(members)) <= B,
              \A b \in 1 .. n : Remaining(members[b]) < Quantum
       PROVE  Cardinality(Finished) + 1 <= Cardinality(Finished')
  <2> DEFINE r == members[1]
  <2>1. 1 \in 1 .. n
    BY <1>3
  <2>2. r \in Requests /\ Remaining(r) \in Nat \ {0} /\ Remaining(r) < Quantum
    BY <1>4, <1>12, <2>1
  <2>3. chunks[1] >= Remaining(r) /\ chunks[1] \in Nat
    <3>1. Lesser(Remaining(r), Quantum) = Remaining(r)
      BY <1>7, <2>2 DEF Lesser
    <3>2. chunks[1] >= Lesser(Remaining(r), Quantum)
      BY <1>5, <1>12, <2>1
    <3>3. QED  BY <1>5, <2>1, <3>1, <3>2
  <2>4. \A i \in 1 .. Len(pl) : pl[i] # r
    <3> TAKE i \in 1 .. Len(pl)
    <3>1. CASE i \in 1 .. Len(passed) /\ pl[i] = passed[i]
      BY <3>1, <1>3, <2>1
    <3>2. CASE \E m \in 1 .. n : pl[i] = members[m] /\ chunks[m] < Remaining(members[m])
      <4>1. PICK m \in 1 .. n : pl[i] = members[m] /\ chunks[m] < Remaining(members[m])
        BY <3>2
      <4>2. m # 1
        BY <4>1, <2>2, <2>3
      <4>3. QED  BY <4>1, <4>2, <1>3, <2>1
    <3>3. QED  BY <3>1, <3>2, <1>6
  <2>5. PICK j \in 1 .. Len(pendingList) : r = pendingList[j]
    BY <1>3, <2>1
  <2>6. prompt[r] # 0
    <3>1. prompt[r] > hit[r] + scheduled[r]
      BY <1>1, <2>5 DEF QueueSound
    <3>2. prompt[r] \in Nat /\ hit[r] \in Nat /\ scheduled[r] \in Nat
      BY <1>1, <2>2 DEF QueueType
    <3>3. QED  BY <3>1, <3>2
  <2>7. r \notin Finished
    BY <2>5 DEF Finished, Pending
  <2>8. r \in Finished'
    <3>1. prompt'[r] # 0 /\ ~Pending(r)'
      BY <1>2, <2>4, <2>6 DEF Pending
    <3>2. QED  BY <2>2, <3>1 DEF Finished
  <2> HIDE DEF r
  <2>9. Cardinality(Finished \cup {r}) = Cardinality(Finished) + 1
    BY <1>9, <2>7, FS_AddElement
  <2>10. Finished \cup {r} \in SUBSET (Finished')
    BY <1>10, <2>8
  <2>11. Cardinality(Finished \cup {r}) <= Cardinality(Finished')
    BY <1>9, <2>10, FS_Subset
  <2>12. QED  BY <2>9, <2>11
<1>13. Slack \in Nat /\ Slack1 \in Nat /\ Slack <= Slack1
  BY <1>9, <1>11
<1>14. Len(pl) <= N /\ Len(pl) \in Nat
  BY <1>6, PlacesBounded
<1>15. \A j \in 1 .. Len(pendingList) : waited[pendingList[j]] + j <= N + Slack
  BY <1>1 DEF WaitingPays
<1> HIDE DEF members, passed, n, Slack, Slack1, N
<1>16. ASSUME NEW i \in 1 .. Len(pl) PROVE waited'[pl[i]] + i <= N + Slack1
  <2>1. CASE i \in 1 .. Len(passed) /\ pl[i] = passed[i]
    <3>1. PICK j \in 1 .. Len(pendingList) :
            /\ passed[i] = pendingList[j] /\ i <= j
            /\ \/ i < j
               \/ /\ B < Quantum /\ TotalOf(FirstsOf(members)) <= B
                  /\ \A b \in 1 .. n : Remaining(members[b]) < Quantum
      BY <1>3, <2>1
    <3>2. waited[pendingList[j]] \in Nat /\ j \in Nat
      <4>1. pendingList[j] \in Requests
        BY <1>1 DEF QueueType
      <4>2. QED  BY <1>1, <4>1 DEF QueueType
    <3>3. waited[pendingList[j]] + j <= N + Slack
      BY <1>15
    <3>4. waited'[pl[i]] = waited[pendingList[j]] + 1
      BY <1>2, <2>1, <3>1
    <3>5. CASE i < j
      BY <3>2, <3>3, <3>4, <3>5, <1>7, <1>13, SMTT(30) DEF N
    <3>6. CASE /\ B < Quantum /\ TotalOf(FirstsOf(members)) <= B
               /\ \A b \in 1 .. n : Remaining(members[b]) < Quantum
      <4>1. ~BudgetsHoldAPage
        BY <3>6, <1>7
      <4>2. Slack + 1 <= Slack1
        BY <4>1, <1>12, <3>6 DEF Slack, Slack1
      <4>3. i <= j
        BY <3>1
      <4>4. QED  BY <3>2, <3>3, <3>4, <4>2, <4>3, <1>7, <1>13, SMTT(30) DEF N
    <3>7. QED  BY <3>1, <3>5, <3>6
  <2>2. CASE \E m \in 1 .. n : pl[i] = members[m]
    <3>1. pl[i] \in Requests /\ \A a \in 1 .. Len(passed) : passed[a] # pl[i]
      BY <2>2, <1>3, <1>4
    <3>2. waited'[pl[i]] = 0
      BY <1>2, <3>1
    <3>3. QED  BY <3>2, <1>7, <1>13, <1>14 DEF N
  <2>3. QED  BY <2>1, <2>2, <1>6
<1>17. BudgetsHoldAPage' = BudgetsHoldAPage
  BY DEF BudgetsHoldAPage
<1>18. QED
  BY <1>16, <1>17 DEF WaitingPays, N, Slack1

\* What a forward grants is divided and fair.
LEMMA ForwardIsSound ==
  ASSUME QueueInv, NEW B \in Nat \ {0}, NEW sel, NEW chunks, NEW left, Forwards(B, sel, chunks, left)
  PROVE  BudgetIsDivided' /\ RoundsAreFair'
<1> DEFINE members == sel.picked
           n == Len(members)
           wanted == Wanted(members)
           before == Before(members)
<1>1. QueueType /\ QueueSound
  BY DEF QueueInv
<1>2. /\ Splits(sel, B)
      /\ ChunksSound(n, wanted, before, Quantum, B, chunks)
      /\ forward' = [budget |-> B, members |-> members, chunks |-> chunks,
                     before |-> before, wanted |-> wanted]
  BY DEF Forwards
<1>3. /\ Firsts(n, wanted, Quantum) = FirstsOf(members)
      /\ wanted \in [1 .. n -> Nat] /\ before \in [1 .. n -> Nat]
  BY <1>1, <1>2, WantedType
<1>4. Quantum \in Nat \ {0}
  BY ForwardsAssumption
<1>5. Quantum <= B => TotalOf(Firsts(n, wanted, Quantum)) <= B
  <2>1. TotalOf(FirstsOf(members)) <= B \/ B < Quantum
    BY <1>2 DEF Splits
  <2>2. QED  BY <1>3, <1>4, <2>1
<1>6. /\ chunks \in [1 .. n -> Nat]
      /\ \A i \in 1 .. n : chunks[i] < wanted[i] => B - TotalOf(chunks) < Lesser(Quantum, wanted[i] - chunks[i])
      /\ Quantum <= B =>
           /\ \A i \in 1 .. n : chunks[i] < wanted[i] => chunks[i] % Quantum = 0
           /\ \A i, j \in 1 .. n :
                chunks[i] < wanted[i] /\ chunks[j] < wanted[j] =>
                  /\ chunks[i] - chunks[j] \in {-Quantum, 0, Quantum}
                  /\ chunks[i] > chunks[j] => Leads(before, i, j)
  BY <1>2, <1>5 DEF ChunksSound
<1>7. /\ forward'.budget = B /\ forward'.members = members /\ forward'.chunks = chunks
      /\ forward'.before = before /\ forward'.wanted = wanted
  BY <1>2
<1> HIDE DEF wanted, before
<1>8. Members' = 1 .. n /\ LeftOver' = B - TotalOf(chunks)
  BY <1>7 DEF Members, LeftOver
<1>9. B >= Quantum <=> Quantum <= B
  BY <1>4
<1>10. BudgetExhausted'
  BY <1>6, <1>7, <1>8 DEF BudgetExhausted
<1>11. ChunksStayAligned'
  BY <1>6, <1>7, <1>8, <1>9 DEF ChunksStayAligned
<1>12. RoundsAreFair'
  BY <1>6, <1>7, <1>8, <1>9 DEF RoundsAreFair, Leads
<1>13. ASSUME NEW i \in 1 .. n PROVE chunks[i] > 0
  <2>1. wanted[i] \in Nat \ {0}
    BY <1>1, <1>2, WantedType DEF wanted
  <2>2. Lesser(wanted[i], Quantum) \in Nat \ {0}
        /\ Lesser(Lesser(wanted[i], Quantum), B) \in Nat \ {0}
    BY <1>4, <2>1 DEF Lesser
  <2>3. CASE TotalOf(Firsts(n, wanted, Quantum)) <= B
    <3>1. chunks[i] >= Lesser(wanted[i], Quantum) /\ chunks[i] \in Nat
      BY <1>2, <1>6, <2>3 DEF ChunksSound
    <3>2. QED  BY <2>2, <3>1
  <2>4. CASE ~(TotalOf(Firsts(n, wanted, Quantum)) <= B)
    <3>1. n = 1
      BY <1>2, <1>3, <2>4 DEF Splits
    <3>2. i = 1
      BY <3>1
    <3>3. chunks[i] >= Lesser(Lesser(wanted[i], Quantum), B) /\ chunks[i] \in Nat
      BY <1>2, <1>6, <3>1, <3>2 DEF ChunksSound
    <3>4. QED  BY <2>2, <3>3
  <2>5. QED  BY <2>3, <2>4
<1>14. DivisionSucceeds'
  <2>1. Len(chunks) = n
    BY <1>6, LenOf, WantedType, <1>1, <1>2
  <2>2. TotalOf(chunks) <= B /\ TotalOf(chunks) \in Nat
    <3>1. n \in Nat
      BY <1>1, <1>2, WantedType
    <3>2. PICK p : Sums(chunks, n, p) /\ TotalOf(chunks) = p[n]
      BY <1>6, <2>1, <3>1, TotalIs
    <3>3. QED  BY <1>2, <3>1, <3>2 DEF ChunksSound, Sums
  <2>3. ~(TotalOf(chunks) > B) /\ \A i \in 1 .. n : ~(chunks[i] <= 0)
    BY <1>6, <1>13, <2>2
  <2>4. QED  BY <1>7, <2>1, <2>3 DEF DivisionSucceeds, DivisionRaises
<1>15. QED  BY <1>10, <1>11, <1>12, <1>14 DEF BudgetIsDivided

\* An iteration without a forward grants nothing.
LEMMA NoForwardIsSound == forward = NoForward => BudgetIsDivided /\ RoundsAreFair
<1> SUFFICES ASSUME forward = NoForward PROVE BudgetIsDivided /\ RoundsAreFair
  OBVIOUS
<1>1. Members = {}
  BY DEF Members, NoForward
<1>2. DivisionSucceeds
  <2>1. forward.chunks = <<>> /\ forward.budget = 0
    BY DEF NoForward
  <2>2. TotalOf(<<>>) = 0
    <3>1. <<>> = [j \in 1 .. 0 |-> 0]
      OBVIOUS
    <3>2. QED  BY <3>1, TotalOfNothing, 0 \in Nat
  <2>3. QED  BY <2>1, <2>2 DEF DivisionSucceeds, DivisionRaises
<1>3. QED  BY <1>1, <1>2 DEF BudgetIsDivided, BudgetExhausted, ChunksStayAligned, RoundsAreFair

\* A request that arrives goes to the end of the queue.
LEMMA ArrivalKeepsQueue ==
  ASSUME QueueInv, NEW r \in Requests, AddOneReq(r)
  PROVE  QueueInv'
<1> DEFINE n == Len(pendingList)
           pl == pendingList'
           N == Cardinality(Requests)
<1>1. QueueType /\ QueueSound /\ Resting /\ WaitingPays
  BY DEF QueueInv
<1>0. PICK len \in PromptLens :
        \E h \in PossibleHits(len) :
          /\ prompt' = [prompt EXCEPT ![r] = len]
          /\ hit' = [hit EXCEPT ![r] = h]
  BY DEF AddOneReq
<1>2. PICK h \in PossibleHits(len) :
        /\ prompt' = [prompt EXCEPT ![r] = len]
        /\ hit' = [hit EXCEPT ![r] = h]
  BY <1>0
<1>3. /\ prompt[r] = 0 /\ pl = Append(pendingList, r) /\ forward' = NoForward
      /\ scheduled' = scheduled /\ waited' = waited
  BY DEF AddOneReq
<1>4. len \in Nat \ {0} /\ h \in Nat /\ h < len
  BY <1>2, ForwardsAssumption DEF PossibleHits
<1>5. /\ pendingList \in Seq(Requests) /\ n \in Nat
      /\ prompt \in [Requests -> Nat] /\ hit \in [Requests -> Nat]
      /\ scheduled \in [Requests -> Nat] /\ waited \in [Requests -> Nat]
  BY <1>1 DEF QueueType
<1>6. /\ prompt'[r] = len /\ hit'[r] = h
      /\ \A q \in Requests : q # r => prompt'[q] = prompt[q] /\ hit'[q] = hit[q]
      /\ prompt' \in [Requests -> Nat] /\ hit' \in [Requests -> Nat]
  BY <1>2, <1>4, <1>5
<1>7. \A i \in 1 .. n : pendingList[i] # r
  <2> TAKE i \in 1 .. n
  <2>1. prompt[pendingList[i]] > hit[pendingList[i]] + scheduled[pendingList[i]]
    BY <1>1 DEF QueueSound
  <2>2. hit[pendingList[i]] \in Nat /\ scheduled[pendingList[i]] \in Nat
    BY <1>5, SMTT(30)
  <2>3. QED  BY <1>3, <2>1, <2>2
<1>8. waited[r] = 0 /\ scheduled[r] = 0
  <2>1. ~Pending(r)
    BY <1>7 DEF Pending
  <2>2. QED  BY <1>1, <1>3, <2>1 DEF Resting
<1> HIDE DEF pl, N
<1>9. /\ pl \in Seq(Requests) /\ Len(pl) = n + 1 /\ pl[n + 1] = r
      /\ \A i \in 1 .. n : pl[i] = pendingList[i]
  BY <1>3, <1>5, AppendOf
<1> HIDE DEF n
<1>10. \A i \in 1 .. Len(pl) : i = n + 1 \/ i \in 1 .. n
  BY <1>5, <1>9
<1>11. QueueType'
  BY <1>3, <1>5, <1>6, <1>9 DEF QueueType, pl
<1>12. \A i, j \in 1 .. Len(pl) : pl[i] = pl[j] => i = j
  <2> TAKE i, j \in 1 .. Len(pl)
  <2>1. CASE i \in 1 .. n /\ j \in 1 .. n
    BY <2>1, <1>1, <1>9 DEF QueueSound, n
  <2>2. CASE i = n + 1 /\ j \in 1 .. n
    BY <2>2, <1>7, <1>9
  <2>3. CASE j = n + 1 /\ i \in 1 .. n
    BY <2>3, <1>7, <1>9
  <2>4. QED  BY <2>1, <2>2, <2>3, <1>10
<1>13. \A i \in 1 .. Len(pl) : prompt'[pl[i]] > hit'[pl[i]] + scheduled'[pl[i]]
  <2> TAKE i \in 1 .. Len(pl)
  <2>1. CASE i \in 1 .. n
    <3>1. pendingList[i] \in Requests /\ pendingList[i] # r /\ pl[i] = pendingList[i]
      <4>1. pendingList[i] # r /\ pl[i] = pendingList[i]
        BY <2>1, <1>7, <1>9
      <4>2. pendingList[i] \in Requests
        BY <2>1, <1>5 DEF n
      <4>3. QED  BY <4>1, <4>2
    <3>2. prompt[pendingList[i]] > hit[pendingList[i]] + scheduled[pendingList[i]]
      BY <2>1, <1>1 DEF QueueSound, n
    <3>3. QED  BY <3>1, <3>2, <1>3, <1>6
  <2>2. CASE i = n + 1
    BY <2>2, <1>3, <1>4, <1>6, <1>8, <1>9
  <2>3. QED  BY <2>1, <2>2, <1>10
<1>14. QueueSound'
  BY <1>12, <1>13 DEF QueueSound, pl
<1>15. \A q \in Requests : Pending(q)' <=> Pending(q) \/ q = r
  <2>1. \A q : (\E i \in 1 .. Len(pl) : pl[i] = q) <=> (\E i \in 1 .. n : pendingList[i] = q) \/ q = r
    <3>1. n + 1 \in 1 .. Len(pl) /\ \A i \in 1 .. n : i \in 1 .. Len(pl)
      BY <1>5, <1>9 DEF n
    <3>2. QED  BY <3>1, <1>9, <1>10
  <2>2. QED  BY <2>1 DEF Pending, pl, n
<1>16. Resting'
  <2>1. \A q \in Requests : ~Pending(q)' => waited'[q] = 0
    BY <1>1, <1>3, <1>15 DEF Resting
  <2>2. \A q \in Requests : prompt'[q] = 0 => scheduled'[q] = 0
    BY <1>1, <1>3, <1>4, <1>6 DEF Resting
  <2>3. QED  BY <2>1, <2>2 DEF Resting
<1>17. Finished' = Finished
  <2>1. \A q \in Requests : (prompt'[q] # 0 /\ ~Pending(q)') <=> (prompt[q] # 0 /\ ~Pending(q))
    BY <1>3, <1>6, <1>15
  <2>2. QED  BY <2>1 DEF Finished
<1>18. WaitingPays'
  <2> DEFINE Slack == IF BudgetsHoldAPage THEN 0 ELSE Cardinality(Finished)
  <2>1. Slack \in Nat /\ N \in Nat
    <3>1. Finished \in SUBSET Requests
      BY DEF Finished
    <3>2. IsFiniteSet(Finished) /\ IsFiniteSet(Requests)
      BY <3>1, ForwardsAssumption, FS_Subset
    <3>3. QED  BY <3>2, FS_CardinalityType DEF N
  <2>2. Len(pl) <= N
    BY <1>9, <1>12, PlacesBounded DEF N
  <2>3. \A i \in 1 .. n : waited[pendingList[i]] + i <= N + Slack
    BY <1>1 DEF WaitingPays, n, N
  <2> HIDE DEF Slack
  <2>4. \A i \in 1 .. Len(pl) : waited'[pl[i]] + i <= N + Slack
    <3> TAKE i \in 1 .. Len(pl)
    <3>1. CASE i \in 1 .. n
      BY <3>1, <2>3, <1>3, <1>9
    <3>2. CASE i = n + 1
      <4>1. waited'[pl[i]] = 0 /\ i <= N /\ i \in Nat
        BY <3>2, <2>2, <1>3, <1>5, <1>8, <1>9 DEF n
      <4>2. QED  BY <4>1, <2>1
    <3>3. QED  BY <3>1, <3>2, <1>10
  <2>5. BudgetsHoldAPage' = BudgetsHoldAPage
    BY DEF BudgetsHoldAPage
  <2>6. QED  BY <2>4, <2>5, <1>17 DEF WaitingPays, Slack, pl, N
<1>19. BudgetIsDivided' /\ RoundsAreFair'
  <2>1. (forward = NoForward)'
    BY <1>3
  <2>2. QED  BY <2>1, NoForwardIsSound, PTL
<1>20. QED  BY <1>11, <1>14, <1>16, <1>18, <1>19 DEF QueueInv

\* An iteration without a forward leaves the queue alone.
LEMMA QueueRests ==
  ASSUME QueueInv, UNCHANGED <<pendingList, prompt, hit, scheduled, waited>>,
         forward' = forward \/ forward' = NoForward
  PROVE  QueueInv'
<1>1. /\ pendingList' = pendingList /\ prompt' = prompt /\ hit' = hit
      /\ scheduled' = scheduled /\ waited' = waited
  OBVIOUS
<1>2. \A r : Pending(r)' = Pending(r)
  BY <1>1 DEF Pending
<1>3. Finished' = Finished
  BY <1>1, <1>2 DEF Finished
<1>4. BudgetsHoldAPage' = BudgetsHoldAPage
  BY DEF BudgetsHoldAPage
<1>5. QueueType' /\ QueueSound' /\ Resting' /\ WaitingPays'
  BY <1>1, <1>2, <1>3, <1>4 DEF QueueInv, QueueType, QueueSound, Resting, WaitingPays
<1>6. BudgetIsDivided' /\ RoundsAreFair'
  <2>1. CASE forward' = NoForward
    <3>1. (forward = NoForward)'
      BY <2>1
    <3>2. QED  BY <3>1, NoForwardIsSound, PTL
  <2>2. CASE forward' = forward
    BY <2>2 DEF QueueInv, BudgetIsDivided, DivisionSucceeds, BudgetExhausted, ChunksStayAligned, RoundsAreFair,
                Members, LeftOver
  <2>3. QED  BY <2>1, <2>2
<1>7. QED  BY <1>5, <1>6 DEF QueueInv

\* One forward, with a budget that the arbitration grants.
LEMMA ForwardKeepsInv ==
  ASSUME QueueInv, NEW B \in Nat \ {0}, BudgetsHoldAPage => Quantum <= B, RunForward(B)
  PROVE  QueueInv'
<1>1. QueueType /\ QueueSound
  BY DEF QueueInv
<1>2. PICK sel, chunks, left : Forwards(B, sel, chunks, left)
  BY <1>1, RunForwardIs
<1>3. Places(sel, chunks, left)
  BY <1>1, <1>2, PlacesAre
<1>4. QueueType' /\ QueueSound' /\ Resting'
  BY <1>2, <1>3, ForwardKeepsQueue
<1>5. WaitingPays'
  BY <1>2, <1>3, ForwardKeepsWaiting
<1>6. BudgetIsDivided' /\ RoundsAreFair'
  BY <1>2, ForwardIsSound
<1>7. QED  BY <1>4, <1>5, <1>6 DEF QueueInv

\* The queue is empty at first.
LEMMA QueueStarts == QueueInit => QueueInv
<1> SUFFICES ASSUME QueueInit PROVE QueueInv
  OBVIOUS
<1>1. /\ pendingList = <<>> /\ Len(pendingList) = 0 /\ forward = NoForward
      /\ prompt = [r \in Requests |-> 0] /\ hit = [r \in Requests |-> 0]
      /\ scheduled = [r \in Requests |-> 0] /\ waited = [r \in Requests |-> 0]
  BY DEF QueueInit
<1>2. QueueType /\ QueueSound /\ Resting /\ WaitingPays
  BY <1>1 DEF QueueType, QueueSound, Resting, WaitingPays
<1>3. QED  BY <1>1, <1>2, NoForwardIsSound DEF QueueInv

\* Every step of the scheduler keeps the queue sound; the budget is the granted one.
LEMMA TurnKeepsQueue == TypeOK' /\ QueueInv /\ [TurnsNext]_turnVars => QueueInv'
<1> SUFFICES ASSUME TypeOK', QueueInv, [TurnsNext]_turnVars PROVE QueueInv'
  OBVIOUS
<1>1. CASE UNCHANGED turnVars
  BY <1>1, QueueRests DEF turnVars, queueVars
<1>2. CASE \E r \in Requests : Arrives(r)
  BY <1>2, ArrivalKeepsQueue DEF Arrives
<1>3. CASE \E decodeRunnable, ready \in BOOLEAN : Turn(decodeRunnable, ready)
  <2>1. PICK d \in BOOLEAN, ready \in BOOLEAN : Turn(d, ready)
    BY <1>3
  <2>2. CASE call'.phase # "prefill" /\ NoRun
    BY <2>2, QueueRests DEF NoRun
  <2>3. CASE call'.phase = "prefill" /\ RunForward(call'.budget)
    <3> DEFINE B == call'.budget
    <3>1. \E p : ScheduleNextBatch(p, d, ready)
      BY <2>1 DEF Turn
    <3>2. B = GrantedBudget(PrefillBudget, MixedPrefillBudget, d)
      BY <3>1, <2>3 DEF ScheduleNextBatch
    <3>3. B \in Nat \ {0} /\ (BudgetsHoldAPage => Quantum <= B)
      BY <3>2, ArbitrationAssumption DEF GrantedBudget, BudgetsHoldAPage
    <3>4. RunForward(B)
      BY <2>3
    <3> HIDE DEF B
    <3>5. QED  BY <3>3, <3>4, ForwardKeepsInv
  <2>4. QED  BY <2>1, <2>2, <2>3 DEF Turn
<1>4. QED  BY <1>1, <1>2, <1>3 DEF TurnsNext

\* Nobody is further back than the last place, and whoever waits is not finished.
LEMMA WaitingIsBounded == QueueInv => WaitIsBounded
<1> SUFFICES ASSUME QueueInv, NEW r \in Requests
             PROVE  waited[r] <= (IF BudgetsHoldAPage THEN 1 ELSE 2) * (Cardinality(Requests) - 1)
  BY DEF WaitIsBounded
<1> DEFINE N == Cardinality(Requests)
<1>1. IsFiniteSet(Requests) /\ N \in Nat /\ N >= 1
  <2>1. IsFiniteSet(Requests) /\ N \in Nat
    BY ForwardsAssumption, FS_CardinalityType
  <2>2. N # 0
    BY <2>1, FS_EmptySet
  <2>3. QED  BY <2>1, <2>2
<1>2. CASE ~Pending(r)
  <2>1. waited[r] = 0
    BY <1>2 DEF QueueInv, Resting
  <2>2. QED  BY <1>1, <2>1
<1>3. CASE Pending(r)
  <2>1. PICK i \in 1 .. Len(pendingList) : pendingList[i] = r
    BY <1>3 DEF Pending
  <2>2. waited[r] + i <= N + (IF BudgetsHoldAPage THEN 0 ELSE Cardinality(Finished))
    BY <2>1 DEF QueueInv, WaitingPays
  <2>3. waited[r] \in Nat
    BY DEF QueueInv, QueueType
  <2>4. Cardinality(Finished) \in Nat /\ Cardinality(Finished) <= N - 1
    <3>1. Finished \in SUBSET (Requests \ {r})
      BY <1>3 DEF Finished
    <3>2. IsFiniteSet(Requests \ {r}) /\ Cardinality(Requests \ {r}) = N - 1
      BY <1>1, FS_RemoveElement
    <3>3. IsFiniteSet(Finished) /\ Cardinality(Finished) <= Cardinality(Requests \ {r})
      BY <3>1, <3>2, FS_Subset
    <3>4. Cardinality(Finished) \in Nat
      BY <3>3, FS_CardinalityType
    <3>5. QED  BY <3>2, <3>3, <3>4
  <2> HIDE DEF N
  <2>5. CASE BudgetsHoldAPage
    <3>1. waited[r] <= N - 1
      BY <2>2, <2>3, <2>5, <1>1
    <3>2. QED  BY <3>1, <2>5, <1>1 DEF N
  <2>6. CASE ~BudgetsHoldAPage
    <3>1. waited[r] <= (N - 1) + (N - 1)
      BY <2>2, <2>3, <2>4, <2>6, <1>1
    <3>2. QED  BY <3>1, <2>6, <1>1 DEF N
  <2>7. QED  BY <2>5, <2>6
<1>4. QED  BY <1>2, <1>3

\* The invariant of the prefill queue.
LEMMA QueueInvHolds == TurnsSpec => []QueueInv
<1>1. TurnsInit => QueueInv
  BY QueueStarts DEF TurnsInit
<1>2. QED  BY <1>1, TurnKeepsQueue, TypeCorrect, TurnsArbitrate, PTL DEF TurnsSpec

-------------------------------------------------------------------------------
(* The rotation starves nobody, for every number of requests, every prompt    *)
(* length and every prefix hit: no pending request is left out of more        *)
(* forwards in a row than there are other requests, twice that with a budget   *)
(* below a page (the requeue of PrefillManager.schedule_next_batch).          *)
THEOREM WaitAlwaysBounded == TurnsSpec => []WaitIsBounded
BY QueueInvHolds, WaitingIsBounded, PTL

(* No forward strands a budget that a selected request could have used, and   *)
(* none with a budget of a page or more cuts a prompt off the page boundary,  *)
(* for every page size and every budget (allocate_fair_prefill_chunks).        *)
THEOREM BudgetAlwaysDivided == TurnsSpec => []BudgetIsDivided
<1>1. QueueInv => BudgetIsDivided
  BY DEF QueueInv
<1>2. QED  BY <1>1, QueueInvHolds, PTL

(* Two selected requests that both stay unfinished are granted the same up to *)
(* one page, the larger grant going to the one with less progress, for every  *)
(* page size, budget and history of the ledger (allocate_fair_prefill_chunks).*)
THEOREM RoundsAlwaysFair == TurnsSpec => []RoundsAreFair
<1>1. QueueInv => RoundsAreFair
  BY DEF QueueInv
<1>2. QED  BY <1>1, QueueInvHolds, PTL

===============================================================================

------------------------------ MODULE Scheduler ------------------------------
(***************************************************************************)
(* The request scheduler of one rank (scheduler/scheduler.py, prefill.py,  *)
(* decode.py, table.py, core.py): the loop that receives messages,         *)
(* schedules forward N+1, and only then processes the results of forward N. *)
(* A request can therefore finish, or be aborted, while a later forward of *)
(* it is still in flight; RequestLifecycle keeps its resources until the   *)
(* last of its issued forwards has been processed.                         *)
(*                                                                         *)
(* Data that is abstracted: a token is its position, the sampled value only *)
(* matters as "is it EOS"; prompts share no prefix, so a page is held by   *)
(* one request or is reclaimable (free, or cached and evictable); the SWA  *)
(* pool and the prefix tree have no state here.                            *)
(***************************************************************************)
EXTENDS PhasePolicy, PrefillChunks, FiniteSets
LOCAL SetSums == INSTANCE FiniteSetsExt

CONSTANTS
  Uids,                \* request uids; a frontend uses each of them once
  Slots,               \* rows of the request table, max_running_req of them
  NumPages, PageSize,  \* the KV cache
  MaxSeqLen,           \* Engine.max_seq_len
  InputLens,           \* prompt lengths a client may send
  OutputLens,          \* max_tokens a client may ask for
  PrefillBudget,       \* SchedulerConfig.max_extend_tokens
  MixedPrefillBudget,  \* DSV4_MIXED_PREFILL_BUDGET
  DecodeLimit,         \* DSV4_MAX_CONSECUTIVE_DECODE
  Overlap,             \* FALSE: ENV.DISABLE_OVERLAP_SCHEDULING, normal_loop
  NoSlot, NoOwner      \* "no value" markers

ASSUME SchedulerAssumption ==
  /\ IsFiniteSet(Uids) /\ NoOwner \notin Uids
  /\ IsFiniteSet(Slots) /\ NoSlot \notin Slots
  /\ NumPages \in Nat \ {0} /\ PageSize \in Nat \ {0}
  /\ MaxSeqLen \in Nat \ {0}
  \* Engine: effective_max = min(requested, kv_capacity_tokens, rope limit)
  /\ MaxSeqLen <= NumPages * PageSize
  /\ InputLens \subseteq Nat \ {0} /\ OutputLens \subseteq Nat
  /\ PrefillBudget \in Nat \ {0} /\ MixedPrefillBudget \in Nat \ {0}
  /\ DecodeLimit \in Nat \ {0}
  /\ Overlap \in BOOLEAN

VARIABLES
  (* The loop. *)
  pc,           \* "receive", "schedule", "process", or "raised" (process died)
  blocking,     \* the receive in progress waits for at least one message
  last,         \* the batch whose results the next _process_last_data handles
  ongoing,      \* the batch issued in this iteration
  policy,       \* phase_policy
  (* RequestLifecycle, per uid; "none", "rejected" and "dropped" stand for a  *)
  (* request that has no lifecycle object (any more).                         *)
  state, outstanding, nextEpoch, reason,
  live,         \* keys of _live_reqs
  owners,       \* uids with an entry in _retirement_owners
  (* Queues. *)
  pending,      \* uids in PrefillManager.pending_list ...
  place,        \* ... and their positions in it, 1 at the head
  chunked,      \* uids whose PendingReq.chunked_req is set
  granted,      \* prefill_scheduled_tokens
  running,      \* DecodeManager.running_reqs
  (* The Req objects: lengths in tokens. *)
  inputLen, outputLen,
  cachedLen, deviceLen,
  hostLen,      \* len(input_ids)
  (* Resources. *)
  slotOf,       \* table_idx
  freeSlots,    \* TableManager._free_slots
  slotOwner,    \* the pool's sequence-slot owners
  pages,        \* pages a request holds in the page table
  (* Environment and observations. *)
  aborted,      \* uids for which the client has sent its abort
  sent,         \* token replies sent
  finals        \* replies sent with finished=True

loopVars  == <<pc, blocking, last, ongoing, policy>>
lifeVars  == <<state, outstanding, nextEpoch, reason, live, owners>>
queueVars == <<pending, place, chunked, granted, running>>
reqVars   == <<inputLen, outputLen, cachedLen, deviceLen, hostLen>>
resVars   == <<slotOf, freeSlots, slotOwner, pages>>
vars == <<loopVars, lifeVars, queueVars, reqVars, resVars, aborted, sent, finals>>

-------------------------------------------------------------------------------
States == {"none", "rejected", "dropped",
           "ACTIVE", "TERMINAL_PENDING_RETIRE", "RETIRED"}
Reasons == {"none", "stop", "length", "abort", "length_rejected"}

\* An IssuedReqRef: the request, the epoch of its forward, whether the row is a
\* ChunkedReq, and the position of the token that the forward samples.
Rows == [uid : Uids, epoch : Nat, chunked : BOOLEAN, pos : Nat]
Batches == [phase : Phases \cup {NoPhase}, rows : SUBSET Rows]
NoBatch == [phase |-> NoPhase, rows |-> {}]

MaxDeviceLen(u) == inputLen[u] + outputLen[u]

\* Mutant: a request stops decoding one token early.
RemainLenShort(u) == MaxDeviceLen(u) - deviceLen[u] - 1

RemainLen(u) == MaxDeviceLen(u) - deviceLen[u]
CanCommitToken(u) == hostLen[u] < MaxDeviceLen(u)

DivCeil(a, b) == (a + b - 1) \div b
Least(a, b) == IF a <= b THEN a ELSE b

\* Pages that are free or evictable, and the tokens they hold (available_size).
FreePages == NumPages - SetSums!MapThenSumSet(LAMBDA u : pages[u], Uids)
AvailableSize == FreePages * PageSize

\* Mutant: the results of the newest forward are processed first.
LastDataNewest == ongoing

\* The batch _process_last_data is called with.
LastData == IF Overlap THEN last ELSE ongoing
InFlight == last.rows \cup ongoing.rows

PrefillRunnable == pending # {}
DecodeRunnable == running # {}

\* The list order of S, given by the relation Before.
Ranked(S, Before(_,_)) ==
  [u \in Uids |-> IF u \in S THEN Cardinality({v \in S : v = u \/ Before(v, u)}) ELSE 0]

Init ==
  /\ pc = "receive" /\ blocking = TRUE
  /\ last = NoBatch /\ ongoing = NoBatch
  /\ policy = NewPolicy(DecodeLimit, "decode")
  /\ state = [u \in Uids |-> "none"]
  /\ outstanding = [u \in Uids |-> {}]
  /\ nextEpoch = [u \in Uids |-> 0]
  /\ reason = [u \in Uids |-> "none"]
  /\ live = {} /\ owners = {}
  /\ pending = {} /\ place = [u \in Uids |-> 0]
  /\ chunked = {} /\ granted = [u \in Uids |-> 0]
  /\ running = {}
  /\ inputLen = [u \in Uids |-> 0] /\ outputLen = [u \in Uids |-> 0]
  /\ cachedLen = [u \in Uids |-> 0] /\ deviceLen = [u \in Uids |-> 0]
  /\ hostLen = [u \in Uids |-> 0]
  /\ slotOf = [u \in Uids |-> NoSlot] /\ freeSlots = Slots
  /\ slotOwner = [s \in Slots |-> NoOwner]
  /\ pages = [u \in Uids |-> 0]
  /\ aborted = {}
  /\ sent = [u \in Uids |-> 0] /\ finals = [u \in Uids |-> 0]

-------------------------------------------------------------------------------
\* Mutant: the resources go as soon as the request has ended.
ReadyAtOnce(ended, epochs) == ended

\* ready_to_release_resources: the request has ended and none of its forwards
\* is outstanding.
ReadyToRelease(ended, epochs) == ended /\ epochs = {}

\* Mutant: an ended request stays in the running set.
KeepRunning(us) == running

\* DecodeManager.remove_req.
RemoveReq(us) == running \ us

(* Retirement.  The requests in terminal commit a terminal status, those in *)
(* released give their resources back: sequence slot, table row and pages   *)
(* (_commit_terminal, _maybe_release_terminal_resources,                    *)
(* _free_req_resources).                                                    *)
Retire(terminal, released) ==
  /\ state' = [u \in Uids |-> IF u \in released THEN "RETIRED"
                              ELSE IF u \in terminal THEN "TERMINAL_PENDING_RETIRE"
                              ELSE state[u]]
  /\ owners' = (owners \cup terminal) \ released
  /\ live' = live \ released
  /\ running' = RemoveReq(terminal)
  /\ freeSlots' = freeSlots \cup {slotOf[u] : u \in released}
  /\ slotOwner' = [s \in Slots |->
                     IF \E u \in released : slotOf[u] = s THEN NoOwner ELSE slotOwner[s]]
  /\ slotOf' = [u \in Uids |-> IF u \in released THEN NoSlot ELSE slotOf[u]]
  /\ pages' = [u \in Uids |-> IF u \in released THEN 0 ELSE pages[u]]

-------------------------------------------------------------------------------
(* Receiving messages. *)

Receiving == pc = "receive"

\* decide_max_sequence_admission.
Accepted(input, output) ==
  /\ input <= MaxSeqLen
  /\ output > 0 => input < MaxSeqLen

(* UserMsg: refused with a terminal reply, or queued with max_tokens clamped *)
(* and a fresh lifecycle.                                                    *)
RejectUserMsg(u, input, output) ==
  /\ Receiving /\ state[u] = "none" /\ ~Accepted(input, output)
  /\ state' = [state EXCEPT ![u] = "rejected"]
  /\ reason' = [reason EXCEPT ![u] = "length_rejected"]
  /\ finals' = [finals EXCEPT ![u] = @ + 1]
  /\ blocking' = FALSE
  /\ UNCHANGED <<pc, last, ongoing, policy, outstanding, nextEpoch, live, owners,
                 queueVars, reqVars, resVars, aborted, sent>>

AcceptUserMsg(u, input, output) ==
  /\ Receiving /\ state[u] = "none" /\ Accepted(input, output)
  /\ state' = [state EXCEPT ![u] = "ACTIVE"]
  /\ inputLen' = [inputLen EXCEPT ![u] = input]
  /\ outputLen' = [outputLen EXCEPT ![u] = Least(output, MaxSeqLen - input)]
  /\ pending' = pending \cup {u}
  /\ place' = [place EXCEPT ![u] = Cardinality(pending) + 1]
  /\ blocking' = FALSE
  /\ UNCHANGED <<pc, last, ongoing, policy, outstanding, nextEpoch, reason, live, owners,
                 chunked, granted, running, cachedLen, deviceLen, hostLen,
                 resVars, aborted, sent, finals>>

\* Mutant: the abort misses a request that is resident but not yet decoding.
FoundRunning(u) == u \in running

\* The request is looked up as a pending chunk, then among the running ones,
\* then among the live ones.
Found(u) == u \in chunked \/ u \in running \/ u \in live

(* AbortBackendMsg.  A pending request without a chunk is simply forgotten.   *)
(* Any other that has not been retired becomes terminal, and gives its        *)
(* resources back unless a forward of it is in flight.  An abort may arrive   *)
(* late, after the request has finished, or, from another tokenizer process,  *)
(* before it.                                                                 *)
AbortBackendMsg(u) ==
  LET ended    == state[u] \in {"ACTIVE", "TERMINAL_PENDING_RETIRE"}
      terminal == IF Found(u) /\ state[u] = "ACTIVE" THEN {u} ELSE {}
      released == IF Found(u) /\ ReadyToRelease(ended, outstanding[u]) THEN {u} ELSE {}
      left     == pending \ {u}
  IN
  /\ Receiving /\ u \notin aborted
  /\ aborted' = aborted \cup {u}
  /\ pending' = left
  /\ place' = Ranked(left, LAMBDA v, w : place[v] < place[w])
  /\ chunked' = chunked \ {u}
  /\ IF u \in pending /\ ~Found(u)
       THEN /\ state' = [state EXCEPT ![u] = "dropped"]
            /\ UNCHANGED <<live, owners, running, resVars>>
       ELSE Retire(terminal, released)
  /\ reason' = [v \in Uids |-> IF v \in terminal THEN "abort" ELSE reason[v]]
  /\ blocking' = FALSE
  /\ UNCHANGED <<pc, last, ongoing, policy, outstanding, nextEpoch, granted,
                 reqVars, sent, finals>>

(* The messages at hand have been processed; a blocking receive returns only *)
(* with a message.                                                           *)
EndReceive ==
  /\ Receiving /\ ~blocking
  /\ pc' = "schedule"
  /\ UNCHANGED <<blocking, last, ongoing, policy, lifeVars, queueVars, reqVars, resVars,
                 aborted, sent, finals>>

-------------------------------------------------------------------------------
(* Scheduling: which pending requests get into a prefill batch. *)

\* Uncached prompt tokens of a pending request.
PrefillRemaining(u) == inputLen[u] - cachedLen[u]

\* DecodeManager.inflight_tokens: "1 page reserved" per running request.
InflightTokens ==
  SetSums!MapThenSumSet(RemainLen, running) + (PageSize - 1) * Cardinality(running)

\* The reservation of the chunked requests that are already resident.
ResidentReservation ==
  SetSums!MapThenSumSet(LAMBDA u : PrefillRemaining(u) + outputLen[u], chunked)

\* _try_allocate_one: a chunked request has its resources, a new one needs a
\* table row and room for its prompt and output next to what is reserved.
CanPrepare(u, reserved, slotsLeft) ==
  \/ u \in chunked
  \/ /\ slotsLeft > 0
     /\ PrefillRemaining(u) + outputLen[u] + reserved <= AvailableSize

ReservedAtStart == InflightTokens + ResidentReservation

(* The selection loop over pending_list: the first share must fit in the     *)
(* budget, and the reservation of every admitted request counts against the  *)
(* next one.                                                                 *)
Scan(budget) ==
  LET pendingList == [i \in 1..Cardinality(pending) |->
                        CHOOSE u \in pending : place[u] = i]
      FirstShare(u) == Least(PageSize, PrefillRemaining(u))
      scan[i \in 0..Cardinality(pending)] ==
        IF i = 0
          THEN [share |-> budget, reserved |-> ReservedAtStart,
                slotsLeft |-> Cardinality(freeSlots), taken |-> {}]
          ELSE LET u == pendingList[i]
                   s == scan[i - 1]
                   new == IF u \in chunked THEN 0 ELSE 1
               IN  IF FirstShare(u) > s.share \/ ~CanPrepare(u, s.reserved, s.slotsLeft)
                     THEN s
                     ELSE [share |-> s.share - FirstShare(u),
                           reserved |-> s.reserved +
                             new * (PrefillRemaining(u) + outputLen[u]),
                           slotsLeft |-> s.slotsLeft - new,
                           taken |-> s.taken \cup {u}]
  IN  scan[Cardinality(pending)].taken

\* A budget smaller than every first share still admits the first that fits.
FirstPreparable ==
  LET CanStart(u) == CanPrepare(u, ReservedAtStart, Cardinality(freeSlots))
  IN  {u \in pending : CanStart(u) /\ \A v \in pending :
                         place[v] < place[u] => ~CanStart(v)}

Prepared(budget) ==
  IF \E u \in pending : u \in Scan(budget)
    THEN {u \in pending : u \in Scan(budget)}
    ELSE FirstPreparable

\* The chunk of each prepared request, by the fair division of the budget.
Chunks(budget, taken) ==
  LET order == Ranked(taken, LAMBDA u, v : place[u] < place[v])
      at == [i \in 1..Cardinality(taken) |-> CHOOSE u \in taken : order[u] = i]
      alloc == AllocateFairPrefillChunks(budget, PageSize,
                 [i \in DOMAIN at |-> granted[at[i]]],
                 [i \in DOMAIN at |-> PrefillRemaining(at[i])])
  IN  [u \in taken |-> alloc[order[u]]]

-------------------------------------------------------------------------------
(* Issuing a forward: _prepare_batch and _forward. *)

\* What allocate_paged must find for a request that grows from one length to
\* another.
NewPages(from, to) == DivCeil(to, PageSize) - DivCeil(from, PageSize)

\* The references that _issue_batch_refs hands out for the members of a batch,
\* of which the partial ones are ChunkedReqs.
IssuedRows(members, partial, length) ==
  {[uid |-> u, epoch |-> nextEpoch[u], chunked |-> u \in partial, pos |-> length[u]]
     : u \in members}

IssueBatchRefs(members) ==
  /\ outstanding' = [u \in Uids |-> IF u \in members
                       THEN outstanding[u] \cup {nextEpoch[u]} ELSE outstanding[u]]
  /\ nextEpoch' = [u \in Uids |-> IF u \in members
                       THEN nextEpoch[u] + 1 ELSE nextEpoch[u]]
  /\ live' = live \cup members
  /\ UNCHANGED <<state, reason, owners>>

Choice == Choose(policy, PrefillRunnable, DecodeRunnable)
Budget == GrantedBudget(PrefillBudget, MixedPrefillBudget, DecodeRunnable)

Record(phase) ==
  policy' = RecordScheduled(policy, phase, PrefillRunnable, DecodeRunnable)

Scheduling == pc = "schedule"

\* The members of the prefill batch this iteration tries to build.
PrefillBatch == IF Choice = "prefill" THEN Prepared(Budget) ELSE {}
DecodeBatch == IF PrefillBatch = {} THEN running ELSE {}

\* The pages allocate_paged needs for the batch.
ForwardPages ==
  IF PrefillBatch # {}
    THEN LET chunk == Chunks(Budget, PrefillBatch)
         IN  SetSums!MapThenSumSet(LAMBDA u : NewPages(cachedLen[u], cachedLen[u] + chunk[u]),
                           PrefillBatch)
    ELSE SetSums!MapThenSumSet(LAMBDA u : NewPages(cachedLen[u], deviceLen[u]), DecodeBatch)

(* A prefill forward.  New members take a table row and its sequence slot;   *)
(* a member whose chunk ends its prompt leaves the pending list, the others  *)
(* rotate behind the requests that were left out; the pages of the chunks    *)
(* are allocated, the forward is issued, and complete_one advances the       *)
(* lengths before the forward has run.                                       *)
SchedulePrefill ==
  LET taken  == PrefillBatch
      chunk  == Chunks(Budget, taken)
      new    == taken \ chunked
      ends   == {u \in taken : cachedLen[u] + chunk[u] = inputLen[u]}
      length == [u \in taken |-> cachedLen[u] + chunk[u]]
  IN
  /\ Scheduling /\ taken # {}
  /\ \A u \in taken : chunk[u] \in 1..PrefillRemaining(u)
  /\ ForwardPages <= FreePages
  /\ \E row \in [new -> freeSlots] :
       /\ \A u, v \in new : u # v => row[u] # row[v]
       /\ \A u \in new : slotOwner[row[u]] = NoOwner
       /\ slotOf' = [u \in Uids |-> IF u \in new THEN row[u] ELSE slotOf[u]]
       /\ freeSlots' = freeSlots \ {row[u] : u \in new}
       /\ slotOwner' = [s \in Slots |-> IF \E u \in new : row[u] = s
                          THEN CHOOSE u \in new : row[u] = s ELSE slotOwner[s]]
  /\ pages' = [u \in Uids |-> IF u \in taken
                 THEN pages[u] + NewPages(cachedLen[u], length[u]) ELSE pages[u]]
  /\ granted' = [u \in Uids |-> IF u \in taken THEN granted[u] + chunk[u] ELSE granted[u]]
  /\ pending' = pending \ ends
  /\ place' = Ranked(pending \ ends, LAMBDA u, v :
                \/ u \notin taken /\ v \in taken
                \/ (u \in taken <=> v \in taken) /\ place[u] < place[v])
  /\ chunked' = (chunked \cup taken) \ ends
  /\ IssueBatchRefs(taken)
  /\ ongoing' = [phase |-> "prefill",
                 rows |-> IssuedRows(taken, taken \ ends, length)]
  /\ hostLen' = [u \in Uids |-> IF u \in taken THEN length[u] ELSE hostLen[u]]
  /\ cachedLen' = [u \in Uids |-> IF u \in taken THEN length[u] ELSE cachedLen[u]]
  /\ deviceLen' = [u \in Uids |-> IF u \in taken THEN length[u] + 1 ELSE deviceLen[u]]
  /\ running' = running \cup {u \in ends : outputLen[u] > 1}
  /\ Record("prefill")
  /\ pc' = "process"
  /\ UNCHANGED <<blocking, last, inputLen, outputLen, aborted, sent, finals>>

(* A decode forward over all the running requests. *)
ScheduleDecode ==
  LET members == DecodeBatch
  IN
  /\ Scheduling /\ members # {}
  /\ ForwardPages <= FreePages
  /\ pages' = [u \in Uids |-> IF u \in members
                 THEN pages[u] + NewPages(cachedLen[u], deviceLen[u]) ELSE pages[u]]
  /\ IssueBatchRefs(members)
  /\ ongoing' = [phase |-> "decode",
                 rows |-> IssuedRows(members, {}, deviceLen)]
  /\ cachedLen' = [u \in Uids |-> IF u \in members THEN deviceLen[u] ELSE cachedLen[u]]
  /\ deviceLen' = [u \in Uids |-> IF u \in members THEN deviceLen[u] + 1 ELSE deviceLen[u]]
  /\ running' = {u \in running : RemainLen(u) > 1}
  /\ Record("decode")
  /\ pc' = "process"
  /\ UNCHANGED <<blocking, last, pending, place, chunked, granted, inputLen, outputLen,
                 hostLen, slotOf, freeSlots, slotOwner, aborted, sent, finals>>

(* Nothing to run. *)
ScheduleNothing ==
  /\ Scheduling /\ PrefillBatch = {} /\ DecodeBatch = {}
  /\ Record(NoPhase)
  /\ ongoing' = NoBatch
  /\ pc' = "process"
  /\ UNCHANGED <<blocking, last, lifeVars, queueVars, reqVars, resVars,
                 aborted, sent, finals>>

(* allocate_paged finds too few pages for the batch and its assertions       *)
(* ("Eviction did not free enough ...") end the process.                     *)
AllocationFails ==
  /\ Scheduling
  /\ ForwardPages > FreePages
  /\ pc' = "raised"
  /\ UNCHANGED <<blocking, last, ongoing, policy, lifeVars, queueVars, reqVars, resVars,
                 aborted, sent, finals>>

-------------------------------------------------------------------------------
(* Processing the results of a forward. *)

\* Mutant: lifecycle.accepts_completion is not asked.
CommittedEveryRow == {r \in LastData.rows : ~r.chunked}

\* The rows whose token is committed: the request is still ACTIVE and the row
\* ends its prompt or continues its decode.
CommittedRows == {r \in LastData.rows : state[r.uid] = "ACTIVE" /\ ~r.chunked}

\* RequestLifecycle.complete for every row of the batch.
RemainingEpochs(u) ==
  outstanding[u] \ {r.epoch : r \in {q \in LastData.rows : q.uid = u}}

\* Mutant: the loop blocks although a batch is yet to be processed.
BlockingUnqueued(data, decoding) == pending = {} /\ decoding = {}

\* The loop blocks when it has no batch to process and nothing to schedule.
Blocking(data, decoding) == data = NoBatch /\ pending = {} /\ decoding = {}

(* _process_last_data.  eos are the committed rows that sampled EOS and do   *)
(* not ignore it.  Every row completes its reference, also the rows of a     *)
(* request that is terminal already, whose token is discarded; a request     *)
(* that is terminal and has no other forward outstanding is released.        *)
ProcessLastData ==
  \E eos \in SUBSET {r.uid : r \in CommittedRows} :
    LET committed  == {r.uid : r \in CommittedRows}
        terminal   == {u \in committed : u \in eos \/ hostLen[u] + 1 = MaxDeviceLen(u)}
        ended(u)   == u \in terminal \/ state[u] = "TERMINAL_PENDING_RETIRE"
        released   == {u \in {r.uid : r \in LastData.rows} :
                         ReadyToRelease(ended(u), RemainingEpochs(u))}
    IN
    /\ pc = "process"
    /\ \A u \in committed : CanCommitToken(u)
    /\ hostLen' = [u \in Uids |-> IF u \in committed THEN hostLen[u] + 1 ELSE hostLen[u]]
    /\ sent' = [u \in Uids |-> IF u \in committed THEN sent[u] + 1 ELSE sent[u]]
    /\ finals' = [u \in Uids |-> IF u \in terminal THEN finals[u] + 1 ELSE finals[u]]
    /\ reason' = [u \in Uids |-> IF u \in terminal
                    THEN (IF u \in eos THEN "stop" ELSE "length") ELSE reason[u]]
    /\ outstanding' = [u \in Uids |-> RemainingEpochs(u)]
    /\ Retire(terminal, released)
    /\ last' = IF Overlap THEN ongoing ELSE NoBatch
    /\ ongoing' = NoBatch
    /\ blocking' = Blocking(last', running')
    /\ pc' = "receive"
    /\ UNCHANGED <<policy, nextEpoch, pending, place, chunked, granted,
                   inputLen, outputLen, cachedLen, deviceLen, aborted>>

(* An active request without room for another token ends the process.        *)
CommitFails ==
  /\ pc = "process"
  /\ \E r \in CommittedRows : ~CanCommitToken(r.uid)
  /\ pc' = "raised"
  /\ UNCHANGED <<blocking, last, ongoing, policy, lifeVars, queueVars, reqVars, resVars,
                 aborted, sent, finals>>

-------------------------------------------------------------------------------
(* Blocked in recv.get() with no client left to send anything, or dead. *)
Quiescent ==
  /\ \/ pc = "raised"
     \/ Receiving /\ blocking /\ aborted = Uids /\ \A u \in Uids : state[u] # "none"
  /\ UNCHANGED vars

Loop ==
  \/ EndReceive
  \/ SchedulePrefill
  \/ ScheduleDecode
  \/ ScheduleNothing
  \/ AllocationFails
  \/ ProcessLastData
  \/ CommitFails

Next ==
  \/ \E u \in Uids, input \in InputLens, output \in OutputLens :
       \/ RejectUserMsg(u, input, output)
       \/ AcceptUserMsg(u, input, output)
  \/ \E u \in Uids : AbortBackendMsg(u)
  \/ Loop
  \/ Quiescent

Spec == Init /\ [][Next]_vars

(* run_forever is a loop without exit: unless it waits for a message, its next *)
(* step is eventually taken.  The steps of Loop are those that move pc, so      *)
(* WF_pc(Turn) is WF_vars(Loop), in a form whose enabling condition is cheap.   *)
Turn ==
  /\ pc \in {"schedule", "process"} \/ (Receiving /\ ~blocking)
  /\ pc' \in {"receive", "schedule", "process", "raised"} \ {pc}

FairSpec == Spec /\ WF_pc(Turn)

-------------------------------------------------------------------------------
TypeOK ==
  /\ pc \in {"receive", "schedule", "process", "raised"} /\ blocking \in BOOLEAN
  /\ last \in Batches /\ ongoing \in Batches /\ policy \in Policies
  /\ state \in [Uids -> States] /\ reason \in [Uids -> Reasons]
  /\ outstanding \in [Uids -> SUBSET Nat] /\ nextEpoch \in [Uids -> Nat]
  /\ live \subseteq Uids /\ owners \subseteq Uids
  /\ pending \subseteq Uids /\ place \in [Uids -> Nat]
  /\ chunked \subseteq Uids /\ running \subseteq Uids
  /\ granted \in [Uids -> Nat]
  /\ inputLen \in [Uids -> Nat] /\ outputLen \in [Uids -> Nat]
  /\ cachedLen \in [Uids -> Nat] /\ deviceLen \in [Uids -> Nat]
  /\ hostLen \in [Uids -> Nat]
  /\ slotOf \in [Uids -> Slots \cup {NoSlot}] /\ freeSlots \subseteq Slots
  /\ slotOwner \in [Slots -> Uids \cup {NoOwner}]
  /\ pages \in [Uids -> Nat]
  /\ aborted \subseteq Uids
  /\ sent \in [Uids -> Nat] /\ finals \in [Uids -> Nat]

(* Every row of a forward that has been issued and not yet processed still   *)
(* has its request's table row, its sequence slot and pages for all the      *)
(* positions the forward writes, also when the request has been aborted or   *)
(* has finished meanwhile (_maybe_release_terminal_resources waits for the   *)
(* outstanding epochs); and no position is beyond the model's bound          *)
(* (validate_model_position_bound).                                          *)
NoUseAfterRelease ==
  \A r \in InFlight :
    /\ slotOf[r.uid] \in Slots \ freeSlots
    /\ slotOwner[slotOf[r.uid]] = r.uid
    /\ DivCeil(r.pos, PageSize) <= pages[r.uid]
    /\ r.pos <= MaxSeqLen

(* The outstanding epochs of a lifecycle are exactly those of its rows in    *)
(* flight, no two of which share one, so that the last completion is the one *)
(* that releases (RequestLifecycle.issue, complete).                         *)
LedgerMatchesFlight ==
  /\ \A u \in Uids : outstanding[u] = {r.epoch : r \in {q \in InFlight : q.uid = u}}
  /\ \A q, r \in InFlight : q.uid = r.uid /\ q.epoch = r.epoch => q = r

(* A terminal request waits for retirement only while a forward of it is in  *)
(* flight, exactly then it has a retirement owner, and it is in no queue: it *)
(* is never issued again (_commit_terminal).                                 *)
RetirementIsOwned ==
  \A u \in Uids :
    /\ u \in owners <=> state[u] = "TERMINAL_PENDING_RETIRE"
    /\ u \in owners => outstanding[u] # {} /\ u \in live /\ u \notin pending \cup running

(* The table rows are divided among the free list and the requests that hold *)
(* one, each by itself: no row is freed twice or given to two requests, and  *)
(* a request that is over holds neither a row nor a page                     *)
(* (TableManager, acquire_sequence_slot, release_sequence_slot).             *)
SlotsArePartitioned ==
  /\ \A s \in Slots : s \in freeSlots <=> slotOwner[s] = NoOwner
  /\ \A u \in Uids, s \in Slots : slotOf[u] = s <=> slotOwner[s] = u
  /\ \A u \in Uids : slotOf[u] = NoSlot => pages[u] = 0
  /\ \A u \in Uids : slotOf[u] # NoSlot =>
       state[u] \in {"ACTIVE", "TERMINAL_PENDING_RETIRE"}

(* A request that has not ended is pending, or running, or a forward is in   *)
(* flight whose token ends it: none falls out of every queue, although a     *)
(* request leaves running_reqs when its last forward is issued and not when  *)
(* its last token is committed (filter_reqs, _process_last_data).            *)
NoRequestIsLost ==
  \A u \in Uids : state[u] = "ACTIVE" =>
    \/ u \in pending
    \/ u \in running
    \/ \E r \in InFlight : r.uid = u /\ ~r.chunked /\ r.pos + 1 >= MaxDeviceLen(u)

(* The token a row commits is the one after the tokens the host has: the     *)
(* device runs ahead of the host by the forwards in flight, never by more    *)
(* (complete_one before the forward, append_host after it).                  *)
TokensInOrder ==
  /\ pc = "process" => \A r \in CommittedRows : r.pos = hostLen[r.uid]
  /\ \A u \in running :
       deviceLen[u] = hostLen[u] + Cardinality({r \in InFlight : r.uid = u /\ ~r.chunked})

(* The scheduler blocks only when it is clean: nothing is outstanding, all   *)
(* rows are free, no page is held and no request waits, which is what        *)
(* check_integrity of run_when_idle relies on.                               *)
IdleIsClean ==
  Receiving /\ blocking =>
    /\ live = {} /\ owners = {} /\ chunked = {}
    /\ freeSlots = Slots
    /\ \A u \in Uids : outstanding[u] = {} /\ pages[u] = 0 /\ state[u] # "ACTIVE"

(* The assertion of allocate_paged never ends the process: what the         *)
(* admission let in can be given its pages to its end.                       *)
AllocationSucceeds == Scheduling => ForwardPages <= FreePages

(* Every admitted request is eventually retired, or forgotten by an abort    *)
(* before it started: no phase policy, admission or rotation starves it.     *)
EveryRequestEnds ==
  \A u \in Uids : state[u] = "ACTIVE" ~> state[u] \in {"RETIRED", "dropped"}

(* What the client and the resource pools see of each request is what        *)
(* RequestContract promises, with the two forwards of overlap_loop or the    *)
(* one of normal_loop.                                                       *)
Contract == INSTANCE RequestContract WITH
  Requests <- Uids,
  Limits   <- Nat,
  Depth    <- IF Overlap THEN 2 ELSE 1,
  req      <- [u \in Uids |->
    [status   |-> CASE state[u] = "none" -> "new"
                    [] state[u] = "ACTIVE" -> "active"
                    [] state[u] = "TERMINAL_PENDING_RETIRE" -> "ending"
                    [] OTHER -> "done",
     limit    |-> outputLen[u],
     tokens   |-> sent[u],
     finals   |-> finals[u],
     inFlight |-> Cardinality({r \in InFlight : r.uid = u}),
     rows     |-> IF slotOf[u] = NoSlot THEN 0 ELSE 1]]

ImplementsContract == Contract!Spec

===============================================================================

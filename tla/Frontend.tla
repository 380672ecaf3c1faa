------------------------------- MODULE Frontend -------------------------------
(* The requests of the API server: FrontendManager and the streaming endpoints   *)
(* (server/api_server.py), with the tokenizer and detokenizer workers            *)
(* (tokenizer/server.py) and what the scheduler does with their messages.  All    *)
(* of FrontendManager runs in one event loop, so what happens between two awaits  *)
(* is one step; clients leave, the backend fails and the server stops at any      *)
(* point.  A reply is its position in the request and whether it is the last.     *)
EXTENDS Naturals, Sequences, FiniteSets

CONSTANTS Uids,        \* requests: each uid is used once
          MaxReplies   \* bound: replies to each request

ASSUME FrontendAssumption == IsFiniteSet(Uids) /\ MaxReplies \in [Uids -> Nat \ {0}]

VARIABLES
  mapped,       \* the keys of ack_map and event_map
  acks,         \* ack_map
  event,        \* event_map: the flag of each asyncio.Event
  requestUids,  \* request_uids
  abortTask,    \* abort_tasks, and how far the task is: none, new, asleep
  terminal,     \* terminal_error is set
  stopping,     \* _shutdown_started
  phase,        \* where the handler and the reply generator of a request are
  batch,        \* pending in wait_for_ack: replies taken and not yet yielded
  got,          \* replies the client was sent
  fate,         \* open, answered, failed (an error body), left (client gone)
  toTokenizer, toBackend, toDetokenizer, toFrontend,   \* the queues
  live,         \* requests the scheduler works on
  made          \* replies the scheduler has sent

managerVars == <<mapped, acks, event, requestUids, abortTask, terminal, stopping>>
handlerVars == <<phase, batch, got, fate>>
queueVars == <<toTokenizer, toBackend, toDetokenizer, toFrontend>>
backendVars == <<live, made>>
vars == <<managerVars, handlerVars, queueVars, backendVars>>

Phases == {"idle", "sending", "ready", "waiting", "yielding", "last", "closing", "closed", "lost"}
Replies == [uid : Uids, pos : Nat, last : BOOLEAN]
Messages == [kind : {"request", "abort"}, uid : Uids]

Init ==
    /\ mapped = {} /\ acks = [u \in Uids |-> <<>>] /\ event = [u \in Uids |-> FALSE]
    /\ requestUids = {} /\ abortTask = [u \in Uids |-> "none"]
    /\ terminal = FALSE /\ stopping = FALSE
    /\ phase = [u \in Uids |-> "idle"] /\ batch = [u \in Uids |-> <<>>]
    /\ got = [u \in Uids |-> <<>>] /\ fate = [u \in Uids |-> "open"]
    /\ toTokenizer = <<>> /\ toBackend = <<>> /\ toDetokenizer = <<>> /\ toFrontend = <<>>
    /\ live = {} /\ made = [u \in Uids |-> 0]

-------------------------------------------------------------------------------
Unavailable == terminal \/ stopping
Enters(u, p) == phase' = [phase EXCEPT ![u] = p]
Ends(u, f) == fate' = [fate EXCEPT ![u] = f]
Put(queue, m) == Append(queue, m)

\* Mutant: the abort task is never created.
NoAbort(u, pending) == abortTask

(* _schedule_abort: one abort task per request, and only while it is not done.   *)
ScheduledAbort(u, pending) ==
    IF u \in pending /\ abortTask[u] = "none" THEN [abortTask EXCEPT ![u] = "new"] ELSE abortTask

\* Mutant: the entry of a request stays when its generator ends.
KeepEntry(u) == mapped

Popped(u) == mapped \ {u}

(* The finally clause of wait_for_ack. *)
CloseGenerator(u, completed) ==
    /\ mapped' = Popped(u)
    /\ IF completed \/ Unavailable
       THEN requestUids' = requestUids \ {u} /\ UNCHANGED abortTask
       ELSE abortTask' = ScheduledAbort(u, requestUids) /\ UNCHANGED requestUids
    /\ UNCHANGED <<acks, terminal, stopping>>

\* Mutant: the failure does not wake the waiting requests.
WokenNone == event

(* Every request that has an entry is woken. *)
Woken == [u \in Uids |-> event[u] \/ u \in mapped]

(* _mark_backend_unavailable: the first failure wins, a stop is not a failure.    *)
MarkUnavailable ==
    IF Unavailable THEN UNCHANGED <<terminal, event>>
                   ELSE terminal' = TRUE /\ event' = Woken

-------------------------------------------------------------------------------
(* A request handler, from new_user to the end of its reply generator.           *)

Submit(u) ==
    /\ phase[u] = "idle" /\ ~Unavailable
    /\ mapped' = mapped \cup {u}
    /\ requestUids' = requestUids \cup {u}
    /\ Enters(u, "sending")
    /\ UNCHANGED <<acks, event, abortTask, terminal, stopping, batch, got, fate, queueVars, backendVars>>

SendOne(u) ==
    /\ phase[u] = "sending"
    /\ toTokenizer' = Put(toTokenizer, [kind |-> "request", uid |-> u])
    /\ Enters(u, "ready")
    /\ UNCHANGED <<managerVars, batch, got, fate, toBackend, toDetokenizer, toFrontend, backendVars>>

(* put raises: the backend is unavailable and the request is discarded.          *)
SendFails(u) ==
    /\ phase[u] = "sending"
    /\ MarkUnavailable
    /\ mapped' = Popped(u) /\ requestUids' = requestUids \ {u}
    /\ Enters(u, "closed") /\ Ends(u, "failed")
    /\ UNCHANGED <<acks, abortTask, stopping, batch, got, queueVars, backendVars>>

(* The handler is cancelled in put, before or after the message has left.        *)
SendCancelled(u) ==
    /\ phase[u] = "sending"
    /\ toTokenizer' \in {toTokenizer, Put(toTokenizer, [kind |-> "request", uid |-> u])}
    /\ abortTask' = ScheduledAbort(u, requestUids)
    /\ Enters(u, "closed") /\ Ends(u, "left")
    /\ UNCHANGED <<mapped, acks, event, requestUids, terminal, stopping, batch, got,
                   toBackend, toDetokenizer, toFrontend, backendVars>>

StartStream(u) ==
    /\ phase[u] = "ready"
    /\ Enters(u, "waiting")
    /\ UNCHANGED <<managerVars, batch, got, fate, queueVars, backendVars>>

(* The client is gone before the response iterates its generator for the first    *)
(* time: none of the generator's code, and no finally clause, ever runs.          *)
NeverStarted(u) ==
    /\ phase[u] = "ready"
    /\ Enters(u, "lost") /\ Ends(u, "left")
    /\ UNCHANGED <<managerVars, batch, got, queueVars, backendVars>>

\* Mutant: the replies that were taken stay in ack_map.
Untaken(u) == acks

Taken(u) == [acks EXCEPT ![u] = <<>>]

(* wait_for_ack returns from event.wait, clears the event and takes the replies.  *)
Wake(u) ==
    /\ phase[u] = "waiting" /\ event[u]
    /\ event' = [event EXCEPT ![u] = FALSE]
    /\ batch' = [batch EXCEPT ![u] = acks[u]]
    /\ acks' = Taken(u)
    /\ Enters(u, "yielding")
    /\ UNCHANGED <<mapped, requestUids, abortTask, terminal, stopping, got, fate, queueVars, backendVars>>

Yield(u) ==
    /\ phase[u] = "yielding" /\ batch[u] # <<>>
    /\ got' = [got EXCEPT ![u] = Append(@, Head(batch[u]))]
    /\ batch' = [batch EXCEPT ![u] = Tail(@)]
    /\ Enters(u, IF Head(batch[u]).last THEN "last" ELSE "yielding")
    /\ UNCHANGED <<managerVars, fate, queueVars, backendVars>>

(* The consumer breaks after the last reply, which closes the generator.          *)
Finish(u) ==
    /\ phase[u] = "last"
    /\ CloseGenerator(u, TRUE)
    /\ Enters(u, "closed") /\ Ends(u, "answered")
    /\ UNCHANGED <<event, batch, got, queueVars, backendVars>>

(* All taken replies are out: wait again, or end with the terminal error.         *)
WaitAgain(u) ==
    /\ phase[u] = "yielding" /\ batch[u] = <<>> /\ ~Unavailable
    /\ Enters(u, "waiting")
    /\ UNCHANGED <<managerVars, batch, got, fate, queueVars, backendVars>>

EndWithError(u) ==
    /\ phase[u] = "yielding" /\ batch[u] = <<>> /\ Unavailable
    /\ CloseGenerator(u, FALSE)
    /\ Enters(u, "closed") /\ Ends(u, "failed")
    /\ UNCHANGED <<event, batch, got, queueVars, backendVars>>

(* The client disconnects and the handler is cancelled where it is suspended.     *)
Cancelled(u) ==
    /\ phase[u] \in {"waiting", "yielding", "last"}
    /\ CloseGenerator(u, phase[u] = "last")
    /\ Enters(u, "closed") /\ Ends(u, "left")
    /\ UNCHANGED <<event, batch, got, queueVars, backendVars>>

(* stream_with_cancellation finds the client gone after a chunk; the generator    *)
(* is closed later, when it is collected.                                        *)
NoticedGone(u) ==
    /\ phase[u] \in {"yielding", "last"}
    /\ abortTask' = ScheduledAbort(u, requestUids)
    /\ Enters(u, "closing") /\ Ends(u, "left")
    /\ UNCHANGED <<mapped, acks, event, requestUids, terminal, stopping, batch, got, queueVars, backendVars>>

Collected(u) ==
    /\ phase[u] = "closing"
    /\ CloseGenerator(u, got[u] # <<>> /\ got[u][Len(got[u])].last)
    /\ Enters(u, "closed")
    /\ UNCHANGED <<event, batch, got, fate, queueVars, backendVars>>

Handler(u) == SendOne(u) \/ StartStream(u) \/ Wake(u) \/ Yield(u) \/ Finish(u)
              \/ WaitAgain(u) \/ EndWithError(u) \/ Collected(u)

-------------------------------------------------------------------------------
(* The other tasks of the event loop. *)

AbortStarts(u) ==
    /\ abortTask[u] = "new"
    /\ requestUids' = requestUids \ {u}
    /\ abortTask' = [abortTask EXCEPT ![u] = IF u \in requestUids THEN "asleep" ELSE "none"]
    /\ UNCHANGED <<mapped, acks, event, terminal, stopping, handlerVars, queueVars, backendVars>>

AbortSends(u) ==
    /\ abortTask[u] = "asleep"
    /\ mapped' = Popped(u)
    /\ toTokenizer' = IF Unavailable THEN toTokenizer
                      ELSE Put(toTokenizer, [kind |-> "abort", uid |-> u])
    /\ abortTask' = [abortTask EXCEPT ![u] = "none"]
    /\ UNCHANGED <<acks, event, requestUids, terminal, stopping, handlerVars,
                   toBackend, toDetokenizer, toFrontend, backendVars>>

(* The send of the abort raises. *)
AbortFails(u) ==
    /\ abortTask[u] = "asleep" /\ ~Unavailable
    /\ mapped' = Popped(u)
    /\ terminal' = TRUE
    /\ event' = Woken
    /\ abortTask' = [abortTask EXCEPT ![u] = "none"]
    /\ UNCHANGED <<acks, requestUids, stopping, handlerVars, queueVars, backendVars>>

(* listen: a reply for a request without an entry is dropped. *)
Listen ==
    /\ ~Unavailable /\ toFrontend # <<>>
    /\ toFrontend' = Tail(toFrontend)
    /\ LET m == Head(toFrontend) IN
         IF m.uid \in mapped
         THEN /\ acks' = [acks EXCEPT ![m.uid] = Append(@, m)]
              /\ event' = [event EXCEPT ![m.uid] = TRUE]
         ELSE UNCHANGED <<acks, event>>
    /\ UNCHANGED <<mapped, requestUids, abortTask, terminal, stopping, handlerVars,
                   toTokenizer, toBackend, toDetokenizer, backendVars>>

(* The watcher or the listener reports a failure. *)
BackendFails ==
    /\ ~Unavailable
    /\ MarkUnavailable
    /\ UNCHANGED <<mapped, acks, requestUids, abortTask, stopping, handlerVars, queueVars, backendVars>>

(* shutdown_async: every waiting request is woken, listener and aborts cancelled. *)
ShutdownAsync ==
    /\ ~stopping /\ stopping' = TRUE
    /\ event' = Woken
    /\ abortTask' = [u \in Uids |-> "none"]
    /\ UNCHANGED <<mapped, acks, requestUids, terminal, handlerVars, queueVars, backendVars>>

EventLoop(u) == AbortStarts(u) \/ AbortSends(u)

-------------------------------------------------------------------------------
(* The workers and the scheduler. *)

(* tokenize_worker: requests and aborts go on in the order they came in (there is *)
(* one tokenizer, or the detokenizer does its work).                             *)
Tokenize ==
    /\ toTokenizer # <<>>
    /\ toBackend' = Put(toBackend, Head(toTokenizer))
    /\ toTokenizer' = Tail(toTokenizer)
    /\ UNCHANGED <<managerVars, handlerVars, toDetokenizer, toFrontend, backendVars>>

Detokenize ==
    /\ toDetokenizer # <<>>
    /\ toFrontend' = Put(toFrontend, Head(toDetokenizer))
    /\ toDetokenizer' = Tail(toDetokenizer)
    /\ UNCHANGED <<managerVars, handlerVars, toTokenizer, toBackend, backendVars>>

Reply(u, last) ==
    /\ made' = [made EXCEPT ![u] = @ + 1]
    /\ toDetokenizer' = Put(toDetokenizer, [uid |-> u, pos |-> made[u] + 1, last |-> last])

(* _process_one_msg: a request is admitted, or rejected with a last reply; an     *)
(* abort ends a request the scheduler knows.                                     *)
TakeRequest ==
    /\ toBackend # <<>> /\ Head(toBackend).kind = "request"
    /\ toBackend' = Tail(toBackend)
    /\ LET u == Head(toBackend).uid IN
         \/ live' = live \cup {u} /\ UNCHANGED <<made, toDetokenizer>>
         \/ Reply(u, TRUE) /\ UNCHANGED live
    /\ UNCHANGED <<managerVars, handlerVars, toTokenizer, toFrontend>>

TakeAbort ==
    /\ toBackend # <<>> /\ Head(toBackend).kind = "abort"
    /\ toBackend' = Tail(toBackend)
    /\ live' = live \ {Head(toBackend).uid}
    /\ UNCHANGED <<managerVars, handlerVars, toTokenizer, toDetokenizer, toFrontend, made>>

(* _process_last_data: a token is accepted; the last one ends the request.        *)
AcceptToken(u) ==
    /\ u \in live
    /\ \E last \in BOOLEAN : /\ made[u] + 1 = MaxReplies[u] => last
                             /\ Reply(u, last)
                             /\ live' = IF last THEN live \ {u} ELSE live
    /\ UNCHANGED <<managerVars, handlerVars, toTokenizer, toBackend, toFrontend>>

Next ==
    \/ \E u \in Uids : \/ Submit(u) \/ SendFails(u) \/ SendCancelled(u) \/ NeverStarted(u)
                       \/ Handler(u) \/ Cancelled(u) \/ NoticedGone(u)
                       \/ EventLoop(u) \/ AbortFails(u)
                       \/ AcceptToken(u)
    \/ Listen \/ BackendFails \/ ShutdownAsync
    \/ Tokenize \/ Detokenize \/ TakeRequest \/ TakeAbort

(* The event loop runs every task that can run, the workers and the scheduler     *)
(* take their messages, and a live request gets its next token.  The last is only *)
(* asked for while the client is there: a request nobody waits for must end by    *)
(* its abort, not because its tokens run out.                                    *)
Fairness ==
    /\ \A u \in Uids : /\ WF_vars(Handler(u)) /\ WF_vars(EventLoop(u))
                       /\ WF_vars(AcceptToken(u) /\ fate[u] = "open")
    /\ WF_vars(Listen) /\ WF_vars(Tokenize) /\ WF_vars(Detokenize)
    /\ WF_vars(TakeRequest) /\ WF_vars(TakeAbort)

Spec == Init /\ [][Next]_vars /\ Fairness

-------------------------------------------------------------------------------
TypeOK ==
    /\ mapped \subseteq Uids /\ requestUids \subseteq Uids /\ live \subseteq Uids
    /\ abortTask \in [Uids -> {"none", "new", "asleep"}]
    /\ {terminal, stopping} \subseteq BOOLEAN /\ event \in [Uids -> BOOLEAN]
    /\ phase \in [Uids -> Phases]
    /\ fate \in [Uids -> {"open", "answered", "failed", "left"}]
    /\ \A u \in Uids : {acks[u], batch[u], got[u]} \subseteq Seq(Replies)
    /\ {toTokenizer, toBackend} \subseteq Seq(Messages)
    /\ {toDetokenizer, toFrontend} \subseteq Seq(Replies)
    /\ \A u \in Uids : made[u] \in 0 .. MaxReplies[u]

(* The client of a request gets every reply once and in the order the scheduler   *)
(* sent them, and an answered client has got the last one: no reply is lost or    *)
(* repeated between the listener, the event and the generator.                   *)
RepliesInOrder ==
    \A u \in Uids :
        /\ \A i \in 1 .. Len(got[u]) : got[u][i].uid = u /\ got[u][i].pos = i
        /\ fate[u] = "answered" => Len(got[u]) = made[u] /\ got[u][made[u]].last

(* An entry of ack_map and event_map lives exactly as long as somebody uses or    *)
(* will remove it: a waiting generator always has its entry, and an entry has a   *)
(* running handler or abort, unless the server stops.  The exception is a stream  *)
(* that was dropped before its first step: nobody removes its entry.             *)
EntriesHaveOwners ==
    \A u \in Uids :
        /\ phase[u] \in {"sending", "ready", "waiting", "yielding", "last"} => u \in mapped
        /\ u \in mapped => \/ phase[u] \notin {"idle", "closed"}
                           \/ abortTask[u] # "none" \/ stopping

(* The tables of the frontend are sound: both at once.                           *)
TablesAreSound == TypeOK /\ EntriesHaveOwners

(* Every request ends for its client, with the last reply or an error, whenever   *)
(* the backend fails or the server stops: no wait_for_ack misses its wake-up.     *)
EveryoneIsAnswered ==
    \A u \in Uids : phase[u] = "sending" ~> phase[u] \in {"closed", "lost"}

(* A client that left before the end of its request stops it: the abort reaches   *)
(* the scheduler behind the request, unless the backend is gone anyway.          *)
AbandonedIsAborted ==
    \A u \in Uids :
        (fate[u] = "left" /\ phase[u] # "lost") ~>
            \/ Unavailable
            \/ /\ u \notin live
               /\ \A i \in 1 .. Len(toTokenizer) : toTokenizer[i].uid # u
               /\ \A i \in 1 .. Len(toBackend) : toBackend[i].uid # u
================================================================================

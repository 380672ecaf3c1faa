------------------------------- MODULE Serving -------------------------------
(* The processes of one API server: the parent (server/supervisor.py,          *)
(* server/launch.py and the lifecycle of FrontendManager in api_server.py)      *)
(* spawns the scheduler ranks and the tokenizer workers, waits until they are   *)
(* ready, serves, notices when one of them dies, and takes all of them down.    *)
(* The ranks run the loop of TPSync.  A child may crash at any point, a stop     *)
(* may come at any point, and Ctrl-C reaches the children as well.              *)
EXTENDS TPSync, FiniteSets

CONSTANTS Workers,     \* the detokenizer and the tokenizers
          Stubborn,    \* children that outlive terminate() and its grace period
          MaxFaults    \* bound: crashes, failed spawns and listener failures

ASSUME ServingAssumption == /\ IsFiniteSet(Workers) /\ Workers \cap Ranks = {}
                            /\ Stubborn \subseteq Ranks \cup Workers
                            /\ MaxFaults \in Nat

Children == Ranks \cup Workers
ExpectedReady == {0} \cup Workers        \* ProcessSpec.expects_ready

VARIABLES
  child,      \* per child: absent, building, built (waits for its peers), running, dead
  acks,       \* ack_queue
  ready,      \* ready_roles
  main,       \* the parent's main thread
  terminal,   \* FrontendManager.terminal_error is set
  stopping,   \* FrontendManager._shutdown_started
  cleanup,    \* failure_cleanup_task: none, running, done
  step,       \* the running ServerProcessSupervisor.shutdown, "idle" if none
  complete,   \* supervisor._shutdown_complete
  termed,     \* children that were sent SIGTERM
  interrupted,\* Ctrl-C reached the process group
  faults      \* crashes, failed spawns and listener failures so far

parentVars == <<acks, ready, main, terminal, stopping, cleanup, step, complete>>
envVars == <<termed, interrupted, faults>>
vars == <<tpVars, child, parentVars, envVars>>

Alive == {c \in Children : child[c] \in {"building", "built", "running"}}
Exited == {c \in Children : child[c] = "dead"}

Init ==
    /\ TPInit
    /\ child = [c \in Children |-> "absent"]
    /\ acks = {} /\ ready = {}
    /\ main = "spawn"
    /\ terminal = FALSE /\ stopping = FALSE
    /\ cleanup = "none" /\ step = "idle" /\ complete = FALSE
    /\ termed = {} /\ interrupted = FALSE /\ faults = 0

-------------------------------------------------------------------------------
(* The children. *)

Becomes(c, status) == child' = [child EXCEPT ![c] = status]

\* Mutant: a rank is ready as soon as its own scheduler is built.
PeersBuiltAlone(r) == TRUE

(* sync_all_ranks at the end of _run_scheduler's construction. *)
PeersBuilt(r) == \A q \in Ranks : child[q] \in {"built", "running"}

Built(c) ==
    /\ child[c] = "building"
    /\ IF c \in Ranks THEN Becomes(c, "built") /\ UNCHANGED acks
                      ELSE Becomes(c, "running") /\ acks' = acks \cup {c}
    /\ UNCHANGED <<tpVars, ready, main, terminal, stopping, cleanup, step, complete, envVars>>

\* Of the scheduler ranks, the primary one tells the parent that it is ready.
Acknowledges(r) == r = 0

StartLoop(r) ==
    /\ child[r] = "built" /\ PeersBuilt(r)
    /\ Becomes(r, "running")
    /\ acks' = IF Acknowledges(r) THEN acks \cup {r} ELSE acks
    /\ UNCHANGED <<tpVars, ready, main, terminal, stopping, cleanup, step, complete, envVars>>

RunRank(r) ==
    /\ child[r] = "running" /\ RankStep(r)
    /\ UNCHANGED <<child, parentVars, envVars>>

(* KeyboardInterrupt: raised between two bytecodes or out of a socket read, not  *)
(* while a rank waits inside a collective; it ends in Scheduler.shutdown.        *)
Interrupted(r) ==
    /\ interrupted /\ child[r] = "running"
    /\ pc[r] \in {"start", "block", "drain", "publish", "fetch"}
    /\ Goto(r, "barrier")
    /\ UNCHANGED <<inputVars, read, pending, need, state, seen, child, parentVars, envVars>>

(* The process ends: its main function returned, the signal killed it, or it     *)
(* crashed; a rank whose peer is gone may fail in the collective.                *)
Dies(c) == Becomes(c, "dead") /\ UNCHANGED <<tpVars, parentVars, termed, interrupted>>

Returns(r) == /\ child[r] = "running" /\ pc[r] = "exited"
              /\ Dies(r) /\ UNCHANGED faults
InterruptEnds(c) == /\ interrupted
                    /\ \/ child[c] = "building"
                       \/ c \in Workers /\ child[c] = "running"
                    /\ Dies(c) /\ UNCHANGED faults
PeerLost(r) == /\ r \in Alive /\ Exited \cap Ranks # {}
               /\ pc[r] \in {"drain", "count", "barrier"}
               /\ Dies(r) /\ UNCHANGED faults
Killed(c) == /\ c \in termed \ Stubborn /\ c \in Alive
             /\ Dies(c) /\ UNCHANGED faults
Crash(c) == /\ c \in Alive /\ faults < MaxFaults
            /\ Dies(c) /\ faults' = faults + 1

Request == /\ main = "serving" /\ ~terminal
           /\ \E m \in Messages \ {Exit} : Arrive(m)
           /\ UNCHANGED <<child, parentVars, envVars>>

-------------------------------------------------------------------------------
(* ServerProcessSupervisor.start. *)

Then(label) == main' = label
ParentOnly == UNCHANGED <<tpVars, child, acks, terminal, stopping, cleanup, complete, envVars>>

(* Processes start in the order of the specs: ranks, then workers. *)
NextToSpawn(c) == /\ child[c] = "absent"
                  /\ \A r \in Ranks : child[r] = "absent" => c \in Ranks /\ c <= r

Spawn(c) ==
    /\ main = "spawn" /\ NextToSpawn(c)
    /\ Becomes(c, "building")
    /\ Then(IF \A d \in Children \ {c} : child[d] # "absent" THEN "check" ELSE "spawn")
    /\ UNCHANGED <<tpVars, acks, ready, terminal, stopping, cleanup, step, complete, envVars>>

(* Whatever start raises, its own except clause takes the children down. *)
StartFails ==
    /\ main \in {"spawn", "check", "get", "final check"}
    /\ Then("start failed") /\ step' = "terminate"
    /\ UNCHANGED <<tpVars, child, acks, ready, terminal, stopping, cleanup, complete, termed>>

SpawnFails == /\ main = "spawn" /\ faults < MaxFaults
              /\ faults' = faults + 1
              /\ StartFails /\ UNCHANGED interrupted

SeesExit == Exited # {}

ExitDuringStartup == /\ main \in {"check", "final check"} /\ SeesExit
                     /\ StartFails /\ UNCHANGED <<interrupted, faults>>

StartupTimeout == /\ main = "check" /\ ready # ExpectedReady /\ ~SeesExit
                  /\ StartFails /\ UNCHANGED <<interrupted, faults>>

StartInterrupted == /\ interrupted' = TRUE
                    /\ StartFails /\ UNCHANGED faults

CheckReady ==
    /\ main = "check" /\ ready # ExpectedReady /\ ~SeesExit
    /\ Then("get")
    /\ ParentOnly /\ UNCHANGED <<ready, step>>

(* ack_queue.get: an ack, or queue.Empty after the poll interval. *)
TakeAck(c) ==
    /\ main = "get" /\ c \in acks
    /\ acks' = acks \ {c}
    /\ ready' = ready \cup {c}
    /\ Then("check")
    /\ UNCHANGED <<tpVars, child, terminal, stopping, cleanup, step, complete, envVars>>

NoAck == /\ main = "get" /\ acks = {}
         /\ Then("check")
         /\ ParentOnly /\ UNCHANGED <<ready, step>>

AllReady == /\ main = "check" /\ ready = ExpectedReady
            /\ Then("final check")
            /\ ParentOnly /\ UNCHANGED <<ready, step>>

StartServing == /\ main = "final check" /\ ~SeesExit
                /\ Then("serving")
                /\ ParentOnly /\ UNCHANGED <<ready, step>>

Start == \/ \E c \in Children : Spawn(c) \/ TakeAck(c)
         \/ SpawnFails \/ ExitDuringStartup
         \/ CheckReady \/ NoAck \/ AllReady \/ StartServing

-------------------------------------------------------------------------------
(* ServerProcessSupervisor.shutdown, one call at a time under its lock: ask the  *)
(* ranks to exit, give them a grace period, terminate what is left, join, and    *)
(* raise if somebody is still alive.  "raised" and "idle" with complete are its   *)
(* two outcomes.                                                                 *)

ShutdownOnly == UNCHANGED <<acks, ready, main, terminal, stopping, cleanup, interrupted, faults>>

(* _request_scheduler_shutdown; the send can fail, which is logged. *)
AskToExit ==
    /\ step = "ask"
    /\ inbox' \in {inbox, Append(inbox, Exit)}
    /\ step' = "grace"
    /\ UNCHANGED <<raw, pub, rounds, rankVars, child, complete, termed>> /\ ShutdownOnly

(* _join_until returns when nobody is alive or when the time is over. *)
GraceEnds ==
    /\ step = "grace"
    /\ step' = "terminate"
    /\ UNCHANGED <<tpVars, child, complete, termed>> /\ ShutdownOnly

Terminate ==
    /\ step = "terminate"
    /\ termed' = termed \cup Alive
    /\ step' = "join"
    /\ UNCHANGED <<tpVars, child, complete>> /\ ShutdownOnly

\* Mutant: shutdown reports success without looking who is still alive.
ReapedBlindly(live) == TRUE
Reaped(live) == live = {}

JoinTerminated ==
    /\ step = "join" /\ Alive \subseteq Stubborn
    /\ IF Reaped(Alive) THEN step' = "idle" /\ complete' = TRUE
                        ELSE step' = "raised" /\ UNCHANGED complete
    /\ UNCHANGED <<tpVars, child, termed>> /\ ShutdownOnly

SupervisorShutdown == AskToExit \/ GraceEnds \/ Terminate \/ JoinTerminated

(* A call of shutdown: it returns at once when an earlier one was complete. *)
CallShutdown(graceful) ==
    step' = IF complete THEN "idle" ELSE IF graceful THEN "ask" ELSE "terminate"

Returned == step \in {"idle", "raised"}

-------------------------------------------------------------------------------
(* FrontendManager at run time. *)

\* Mutant: a watcher that outlives the start of the shutdown reports.
ReportsAnyway == ~terminal

(* shutdown_async sets the flag and cancels watcher and listener before it asks   *)
(* the ranks to exit.                                                            *)
Reports == ~terminal /\ ~stopping

(* _mark_backend_unavailable: the first failure is the terminal state; it starts *)
(* the cleanup task, which stops listener and watcher and shuts down at once.    *)
MarkUnavailable ==
    /\ Reports
    /\ terminal' = TRUE
    /\ cleanup' = "running"
    /\ CallShutdown(FALSE)

\* Mutant: the watcher does not look at the exit status of its children.
ChildExitedBlind == FALSE

(* unexpected_exit: any exit status counts, unless the shutdown is complete.      *)
ChildExited == ~complete /\ SeesExit

(* The watcher runs until shutdown_async cancels it: also while uvicorn drains    *)
(* its connections after a stop.                                                 *)
HealthTick ==
    /\ main \in {"serving", "leaving", "async"} /\ ChildExited
    /\ MarkUnavailable
    /\ UNCHANGED <<tpVars, child, acks, ready, main, stopping, complete, envVars>>

ListenerFails ==
    /\ main = "serving" /\ faults < MaxFaults
    /\ faults' = faults + 1
    /\ MarkUnavailable
    /\ UNCHANGED <<tpVars, child, acks, ready, main, stopping, complete, termed, interrupted>>

(* The cleanup task ends when its shutdown returned, or raised. *)
CleanupEnds ==
    /\ cleanup = "running" /\ Returned
    /\ cleanup' = "done" /\ step' = "idle"
    /\ UNCHANGED <<tpVars, child, acks, ready, main, terminal, stopping, complete, envVars>>

(* The server is told to stop; with Ctrl-C the children get the signal too.       *)
Stop ==
    /\ main = "serving"
    /\ interrupted' \in {interrupted, TRUE}
    /\ Then("leaving")
    /\ UNCHANGED <<tpVars, child, acks, ready, terminal, stopping, cleanup, step, complete,
                   termed, faults>>

(* shutdown_async, from the lifespan or from the shell: it waits for a cleanup    *)
(* that is already under way, else asks the ranks to exit.                        *)
ShutdownAsync ==
    /\ main = "leaving"
    /\ stopping' = TRUE
    /\ Then("async")
    /\ IF cleanup = "none" THEN CallShutdown(TRUE) ELSE UNCHANGED step
    /\ UNCHANGED <<tpVars, child, acks, ready, terminal, cleanup, complete, envVars>>

(* If the shutdown raised, run_api_server's finally calls it once more, unless    *)
(* the exception was swallowed with the cleanup task.                             *)
AsyncEnds ==
    /\ main = "async" /\ cleanup # "running" /\ Returned
    /\ Then("final")
    /\ IF step = "raised" THEN CallShutdown(TRUE) ELSE UNCHANGED step
    /\ UNCHANGED <<tpVars, child, acks, ready, terminal, stopping, cleanup, complete, envVars>>

Leave ==
    /\ main \in {"final", "start failed"} /\ Returned
    /\ Then("exited") /\ step' = "idle"
    /\ stopping' = TRUE
    /\ UNCHANGED <<tpVars, child, acks, ready, terminal, cleanup, complete, envVars>>

Runtime == HealthTick \/ CleanupEnds \/ ShutdownAsync \/ AsyncEnds \/ Leave

Next ==
    \/ \E c \in Children : Built(c) \/ InterruptEnds(c) \/ Killed(c) \/ Crash(c)
    \/ \E r \in Ranks : StartLoop(r) \/ RunRank(r) \/ Interrupted(r) \/ Returns(r) \/ PeerLost(r)
    \/ Request
    \/ Start \/ StartupTimeout \/ StartInterrupted
    \/ SupervisorShutdown
    \/ Runtime \/ ListenerFails \/ Stop

(* Every process runs, the parent's threads and timers too, and a signal that     *)
(* was sent takes effect; nobody has to crash, to stop the server or to send.     *)
Fairness ==
    /\ \A c \in Children : WF_vars(Built(c)) /\ WF_vars(Killed(c))
    /\ \A r \in Ranks : WF_vars(StartLoop(r)) /\ WF_vars(RunRank(r)) /\ WF_vars(Returns(r))
    /\ WF_vars(Start) /\ WF_vars(SupervisorShutdown) /\ WF_vars(Runtime)

Spec == Init /\ [][Next]_vars /\ Fairness

-------------------------------------------------------------------------------
ServingTypeOK ==
    /\ child \in [Children -> {"absent", "building", "built", "running", "dead"}]
    /\ acks \subseteq ExpectedReady /\ ready \subseteq ExpectedReady
    /\ main \in {"spawn", "check", "get", "final check", "start failed", "serving",
                 "leaving", "async", "final", "exited"}
    /\ step \in {"idle", "ask", "grace", "terminate", "join", "raised"}
    /\ cleanup \in {"none", "running", "done"}
    /\ {terminal, stopping, complete, interrupted} \subseteq BOOLEAN
    /\ termed \subseteq Children /\ faults \in 0 .. MaxFaults

(* The server accepts requests only after every worker and every rank, the ones   *)
(* that never acknowledge included, has been built: the one acknowledgment of     *)
(* rank 0 stands for the group because it is sent behind the barrier.             *)
ServesOnlyWhenReady ==
    main = "serving" => \A c \in Children : child[c] \notin {"absent", "building"}

(* Startup is sound: nobody acknowledges who is not expected to, and nobody is    *)
(* served before everybody is ready.                                             *)
StartupIsSound == ServingTypeOK /\ ServesOnlyWhenReady

(* The parent leaves no child behind, whichever way it stops (failed startup,     *)
(* failed backend, stop, Ctrl-C) and whatever shutdown ran before; only a child   *)
(* that SIGTERM does not end can outlive it, and shutdown never calls that done.  *)
NoOrphans ==
    /\ main = "exited" => Alive \subseteq Stubborn
    /\ complete => Alive = {}

(* A stop is never reported as a failed backend: terminal_error is only set after *)
(* a crash, a listener failure or Ctrl-C, although every rank that obeys ExitMsg  *)
(* looks to the health watcher like a child that died.                           *)
StopIsNotFailure == terminal => faults > 0 \/ interrupted

(* A child that dies while the server runs makes the backend unavailable, a       *)
(* failed backend ends with no child but stubborn ones, and every stop ends.      *)
FailureIsContained ==
    /\ (main = "serving" /\ Exited # {}) ~> (terminal \/ main # "serving")
    /\ terminal ~> Alive \subseteq Stubborn
    /\ main \in {"leaving", "start failed"} ~> (main = "exited")
================================================================================

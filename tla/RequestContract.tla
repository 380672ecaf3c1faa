---------------------------- MODULE RequestContract ----------------------------
(***************************************************************************)
(* What the scheduler promises about each request, whatever it schedules   *)
(* and whenever an abort arrives:                                          *)
(*   - a request gets tokens only while it is active, at most as many as it *)
(*     was admitted for, and one reply that says it is finished; an aborted *)
(*     request gets none any more;                                         *)
(*   - it is worked on by at most Depth forwards at a time;                *)
(*   - it holds its resources from its first forward until it has ended    *)
(*     and none of its forwards is in flight, and gives them back once.    *)
(* Requests move independently; one step of the server may move several.   *)
(***************************************************************************)
EXTENDS Naturals

CONSTANTS Requests, Limits, Depth

VARIABLE req   \* what is known of each request

Records == [status   : {"new", "active", "ending", "done"},
            limit    : Nat,       \* tokens it was admitted for
            tokens   : Nat,       \* token replies
            finals   : Nat,       \* replies that say it is finished
            inFlight : Nat,       \* forwards working on it
            rows     : {0, 1}]    \* table rows it holds, each with its pages

New == [status |-> "new", limit |-> 0, tokens |-> 0, finals |-> 0,
        inFlight |-> 0, rows |-> 0]

Init == req = [u \in Requests |-> New]

-------------------------------------------------------------------------------
\* An ended request is done as soon as nothing works on it.
Ended(r) ==
  [r EXCEPT !.status = IF r.inFlight = 0 THEN "done" ELSE "ending",
            !.rows = IF r.inFlight = 0 THEN 0 ELSE @]

Completed(r) == [r EXCEPT !.inFlight = @ - 1]

Refuse(r, n) ==
  r.status = "new" /\ n = [r EXCEPT !.status = "done", !.finals = 1]

Admit(r, n) ==
  /\ r.status = "new" /\ n.limit \in Limits
  /\ n = [r EXCEPT !.status = "active", !.limit = n.limit]

Issue(r, n) ==
  /\ r.status = "active" /\ r.inFlight < Depth
  /\ n = [r EXCEPT !.inFlight = @ + 1, !.rows = 1]

\* A forward over a part of the prompt yields no token.
CompletePart(r, n) ==
  r.status = "active" /\ r.inFlight > 0 /\ r.tokens = 0 /\ n = Completed(r)

Commit(r, n) ==
  /\ r.status = "active" /\ r.inFlight > 0 /\ r.tokens + 1 < r.limit
  /\ n = [Completed(r) EXCEPT !.tokens = @ + 1]

\* The last token: the limit is reached or the token is EOS.
Finish(r, n) ==
  /\ r.status = "active" /\ r.inFlight > 0 /\ r.tokens + 1 <= r.limit
  /\ n = Ended([Completed(r) EXCEPT !.tokens = @ + 1, !.finals = @ + 1])

Abort(r, n) == r.status = "active" /\ n = Ended(r)

\* A forward that was in flight when its request ended: its token is dropped.
Drain(r, n) ==
  r.status = "ending" /\ n = Ended(Completed(r))

Move(r, n) ==
  \/ Refuse(r, n) \/ Admit(r, n) \/ Issue(r, n) \/ CompletePart(r, n)
  \/ Commit(r, n) \/ Finish(r, n) \/ Abort(r, n) \/ Drain(r, n)

Next == \A u \in Requests : Move(req[u], req'[u]) \/ req'[u] = req[u]

Spec == Init /\ [][Next]_req

===============================================================================

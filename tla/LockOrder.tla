----------------------------- MODULE LockOrder -----------------------------
(***************************************************************************)
(* The row locks that the transactions of one run take, one by one, where  *)
(* StepExecution and ModelGateway take a transaction as a single step.     *)
(* The step store locks step, attempt, run; the audit of model calls locks *)
(* run, step, attempt.  A transaction waits for a row that another one     *)
(* holds; PostgreSQL rolls back one member of a circle of waiting ones.    *)
(*                                                                         *)
(* The rows are those of StepExecution and ModelGateway, reduced to what   *)
(* decides which rows a transaction goes on to lock: a step that waits for *)
(* a retry is READY here, one that ended is DONE, an attempt whose lease   *)
(* ran out is lapsed, and an execution makes one model call.               *)
(***************************************************************************)
EXTENDS Integers, Sequences, FiniteSets

CONSTANTS LockSteps, LockAttempts     \* steps, and attempts of each

ASSUME LockAssumption == LockAttempts \in Nat \ {0}

VARIABLES
    item,       \* step -> [status, latest, open, lapsed] of its newest attempt
    call,       \* <<step, no>> -> status of the execution's model call
    alive,      \* <<step, no>>: executions that have not finalised
    ended,      \* the run is over
    txns        \* open transactions: who, what, rows to lock, rows locked

lockVars == <<item, call, alive, ended, txns>>

RunRow        == <<"search_runs">>
StepRow(s)    == <<"search_steps", s>>
TryRow(s, n)  == <<"step_attempts", s, n>>
CallRow(s, n) == <<"model_invocations", s, n>>

\* Mutant: the heartbeat locks its attempt first.
SwappedRows(kind, s, n) ==
    CASE kind = "claim"    -> <<StepRow(s), RunRow>>
      [] kind = "renew"    -> <<TryRow(s, n), StepRow(s)>>
      [] kind = "finalise" -> <<StepRow(s), TryRow(s, n), RunRow>>
      [] kind = "start"    -> <<RunRow, StepRow(s), TryRow(s, n)>>
      [] kind = "complete" -> <<CallRow(s, n), RunRow>>
      [] kind = "release"  -> <<StepRow(s), CallRow(s, n), TryRow(s, n)>>
      [] kind = "cancel"   -> <<RunRow>>

\* The rows in the order of the SELECT ... FOR UPDATE and UPDATE statements
\* of claim, renew, succeed and fail; _lock_current (of start and reuse) and
\* complete; make_ready; cancel.
Rows(kind, s, n) ==
    CASE kind = "claim"    -> <<StepRow(s), RunRow>>
      [] kind = "renew"    -> <<StepRow(s), TryRow(s, n)>>
      [] kind = "finalise" -> <<StepRow(s), TryRow(s, n), RunRow>>
      [] kind = "start"    -> <<RunRow, StepRow(s), TryRow(s, n)>>
      [] kind = "complete" -> <<CallRow(s, n), RunRow>>
      [] kind = "release"  -> <<StepRow(s), CallRow(s, n), TryRow(s, n)>>
      [] kind = "cancel"   -> <<RunRow>>

LockInit ==
    /\ item = [s \in LockSteps |->
                [status |-> "READY", latest |-> 0, open |-> FALSE, lapsed |-> FALSE]]
    /\ call = [c \in LockSteps \X (1..LockAttempts) |-> "NONE"]
    /\ alive = {}
    /\ ended = FALSE
    /\ txns = {}

-----------------------------------------------------------------------------
(***************************************************************************)
(* Transactions.  An execution has two tasks, its operation and its        *)
(* heartbeat, and finalises when both are over; `who' runs one transaction *)
(* at a time.                                                              *)
(***************************************************************************)
Begin(who, kind, s, n) ==
    /\ \A t \in txns : t.who # who
    /\ txns' = txns \cup {[who |-> who, kind |-> kind, step |-> s, no |-> n,
                           todo |-> Rows(kind, s, n), held |-> {}]}
    /\ UNCHANGED <<item, call, alive, ended>>

BeginClaim(s)   == item[s].latest < LockAttempts /\ Begin(<<"worker", s>>, "claim", s, 0)
BeginRelease(s) == item[s].latest > 0 /\ Begin(<<"reconciler">>, "release", s, 0)
BeginCancel     == ~ended /\ Begin(<<"owner">>, "cancel", "run", 0)

Operation(e) == <<"operation", e>>
Heartbeat(e) == <<"heartbeat", e>>

BeginStart(e)    == call[e] = "NONE" /\ Begin(Operation(e), "start", e[1], e[2])
BeginComplete(e) == /\ call[e] \in {"STARTED", "ABANDONED"}
                    /\ Begin(Operation(e), "complete", e[1], e[2])
BeginRenew(e)    == /\ ~\E t \in txns : t.who = Operation(e) /\ t.kind = "finalise"
                    /\ Begin(Heartbeat(e), "renew", e[1], e[2])
BeginFinalise(e) == /\ \A t \in txns : t.who # Heartbeat(e)
                    /\ Begin(Operation(e), "finalise", e[1], e[2])

\* _is_current_attempt
Newest(t) == item[t.step].open /\ item[t.step].latest = t.no

\* The early returns, as soon as the rows they look at are locked.
Returns(t) ==
    CASE t.kind = "claim" ->
            StepRow(t.step) \in t.held /\ item[t.step].status # "READY"
      [] t.kind \in {"renew", "finalise"} ->
            \/ StepRow(t.step) \in t.held /\ item[t.step].status # "RUNNING"
            \/ TryRow(t.step, t.no) \in t.held /\ ~Newest(t)
      [] t.kind = "complete" ->
            CallRow(t.step, t.no) \in t.held /\ call[<<t.step, t.no>>] # "STARTED"
      [] t.kind = "release" ->
            /\ StepRow(t.step) \in t.held
            /\ ~(item[t.step].status = "RUNNING" /\ item[t.step].lapsed)
      [] OTHER -> FALSE

\* make_ready updates the attempt's call only if it is STARTED.
Passes(t) ==
    /\ t.kind = "release"
    /\ Head(t.todo) = CallRow(t.step, t.no)
    /\ call[<<t.step, t.no>>] # "STARTED"

\* make_ready looks for the open attempt once it has locked the step.
Locked(t) ==
    IF t.kind = "release" /\ Head(t.todo) = StepRow(t.step)
    THEN LET n == item[t.step].latest
         IN  [t EXCEPT !.no = n, !.todo = Tail(Rows("release", t.step, n)),
                       !.held = {StepRow(t.step)}]
    ELSE [t EXCEPT !.todo = Tail(@),
                   !.held = IF Passes(t) THEN @ ELSE @ \cup {Head(t.todo)}]

Lock(t) ==
    /\ ~Returns(t) /\ t.todo # <<>>
    /\ Passes(t) \/ \A u \in txns : Head(t.todo) \notin u.held
    /\ txns' = (txns \ {t}) \cup {Locked(t)}
    /\ UNCHANGED <<item, call, alive, ended>>

\* The transaction is over; an execution that finalised is over, too.
End(t) ==
    /\ txns' = txns \ {t}
    /\ alive' = IF t.kind = "finalise" THEN alive \ {<<t.step, t.no>>} ELSE alive

Return(t) ==
    /\ Returns(t)
    /\ End(t)
    /\ UNCHANGED <<item, call, ended>>

Ready(t) == ~Returns(t) /\ t.todo = <<>>

\* claim, for a run that is not over: otherwise the step is cancelled.
CommitClaim(t) ==
    /\ t.kind = "claim" /\ Ready(t)
    /\ txns' = txns \ {t}
    /\ IF ended
       THEN /\ item' = [item EXCEPT ![t.step].status = "DONE"]
            /\ UNCHANGED alive
       ELSE LET n == item[t.step].latest + 1
            IN  /\ item' = [item EXCEPT ![t.step] =
                        [status |-> "RUNNING", latest |-> n, open |-> TRUE, lapsed |-> FALSE]]
                /\ alive' = alive \cup {<<t.step, n>>}
    /\ UNCHANGED <<call, ended>>

CommitRenew(t) ==
    /\ t.kind = "renew" /\ Ready(t)
    /\ End(t)
    /\ item' = [item EXCEPT ![t.step].lapsed = FALSE]
    /\ UNCHANGED <<call, ended>>

\* succeed or fail: the step ends or is to be retried.
CommitFinalise(t) ==
    /\ t.kind = "finalise" /\ Ready(t)
    /\ End(t)
    /\ \E status \in {"DONE", "READY"} :
        item' = [item EXCEPT ![t.step].status = status, ![t.step].open = FALSE]
    /\ UNCHANGED <<call, ended>>

\* start, which _lock_current refuses to an execution that is not current.
CommitStart(t) ==
    /\ t.kind = "start" /\ Ready(t)
    /\ End(t)
    /\ call' = [call EXCEPT ![<<t.step, t.no>>] =
            IF ~ended /\ item[t.step].status = "RUNNING" /\ Newest(t)
            THEN "STARTED" ELSE "REFUSED"]
    /\ UNCHANGED <<item, ended>>

CommitComplete(t) ==
    /\ t.kind = "complete" /\ Ready(t)
    /\ End(t)
    /\ call' = [call EXCEPT ![<<t.step, t.no>>] = "COMPLETED"]
    /\ UNCHANGED <<item, ended>>

\* make_ready: the call is abandoned, the attempt closed, the step released.
CommitRelease(t) ==
    /\ t.kind = "release" /\ Ready(t)
    /\ End(t)
    /\ call' = [call EXCEPT ![<<t.step, t.no>>] = IF @ = "STARTED" THEN "ABANDONED" ELSE @]
    /\ item' = [item EXCEPT ![t.step].status = "READY", ![t.step].open = FALSE]
    /\ UNCHANGED ended

CommitCancel(t) ==
    /\ t.kind = "cancel" /\ Ready(t)
    /\ End(t)
    /\ ended' = TRUE
    /\ UNCHANGED <<item, call>>

\* The lease runs out: the process is slow or lost.
Lapse(s) ==
    /\ item[s].status = "RUNNING" /\ ~item[s].lapsed
    /\ item' = [item EXCEPT ![s].lapsed = TRUE]
    /\ UNCHANGED <<call, alive, ended, txns>>

-----------------------------------------------------------------------------
WaitsFor(t, u) ==
    t # u /\ ~Returns(t) /\ t.todo # <<>> /\ ~Passes(t) /\ Head(t.todo) \in u.held

\* Transactions that wait for each other in a circle.
Circles ==
    {C \in SUBSET txns :
        C # {} /\ \A t \in C : /\ \E u \in C : WaitsFor(t, u)
                               /\ \E u \in C : WaitsFor(u, t)}

\* PostgreSQL's deadlock detector.  When succeed or fail is the victim the
\* execution ends with the error and its step is left to the reconciler.
Abort(t) ==
    /\ \E C \in Circles : t \in C
    /\ End(t)
    /\ UNCHANGED <<item, call, ended>>

LockNext ==
    \/ \E s \in LockSteps : BeginClaim(s) \/ BeginRelease(s) \/ Lapse(s)
    \/ BeginCancel
    \/ \E e \in alive : BeginStart(e) \/ BeginComplete(e) \/ BeginRenew(e) \/ BeginFinalise(e)
    \/ \E t \in txns :
        \/ Lock(t) \/ Return(t) \/ Abort(t)
        \/ CommitClaim(t) \/ CommitRenew(t) \/ CommitFinalise(t) \/ CommitStart(t)
        \/ CommitComplete(t) \/ CommitRelease(t) \/ CommitCancel(t)

LockSpec == LockInit /\ [][LockNext]_lockVars

-----------------------------------------------------------------------------
LockTypes ==
    /\ item \in [LockSteps -> [status : {"READY", "RUNNING", "DONE"}, latest : 0..LockAttempts,
                               open : BOOLEAN, lapsed : BOOLEAN]]
    /\ call \in [LockSteps \X (1..LockAttempts) ->
                    {"NONE", "STARTED", "REFUSED", "COMPLETED", "ABANDONED"}]
    /\ alive \subseteq LockSteps \X (1..LockAttempts)
    /\ ended \in BOOLEAN

\* The two lock orders meet only through an execution that was given up: in
\* every circle of waiting transactions one is the start of a model call by an
\* attempt that is closed or superseded.  Executions in good standing, their
\* heartbeats, the owner and the reconciler never deadlock, so that what a
\* deadlock can cost is a late or a next attempt (_lock_current against claim,
\* succeed and fail).
DeadlockNeedsStale ==
    \A C \in Circles : \E t \in C : t.kind = "start" /\ ~Newest(t)
=============================================================================

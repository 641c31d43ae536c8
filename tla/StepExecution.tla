--------------------------- MODULE StepExecution ---------------------------
(***************************************************************************)
(* Durable execution of one search run: the tables PostgreSQL keeps        *)
(* (search_runs, response_runs, search_steps, step_attempts, outbox), the  *)
(* broker that carries step ids to workers, the workers, the outbox pump   *)
(* and the reconciler, and the clock.                                      *)
(*                                                                         *)
(* Every action is one database transaction (all of them lock the step     *)
(* row, then the run row, so they are serialised per run), one broker      *)
(* operation, or one failure.  A worker's operation runs between the       *)
(* transaction that claims a step and the one that finalises it, so other  *)
(* actions interleave there; the reconciler's candidates are read in one   *)
(* transaction and acted upon, with the clock reading of the scan, later.  *)
(*                                                                         *)
(* The run_events rows these transactions append, and the usage counters,  *)
(* are not part of this module.                                            *)
(***************************************************************************)
EXTENDS Workflow

CONSTANTS
    Workers,            \* executor slots of the Celery workers
    LeaseSeconds,       \* lease and heartbeat extension
    SoftDeadline, HardDeadline, SynthesisReserve,    \* BudgetSnapshot
    MaxAttempts, FetchMaxAttempts, RetryBase, RetryMax,
    Grace,              \* redelivery grace of a READY step
    MaxTime,            \* bound: the clock stops here
    MaxFaults,          \* bound: crashes, lost and duplicated messages
    MaxCandidates       \* bound: reconciliation candidates in flight

\* deadline_for: every phase but synthesis ends before the reserve begins.
DeadlineFor(s) ==
    IF s.type = "SYNTHESIZE" THEN HardDeadline
    ELSE SoftDeadline - SynthesisReserve

\* A failed source has siblings to fall back on, so it is retried less.
AttemptLimit(s) == IF s.type = "FETCH" THEN FetchMaxAttempts ELSE MaxAttempts

Least(a, b) == IF a <= b THEN a ELSE b

RetryDelay(n) == Least(RetryMax, RetryBase * 2^(n - 1))

ASSUME TimeAssumption ==
    /\ LeaseSeconds \in Nat \ {0} /\ Grace \in Nat
    /\ SoftDeadline \in Nat /\ HardDeadline \in Nat
    /\ SynthesisReserve \in Nat \ {0}
    /\ SoftDeadline <= HardDeadline
    /\ MaxTime \in Nat

ASSUME RetryAssumption ==
    /\ MaxAttempts \in Nat \ {0}
    /\ FetchMaxAttempts \in 1..MaxAttempts
    /\ \A n \in 1..MaxAttempts : RetryDelay(n) \in Nat \ {0}

ASSUME BoundAssumption == MaxFaults \in Nat /\ MaxCandidates \in Nat

VARIABLES
    runStatus,      \* search_runs.status
    response,       \* response_runs.status
    stepStatus,     \* search_steps.status, ABSENT where there is no row
    stamp,          \* what the reconciler compares with the clock: updated_at
                    \* of a READY step, retry_at of a RETRY_WAIT one, else 0
    attemptNo,      \* highest attempt_no of a step's step_attempts (0: none)
    attempts,       \* the step_attempts whose completed_at is NULL
    outbox,         \* steps whose outbox row is not published
    selectInput,    \* discovery_refs of the SELECT step's input
    verifyInput,    \* extract_refs of the VERIFY step's input
    synthInput,     \* verify_ref and degradation codes of SYNTHESIZE's input
    queue,          \* step ids the broker may deliver
    claims,         \* attempts the workers believe they are executing
    candidates,     \* candidates the reconciler has read and not yet handled
    now,            \* the clock
    faults          \* failures so far

runVars   == <<runStatus, response>>
stepVars  == <<stepStatus, stamp>>
inputVars == <<selectInput, verifyInput, synthInput>>
tryVars   == <<attemptNo, attempts>>
vars == <<runStatus, response, stepStatus, stamp, attemptNo, attempts, outbox,
          selectInput, verifyInput, synthInput, queue, claims, candidates,
          now, faults>>

RunStatus   == {"QUEUED", "RUNNING", "SUCCEEDED", "FAILED", "CANCELLED"}
RunTerminal == runStatus \in Terminal

\* WAITING is left out: no code of the platform calls SearchRun.wait.
RunTransitions ==
    [QUEUED    |-> {"RUNNING", "FAILED", "CANCELLED"},
     RUNNING   |-> {"SUCCEEDED", "FAILED", "CANCELLED"},
     SUCCEEDED |-> {}, FAILED |-> {}, CANCELLED |-> {}]

StepTransitions ==
    [ABSENT     |-> {"READY"},
     READY      |-> {"RUNNING", "CANCELLED"},
     RUNNING    |-> {"READY", "RETRY_WAIT", "SUCCEEDED", "FAILED", "CANCELLED"},
     RETRY_WAIT |-> {"READY", "FAILED", "CANCELLED"},
     SUCCEEDED  |-> {}, FAILED |-> {}, CANCELLED |-> {}]

AttemptRow == [step : Steps, no : Nat \ {0}, owner : Workers, lease : Nat]
Claimed    == [step : Steps, no : Nat \ {0}, worker : Workers]
Candidate  == [step : Steps, status : Open, at : Nat]

TypeOK ==
    /\ runStatus \in RunStatus
    /\ response \in {"QUEUED", "SUCCEEDED", "FAILED"}
    /\ stepStatus \in [Steps -> StepStatus]
    /\ stamp \in [Steps -> Nat]
    /\ attemptNo \in [Steps -> Nat]
    /\ attempts \subseteq AttemptRow
    /\ outbox \subseteq Steps
    /\ selectInput \subseteq Queries
    /\ verifyInput \subseteq Sources
    /\ synthInput \in [verified : BOOLEAN,
                       degraded : SUBSET (StepType \X {"FAILED", "CANCELLED"})]
    /\ queue \subseteq Steps
    /\ claims \subseteq Claimed
    /\ candidates \subseteq Candidate
    /\ now \in 0..MaxTime
    /\ faults \in 0..MaxFaults

\* submit_message: the run, its ROUTE step and the outbox row, in one commit.
Init ==
    /\ runStatus = "QUEUED"
    /\ response = "QUEUED"
    /\ stepStatus = [s \in Steps |-> IF s = Route THEN "READY" ELSE "ABSENT"]
    /\ stamp = [s \in Steps |-> 0]
    /\ attemptNo = [s \in Steps |-> 0]
    /\ attempts = {}
    /\ outbox = {Route}
    /\ selectInput = {}
    /\ verifyInput = {}
    /\ synthInput = [verified |-> FALSE, degraded |-> {}]
    /\ queue = {}
    /\ claims = {}
    /\ candidates = {}
    /\ now = 0
    /\ faults = 0

-----------------------------------------------------------------------------
(***************************************************************************)
(* Pieces shared by the transactions.                                      *)
(***************************************************************************)
SetStep(s, status, at) ==
    /\ stepStatus' = [stepStatus EXCEPT ![s] = status]
    /\ stamp' = [stamp EXCEPT ![s] = at]

Fault == faults < MaxFaults /\ faults' = faults + 1

\* Mutant: the rows are read without replacing the current step.
AddStepsFromOldRows(st, current, wanted) ==
    LET new == Missing(st, wanted)
    IN  /\ stepStatus' = [s \in Steps |-> IF s \in new THEN "READY" ELSE st[s]]
        /\ stamp' = [stamp EXCEPT ![current] = 0]
        /\ outbox' = outbox \cup new
        /\ selectInput' = DiscoveredQueries(stepStatus)
        /\ verifyInput' = ExtractedSources(stepStatus)
        /\ synthInput' = [verified |-> stepStatus[Verify] = "SUCCEEDED",
                          degraded |-> Degradations(stepStatus)]

\* The effect of the completion hook on the step table: st is the table with
\* the current step, which is no longer READY, replaced, and `wanted' are the
\* steps the hook asks for.
AddSteps(st, current, wanted) ==
    LET new == Missing(st, wanted)
    IN  /\ stepStatus' = [s \in Steps |-> IF s \in new THEN "READY" ELSE st[s]]
        /\ stamp' = [s \in Steps |-> IF s \in new THEN now
                                     ELSE IF s = current THEN 0 ELSE stamp[s]]
        /\ outbox' = outbox \cup new
        /\ selectInput' = IF Select \in new THEN DiscoveredQueries(st)
                          ELSE selectInput
        /\ verifyInput' = IF Verify \in new THEN ExtractedSources(st)
                          ELSE verifyInput
        /\ synthInput' = IF Synthesize \in new
                         THEN [verified |-> st[Verify] = "SUCCEEDED",
                               degraded |-> Degradations(st)]
                         ELSE synthInput

\* on_failure, for a run that is not terminal.
OnFailure(st, s, started) ==
    /\ AddSteps(st, s, AfterFailure(st, s))
    /\ IF FailsRun(s) THEN runStatus' = "FAILED" /\ response' = "FAILED"
       ELSE runStatus' = started /\ UNCHANGED response

\* A delivered message is acknowledged, or the broker delivers it once more.
Consume(s) ==
    \/ queue' = queue \ {s} /\ UNCHANGED faults
    \/ UNCHANGED queue /\ Fault

\* run.start / run.resume
StartedRun == IF runStatus = "QUEUED" THEN "RUNNING" ELSE runStatus

-----------------------------------------------------------------------------
(***************************************************************************)
(* DurableStepExecutor.__call__ begins with store.claim.  A slot runs one  *)
(* message at a time.                                                      *)
(***************************************************************************)
Idle(w) == \A c \in claims : c.worker # w

Receive(w, s) == Idle(w) /\ s \in queue /\ Consume(s)

\* A duplicate of a message whose step is not (or no longer) READY.
ClaimIgnored(w, s) ==
    /\ Receive(w, s)
    /\ stepStatus[s] # "READY"
    /\ UNCHANGED <<runVars, stepVars, tryVars, outbox, inputVars, claims,
                   candidates, now>>

ClaimOfTerminalRun(w, s) ==
    /\ Receive(w, s)
    /\ stepStatus[s] = "READY" /\ RunTerminal
    /\ SetStep(s, "CANCELLED", 0)
    /\ UNCHANGED <<runVars, tryVars, outbox, inputVars, claims,
                   candidates, now>>

\* The run fails, without the hook: response_runs is not updated.
ClaimPastHardDeadline(w, s) ==
    /\ Receive(w, s)
    /\ stepStatus[s] = "READY" /\ ~RunTerminal
    /\ now >= HardDeadline
    /\ SetStep(s, "FAILED", 0)
    /\ runStatus' = "FAILED"
    /\ UNCHANGED <<response, tryVars, outbox, inputVars, claims, candidates,
                   now>>

ClaimPastPhaseDeadline(w, s) ==
    /\ Receive(w, s)
    /\ stepStatus[s] = "READY" /\ ~RunTerminal
    /\ now < HardDeadline /\ now >= DeadlineFor(s)
    /\ OnFailure([stepStatus EXCEPT ![s] = "FAILED"], s, StartedRun)
    /\ UNCHANGED <<tryVars, claims, candidates, now>>

\* Mutant: a lease ends when it begins.
LeaseUntilNow(s) == Least(DeadlineFor(s), now)

\* The end of a lease that begins or is renewed now.
LeaseUntil(s) == Least(DeadlineFor(s), now + LeaseSeconds)

\* LeaseService.claim
Claim(w, s) ==
    /\ Receive(w, s)
    /\ stepStatus[s] = "READY" /\ ~RunTerminal
    /\ now < HardDeadline /\ now < DeadlineFor(s)
    /\ runStatus' = StartedRun
    /\ SetStep(s, "RUNNING", 0)
    /\ LET no == attemptNo[s] + 1
       IN  /\ attemptNo' = [attemptNo EXCEPT ![s] = no]
           /\ attempts' = attempts \cup
                {[step |-> s, no |-> no, owner |-> w,
                  lease |-> LeaseUntil(s)]}
           /\ claims' = claims \cup {[step |-> s, no |-> no, worker |-> w]}
    /\ UNCHANGED <<response, outbox, inputVars, candidates, now>>

-----------------------------------------------------------------------------
(***************************************************************************)
(* What a worker does with a claim: renew its lease, finalise, or die.     *)
(***************************************************************************)
RowOf(c) == {a \in attempts : a.step = c.step /\ a.no = c.no /\ a.owner = c.worker}

\* Mutant: the attempt is not compared.
CurrentByStatus(c) == stepStatus[c.step] = "RUNNING"

\* The claim's attempt is open, the newest of its step, and the step RUNNING.
Current(c) ==
    /\ stepStatus[c.step] = "RUNNING"
    /\ RowOf(c) # {}
    /\ attemptNo[c.step] = c.no

\* The heartbeat's renew.  When it is refused the operation ends in Finalise.
Renew(c) ==
    /\ Current(c)
    /\ now < DeadlineFor(c.step)
    /\ \E a \in RowOf(c) :
        LET until == LeaseUntil(c.step)
        IN  /\ until > a.lease
            /\ attempts' = (attempts \ {a}) \cup {[a EXCEPT !.lease = until]}
    /\ UNCHANGED <<runVars, stepVars, attemptNo, outbox, inputVars, queue,
                   claims, candidates, now, faults>>

\* Finalisation of a superseded attempt changes nothing.
FinaliseStale(c) ==
    /\ ~Current(c)
    /\ claims' = claims \ {c}
    /\ UNCHANGED <<runVars, stepVars, tryVars, outbox, inputVars, queue,
                   candidates, now, faults>>

Finalise(c) ==
    /\ Current(c)
    /\ claims' = claims \ {c}
    /\ attempts' = attempts \ RowOf(c)
    /\ UNCHANGED <<attemptNo, queue, candidates, now, faults>>

\* succeed and fail both cancel the step of a run that ended meanwhile.
FinaliseOfTerminalRun(c) ==
    /\ Finalise(c)
    /\ RunTerminal
    /\ SetStep(c.step, "CANCELLED", 0)
    /\ UNCHANGED <<runVars, outbox, inputVars>>

\* The queries of a plan, the hits of a selection.
Fanout(s) ==
    CASE s.type = "PLAN"   -> SUBSET Queries
      [] s.type = "SELECT" -> SUBSET UNION {HitsOf[q] : q \in selectInput}
      [] OTHER             -> {{}}

\* The answer of the SYNTHESIZE step ends the run.
PersistAnswer(s) ==
    IF s = Synthesize THEN runStatus' = "SUCCEEDED" /\ response' = "SUCCEEDED"
    ELSE UNCHANGED runVars

\* Mutant: the result is applied although the run ended meanwhile.
SucceedAfterTheEnd(c) ==
    /\ Finalise(c)
    /\ \E fanout \in Fanout(c.step) :
        LET st == [stepStatus EXCEPT ![c.step] = "SUCCEEDED"]
        IN  AddSteps(st, c.step, AfterSuccess(st, c.step, fanout))
    /\ PersistAnswer(c.step)

Succeed(c) ==
    /\ Finalise(c)
    /\ ~RunTerminal
    /\ \E fanout \in Fanout(c.step) :
        LET st == [stepStatus EXCEPT ![c.step] = "SUCCEEDED"]
        IN  AddSteps(st, c.step, AfterSuccess(st, c.step, fanout))
    /\ PersistAnswer(c.step)

\* fail with a retryable error, admitted.
FailForRetry(c) ==
    /\ Finalise(c)
    /\ ~RunTerminal
    /\ c.no < AttemptLimit(c.step)
    /\ now + RetryDelay(c.no) < HardDeadline
    /\ SetStep(c.step, "RETRY_WAIT", now + RetryDelay(c.no))
    /\ UNCHANGED <<runVars, outbox, inputVars>>

\* Mutant: the step fails and nothing follows it up.
FailStepOnly(c) ==
    /\ Finalise(c)
    /\ ~RunTerminal
    /\ SetStep(c.step, "FAILED", 0)
    /\ UNCHANGED <<runVars, outbox, inputVars>>

\* fail with an error that is not retryable or may not be retried any more.
FailForGood(c) ==
    /\ Finalise(c)
    /\ ~RunTerminal
    /\ OnFailure([stepStatus EXCEPT ![c.step] = "FAILED"], c.step, runStatus)

\* fail with a CANCELLED error.  The run is not terminal, the attempt is
\* current: the error comes from a heartbeat that was refused at the deadline.
FailAsCancelled(c) ==
    /\ Finalise(c)
    /\ ~RunTerminal
    /\ now >= DeadlineFor(c.step)
    /\ OnFailure([stepStatus EXCEPT ![c.step] = "CANCELLED"], c.step, runStatus)

\* The worker is lost, or finalisation raises and rolls back: the step stays
\* RUNNING.  The broker redelivers the message of a lost worker.
Crash(c) ==
    /\ Fault
    /\ claims' = claims \ {c}
    /\ queue' \in {queue, queue \cup {c.step}}
    /\ UNCHANGED <<runVars, stepVars, tryVars, outbox, inputVars, candidates, now>>

-----------------------------------------------------------------------------
(***************************************************************************)
(* The control process: outbox pump and reconciler.                        *)
(***************************************************************************)
\* A batch is sent message by message and committed at the end.
DispatchOutbox(s) ==
    /\ s \in outbox
    /\ queue' = queue \cup {s}
    /\ outbox' = outbox \ {s}
    /\ UNCHANGED <<runVars, stepVars, tryVars, inputVars, claims, candidates,
                   now, faults>>

DispatchWithoutMark(s) ==
    /\ s \in outbox
    /\ Fault
    /\ queue' = queue \cup {s}
    /\ UNCHANGED <<runVars, stepVars, tryVars, outbox, inputVars, claims,
                   candidates, now>>

LoseMessage(s) ==
    /\ s \in queue
    /\ Fault
    /\ queue' = queue \ {s}
    /\ UNCHANGED <<runVars, stepVars, tryVars, outbox, inputVars, claims,
                   candidates, now>>

\* max(leased_until) of the step's open attempts is not after t.
LeaseExpired(s, t) ==
    /\ \E a \in attempts : a.step = s
    /\ \A a \in attempts : a.step = s => a.lease <= t

\* Mutant: the scan forgets RUNNING steps.
ReconcilableIfNotRunning(s) ==
    /\ ~RunTerminal
    /\ s \notin outbox
    /\ stepStatus[s] \in {"READY", "RETRY_WAIT"}
    /\ stamp[s] + Grace <= now

Reconcilable(s) ==
    /\ ~RunTerminal
    /\ s \notin outbox
    /\ \/ stepStatus[s] = "READY" /\ stamp[s] + Grace <= now
       \/ stepStatus[s] = "RETRY_WAIT" /\ stamp[s] <= now
       \/ stepStatus[s] = "RUNNING" /\ LeaseExpired(s, now)

\* candidates: one row of the scan.
Scan(s) ==
    /\ Reconcilable(s)
    /\ Cardinality(candidates) < MaxCandidates
    /\ candidates' = candidates \cup
            {[step |-> s, status |-> stepStatus[s], at |-> now]}
    /\ UNCHANGED <<runVars, stepVars, tryVars, outbox, inputVars, queue, claims,
                   now, faults>>

\* The step is sent to the broker and, if READY, mark_dispatched restarts its
\* grace with the clock of the scan; or the send (or the process) fails first.
Redispatch(d, status, updatedAt) ==
    \/ /\ queue' = queue \cup {d.step}
       /\ SetStep(d.step, status, IF status = "READY" THEN d.at ELSE updatedAt)
       /\ UNCHANGED faults
    \/ /\ Fault
       /\ SetStep(d.step, status, updatedAt)
       /\ UNCHANGED queue

ReleasableRetry(d) ==
    /\ d.status = "RETRY_WAIT" /\ stepStatus[d.step] = "RETRY_WAIT"
    /\ stamp[d.step] <= d.at

\* The lease is looked at again, with the clock of the scan.
ReleasableLease(d) ==
    /\ d.status = "RUNNING" /\ stepStatus[d.step] = "RUNNING"
    /\ LeaseExpired(d.step, d.at)

\* A READY candidate is dispatched without another look at its step; for
\* the others make_ready reports whether the step is READY by now.
DispatchReady(d) ==
    /\ d.status = "READY" \/ stepStatus[d.step] = "READY"
    /\ candidates' = candidates \ {d}
    /\ Redispatch(d, stepStatus[d.step], stamp[d.step])
    /\ UNCHANGED <<runVars, tryVars, outbox, inputVars, claims, now>>

ReleaseRetry(d) ==
    /\ ReleasableRetry(d)
    /\ candidates' = candidates \ {d}
    /\ Redispatch(d, "READY", now)
    /\ UNCHANGED <<runVars, tryVars, outbox, inputVars, claims, now>>

\* Mutant: the expired attempt stays open.
ReleaseStepOnly(d) ==
    /\ ReleasableLease(d)
    /\ candidates' = candidates \ {d}
    /\ Redispatch(d, "READY", now)
    /\ UNCHANGED <<runVars, tryVars, outbox, inputVars, claims, now>>

ReleaseExpiredLease(d) ==
    /\ ReleasableLease(d)
    /\ candidates' = candidates \ {d}
    /\ attempts' = {a \in attempts : ~(a.step = d.step /\ a.lease <= d.at)}
    /\ Redispatch(d, "READY", now)
    /\ UNCHANGED <<runVars, attemptNo, outbox, inputVars, claims, now>>

\* make_ready finds the step changed since the scan.
DropCandidate(d) ==
    /\ d.status # "READY" /\ stepStatus[d.step] # "READY"
    /\ ~ReleasableRetry(d) /\ ~ReleasableLease(d)
    /\ candidates' = candidates \ {d}
    /\ UNCHANGED <<runVars, stepVars, tryVars, outbox, inputVars, queue, claims,
                   now, faults>>

-----------------------------------------------------------------------------
\* RunService.cancel
CancelRun ==
    /\ ~RunTerminal
    /\ runStatus' = "CANCELLED"
    /\ UNCHANGED <<response, stepVars, tryVars, outbox, inputVars, queue, claims,
                   candidates, now, faults>>

Tick ==
    /\ now < MaxTime
    /\ now' = now + 1
    /\ UNCHANGED <<runVars, stepVars, tryVars, outbox, inputVars, queue, claims,
                   candidates, faults>>

Deliver(w, s) ==
    \/ ClaimIgnored(w, s)
    \/ ClaimOfTerminalRun(w, s)
    \/ ClaimPastHardDeadline(w, s)
    \/ ClaimPastPhaseDeadline(w, s)
    \/ Claim(w, s)

Finish(c) ==
    \/ FinaliseStale(c)
    \/ FinaliseOfTerminalRun(c)
    \/ Succeed(c)
    \/ FailForRetry(c)
    \/ FailForGood(c)
    \/ FailAsCancelled(c)

Handle(d) ==
    \/ DispatchReady(d)
    \/ ReleaseRetry(d)
    \/ ReleaseExpiredLease(d)
    \/ DropCandidate(d)

Next ==
    \/ \E s \in Steps : \/ \E w \in Workers : Deliver(w, s)
                        \/ DispatchOutbox(s)
                        \/ DispatchWithoutMark(s)
                        \/ LoseMessage(s)
                        \/ Scan(s)
    \/ \E c \in claims : Renew(c) \/ Finish(c) \/ Crash(c)
    \/ \E d \in candidates : Handle(d)
    \/ CancelRun
    \/ Tick

Spec == Init /\ [][Next]_vars

(***************************************************************************)
(* Fairness.  Time passes; the control process loops for ever, so a row it *)
(* may act upon is acted upon; a queued message is delivered to an idle    *)
(* slot; asyncio.timeout bounds every operation, so a worker that does not *)
(* crash finalises.  No fairness for faults, renewals or the user.         *)
(***************************************************************************)
Fairness ==
    /\ WF_vars(Tick)
    /\ \A s \in Steps : /\ WF_vars(\E w \in Workers : Deliver(w, s))
                        /\ WF_vars(DispatchOutbox(s))
                        /\ WF_vars(Scan(s))
    /\ WF_vars(\E c \in claims : Finish(c))
    /\ WF_vars(\E d \in candidates : Handle(d))

FairSpec == Spec /\ Fairness

-----------------------------------------------------------------------------
(***************************************************************************)
(* Properties.                                                             *)
(***************************************************************************)

\* Lease fencing: a step is RUNNING exactly while one attempt of it is open,
\* and that attempt is its newest.  With at-least-once delivery, crashes and
\* a reconciler acting on old scans, two workers never both hold the right to
\* finalise a step (claim, _is_current_attempt, make_ready).
ExclusiveAttempt ==
    /\ \A a, b \in attempts : a.step = b.step => a = b
    /\ \A a \in attempts : a.no = attemptNo[a.step]
    /\ \A s \in Steps :
        (stepStatus[s] = "RUNNING") <=> (\E a \in attempts : a.step = s)

\* The completion hook never strands a run: as long as the run is not over,
\* some step of it is still to be executed, whatever combination of branches
\* failed or was cancelled (_maybe_select, _maybe_verify, _maybe_synthesize).
NoStrandedRun == ~RunTerminal => \E s \in Steps : stepStatus[s] \in Open

\* The joins wait for all their branches, and _plan_reference (which raises
\* when the plan did not succeed) always finds a plan to join.
JoinsAreComplete ==
    /\ \A s \in {Select, Verify, Synthesize} :
        stepStatus[s] # "ABSENT" => stepStatus[Plan] = "SUCCEEDED"
    /\ stepStatus[Select] # "ABSENT" =>
        AllTerminal(stepStatus, Present(stepStatus) \cap Discoveries)
    /\ stepStatus[Synthesize] # "ABSENT" =>
        AllTerminal(stepStatus, Present(stepStatus) \ {Synthesize})

\* The inputs the hook writes when it creates a join are snapshots of the
\* step table; they are still right at the end.  Only an early FAST
\* verification may miss sources, and then the required facts are covered.
InputsAreCurrent ==
    /\ stepStatus[Select] # "ABSENT" =>
        selectInput = DiscoveredQueries(stepStatus)
    /\ stepStatus[Verify] # "ABSENT" =>
        /\ verifyInput # {}
        /\ verifyInput \subseteq ExtractedSources(stepStatus)
        /\ \/ verifyInput = ExtractedSources(stepStatus)
           \/ CoveredEarly(verifyInput)
    /\ stepStatus[Synthesize] # "ABSENT" =>
        /\ synthInput.verified = (stepStatus[Verify] = "SUCCEEDED")
        /\ synthInput.degraded = Degradations(stepStatus)

\* No redelivery storm: every new attempt of a step costs at least one unit
\* of time (a lease to expire or a retry delay to pass), although neither
\* lease expiry nor redelivery is counted against the attempt limit.
AttemptsArePaced == \A s \in Steps : attemptNo[s] <= now + 1

\* Why: the inductive form of AttemptsArePaced.  A step that may be claimed
\* has fewer attempts than a running one, a retry is not due and a lease does
\* not expire before the clock has caught up with the attempts, and a scan is
\* never ahead of the clock.
Pacing ==
    /\ AttemptsArePaced
    /\ \A s \in Steps :
        /\ stepStatus[s] \in {"ABSENT", "READY"} => attemptNo[s] <= now
        /\ stepStatus[s] = "RETRY_WAIT" => attemptNo[s] <= stamp[s]
    /\ \A a \in attempts : attemptNo[a.step] <= a.lease
    /\ \A d \in candidates : d.at <= now

\* assert_transition never raises: every change of status is one of
\* _RUN_TRANSITIONS or _STEP_TRANSITIONS (claim takes READY through RUNNING to
\* FAILED in one commit), so what is terminal stays as it is.
LegalTransitions ==
    [][ /\ runStatus' # runStatus => runStatus' \in RunTransitions[runStatus]
        /\ response # "QUEUED" => response' = response
        /\ \A s \in Steps : stepStatus'[s] # stepStatus[s] =>
            \/ stepStatus'[s] \in StepTransitions[stepStatus[s]]
            \/ stepStatus[s] = "READY" /\ stepStatus'[s] = "FAILED"
      ]_vars

\* A worker whose attempt was superseded cannot touch the step any more:
\* when it reports, step, run and open attempts stay as they are.
StaleWorkerIsHarmless ==
    [][ \A c \in claims \ claims' :
            (~\E a \in attempts : a.step = c.step /\ a.no = c.no)
                => UNCHANGED <<runVars, stepVars, tryVars, outbox>>
      ]_vars

\* Every run ends, even if messages are lost and workers crash.
RunEnds == <>RunTerminal

(***************************************************************************)
(* Refinement.  READY, RUNNING and RETRY_WAIT are one from outside.        *)
(***************************************************************************)
Outward(status) == IF status \in Open THEN "OPEN" ELSE status

Contract == INSTANCE RunContract WITH
    run    <- runStatus,
    answer <- response,
    steps  <- [s \in Steps |-> Outward(stepStatus[s])]

\* At-least-once delivery, lost workers, expired leases, retries, stale scans
\* and late reports are invisible from outside: however claim, succeed, fail,
\* cancel and the reconciler interleave, every step of the workflow ends once
\* and is followed up once, in the same commit (RunContract).
KeepsContract == Contract!ContractSpec
=============================================================================

--------------------------- MODULE ShadowCampaign ---------------------------
(***************************************************************************)
(* A shadow campaign: the rows shadow_campaigns and shadow_run_results, the *)
(* runner processes that submit the campaign's units to the candidate API   *)
(* and collect the runs, and the operator who pauses, resumes and aborts.   *)
(*                                                                          *)
(* Every action is one transaction (each locks the campaign row, then the   *)
(* result row; only renew_result_lease locks the result row alone), one     *)
(* call of the candidate API, or one failure.  What a submission task or a  *)
(* runner loop learnt in one transaction it carries in its own record to    *)
(* the next.                                                                *)
(*                                                                          *)
(* A fenced write compares owner and version of the lease with the row and  *)
(* hands the new version back to the task, so a task's version is current   *)
(* exactly while no one else claimed the unit: `holder' stands for it.      *)
(* Leases are valid or expired; expiry is a step of its own.  The two       *)
(* ledgers, provider calls and estimated cost, have the same shape.         *)
(***************************************************************************)
EXTENDS FiniteSetsExt

CONSTANTS
    NumUnits,           \* max_runs
    Tasks, Runners, RunnerOf,   \* submission slots and the runner of each
    MaxConcurrency,     \* of the campaign profile
    RunReserve,         \* calls and cost reserved for one run
    Ceiling,            \* admission ceiling and cost stop threshold
    Usages,             \* what a run may turn out to have used
    MaxFaults           \* bound: runners killed and leases lost by live ones

Resource == {"calls", "cost"}
Units    == 1..NumUnits
None     == "nobody"
Amount   == [Resource -> Nat]
Usage    == [observed : Amount, possibly : Amount]
Zero     == [k \in Resource |-> 0]
Plus(f, g)  == [k \in Resource |-> f[k] + g[k]]
Minus(f, g) == [k \in Resource |-> f[k] - g[k]]

ASSUME CampaignAssumption ==
    /\ NumUnits \in Nat \ {0} /\ MaxConcurrency \in Nat \ {0}
    /\ RunnerOf \in [Tasks -> Runners]
    /\ None \notin Tasks /\ None \notin Runners
    /\ RunReserve \in Amount /\ RunReserve["calls"] > 0
    /\ Ceiling \in Amount
    /\ Usages \subseteq Usage
    /\ MaxFaults \in Nat

VARIABLES
    campaign,   \* shadow_campaigns: lifecycle, run plan, report binding
    ledger,     \* shadow_campaigns: reserved, observed, possibly billed
    counts,     \* shadow_campaigns: submitted, collected, failed, skipped
    row,        \* shadow_run_results
    run,        \* the candidate's SearchRun for the message key of a unit
    sent,       \* units whose message may still reach the candidate
    tasks,      \* submission tasks under way
    loops,      \* what the runner loops are in the middle of
    faults

db   == <<campaign, ledger, counts, row>>
api  == <<run, sent>>
vars == <<campaign, ledger, counts, row, run, sent, tasks, loops, faults>>

CampaignStatus == {"CREATED", "RUNNING", "STOPPING", "PAUSED",
                   "AWAITING_REVIEW", "COMPLETED", "ABORTED"}
StopIntent  == {"NONE", "PAUSE", "ABORT", "FATAL", "BUDGET", "CALL_CEILING"}
SchedulingState == {"PENDING", "CLAIMED", "CONVERSATION_BOUND", "SUBMITTED",
                    "COLLECTED", "FAILED", "SKIPPED"}
ReservationState == {"NONE", "ACTIVE", "SETTLED", "RELEASED"}
Lease   == {"none", "valid", "expired"}
Sealed  == {"COLLECTED", "FAILED", "SKIPPED"}
Leased  == {"CLAIMED", "CONVERSATION_BOUND"}

CampaignTransitions ==
    [s \in CampaignStatus |->
        CASE s = "CREATED"         -> {"RUNNING", "ABORTED"}
          [] s = "RUNNING"         -> {"STOPPING", "AWAITING_REVIEW", "COMPLETED"}
          [] s = "STOPPING"        -> {"PAUSED", "AWAITING_REVIEW", "COMPLETED",
                                       "ABORTED"}
          [] s = "PAUSED"          -> {"RUNNING", "ABORTED"}
          [] s = "AWAITING_REVIEW" -> {"COMPLETED", "ABORTED"}
          [] OTHER                 -> {}]

\* conv, sub: attempt counters, of which the code asks for > 0 and > 1;
\* over: budget_violation; defect: the report will count a hard violation.
Row == [sched : SchedulingState, lease : Lease, holder : Tasks \cup {None},
        conv : 0..2, sub : 0..2, resv : ReservationState, used : Usage,
        over : BOOLEAN, defect : BOOLEAN,
        cLease : Lease, cHolder : Runners \cup {None}]

\* denied: budget_admission_denied; invariant: runner_invariant_violation;
\* rejected, uncertain: a ShadowAPIError without and with
\* request_may_have_committed.
Failure == {"none", "denied", "invariant", "rejected", "uncertain"}

\* The next call of _submit and execute.
TaskPoint == {"reserve", "defer", "prepareConversation", "createConversation",
              "bindConversation", "prepareSubmission", "submitMessage",
              "bindSubmission", "fatalStop", "markFailure"}
Task == [id : Tasks, unit : Units, tries : 0..2, why : Failure, at : TaskPoint]
\* stale is history: the campaign was resumed since the loop last looked.
Loop == [id : Runners, unit : Units, stale : BOOLEAN,
         at : {"collect", "fatalStop", "markFailure", "skip", "settle", "review"}]

\* stale is history: the loop that settled the last stop was stale.
Campaign == [status : CampaignStatus, intent : StopIntent,
             planned : BOOLEAN, bound : BOOLEAN, stale : BOOLEAN]

\* The ledgers never go negative and every record has its shape.
TypeOK ==
    /\ campaign \in Campaign
    /\ ledger \in [reserved : Amount, observed : Amount, possibly : Amount]
    /\ counts \in [submitted : Nat, collected : Nat, failed : Nat, skipped : Nat]
    /\ row \in [Units -> Row]
    /\ run \in [Units -> {"none", "active", "terminal"}]
    /\ sent \subseteq Units
    /\ tasks \subseteq Task
    /\ loops \subseteq Loop
    /\ faults \in 0..MaxFaults

Unused == [observed |-> Zero, possibly |-> Zero]

Init ==
    /\ campaign = [status |-> "CREATED", intent |-> "NONE",
                   planned |-> FALSE, bound |-> FALSE, stale |-> FALSE]
    /\ ledger = [reserved |-> Zero, observed |-> Zero, possibly |-> Zero]
    /\ counts = [submitted |-> 0, collected |-> 0, failed |-> 0, skipped |-> 0]
    /\ row = [u \in Units |->
                [sched |-> "PENDING", lease |-> "none", holder |-> None,
                 conv |-> 0, sub |-> 0, resv |-> "NONE", used |-> Unused,
                 over |-> FALSE, defect |-> FALSE,
                 cLease |-> "none", cHolder |-> None]]
    /\ run = [u \in Units |-> "none"]
    /\ sent = {}
    /\ tasks = {}
    /\ loops = {}
    /\ faults = 0

-----------------------------------------------------------------------------
(***************************************************************************)
(* The budget.                                                              *)
(***************************************************************************)
Exposure(k) == ledger.observed[k] + ledger.possibly[k] + ledger.reserved[k]

\* Mutant: calls that are only possibly billed are not counted.
AdmitsObserved(k) ==
    ledger.observed[k] + ledger.reserved[k] + RunReserve[k] <= Ceiling[k]

\* CampaignBudgetSnapshot.admit
Admits(k) == Exposure(k) + RunReserve[k] <= Ceiling[k]

\* admit_after_active_reservations_settle
AdmitsLater(k) ==
    ledger.observed[k] + ledger.possibly[k] + RunReserve[k] <= Ceiling[k]

Admitted == \A k \in Resource : Admits(k)

\* Only runs in flight are in the way: backpressure, not a breach.
Deferred ==
    /\ ~Admitted
    /\ \A k \in Resource : AdmitsLater(k)
    /\ \E k \in Resource : ledger.reserved[k] > 0

\* CALL_CEILING has priority over BUDGET.
CeilingIntent(over) == IF "calls" \in over THEN "CALL_CEILING" ELSE "BUDGET"

\* SettlementUsage.exceeds
Exceeded(us) ==
    {k \in Resource : us.observed[k] + us.possibly[k] > RunReserve[k]}

\* settle_run_budget on the campaign row: the reserve of one run becomes what
\* it used, and a breach stops a RUNNING campaign.
SettleLedger(us) ==
    /\ ledger' = [reserved |-> Minus(ledger.reserved, RunReserve),
                  observed |-> Plus(ledger.observed, us.observed),
                  possibly |-> Plus(ledger.possibly, us.possibly)]
    /\ LET total(k) == Exposure(k) - RunReserve[k] + us.observed[k] + us.possibly[k]
           over == Exceeded(us) \cup {k \in Resource : total(k) > Ceiling[k]}
       IN  campaign' = IF over # {} /\ campaign.status = "RUNNING"
                       THEN [campaign EXCEPT !.status = "STOPPING",
                                             !.intent = CeilingIntent(over)]
                       ELSE campaign

\* ... and on the result row.
Settled(r, us) ==
    [r EXCEPT !.resv = "SETTLED", !.used = us, !.over = Exceeded(us) # {}]

-----------------------------------------------------------------------------
(***************************************************************************)
(* Lifecycle commands of the owner.                                         *)
(***************************************************************************)
Command(s, i) ==
    /\ campaign' = [campaign EXCEPT !.status = s, !.intent = i]
    /\ UNCHANGED <<ledger, counts, row, api, tasks, loops, faults>>

\* All units are inserted and planned_count is set in one transaction.
Materialize ==
    /\ campaign.status = "CREATED" /\ ~campaign.planned
    /\ campaign' = [campaign EXCEPT !.planned = TRUE]
    /\ UNCHANGED <<ledger, counts, row, api, tasks, loops, faults>>

Start ==
    /\ campaign.status = "CREATED" /\ campaign.planned
    /\ Command("RUNNING", "NONE")

\* pause, and the interrupt of a runner.  request_stop is legal from RUNNING
\* alone, so that what the caller read before decides nothing.
Pause == campaign.status = "RUNNING" /\ Command("STOPPING", "PAUSE")

\* resume; the loops that had looked before it are stale from now on.
Resume ==
    /\ campaign.status = "PAUSED"
    /\ campaign' = [campaign EXCEPT !.status = "RUNNING", !.intent = "NONE"]
    /\ loops' = {[l EXCEPT !.stale = TRUE] : l \in loops}
    /\ UNCHANGED <<ledger, counts, row, api, tasks, faults>>

\* A campaign at rest is aborted at once, a running one is drained first, a
\* pause under way is escalated.  The caller read the state in an earlier
\* transaction: who saw CREATED, PAUSED or AWAITING_REVIEW may find STOPPING by
\* now, from which an abort at once is legal too.
Abort ==
    \/ /\ campaign.status \in {"CREATED", "PAUSED", "AWAITING_REVIEW", "STOPPING"}
       /\ Command("ABORTED", "ABORT")
    \/ /\ \/ campaign.status = "RUNNING"
          \/ campaign.status = "STOPPING" /\ campaign.intent = "PAUSE"
       /\ Command("STOPPING", "ABORT")

-----------------------------------------------------------------------------
(***************************************************************************)
(* Submission tasks.                                                        *)
(***************************************************************************)
Free(k) == \A l \in loops : l.id # k

\* Units that count against max_concurrency.
ActiveUnits ==
    {u \in Units : \/ row[u].sched = "SUBMITTED" /\ row[u].resv = "ACTIVE"
                   \/ row[u].sched \in Leased /\ row[u].lease = "valid"}

\* Mutant: a stopping campaign claims nothing at all.
ClaimableWhileRunning(u) ==
    /\ campaign.status = "RUNNING"
    /\ \/ row[u].sched = "PENDING"
       \/ row[u].sched \in Leased /\ row[u].lease = "expired"

\* STOPPING drains only units that crossed a durable outbound fence.
Claimable(u) ==
    \/ campaign.status = "RUNNING" /\ row[u].sched = "PENDING"
    \/ /\ row[u].sched \in Leased /\ row[u].lease = "expired"
       /\ \/ campaign.status = "RUNNING"
          \/ /\ campaign.status = "STOPPING"
             /\ row[u].conv > 0 \/ row[u].sub > 0

\* Where _submit and execute start, given what the unit has already.
Entry(r) ==
    IF r.resv = "NONE" THEN "reserve"
    ELSE IF r.sched = "CONVERSATION_BOUND" THEN "prepareSubmission"
    ELSE "prepareConversation"

Claim(t, u) ==
    /\ Free(RunnerOf[t]) /\ \A x \in tasks : x.id # t
    /\ Cardinality(ActiveUnits) < MaxConcurrency
    /\ Claimable(u) /\ \A v \in 1..(u - 1) : ~Claimable(v)
    /\ row' = [row EXCEPT ![u].sched = IF @ = "PENDING" THEN "CLAIMED" ELSE @,
                          ![u].lease = "valid", ![u].holder = t]
    /\ tasks' = tasks \cup {[id |-> t, unit |-> u, at |-> Entry(row[u]),
                             tries |-> 0, why |-> "none"]}
    /\ UNCHANGED <<campaign, ledger, counts, api, loops, faults>>

\* _assert_active_lease
Current(x) ==
    /\ row[x.unit].sched \in Leased
    /\ row[x.unit].holder = x.id /\ row[x.unit].lease = "valid"

Continue(x, y) == tasks' = (tasks \ {x}) \cup {y}
Goto(x, at)    == Continue(x, [x EXCEPT !.at = at])
Fails(x, why)  == Continue(x, [x EXCEPT !.at = "fatalStop", !.why = why])
Ends(x)        == tasks' = tasks \ {x}

\* An exception that leaves _submit ends its runner, and with it the other
\* tasks: a lease lost outside execute, or when the failure is recorded.
LosesLease(x) ==
    /\ x.at \in {"reserve", "defer", "markFailure"}
    /\ ~Current(x)
    /\ x.at = "markFailure" => row[x.unit].sched # "FAILED"
    /\ Free(RunnerOf[x.id])
    /\ tasks' = {y \in tasks : RunnerOf[y.id] # RunnerOf[x.id]}
    /\ UNCHANGED <<db, api, loops, faults>>

\* The campaign stopped between claim and admission.
ReserveRefused(x) ==
    /\ x.at = "reserve" /\ Current(x) /\ campaign.status # "RUNNING"
    /\ Continue(x, [x EXCEPT !.at = "markFailure", !.why = "denied"])
    /\ UNCHANGED <<db, api, loops, faults>>

\* reserve_run_budget is asked once: a unit with a reservation skips it.
Asks(x) ==
    /\ x.at = "reserve" /\ Current(x)
    /\ campaign.status = "RUNNING" /\ row[x.unit].resv = "NONE"

ReserveAdmitted(x) ==
    /\ Asks(x) /\ Admitted
    /\ ledger' = [ledger EXCEPT !.reserved = Plus(@, RunReserve)]
    /\ row' = [row EXCEPT ![x.unit].resv = "ACTIVE"]
    /\ Goto(x, "prepareConversation")
    /\ UNCHANGED <<campaign, counts, api, loops, faults>>

ReserveDeferred(x) ==
    /\ Asks(x) /\ Deferred
    /\ Goto(x, "defer")
    /\ UNCHANGED <<db, api, loops, faults>>

ReserveDenied(x) ==
    /\ Asks(x) /\ ~Admitted /\ ~Deferred
    /\ campaign' = [campaign EXCEPT !.status = "STOPPING",
            !.intent = CeilingIntent({k \in Resource : ~Admits(k)})]
    /\ row' = [row EXCEPT ![x.unit].over = TRUE]
    /\ Continue(x, [x EXCEPT !.at = "markFailure", !.why = "denied"])
    /\ UNCHANGED <<ledger, counts, api, loops, faults>>

\* The task sleeps, renews its lease and asks again.
RenewAfterDeferral(x) ==
    /\ x.at = "defer" /\ Current(x)
    /\ Goto(x, "reserve")
    /\ UNCHANGED <<db, api, loops, faults>>

\* _assert_outbound_allowed: a stopping campaign only replays.
OutboundAllowed(u, tries) ==
    /\ \/ campaign.status = "RUNNING"
       \/ campaign.status = "STOPPING" /\ tries > 0
    /\ row[u].resv = "ACTIVE"

Saturated(n) == IF n = 2 THEN 2 ELSE n + 1

PrepareConversation(x) ==
    /\ x.at = "prepareConversation" /\ Current(x)
    /\ OutboundAllowed(x.unit, row[x.unit].conv)
    /\ row' = [row EXCEPT ![x.unit].conv = Saturated(@)]
    /\ Continue(x, [x EXCEPT !.at = "createConversation",
                             !.tries = row'[x.unit].conv])
    /\ UNCHANGED <<campaign, ledger, counts, api, loops, faults>>

\* The candidate API keeps one Conversation per key: a replay finds it.
CreateConversation(x) ==
    /\ x.at = "createConversation"
    /\ \/ Goto(x, "bindConversation")
       \/ \E why \in {"rejected", "uncertain"} : Fails(x, why)
    /\ UNCHANGED <<db, api, loops, faults>>

Bindable(x) == Current(x) /\ row[x.unit].resv = "ACTIVE"

BindConversation(x) ==
    /\ x.at = "bindConversation" /\ Bindable(x)
    /\ row' = [row EXCEPT ![x.unit].sched = "CONVERSATION_BOUND"]
    /\ Goto(x, "prepareSubmission")
    /\ UNCHANGED <<campaign, ledger, counts, api, loops, faults>>

PrepareSubmission(x) ==
    /\ x.at = "prepareSubmission" /\ Current(x)
    /\ OutboundAllowed(x.unit, row[x.unit].sub)
    /\ row' = [row EXCEPT ![x.unit].sub = Saturated(@)]
    /\ Continue(x, [x EXCEPT !.at = "submitMessage",
                             !.tries = row'[x.unit].sub])
    /\ UNCHANGED <<campaign, ledger, counts, api, loops, faults>>

\* The candidate keeps one SearchRun per message key.
Accepted(u) == [run EXCEPT ![u] = IF @ = "none" THEN "active" ELSE @]

\* _request tries up to four times.  A receipt means that the message was
\* accepted.  After a timeout it may be accepted, now or later; the same holds
\* when the try after a timeout is rejected, or an answer cannot be read.
SubmitMessage(x) ==
    /\ x.at = "submitMessage"
    /\ \/ /\ Goto(x, "bindSubmission")
          /\ run' = Accepted(x.unit) /\ UNCHANGED sent
       \/ /\ \E why \in {"rejected", "uncertain"} : Fails(x, why)
          /\ \/ run' = Accepted(x.unit) /\ UNCHANGED sent
             \/ sent' = sent \cup {x.unit} /\ UNCHANGED run
             \/ UNCHANGED api
    /\ UNCHANGED <<db, loops, faults>>

\* The first binding, or the replay of one that is there already.
BindSubmission(x) ==
    /\ x.at = "bindSubmission"
    /\ \/ /\ row[x.unit].sched = "SUBMITTED"
          /\ UNCHANGED <<row, counts>>
       \/ /\ Bindable(x)
          /\ row' = [row EXCEPT ![x.unit].sched = "SUBMITTED",
                                ![x.unit].lease = "none",
                                ![x.unit].holder = None]
          /\ counts' = [counts EXCEPT !.submitted = @ + 1]
    /\ Ends(x)
    /\ UNCHANGED <<campaign, ledger, api, loops, faults>>

\* A transaction of execute raises InvariantViolation: the lease is lost, or
\* the campaign accepts no new attempt.
Refused(x) ==
    /\ \/ /\ x.at = "prepareConversation"
          /\ ~(Current(x) /\ OutboundAllowed(x.unit, row[x.unit].conv))
       \/ x.at = "bindConversation" /\ ~Bindable(x)
       \/ /\ x.at = "prepareSubmission"
          /\ ~(Current(x) /\ OutboundAllowed(x.unit, row[x.unit].sub))
       \/ /\ x.at = "bindSubmission"
          /\ ~Bindable(x) /\ row[x.unit].sched # "SUBMITTED"
    /\ Fails(x, "invariant")
    /\ UNCHANGED <<db, api, loops, faults>>

\* _ensure_fatal_stop
FatalStopped ==
    IF campaign.status = "RUNNING"
    THEN [campaign EXCEPT !.status = "STOPPING", !.intent = "FATAL"]
    ELSE campaign

\* An uncertain first try is left to be replayed when its lease has expired.
FatalStop(x) ==
    /\ x.at = "fatalStop"
    /\ campaign' = FatalStopped
    /\ IF x.why = "uncertain" /\ x.tries <= 1 THEN Ends(x)
       ELSE Goto(x, "markFailure")
    /\ UNCHANGED <<ledger, counts, row, api, loops, faults>>

\* Mutant: the reservation of an uncertain unit is released, not charged.
ReleasedReservation(r, why) ==
    IF r.resv = "NONE" THEN r ELSE [r EXCEPT !.resv = "RELEASED"]

\* What mark_failure makes of a reservation: nothing, charged, or released.
FailedReservation(r, why) ==
    CASE r.resv = "NONE" -> r
      [] r.resv = "ACTIVE" /\ why = "uncertain" ->
            [r EXCEPT !.resv = "SETTLED",
                      !.used = [observed |-> Zero, possibly |-> RunReserve]]
      [] OTHER -> [r EXCEPT !.resv = "RELEASED"]

FailedLedger(r, why) ==
    IF r.resv = "NONE" THEN ledger
    ELSE [ledger EXCEPT
            !.reserved = Minus(@, RunReserve),
            !.possibly = IF why = "uncertain" THEN Plus(@, RunReserve) ELSE @]

Fail(x) ==
    /\ row' = [row EXCEPT ![x.unit] =
                [FailedReservation(row[x.unit], x.why) EXCEPT
                    !.sched = "FAILED", !.lease = "none", !.holder = None,
                    !.defect = x.why # "uncertain"]]
    /\ ledger' = FailedLedger(row[x.unit], x.why)
    /\ counts' = [counts EXCEPT !.failed = @ + 1]
    /\ Ends(x)
    /\ UNCHANGED <<campaign, api, loops, faults>>

\* Mutant: a task that lost its lease may fail the unit all the same.
MarkFailureUnfenced(x) ==
    x.at = "markFailure" /\ row[x.unit].sched \notin Sealed /\ Fail(x)

MarkFailure(x) == x.at = "markFailure" /\ Current(x) /\ Fail(x)

\* mark_failure of a unit that is FAILED already.
FailedBefore(x) ==
    /\ x.at = "markFailure" /\ row[x.unit].sched = "FAILED"
    /\ Ends(x)
    /\ UNCHANGED <<db, api, loops, faults>>

-----------------------------------------------------------------------------
(***************************************************************************)
(* The runner loop: collection, the end of a drain, the end of a campaign.  *)
(***************************************************************************)
NoTaskOf(k)  == \A x \in tasks : RunnerOf[x.id] # k
Enter(k, u, at) ==
    loops' = loops \cup {[id |-> k, unit |-> u, at |-> at, stale |-> FALSE]}
Leave(l)     == loops' = loops \ {l}
Move(l, at)  == loops' = (loops \ {l}) \cup {[l EXCEPT !.at = at]}

\* An exception in the loop ends the runner.
RunnerEnds(k) ==
    /\ loops' = {l \in loops : l.id # k}
    /\ tasks' = {x \in tasks : RunnerOf[x.id] # k}

Collectable(u) ==
    /\ row[u].sched = "SUBMITTED" /\ row[u].resv \in {"ACTIVE", "SETTLED"}
    /\ row[u].cLease # "valid" /\ run[u] = "terminal"

CollectorClaim(k, u) ==
    /\ Free(k)
    /\ campaign.status \in {"RUNNING", "STOPPING", "PAUSED"}
    /\ Cardinality({v \in Units : row[v].cLease = "valid"}) < MaxConcurrency
    /\ Collectable(u) /\ \A v \in 1..(u - 1) : ~Collectable(v)
    /\ row' = [row EXCEPT ![u].cLease = "valid", ![u].cHolder = k]
    /\ Enter(k, u, "collect")
    /\ UNCHANGED <<campaign, ledger, counts, api, tasks, faults>>

CollectorCurrent(l) ==
    /\ row[l.unit].sched = "SUBMITTED" /\ row[l.unit].resv = "ACTIVE"
    /\ row[l.unit].cHolder = l.id /\ row[l.unit].cLease = "valid"

\* Settlement and outcome are one transaction.
Seal(l, state) ==
    /\ \E us \in Usages, d \in BOOLEAN :
        /\ SettleLedger(us)
        /\ row' = [row EXCEPT ![l.unit] =
                    [Settled(row[l.unit], us) EXCEPT
                        !.sched = state, !.cLease = "none", !.cHolder = None,
                        !.defect = d]]
    /\ Leave(l)
    /\ UNCHANGED <<api, tasks, faults>>

\* Mutant: a collector that lost its lease overwrites the outcome.
PersistAgain(l) ==
    /\ l.at = "collect"
    /\ \/ /\ CollectorCurrent(l)
          /\ Seal(l, "COLLECTED")
          /\ counts' = [counts EXCEPT !.collected = @ + 1]
       \/ /\ row[l.unit].sched = "COLLECTED"
          /\ row' = [row EXCEPT ![l.unit].defect = ~@]
          /\ Leave(l)
          /\ UNCHANGED <<campaign, ledger, counts, api, tasks, faults>>

Persist(l) ==
    /\ l.at = "collect" /\ CollectorCurrent(l)
    /\ Seal(l, "COLLECTED")
    /\ counts' = [counts EXCEPT !.collected = @ + 1]

\* Another collector was faster.
PersistedBefore(l) ==
    /\ l.at = "collect" /\ row[l.unit].sched = "COLLECTED"
    /\ Leave(l)
    /\ UNCHANGED <<db, api, tasks, faults>>

\* The source is unsealed after all retries, invalid, or the lease is lost.
CollectionFails(l) ==
    /\ l.at = "collect" /\ row[l.unit].sched # "COLLECTED"
    /\ Move(l, "fatalStop")
    /\ UNCHANGED <<db, api, tasks, faults>>

CollectorFatalStop(l) ==
    /\ l.at = "fatalStop"
    /\ campaign' = FatalStopped
    /\ Move(l, "markFailure")
    /\ UNCHANGED <<ledger, counts, row, api, tasks, faults>>

\* mark_collector_failure settles from the invocation audit.
MarkCollectorFailure(l) ==
    /\ l.at = "markFailure" /\ CollectorCurrent(l)
    /\ Seal(l, "FAILED")
    /\ counts' = [counts EXCEPT !.failed = @ + 1]

CollectorFailedBefore(l) ==
    /\ l.at = "markFailure" /\ row[l.unit].sched = "FAILED"
    /\ Leave(l)
    /\ UNCHANGED <<db, api, tasks, faults>>

CollectorLosesLease(l) ==
    /\ l.at = "markFailure"
    /\ ~CollectorCurrent(l) /\ row[l.unit].sched # "FAILED"
    /\ RunnerEnds(l.id)
    /\ UNCHANGED <<db, api, faults>>

\* Mutant: units that wait for their collection keep no drain open.
LeasedWork == \E u \in Units : row[u].sched \in Leased

HasInflightWork ==
    \E u \in Units : row[u].sched \in Leased \cup {"SUBMITTED"}
                  \/ row[u].resv = "ACTIVE"

ExecutionSealed ==
    \A u \in Units : row[u].sched \in Sealed /\ row[u].resv # "ACTIVE"

\* The loop reads the campaign and decides that the drain is over.
SeeDrained(k) ==
    /\ Free(k) /\ NoTaskOf(k)
    /\ campaign.status = "STOPPING" /\ ~HasInflightWork
    /\ Enter(k, 1, IF campaign.intent = "PAUSE" THEN "settle" ELSE "skip")
    /\ UNCHANGED <<db, api, tasks, faults>>

SkipPending(l) ==
    /\ l.at = "skip" /\ campaign.status = "STOPPING"
    /\ row' = [u \in Units |-> IF row[u].sched = "PENDING"
                               THEN [row[u] EXCEPT !.sched = "SKIPPED"]
                               ELSE row[u]]
    /\ counts' = [counts EXCEPT !.skipped =
                    @ + Cardinality({u \in Units : row[u].sched = "PENDING"})]
    /\ Move(l, "settle")
    /\ UNCHANGED <<campaign, ledger, api, tasks, faults>>

\* settle_stop follows the intent that the row has by now.
SettleTarget == IF campaign.intent = "PAUSE" THEN "PAUSED" ELSE "ABORTED"

SettleStop(l) ==
    /\ l.at = "settle"
    /\ SettleTarget \in CampaignTransitions[campaign.status]
    /\ campaign' = [campaign EXCEPT !.status = SettleTarget, !.stale = l.stale]
    /\ Leave(l)
    /\ UNCHANGED <<ledger, counts, row, api, tasks, faults>>

\* All units are sealed and the report needs reviews.
SeeSealed(k) ==
    /\ Free(k) /\ NoTaskOf(k)
    /\ campaign.status = "RUNNING" /\ ExecutionSealed
    /\ Enter(k, 1, "review")
    /\ UNCHANGED <<db, api, tasks, faults>>

AwaitReview(l) ==
    /\ l.at = "review"
    /\ "AWAITING_REVIEW" \in CampaignTransitions[campaign.status]
    /\ campaign' = [campaign EXCEPT !.status = "AWAITING_REVIEW"]
    /\ Leave(l)
    /\ UNCHANGED <<ledger, counts, row, api, tasks, faults>>

\* The campaign moved on between the loop's look and its transaction.
TransitionRefused(l) ==
    /\ \/ l.at = "skip" /\ campaign.status # "STOPPING"
       \/ /\ l.at = "settle"
          /\ SettleTarget \notin CampaignTransitions[campaign.status]
       \/ /\ l.at = "review"
          /\ "AWAITING_REVIEW" \notin CampaignTransitions[campaign.status]
    /\ RunnerEnds(l.id)
    /\ UNCHANGED <<db, api, faults>>

\* _hard_violations of a clean candidate
HardViolation ==
    \/ \E u \in Units : /\ row[u].sched \in {"COLLECTED", "FAILED"}
                        /\ row[u].defect \/ row[u].over
    \/ Exposure("calls") > Ceiling["calls"]

\* generate binds a final report: a hard violation at any time, an aborted
\* campaign, or sealed units whose sample or reviews decide.
BindFinalReport ==
    /\ ~campaign.bound
    /\ campaign.status \notin {"CREATED", "PAUSED"} /\ campaign.intent # "PAUSE"
    /\ HardViolation \/ campaign.status = "ABORTED" \/ ExecutionSealed
    /\ campaign' = [campaign EXCEPT !.bound = TRUE,
            !.status = IF campaign.intent = "NONE" THEN "COMPLETED" ELSE "ABORTED"]
    /\ UNCHANGED <<ledger, counts, row, api, tasks, loops, faults>>

-----------------------------------------------------------------------------
(***************************************************************************)
(* The candidate and the failures.                                          *)
(***************************************************************************)
AcceptLate(u) ==
    /\ u \in sent
    /\ sent' = sent \ {u}
    /\ run' \in {run, Accepted(u)}
    /\ UNCHANGED <<db, tasks, loops, faults>>

RunTerminates(u) ==
    /\ run[u] = "active"
    /\ run' = [run EXCEPT ![u] = "terminal"]
    /\ UNCHANGED <<db, sent, tasks, loops, faults>>

\* The leases of a task or collector that is gone run out.
LeaseExpires(u) ==
    /\ row[u].lease = "valid"
    /\ \A x \in tasks : x.unit = u => x.id # row[u].holder
    /\ row' = [row EXCEPT ![u].lease = "expired"]
    /\ UNCHANGED <<campaign, ledger, counts, api, tasks, loops, faults>>

CollectorLeaseExpires(u) ==
    /\ row[u].cLease = "valid"
    /\ \A l \in loops : l.unit = u => l.id # row[u].cHolder
    /\ row' = [row EXCEPT ![u].cLease = "expired"]
    /\ UNCHANGED <<campaign, ledger, counts, api, tasks, loops, faults>>

Fault == faults < MaxFaults /\ faults' = faults + 1

\* The lease of a task or collector that is merely slow runs out.
LeaseLost(x) ==
    /\ Fault /\ Current(x)
    /\ row' = [row EXCEPT ![x.unit].lease = "expired"]
    /\ UNCHANGED <<campaign, ledger, counts, api, tasks, loops>>

CollectorLeaseLost(l) ==
    /\ Fault /\ CollectorCurrent(l)
    /\ row' = [row EXCEPT ![l.unit].cLease = "expired"]
    /\ UNCHANGED <<campaign, ledger, counts, api, tasks, loops>>

RunnerCrashes(k) ==
    /\ Fault /\ ~(Free(k) /\ NoTaskOf(k))
    /\ RunnerEnds(k)
    /\ UNCHANGED <<db, api>>

-----------------------------------------------------------------------------
Operator == Materialize \/ Start \/ Pause \/ Resume \/ Abort \/ BindFinalReport

TaskStep(x) ==
    \/ LosesLease(x) \/ ReserveRefused(x) \/ ReserveAdmitted(x)
    \/ ReserveDeferred(x) \/ ReserveDenied(x) \/ RenewAfterDeferral(x)
    \/ PrepareConversation(x) \/ CreateConversation(x) \/ BindConversation(x)
    \/ PrepareSubmission(x) \/ SubmitMessage(x) \/ BindSubmission(x)
    \/ Refused(x) \/ FatalStop(x) \/ MarkFailure(x) \/ FailedBefore(x)

LoopStep(l) ==
    \/ Persist(l) \/ PersistedBefore(l) \/ CollectionFails(l)
    \/ CollectorFatalStop(l) \/ MarkCollectorFailure(l)
    \/ CollectorFailedBefore(l) \/ CollectorLosesLease(l)
    \/ SkipPending(l) \/ SettleStop(l) \/ AwaitReview(l) \/ TransitionRefused(l)

LoopTurn(k) ==
    \/ \E t \in Tasks, u \in Units : RunnerOf[t] = k /\ Claim(t, u)
    \/ \E u \in Units : CollectorClaim(k, u)
    \/ SeeDrained(k) \/ SeeSealed(k)

Failures ==
    \/ \E x \in tasks : LeaseLost(x)
    \/ \E l \in loops : CollectorLeaseLost(l)
    \/ \E k \in Runners : RunnerCrashes(k)

Next ==
    \/ Operator \/ Failures
    \/ \E x \in tasks : TaskStep(x)
    \/ \E l \in loops : LoopStep(l)
    \/ \E k \in Runners : LoopTurn(k)
    \/ \E u \in Units : \/ AcceptLate(u) \/ RunTerminates(u)
                        \/ LeaseExpires(u) \/ CollectorLeaseExpires(u)

Spec == Init /\ [][Next]_vars

\* A runner works on, the candidate's runs end, leases run out.
Fairness ==
    /\ \A t \in Tasks : WF_vars(\E x \in tasks : x.id = t /\ TaskStep(x))
    /\ \A k \in Runners : /\ WF_vars(\E l \in loops : l.id = k /\ LoopStep(l))
                          /\ WF_vars(LoopTurn(k))
    /\ \A u \in Units : /\ WF_vars(RunTerminates(u))
                        /\ WF_vars(LeaseExpires(u))
                        /\ WF_vars(CollectorLeaseExpires(u))

FairSpec == Spec /\ Fairness

-----------------------------------------------------------------------------
(***************************************************************************)
(* What holds.                                                              *)
(***************************************************************************)
\* Concurrent admissions never reserve more than the ceilings leave: spent,
\* possibly spent and reserved amounts fit every ceiling, unless a run was
\* denied or turned out to use more than was reserved for it.
NeverOversold ==
    \/ \A k \in Resource : Exposure(k) <= Ceiling[k]
    \/ \E u \in Units : row[u].over

\* What the first n units, or all of them, add up to.
PartialSums(amount) ==
    LET upTo[n \in 0..NumUnits] ==
            IF n = 0 THEN 0 ELSE upTo[n - 1] + amount[n]
    IN  upTo
Sum(amount) == PartialSums(amount)[NumUnits]

\* What the settled units were charged.
Observed(k) ==
    [u \in Units |-> IF row[u].resv = "SETTLED" THEN row[u].used.observed[k] ELSE 0]
Possibly(k) ==
    [u \in Units |-> IF row[u].resv = "SETTLED" THEN row[u].used.possibly[k] ELSE 0]

With(S) == {u \in Units : row[u].resv \in S}
In(S)   == {u \in Units : row[u].sched \in S}

\* The campaign's ledgers and counters are what its result rows add up to:
\* no crash, replay or lost lease reserves, settles, releases or counts twice.
LedgerBalances ==
    /\ \A k \in Resource :
        /\ ledger.reserved[k] = Cardinality(With({"ACTIVE"})) * RunReserve[k]
        /\ ledger.observed[k] = Sum(Observed(k))
        /\ ledger.possibly[k] = Sum(Possibly(k))
    /\ counts.collected = Cardinality(In({"COLLECTED"}))
    /\ counts.failed = Cardinality(In({"FAILED"}))
    /\ counts.skipped = Cardinality(In({"SKIPPED"}))

\* At most max_concurrency units are between claim and collection, although
\* a claim does not count units whose lease has expired.
InFlightBounded == Cardinality(In(Leased \cup {"SUBMITTED"})) <= MaxConcurrency

\* A unit whose run was bound is closed only by settling what the run used.
SubmittedIsSettled ==
    [][\A u \in Units :
        row[u].sched = "SUBMITTED" /\ row'[u].sched # "SUBMITTED"
            => row'[u].sched \in {"COLLECTED", "FAILED"}
               /\ row[u].resv = "ACTIVE" /\ row'[u].resv = "SETTLED"]_vars

\* A sealed unit is never touched again, whoever still works on it, and a
\* reservation is made once and closed once.
ClosedOnce ==
    [][\A u \in Units :
        /\ row[u].sched \in Sealed => row'[u] = row[u]
        /\ row[u].resv # row'[u].resv =>
            <<row[u].resv, row'[u].resv>> \in
                {<<"NONE", "ACTIVE">>, <<"ACTIVE", "SETTLED">>,
                 <<"ACTIVE", "RELEASED">>}]_vars

\* Nothing is claimed, submitted or reserved.
NothingInFlight == In(Leased \cup {"SUBMITTED"}) = {} /\ With({"ACTIVE"}) = {}

\* The loop sees that nothing is in flight in one transaction and makes the
\* campaign PAUSED in a later one.  Whatever the other runners, the operator and
\* the faults do in between, a campaign is PAUSED with something in flight only
\* by a loop that looked before the campaign was paused by another one and
\* resumed.
UndrainedIsStale ==
    campaign.status = "PAUSED" /\ ~NothingInFlight => campaign.stale

\* A stop that was asked for ends.
StopDrains == campaign.status = "STOPPING" ~> campaign.status # "STOPPING"

-----------------------------------------------------------------------------
(***************************************************************************)
(* What the documents say and the code does not do.                         *)
(***************************************************************************)
\* PAUSED means drained.
PausedIsDrained == campaign.status = "PAUSED" => NothingInFlight

\* A reservation is released only when the message was never accepted
\* (design, 8.2, rule 3).
ReleasedNeverAccepted ==
    \A u \in Units : row[u].resv = "RELEASED" => run[u] = "none"

\* In the end no reservation is ACTIVE (plan, task 4).
FinalHasNoActive == campaign.bound => With({"ACTIVE"}) = {}
=============================================================================

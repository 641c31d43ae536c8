------------------------ MODULE ShadowCampaignProofs ------------------------
(***************************************************************************)
(* Proofs about ShadowCampaign for every number of units, tasks and runners *)
(* and every reserve, ceiling and set of usages.  Inv is inductive, and the *)
(* action properties follow from it step by step; the books (sums over the  *)
(* settled units) balance by induction over the units, as a least number    *)
(* for which they would not; and a pause is drained unless the loop that    *)
(* settled it is from before the last resume (PauseInv).                    *)
(***************************************************************************)
EXTENDS ShadowCampaign, FiniteSetTheorems, TLAPS

(***************************************************************************)
(* The inductive invariant.                                                 *)
(***************************************************************************)
Reserved == With({"ACTIVE"})

\* Which reservation and which leases go with which scheduling state, and that
\* a unit whose budget was violated has no reservation still to be settled.
UnitShape(r) ==
    /\ r.sched = "PENDING" => r.resv = "NONE"
    /\ r.sched \in Leased => r.resv \in {"NONE", "ACTIVE"} /\ r.lease # "none"
    /\ r.sched = "SUBMITTED" => r.resv = "ACTIVE"
    /\ r.over => r.resv \in {"NONE", "SETTLED"}
    /\ r.lease # "none" => r.sched \in Leased
    /\ r.cLease # "none" => r.sched = "SUBMITTED"

Shape == \A u \in Units : UnitShape(row[u])

\* The reserve in the ledger is that of the ACTIVE reservations.
ReserveIsExact ==
    \A k \in Resource : ledger.reserved[k] = Cardinality(Reserved) * RunReserve[k]

\* A campaign that was stopped for good never runs again.
Doomed ==
    /\ campaign.status \in {"STOPPING", "AWAITING_REVIEW", "ABORTED", "COMPLETED"}
    /\ campaign.intent \in {"ABORT", "FATAL", "BUDGET", "CALL_CEILING"}

\* A denied unit dooms its campaign, so it is never admitted later on.
DenialIsFinal ==
    (\E u \in Units : row[u].over /\ row[u].resv = "NONE") => Doomed

\* Units leave PENDING in the order of their ordinals.
Ordered ==
    \A u, v \in Units :
        u < v /\ row[u].sched = "PENDING" => row[v].sched = "PENDING"

Inv == TypeOK /\ Shape /\ ReserveIsExact /\ DenialIsFinal /\ Ordered
(***************************************************************************)
(* What a step may do to the rows and the ledgers.                          *)
(***************************************************************************)
InProgress == Leased \cup {"SUBMITTED"}

Others(u) == \A v \in Units : v # u => row'[v] = row[v]

\* Units that are closed in state s: the column of the campaign row.
Counted(s) ==
    CASE s = "COLLECTED" -> counts.collected
      [] s = "FAILED"    -> counts.failed
      [] s = "SKIPPED"   -> counts.skipped

\* One more unit is closed in state s, or none is.
Counts(s) ==
    \A z \in Sealed : Counted(z)' = Counted(z) + IF z = s THEN 1 ELSE 0
CountsNone == \A z \in Sealed : Counted(z)' = Counted(z)

\* Neither rows nor ledgers change.
Keeps == UNCHANGED <<ledger, row>> /\ CountsNone /\ (Doomed => Doomed')

\* A unit in progress changes, but not its reservation, and it stays so.
Touches(u) ==
    /\ Others(u) /\ UNCHANGED <<campaign, ledger>> /\ CountsNone
    /\ row[u].sched \in InProgress /\ row'[u].sched \in InProgress
    /\ row[u].sched = "SUBMITTED" => row'[u].sched = "SUBMITTED"
    /\ row'[u].resv = row[u].resv /\ row'[u].over = row[u].over
    /\ row'[u].used = row[u].used
    /\ UnitShape(row'[u])

\* A pending unit is claimed.
Opens(u) ==
    /\ Others(u) /\ UNCHANGED <<campaign, ledger>> /\ CountsNone
    /\ row[u].sched = "PENDING" /\ row'[u].sched = "CLAIMED"
    /\ row'[u].resv = row[u].resv /\ row'[u].over = row[u].over
    /\ row'[u].used = row[u].used
    /\ UnitShape(row'[u])
    /\ campaign.status = "RUNNING"
    /\ Cardinality(ActiveUnits) < MaxConcurrency
    /\ \A v \in 1..(u - 1) : ~Claimable(v)

\* A claimed unit is admitted.
Reserves(u) ==
    /\ Others(u) /\ UNCHANGED campaign /\ CountsNone
    /\ row[u].sched \in Leased /\ row'[u].sched = row[u].sched
    /\ row'[u].lease = row[u].lease /\ row'[u].cLease = row[u].cLease
    /\ row'[u].over = row[u].over /\ row'[u].used = row[u].used
    /\ row[u].resv = "NONE" /\ row'[u].resv = "ACTIVE"
    /\ campaign.status = "RUNNING" /\ Admitted
    /\ ledger' = [ledger EXCEPT !.reserved = Plus(@, RunReserve)]

\* A claimed unit is denied.
Denies(u) ==
    /\ Others(u) /\ UNCHANGED ledger /\ CountsNone
    /\ row[u].sched \in Leased /\ row'[u].sched = row[u].sched
    /\ row'[u].lease = row[u].lease /\ row'[u].cLease = row[u].cLease
    /\ row'[u].over /\ row'[u].used = row[u].used
    /\ row[u].resv = "NONE" /\ row'[u].resv = "NONE"
    /\ Doomed'

\* The reserve of a unit becomes what it used: nothing, if it is released.
Charges(u, us) ==
    /\ ledger'.reserved = Minus(ledger.reserved, RunReserve)
    /\ ledger'.observed = Plus(ledger.observed, us.observed)
    /\ ledger'.possibly = Plus(ledger.possibly, us.possibly)
    /\ row'[u].resv = "SETTLED" => row'[u].used = us
    /\ row'[u].resv = "RELEASED" => us = Unused
    /\ \/ row'[u].over
       \/ \A k \in Resource : us.observed[k] + us.possibly[k] <= RunReserve[k]

\* A unit in progress is sealed and its reservation closed.
Closes(u) ==
    /\ Others(u) /\ Counts(row'[u].sched)
    /\ row[u].sched \in InProgress /\ row'[u].sched \in {"COLLECTED", "FAILED"}
    /\ row'[u].lease = "none" /\ row'[u].cLease = "none"
    /\ row[u].resv = "ACTIVE" /\ row'[u].resv \in {"SETTLED", "RELEASED"}
    /\ row[u].sched = "SUBMITTED" => row'[u].resv = "SETTLED"
    /\ row'[u].over => row'[u].resv = "SETTLED"
    /\ \E us \in Usage : Charges(u, us)
    /\ Doomed => Doomed'

\* A unit without a reservation fails.
Drops(u) ==
    /\ Others(u) /\ UNCHANGED <<campaign, ledger>> /\ Counts("FAILED")
    /\ row[u].sched \in Leased /\ row'[u].sched = "FAILED"
    /\ row'[u].lease = "none" /\ row'[u].cLease = "none"
    /\ row[u].resv = "NONE" /\ row'[u].resv = "NONE"
    /\ row'[u].over = row[u].over

\* All pending units are skipped.
Skips ==
    /\ UNCHANGED <<campaign, ledger>>
    /\ \A z \in Sealed : Counted(z)' = Counted(z) +
            IF z = "SKIPPED" THEN Cardinality(In({"PENDING"})) ELSE 0
    /\ \A u \in Units :
        \/ row[u].sched # "PENDING" /\ row'[u] = row[u]
        \/ /\ row[u].sched = "PENDING" /\ row'[u].sched = "SKIPPED"
           /\ row'[u].resv = row[u].resv /\ row'[u].over = row[u].over
           /\ row'[u].lease = row[u].lease /\ row'[u].cLease = row[u].cLease

\* Every step but the claim of a pending unit.
Calm ==
    \/ Keeps \/ Skips
    \/ \E u \in Units : \/ Touches(u) \/ Reserves(u)
                        \/ Denies(u) \/ Closes(u) \/ Drops(u)

Kinds == Calm \/ \E u \in Units : Opens(u)

-----------------------------------------------------------------------------
\* Sums and differences of amounts.
LEMMA AmountFacts ==
    /\ Zero \in Amount
    /\ \A f, g \in Amount : Plus(f, g) \in Amount
    /\ \A f, g \in Amount :
        (\A k \in Resource : f[k] >= g[k]) => Minus(f, g) \in Amount
  BY DEF Zero, Amount, Plus, Minus

\* Finitely many units hold a reservation.
LEMMA ReservedFinite ==
    IsFiniteSet(Reserved) /\ Cardinality(Reserved) \in Nat
<1>1. IsFiniteSet(Units)
  BY FS_Interval, CampaignAssumption DEF Units
<1>2. Reserved \subseteq Units
  BY DEF Reserved, With
<1> QED BY <1>1, <1>2, FS_Subset, FS_CardinalityType

\* An ACTIVE reservation is in the ledger, so that closing it leaves a
\* natural number.
LEMMA ReserveCovers ==
    ASSUME TypeOK, ReserveIsExact, NEW u \in Units, row[u].resv = "ACTIVE"
    PROVE  \A k \in Resource : ledger.reserved[k] >= RunReserve[k]
<1>1. u \in Reserved
  BY DEF Reserved, With
<1>2. Cardinality(Reserved) # 0
  BY <1>1, ReservedFinite, FS_EmptySet
<1>3. \A n \in Nat, r \in Nat : n # 0 => n * r >= r
  OBVIOUS
<1>4. \A k \in Resource : RunReserve[k] \in Nat
  BY CampaignAssumption DEF Amount
<1> QED BY <1>2, <1>3, <1>4, ReservedFinite DEF ReserveIsExact
-----------------------------------------------------------------------------
\* What TypeOK says of a unit.
LEMMA RowFields ==
    ASSUME TypeOK, NEW u \in Units
    PROVE  row[u] \in Row
  BY DEF TypeOK

\* Replacing one unit by another keeps the units typed.
LEMMA RowUpdate ==
    ASSUME TypeOK, NEW u \in Units, NEW r \in Row
    PROVE  [row EXCEPT ![u] = r] \in [Units -> Row]
  BY DEF TypeOK

\* Every edit of a row that the actions make yields a row.
LEMMA RowEdits ==
    ASSUME TypeOK, NEW u \in Units
    PROVE  LET Rows == [Units -> Row] IN
           /\ \A s \in SchedulingState : [row EXCEPT ![u].sched = s] \in Rows
           /\ \A s \in Lease : [row EXCEPT ![u].lease = s] \in Rows
           /\ \A s \in SchedulingState, t \in Lease, h \in Tasks \cup {None} :
                [row EXCEPT ![u].sched = s, ![u].lease = t, ![u].holder = h] \in Rows
           /\ \A n \in 0..2 : [row EXCEPT ![u].conv = n] \in Rows
           /\ \A n \in 0..2 : [row EXCEPT ![u].sub = n] \in Rows
           /\ \A s \in ReservationState : [row EXCEPT ![u].resv = s] \in Rows
           /\ \A b \in BOOLEAN : [row EXCEPT ![u].over = b] \in Rows
           /\ \A s \in Lease : [row EXCEPT ![u].cLease = s] \in Rows
           /\ \A s \in Lease, k \in Runners \cup {None} :
                [row EXCEPT ![u].cLease = s, ![u].cHolder = k] \in Rows
<1>1. ASSUME NEW r \in Row
      PROVE /\ \A s \in SchedulingState : [r EXCEPT !.sched = s] \in Row
            /\ \A s \in Lease : [r EXCEPT !.lease = s] \in Row
            /\ \A s \in SchedulingState, t \in Lease, h \in Tasks \cup {None} :
                 [r EXCEPT !.sched = s, !.lease = t, !.holder = h] \in Row
            /\ \A n \in 0..2 : [r EXCEPT !.conv = n] \in Row
            /\ \A n \in 0..2 : [r EXCEPT !.sub = n] \in Row
            /\ \A s \in ReservationState : [r EXCEPT !.resv = s] \in Row
            /\ \A b \in BOOLEAN : [r EXCEPT !.over = b] \in Row
            /\ \A s \in Lease : [r EXCEPT !.cLease = s] \in Row
            /\ \A s \in Lease, k \in Runners \cup {None} :
                 [r EXCEPT !.cLease = s, !.cHolder = k] \in Row
  BY DEF Row
<1> QED BY <1>1, RowFields, RowUpdate

\* ... and every step of a task yields a task.
LEMMA TaskMoves ==
    ASSUME TypeOK, NEW x \in tasks
    PROVE  /\ \A p \in TaskPoint : Goto(x, p) => tasks' \subseteq Task
           /\ \A w \in Failure : Fails(x, w) => tasks' \subseteq Task
           /\ \A w \in Failure :
                Continue(x, [x EXCEPT !.at = "markFailure", !.why = w])
                    => tasks' \subseteq Task
           /\ \A p \in TaskPoint, n \in 0..2 :
                Continue(x, [x EXCEPT !.at = p, !.tries = n]) => tasks' \subseteq Task
           /\ Ends(x) => tasks' \subseteq Task
<1>1. x \in Task /\ (tasks \ {x}) \subseteq Task
  BY DEF TypeOK
<1>2. /\ \A p \in TaskPoint : [x EXCEPT !.at = p] \in Task
      /\ \A w \in Failure : [x EXCEPT !.at = "fatalStop", !.why = w] \in Task
      /\ \A w \in Failure : [x EXCEPT !.at = "markFailure", !.why = w] \in Task
      /\ \A p \in TaskPoint, n \in 0..2 : [x EXCEPT !.at = p, !.tries = n] \in Task
  BY <1>1 DEF Task, TaskPoint
<1> QED BY <1>1, <1>2 DEF Goto, Fails, Continue, Ends

\* The points of a task that the actions name.
LEMMA Points ==
    /\ \A p \in {"reserve", "defer", "prepareConversation", "createConversation",
                 "bindConversation", "prepareSubmission", "submitMessage",
                 "bindSubmission", "markFailure"} : p \in TaskPoint
    /\ \A w \in {"denied", "invariant", "rejected", "uncertain"} : w \in Failure
  BY DEF TaskPoint, Failure

\* What TypeOK says of a task.
LEMMA TaskFields ==
    ASSUME TypeOK, NEW x \in tasks
    PROVE  x \in Task /\ x.unit \in Units /\ x.id \in Tasks
  BY DEF TypeOK, Task

\* What TypeOK says of a loop.
LEMMA LoopFields ==
    ASSUME TypeOK, NEW l \in loops
    PROVE  l \in Loop /\ l.unit \in Units /\ l.id \in Runners /\ l.stale \in BOOLEAN
  BY DEF TypeOK, Loop

\* A created campaign is typed.
LEMMA TypeInit == Init => TypeOK
<1> SUFFICES ASSUME Init PROVE TypeOK
  OBVIOUS
<1>1. Unused \in Usage
  BY AmountFacts DEF Unused, Usage
<1>2. row \in [Units -> Row]
  BY <1>1 DEF Init, Row, SchedulingState, Lease, ReservationState
<1>3. ledger \in [reserved : Amount, observed : Amount, possibly : Amount]
  BY AmountFacts DEF Init
<1>4. campaign \in Campaign
  BY DEF Init, Campaign, CampaignStatus, StopIntent
<1>5. faults \in 0..MaxFaults
  BY CampaignAssumption DEF Init
<1> QED BY <1>2, <1>3, <1>4, <1>5 DEF Init, TypeOK

\* The commands of the owner.
LEMMA TypeOperator ==
    ASSUME TypeOK, Operator
    PROVE  TypeOK'
<1>1. UNCHANGED <<ledger, counts, row, run, sent, tasks, faults>>
  BY DEF Operator, Materialize, Start, Pause, Resume, Abort, BindFinalReport,
         Command, api
<1>2. campaign' \in Campaign
  BY DEF TypeOK, Campaign, Operator, Materialize, Start, Pause, Resume, Abort,
         BindFinalReport, Command, CampaignStatus, StopIntent
<1>3. loops' \subseteq Loop
  <2>1. CASE Resume
    <3>1. \A l \in loops : [l EXCEPT !.stale = TRUE] \in Loop
      BY DEF TypeOK, Loop
    <3> QED BY <2>1, <3>1 DEF Resume
  <2>2. CASE UNCHANGED loops
    BY <2>2 DEF TypeOK
  <2> QED BY <2>1, <2>2 DEF Operator, Materialize, Start, Pause, Abort,
                            BindFinalReport, Command
<1> QED BY <1>1, <1>2, <1>3 DEF TypeOK

\* A step that leaves the rest alone needs to be checked on rows and tasks.
LEMMA TypeRows ==
    ASSUME TypeOK, row' \in [Units -> Row], tasks' \subseteq Task,
           counts' \in [submitted : Nat, collected : Nat, failed : Nat, skipped : Nat],
           UNCHANGED <<campaign, ledger, run, sent, loops, faults>>
    PROVE  TypeOK'
  BY DEF TypeOK

\* A step that changes only tasks keeps the types if it keeps those of the tasks.
LEMMA TypeTasks ==
    ASSUME TypeOK, tasks' \subseteq Task, UNCHANGED <<db, api, loops, faults>>
    PROVE  TypeOK'
  BY DEF TypeOK, db, api

\* Every step of a submission task keeps the types.
LEMMA TypeTask ==
    ASSUME TypeOK, ReserveIsExact, Shape, NEW x \in tasks, TaskStep(x)
    PROVE  TypeOK'
<1> USE TaskFields
<1>0. \A n \in 0..2 : Saturated(n) \in 0..2
  BY DEF Saturated
<1>1. CASE LosesLease(x)
  BY <1>1 DEF TypeOK, LosesLease, db, api
<1>2. CASE ReserveRefused(x)
  <2>1. tasks' \subseteq Task
    BY <1>2, TaskMoves, Points DEF ReserveRefused
  <2> QED BY <1>2, <2>1, TypeTasks DEF ReserveRefused
<1>3. CASE ReserveAdmitted(x)
  <2>1. "ACTIVE" \in ReservationState
    BY DEF ReservationState
  <2>2. row' \in [Units -> Row]
    BY <1>3, <2>1, RowEdits DEF ReserveAdmitted
  <2>3. tasks' \subseteq Task
    BY <1>3, TaskMoves, Points DEF ReserveAdmitted
  <2>4. ledger' \in [reserved : Amount, observed : Amount, possibly : Amount]
    BY <1>3, AmountFacts, CampaignAssumption DEF ReserveAdmitted, TypeOK
  <2> QED BY <1>3, <2>2, <2>3, <2>4 DEF TypeOK, ReserveAdmitted, api
<1>4. CASE ReserveDeferred(x) \/ RenewAfterDeferral(x)
  <2>1. tasks' \subseteq Task
    BY <1>4, TaskMoves, Points DEF ReserveDeferred, RenewAfterDeferral
  <2> QED BY <1>4, <2>1, TypeTasks DEF ReserveDeferred, RenewAfterDeferral
<1>5. CASE ReserveDenied(x)
  <2>1. row' \in [Units -> Row]
    BY <1>5, RowEdits DEF ReserveDenied
  <2>2. tasks' \subseteq Task
    BY <1>5, TaskMoves, Points DEF ReserveDenied
  <2>3. campaign' \in Campaign
    BY <1>5 DEF ReserveDenied, TypeOK, Campaign, CampaignStatus, StopIntent, CeilingIntent
  <2> QED BY <1>5, <2>1, <2>2, <2>3 DEF TypeOK, ReserveDenied, api
<1>6. CASE PrepareConversation(x)
  <2>1. Saturated(row[x.unit].conv) \in 0..2
    BY <1>0, RowFields DEF Row
  <2>2. row' \in [Units -> Row]
    BY <1>6, <2>1, RowEdits DEF PrepareConversation
  <2>3. row'[x.unit].conv \in 0..2
    BY <2>2 DEF Row
  <2>4. tasks' \subseteq Task
    BY <1>6, <2>3, TaskMoves, Points DEF PrepareConversation
  <2> QED BY <1>6, <2>2, <2>4, TypeRows DEF TypeOK, PrepareConversation, api
<1>7. CASE CreateConversation(x)
  <2>1. tasks' \subseteq Task
    BY <1>7, TaskMoves, Points DEF CreateConversation
  <2> QED BY <1>7, <2>1, TypeTasks DEF CreateConversation
<1>8. CASE BindConversation(x)
  <2>1. "CONVERSATION_BOUND" \in SchedulingState
    BY DEF SchedulingState
  <2>2. row' \in [Units -> Row]
    BY <1>8, <2>1, RowEdits DEF BindConversation
  <2>3. tasks' \subseteq Task
    BY <1>8, TaskMoves, Points DEF BindConversation
  <2> QED BY <1>8, <2>2, <2>3, TypeRows DEF TypeOK, BindConversation, api
<1>9. CASE PrepareSubmission(x)
  <2>1. Saturated(row[x.unit].sub) \in 0..2
    BY <1>0, RowFields DEF Row
  <2>2. row' \in [Units -> Row]
    BY <1>9, <2>1, RowEdits DEF PrepareSubmission
  <2>3. row'[x.unit].sub \in 0..2
    BY <2>2 DEF Row
  <2>4. tasks' \subseteq Task
    BY <1>9, <2>3, TaskMoves, Points DEF PrepareSubmission
  <2> QED BY <1>9, <2>2, <2>4, TypeRows DEF TypeOK, PrepareSubmission, api
<1>10. CASE SubmitMessage(x)
  <2>1. tasks' \subseteq Task
    BY <1>10, TaskMoves, Points DEF SubmitMessage
  <2>2. run' \in [Units -> {"none", "active", "terminal"}] /\ sent' \subseteq Units
    BY <1>10 DEF TypeOK, SubmitMessage, Accepted, api
  <2> QED BY <1>10, <2>1, <2>2 DEF TypeOK, SubmitMessage, db
<1>11. CASE BindSubmission(x)
  <2>1. "SUBMITTED" \in SchedulingState /\ "none" \in Lease
    BY DEF SchedulingState, Lease
  <2>2. [row EXCEPT ![x.unit].sched = "SUBMITTED", ![x.unit].lease = "none",
                    ![x.unit].holder = None] \in [Units -> Row]
    <3>1. PICK u \in Units : u = x.unit
      BY <1>0
    <3>2. \A s \in SchedulingState, t \in Lease, h \in Tasks \cup {None} :
            [row EXCEPT ![u].sched = s, ![u].lease = t, ![u].holder = h] \in [Units -> Row]
      BY RowEdits
    <3>3. [row EXCEPT ![u].sched = "SUBMITTED", ![u].lease = "none", ![u].holder = None]
            \in [Units -> Row]
      BY <2>1, <3>2, Zenon
    <3> QED BY <3>1, <3>3
  <2>3. row' \in [Units -> Row]
    <3>1. CASE UNCHANGED row
      BY <3>1 DEF TypeOK
    <3> QED BY <1>11, <2>2, <3>1 DEF BindSubmission
  <2>4. counts' \in [submitted : Nat, collected : Nat, failed : Nat, skipped : Nat]
    BY <1>11 DEF BindSubmission, TypeOK
  <2>5. tasks' \subseteq Task
    BY <1>11, TaskMoves DEF BindSubmission
  <2> QED BY <1>11, <2>3, <2>4, <2>5, TypeRows DEF BindSubmission, api
<1>12. CASE Refused(x)
  <2>1. tasks' \subseteq Task
    BY <1>12, TaskMoves, Points DEF Refused
  <2> QED BY <1>12, <2>1, TypeTasks DEF Refused
<1>13. CASE FatalStop(x)
  <2>1. tasks' \subseteq Task
    BY <1>13, TaskMoves, Points DEF FatalStop
  <2>2. campaign' \in Campaign
    BY <1>13 DEF FatalStop, FatalStopped, TypeOK, Campaign, CampaignStatus, StopIntent
  <2> QED BY <1>13, <2>1, <2>2 DEF TypeOK, FatalStop, api
<1>14. CASE MarkFailure(x)
  <2> DEFINE u == x.unit
             used == [observed |-> Zero, possibly |-> RunReserve]
  <2>0. row[u] \in Row /\ used \in Usage
    BY RowFields, AmountFacts, CampaignAssumption DEF Usage
  <2>1. FailedReservation(row[u], x.why) \in Row
    <3> HIDE DEF used
    <3>1. ASSUME NEW r \in Row
          PROVE  /\ [r EXCEPT !.resv = "SETTLED", !.used = used] \in Row
                 /\ [r EXCEPT !.resv = "RELEASED"] \in Row
      BY <2>0 DEF Row, ReservationState
    <3> QED BY <2>0, <3>1 DEF FailedReservation, used
  <2>2. row' \in [Units -> Row]
    <3>1. ASSUME NEW r \in Row, NEW b \in BOOLEAN
          PROVE  [r EXCEPT !.sched = "FAILED", !.lease = "none", !.holder = None,
                           !.defect = b] \in Row
      BY DEF Row, SchedulingState, Lease
    <3> QED BY <1>14, <2>1, <3>1, RowUpdate DEF MarkFailure, Fail
  <2>3. row[u].resv \in {"NONE", "ACTIVE"}
    BY <1>14 DEF MarkFailure, Current, Shape, UnitShape
  <2>4. ledger' \in [reserved : Amount, observed : Amount, possibly : Amount]
    <3>1. CASE row[u].resv = "NONE"
      BY <1>14, <3>1 DEF MarkFailure, Fail, FailedLedger, TypeOK
    <3>2. CASE row[u].resv = "ACTIVE"
      <4>1. Minus(ledger.reserved, RunReserve) \in Amount
        BY <3>2, ReserveCovers, AmountFacts, CampaignAssumption DEF TypeOK
      <4>2. Plus(ledger.possibly, RunReserve) \in Amount
        BY AmountFacts, CampaignAssumption DEF TypeOK
      <4> QED BY <1>14, <3>2, <4>1, <4>2 DEF MarkFailure, Fail, FailedLedger, TypeOK
    <3> QED BY <2>3, <3>1, <3>2
  <2> QED BY <1>14, <2>2, <2>4 DEF MarkFailure, Fail, Ends, TypeOK, api
<1>15. CASE FailedBefore(x)
  BY <1>15 DEF TypeOK, FailedBefore, Ends, db, api
<1> QED
  BY <1>1, <1>2, <1>3, <1>4, <1>5, <1>6, <1>7, <1>8, <1>9, <1>10, <1>11, <1>12,
     <1>13, <1>14, <1>15 DEF TaskStep

\* The settlement of an ACTIVE reservation.
LEMMA TypeSeal ==
    ASSUME TypeOK, ReserveIsExact, NEW l \in loops, NEW state \in SchedulingState,
           row[l.unit].resv = "ACTIVE", Seal(l, state)
    PROVE  /\ row' \in [Units -> Row]
           /\ ledger' \in [reserved : Amount, observed : Amount, possibly : Amount]
           /\ campaign' \in Campaign
<1> USE LoopFields
<1>1. PICK us \in Usages, d \in BOOLEAN :
        /\ SettleLedger(us)
        /\ row' = [row EXCEPT ![l.unit] =
                    [Settled(row[l.unit], us) EXCEPT
                        !.sched = state, !.cLease = "none", !.cHolder = None,
                        !.defect = d]]
  BY DEF Seal
<1>2. us \in Usage
  BY CampaignAssumption
<1>3. row' \in [Units -> Row]
  <2>1. ASSUME NEW r \in Row
        PROVE  Settled(r, us) \in Row
    BY <1>2 DEF Settled, Row, ReservationState
  <2>2. ASSUME NEW r \in Row
        PROVE  [r EXCEPT !.sched = state, !.cLease = "none", !.cHolder = None,
                         !.defect = d] \in Row
    BY DEF Row, Lease
  <2> QED BY <1>1, <2>1, <2>2, RowFields, RowUpdate
<1>4. Minus(ledger.reserved, RunReserve) \in Amount
  BY ReserveCovers, AmountFacts, CampaignAssumption DEF TypeOK
<1>5. ledger' \in [reserved : Amount, observed : Amount, possibly : Amount]
  BY <1>1, <1>2, <1>4, AmountFacts DEF SettleLedger, TypeOK, Usage
<1>6. campaign' \in Campaign
  BY <1>1 DEF SettleLedger, TypeOK, Campaign, CeilingIntent, CampaignStatus, StopIntent
<1> QED BY <1>3, <1>5, <1>6

\* Every step within a turn of the loop keeps the types.
LEMMA TypeLoop ==
    ASSUME TypeOK, ReserveIsExact, NEW l \in loops, LoopStep(l)
    PROVE  TypeOK'
<1> USE LoopFields
<1>1. CASE Persist(l) \/ MarkCollectorFailure(l)
  <2>1. PICK state \in SchedulingState : row[l.unit].resv = "ACTIVE" /\ Seal(l, state)
    BY <1>1 DEF Persist, MarkCollectorFailure, CollectorCurrent, SchedulingState
  <2>2. counts' \in [submitted : Nat, collected : Nat, failed : Nat, skipped : Nat]
    BY <1>1 DEF Persist, MarkCollectorFailure, TypeOK
  <2>3. /\ row' \in [Units -> Row]
        /\ ledger' \in [reserved : Amount, observed : Amount, possibly : Amount]
        /\ campaign' \in Campaign
    BY <2>1, TypeSeal
  <2>4. loops' \subseteq Loop /\ UNCHANGED <<run, sent, tasks, faults>>
    BY <2>1 DEF Seal, Leave, TypeOK, api
  <2> QED BY <2>2, <2>3, <2>4 DEF TypeOK
<1>2. CASE PersistedBefore(l) \/ CollectorFailedBefore(l)
  BY <1>2 DEF TypeOK, PersistedBefore, CollectorFailedBefore, Leave, db, api
<1>3. CASE CollectionFails(l)
  BY <1>3 DEF TypeOK, CollectionFails, Move, db, api, Loop
<1>4. CASE CollectorFatalStop(l)
  BY <1>4 DEF TypeOK, CollectorFatalStop, FatalStopped, Move, api, Loop,
              Campaign, CampaignStatus, StopIntent
<1>5. CASE CollectorLosesLease(l) \/ TransitionRefused(l)
  BY <1>5 DEF TypeOK, CollectorLosesLease, TransitionRefused, RunnerEnds, db, api
<1>6. CASE SkipPending(l)
  <2>1. Cardinality({u \in Units : row[u].sched = "PENDING"}) \in Nat
    <3>1. IsFiniteSet(Units)
      BY FS_Interval, CampaignAssumption DEF Units
    <3> QED BY <3>1, FS_Subset, FS_CardinalityType
  <2>2. row' \in [Units -> Row]
    <3>1. ASSUME NEW r \in Row PROVE [r EXCEPT !.sched = "SKIPPED"] \in Row
      BY DEF Row, SchedulingState
    <3> QED BY <1>6, <3>1, RowFields DEF SkipPending
  <2>3. loops' \subseteq Loop
    BY <1>6 DEF SkipPending, TypeOK, Move, Loop
  <2> QED BY <1>6, <2>1, <2>2, <2>3 DEF SkipPending, TypeOK, api
<1>7. CASE SettleStop(l) \/ AwaitReview(l)
  BY <1>7 DEF TypeOK, SettleStop, AwaitReview, SettleTarget, Leave, api, Campaign,
              CampaignStatus
<1> QED
  BY <1>1, <1>2, <1>3, <1>4, <1>5, <1>6, <1>7 DEF LoopStep

\* So does every step that begins a turn.
LEMMA TypeTurn ==
    ASSUME TypeOK, NEW k \in Runners, LoopTurn(k)
    PROVE  TypeOK'
<1>1. ASSUME NEW t \in Tasks, NEW u \in Units, Claim(t, u) PROVE TypeOK'
  <2>0. /\ (IF row[u].sched = "PENDING" THEN "CLAIMED" ELSE row[u].sched)
                \in SchedulingState
        /\ "valid" \in Lease
    BY RowFields DEF Row, SchedulingState, Lease
  <2>1. row' \in [Units -> Row]
    BY <1>1, <2>0, RowEdits DEF Claim
  <2>2. Entry(row[u]) \in TaskPoint /\ "none" \in Failure
    BY DEF Entry, TaskPoint, Failure
  <2>3. [id |-> t, unit |-> u, at |-> Entry(row[u]), tries |-> 0, why |-> "none"] \in Task
    BY <2>2 DEF Task
  <2>4. tasks' \subseteq Task
    BY <1>1, <2>3 DEF Claim, TypeOK
  <2> QED BY <1>1, <2>1, <2>4 DEF Claim, TypeOK, api
<1>2. ASSUME NEW u \in Units, CollectorClaim(k, u) PROVE TypeOK'
  <2>1. "valid" \in Lease
    BY DEF Lease
  <2>2. row' \in [Units -> Row]
    BY <1>2, <2>1, RowEdits DEF CollectorClaim
  <2>3. [id |-> k, unit |-> u, at |-> "collect", stale |-> FALSE] \in Loop
    BY DEF Loop
  <2>4. loops' \subseteq Loop
    BY <1>2, <2>3 DEF CollectorClaim, Enter, TypeOK
  <2> QED BY <1>2, <2>2, <2>4 DEF CollectorClaim, TypeOK, api
<1>3. 1 \in Units
  BY CampaignAssumption DEF Units
<1>4. CASE SeeDrained(k) \/ SeeSealed(k)
  <2>1. PICK at \in {"skip", "settle", "review"} : Enter(k, 1, at)
    BY <1>4 DEF SeeDrained, SeeSealed
  <2>2. [id |-> k, unit |-> 1, at |-> at, stale |-> FALSE] \in Loop
    BY <1>3 DEF Loop
  <2>3. loops' \subseteq Loop
    BY <2>1, <2>2 DEF Enter, TypeOK
  <2> QED BY <1>4, <2>3 DEF SeeDrained, SeeSealed, TypeOK, db, api
<1> QED BY <1>1, <1>2, <1>4 DEF LoopTurn

\* Failures of runners keep the types.
LEMMA TypeFailures ==
    ASSUME TypeOK, Failures
    PROVE  TypeOK'
<1>1. ASSUME NEW x \in tasks, LeaseLost(x) PROVE TypeOK'
  BY <1>1, TaskFields, CampaignAssumption DEF LeaseLost, Fault, TypeOK, Row, Lease, api
<1>2. ASSUME NEW l \in loops, CollectorLeaseLost(l) PROVE TypeOK'
  BY <1>2, LoopFields, CampaignAssumption
  DEF CollectorLeaseLost, Fault, TypeOK, Row, Lease, api
<1>3. ASSUME NEW k \in Runners, RunnerCrashes(k) PROVE TypeOK'
  BY <1>3, CampaignAssumption DEF RunnerCrashes, RunnerEnds, Fault, TypeOK, db, api
<1> QED BY <1>1, <1>2, <1>3 DEF Failures

\* Steps of the candidate platform and the clock keep the types.
LEMMA TypeEnvironment ==
    ASSUME TypeOK, NEW u \in Units,
           \/ AcceptLate(u) \/ RunTerminates(u)
           \/ LeaseExpires(u) \/ CollectorLeaseExpires(u)
    PROVE  TypeOK'
<1>1. CASE AcceptLate(u)
  BY <1>1 DEF AcceptLate, Accepted, TypeOK, db
<1>2. CASE RunTerminates(u)
  BY <1>2 DEF RunTerminates, TypeOK, db
<1>3. CASE LeaseExpires(u)
  <2>1. row' \in [Units -> Row]
    BY <1>3, RowEdits DEF LeaseExpires, Lease
  <2> QED BY <1>3, <2>1 DEF LeaseExpires, TypeOK, api
<1>4. CASE CollectorLeaseExpires(u)
  <2>1. row' \in [Units -> Row]
    BY <1>4, RowEdits DEF CollectorLeaseExpires, Lease
  <2> QED BY <1>4, <2>1 DEF CollectorLeaseExpires, TypeOK, api
<1> QED BY <1>1, <1>2, <1>3, <1>4

\* Every step keeps the types.
LEMMA TypeStep ==
    ASSUME Inv, [Next]_vars
    PROVE  TypeOK'
<1> USE DEF Inv
<1>1. CASE UNCHANGED vars
  BY <1>1 DEF vars, TypeOK
<1>2. CASE Next
  BY <1>2, TypeOperator, TypeFailures, TypeTask, TypeLoop, TypeTurn,
     TypeEnvironment DEF Next
<1> QED BY <1>1, <1>2
-----------------------------------------------------------------------------
(***************************************************************************)
(* Every step is of one of the kinds.                                       *)
(***************************************************************************)
\* What the updates of the counters count.
LEMMA CountFacts ==
    ASSUME TypeOK
    PROVE  /\ UNCHANGED counts => CountsNone
           /\ counts' = [counts EXCEPT !.submitted = @ + 1] => CountsNone
           /\ counts' = [counts EXCEPT !.collected = @ + 1] => Counts("COLLECTED")
           /\ counts' = [counts EXCEPT !.failed = @ + 1] => Counts("FAILED")
  BY DEF TypeOK, Counts, CountsNone, Counted, Sealed

\* A command of the owner leaves units and ledger alone.
LEMMA KindOfOperator == ASSUME TypeOK, Operator PROVE Keeps
<1>1. UNCHANGED <<ledger, row>> /\ CountsNone
  BY CountFacts
  DEF Operator, Materialize, Start, Pause, Resume, Abort, BindFinalReport, Command
<1>2. Doomed => Doomed'
  BY DEF Operator, Materialize, Start, Pause, Resume, Abort, BindFinalReport,
         Command, Doomed, TypeOK, Campaign
<1> QED BY <1>1, <1>2 DEF Keeps

\* Every step of a task is of one of the kinds.
LEMMA KindOfTask ==
    ASSUME TypeOK, Shape, NEW x \in tasks, TaskStep(x)
    PROVE  Calm
<1> DEFINE u == x.unit
<1> u \in Units /\ UnitShape(row[u]) /\ row[u] \in Row
  BY TaskFields, RowFields DEF Shape
<1> HIDE DEF u
<1>0. UNCHANGED counts => CountsNone
  BY CountFacts
<1>1. CASE \/ LosesLease(x) \/ ReserveRefused(x) \/ ReserveDeferred(x)
           \/ RenewAfterDeferral(x) \/ CreateConversation(x) \/ SubmitMessage(x)
           \/ Refused(x) \/ FailedBefore(x)
  <2>1. UNCHANGED db
    BY <1>1 DEF LosesLease, ReserveRefused, ReserveDeferred, RenewAfterDeferral,
                CreateConversation, SubmitMessage, Refused, FailedBefore
  <2> QED BY <1>0, <2>1 DEF db, Calm, Keeps, Doomed
<1>2. CASE ReserveAdmitted(x)
  <2>1. Reserves(u)
    BY <1>0, <1>2 DEF ReserveAdmitted, Asks, Current, Reserves, Others, TypeOK, Row, u
  <2> QED BY <2>1 DEF Calm
<1>3. CASE ReserveDenied(x)
  <2>1. Denies(u)
    BY <1>0, <1>3 DEF ReserveDenied, Asks, Current, Denies, Others, Doomed, TypeOK, Row,
                CeilingIntent, u
  <2> QED BY <2>1 DEF Calm
<1>4. CASE \/ PrepareConversation(x) \/ BindConversation(x) \/ PrepareSubmission(x)
  <2>1. Touches(u)
    BY <1>0, <1>4
    DEF PrepareConversation, BindConversation, PrepareSubmission, Current, Bindable,
        Touches, Others, InProgress, Leased, UnitShape, TypeOK, Row, u
  <2> QED BY <2>1 DEF Calm
<1>5. CASE BindSubmission(x)
  <2>0. CountsNone
    BY <1>5, CountFacts DEF BindSubmission
  <2>1. CASE UNCHANGED row
    BY <1>5, <2>0, <2>1 DEF BindSubmission, Calm, Keeps, Doomed
  <2>2. CASE Bindable(x) /\ row' = [row EXCEPT ![x.unit].sched = "SUBMITTED",
                                               ![x.unit].lease = "none",
                                               ![x.unit].holder = None]
    <3>1. Touches(u)
      BY <1>5, <2>0, <2>2 DEF BindSubmission, Bindable, Current, Touches, Others,
                        InProgress, Leased, UnitShape, TypeOK, Row, u
    <3> QED BY <3>1 DEF Calm
  <2> QED BY <1>5, <2>1, <2>2 DEF BindSubmission
<1>6. CASE FatalStop(x)
  BY <1>0, <1>6 DEF FatalStop, FatalStopped, Calm, Keeps, Doomed, TypeOK
<1>7. CASE MarkFailure(x)
  <2>1. row[u].sched \in Leased /\ row[u].resv \in {"NONE", "ACTIVE"}
    BY <1>7 DEF MarkFailure, Current, UnitShape, u
  <2>2. /\ Others(u) /\ UNCHANGED campaign
        /\ row'[u] = [FailedReservation(row[u], x.why) EXCEPT
                        !.sched = "FAILED", !.lease = "none", !.holder = None,
                        !.defect = x.why # "uncertain"]
        /\ ledger' = FailedLedger(row[u], x.why)
    BY <1>7 DEF MarkFailure, Fail, Others, TypeOK, u
  <2>c. Counts("FAILED")
    BY <1>7, CountFacts DEF MarkFailure, Fail
  <2>l. row[u].cLease = "none"
    BY <2>1 DEF UnitShape, Leased
  <2>3. CASE row[u].resv = "NONE"
    <3>1. Drops(u)
      BY <2>1, <2>2, <2>c, <2>l, <2>3 DEF Drops, FailedReservation, FailedLedger, Row
    <3> QED BY <3>1 DEF Calm
  <2>4. CASE row[u].resv = "ACTIVE"
    <3> DEFINE charged == [observed |-> Zero, possibly |-> RunReserve]
    <3>1. /\ row'[u].sched = "FAILED" /\ row'[u].over = row[u].over
          /\ row'[u].lease = "none" /\ row'[u].cLease = "none"
          /\ row'[u].resv = IF x.why = "uncertain" THEN "SETTLED" ELSE "RELEASED"
          /\ x.why = "uncertain" => row'[u].used = charged
      BY <2>2, <2>4, <2>l DEF FailedReservation, Row
    <3>2. ~row[u].over
      BY <2>4 DEF UnitShape
    <3>3. \A f \in Amount : Plus(f, Zero) = f
      BY DEF Plus, Zero, Amount
    <3>4. /\ ledger'.reserved = Minus(ledger.reserved, RunReserve)
          /\ ledger'.observed = Plus(ledger.observed, Zero)
          /\ ledger'.possibly = Plus(ledger.possibly,
                IF x.why = "uncertain" THEN RunReserve ELSE Zero)
      BY <2>2, <2>4, <3>3 DEF FailedLedger, TypeOK
    <3>5. PICK us \in {charged, Unused} :
            us = IF x.why = "uncertain" THEN charged ELSE Unused
      OBVIOUS
    <3>6. /\ us \in Usage
          /\ \A k \in Resource : us.observed[k] + us.possibly[k] <= RunReserve[k]
      BY <3>5, AmountFacts, CampaignAssumption DEF Usage, Unused, Zero, Amount
    <3>7. Charges(u, us)
      BY <3>1, <3>4, <3>5, <3>6 DEF Charges, Unused
    <3>8. Closes(u)
      BY <2>1, <2>2, <2>c, <2>4, <3>1, <3>2, <3>6, <3>7
      DEF Closes, InProgress, Leased, Doomed
    <3> QED BY <3>8 DEF Calm
  <2> QED BY <2>1, <2>3, <2>4
<1> QED
  BY <1>1, <1>2, <1>3, <1>4, <1>5, <1>6, <1>7 DEF TaskStep

\* So is every step within a turn of the loop ...
LEMMA KindOfLoop ==
    ASSUME TypeOK, Shape, NEW l \in loops, LoopStep(l)
    PROVE  Calm
<1> DEFINE u == l.unit
<1> u \in Units /\ UnitShape(row[u]) /\ row[u] \in Row
  BY LoopFields, RowFields DEF Shape
<1> HIDE DEF u
<1>0. UNCHANGED counts => CountsNone
  BY CountFacts
<1>1. CASE \/ PersistedBefore(l) \/ CollectionFails(l) \/ CollectorFailedBefore(l)
           \/ CollectorLosesLease(l) \/ TransitionRefused(l)
  <2>1. UNCHANGED db
    BY <1>1 DEF PersistedBefore, CollectionFails, CollectorFailedBefore,
                CollectorLosesLease, TransitionRefused
  <2> QED BY <1>0, <2>1 DEF db, Calm, Keeps, Doomed
<1>2. CASE CollectorFatalStop(l) \/ SettleStop(l) \/ AwaitReview(l)
  BY <1>0, <1>2 DEF CollectorFatalStop, FatalStopped, SettleStop, SettleTarget,
              AwaitReview, Calm, Keeps, Doomed, TypeOK, Campaign
<1>3. CASE SkipPending(l)
  <2>1. \A v \in Units :
          \/ row[v].sched # "PENDING" /\ row'[v] = row[v]
          \/ /\ row[v].sched = "PENDING" /\ row'[v].sched = "SKIPPED"
             /\ row'[v].resv = row[v].resv /\ row'[v].over = row[v].over
             /\ row'[v].lease = row[v].lease /\ row'[v].cLease = row[v].cLease
    BY <1>3 DEF SkipPending, TypeOK, Row
  <2>2. counts' = [counts EXCEPT !.skipped = @ + Cardinality(In({"PENDING"}))]
    <3>1. In({"PENDING"}) = {v \in Units : row[v].sched = "PENDING"}
      BY DEF In
    <3> QED BY <1>3, <3>1 DEF SkipPending
  <2>3. \A z \in Sealed : Counted(z)' = Counted(z) +
            IF z = "SKIPPED" THEN Cardinality(In({"PENDING"})) ELSE 0
    BY <2>2 DEF TypeOK, Counted, Sealed
  <2>4. Skips
    BY <1>3, <2>1, <2>3 DEF SkipPending, Skips
  <2> QED BY <2>4 DEF Calm
<1>4. CASE Persist(l) \/ MarkCollectorFailure(l)
  <2>1. PICK state \in {"COLLECTED", "FAILED"} : Seal(l, state) /\ Counts(state)
    BY <1>4, CountFacts DEF Persist, MarkCollectorFailure
  <2>2. row[u].sched = "SUBMITTED" /\ row[u].resv = "ACTIVE"
    BY <1>4 DEF Persist, MarkCollectorFailure, CollectorCurrent, u
  <2>3. PICK us \in Usages, d \in BOOLEAN :
          /\ SettleLedger(us)
          /\ row' = [row EXCEPT ![u] =
                      [Settled(row[u], us) EXCEPT
                          !.sched = state, !.cLease = "none", !.cHolder = None,
                          !.defect = d]]
    BY <2>1 DEF Seal, u
  <2>4. /\ Others(u) /\ row'[u].sched = state /\ row'[u].resv = "SETTLED"
        /\ row'[u].over = (Exceeded(us) # {}) /\ row'[u].used = us
        /\ row'[u].lease = row[u].lease /\ row'[u].cLease = "none"
    BY <2>3 DEF Others, Settled, TypeOK, Row
  <2>5. us \in Usage
    BY CampaignAssumption
  <2>6. \/ row'[u].over
        \/ \A k \in Resource : us.observed[k] + us.possibly[k] <= RunReserve[k]
    <3>1. \A k \in Resource : us.observed[k] \in Nat /\ us.possibly[k] \in Nat
                              /\ RunReserve[k] \in Nat
      BY <2>5, CampaignAssumption DEF Usage, Amount
    <3>2. Exceeded(us) = {} =>
            \A k \in Resource : ~(us.observed[k] + us.possibly[k] > RunReserve[k])
      BY DEF Exceeded
    <3>3. Exceeded(us) = {} =>
            \A k \in Resource : us.observed[k] + us.possibly[k] <= RunReserve[k]
      BY <3>1, <3>2
    <3> QED BY <2>4, <3>3
  <2>7. Charges(u, us)
    BY <2>3, <2>4, <2>6 DEF SettleLedger, Charges
  <2>8. Doomed => Doomed'
    BY <2>3 DEF SettleLedger, Doomed
  <2>9. row'[u].lease = "none"
    BY <2>2, <2>4 DEF UnitShape, Leased
  <2>10. Closes(u)
    BY <2>1, <2>2, <2>4, <2>5, <2>7, <2>8, <2>9 DEF Closes, InProgress
  <2> QED BY <2>10 DEF Calm
<1> QED BY <1>1, <1>2, <1>3, <1>4 DEF LoopStep

\* ... every step that begins a turn ...
LEMMA KindOfTurn ==
    ASSUME TypeOK, Shape, NEW k \in Runners, LoopTurn(k)
    PROVE  \/ Calm
           \/ \E t \in Tasks, u \in Units : RunnerOf[t] = k /\ Claim(t, u) /\ Opens(u)
<1>1. ASSUME NEW t \in Tasks, NEW u \in Units, Claim(t, u) PROVE Calm \/ Opens(u)
  <2> row[u] \in Row /\ UnitShape(row[u])
    BY RowFields DEF Shape
  <2>1. /\ Others(u) /\ UNCHANGED <<campaign, ledger>>
        /\ row'[u].sched = IF row[u].sched = "PENDING" THEN "CLAIMED" ELSE row[u].sched
        /\ row'[u].lease = "valid" /\ row'[u].cLease = row[u].cLease
        /\ row'[u].resv = row[u].resv /\ row'[u].over = row[u].over
        /\ row'[u].used = row[u].used
    BY <1>1 DEF Claim, Others, TypeOK, Row
  <2>c. CountsNone
    BY <1>1, CountFacts DEF Claim
  <2>2. CASE row[u].sched = "PENDING"
    <3>1. campaign.status = "RUNNING"
      BY <1>1, <2>2 DEF Claim, Claimable, Leased
    <3>2. UnitShape(row'[u])
      BY <2>1, <2>2 DEF UnitShape, Leased
    <3>3. Opens(u)
      BY <1>1, <2>1, <2>c, <2>2, <3>1, <3>2 DEF Claim, Opens
    <3> QED BY <3>3
  <2>3. CASE row[u].sched # "PENDING"
    <3>0. row[u].sched \in Leased
      BY <1>1, <2>3 DEF Claim, Claimable
    <3>1. Touches(u)
      BY <2>1, <2>c, <2>3, <3>0 DEF Touches, UnitShape, InProgress, Leased
    <3> QED BY <3>1 DEF Calm
  <2> QED BY <2>2, <2>3
<1>2. ASSUME NEW u \in Units, CollectorClaim(k, u) PROVE Calm
  <2> row[u] \in Row /\ UnitShape(row[u])
    BY RowFields DEF Shape
  <2>1. Touches(u)
    BY <1>2, CountFacts
    DEF CollectorClaim, Collectable, Touches, Others, UnitShape, InProgress, Leased,
        TypeOK, Row
  <2> QED BY <2>1 DEF Calm
<1>3. CASE SeeDrained(k) \/ SeeSealed(k)
  BY <1>3, CountFacts DEF SeeDrained, SeeSealed, db, Calm, Keeps, Doomed
<1> QED BY <1>1, <1>2, <1>3 DEF LoopTurn

\* ... and what remains.
LEMMA KindOfRest ==
    ASSUME TypeOK, Shape,
           \/ Failures
           \/ \E u \in Units : \/ AcceptLate(u) \/ RunTerminates(u)
                               \/ LeaseExpires(u) \/ CollectorLeaseExpires(u)
    PROVE  Calm
<1>1. ASSUME NEW u \in Units,
             \/ LeaseExpires(u) \/ CollectorLeaseExpires(u)
             \/ \E x \in tasks : x.unit = u /\ LeaseLost(x)
             \/ \E l \in loops : l.unit = u /\ CollectorLeaseLost(l)
      PROVE  Calm
  <2> row[u] \in Row /\ UnitShape(row[u])
    BY RowFields DEF Shape
  <2>1. /\ UNCHANGED <<campaign, ledger>> /\ CountsNone
        /\ \/ row[u].lease = "valid" /\ row' = [row EXCEPT ![u].lease = "expired"]
           \/ row[u].cLease = "valid" /\ row' = [row EXCEPT ![u].cLease = "expired"]
    BY <1>1, CountFacts DEF LeaseExpires, CollectorLeaseExpires, LeaseLost,
                            CollectorLeaseLost, Current, CollectorCurrent
  <2>2. /\ Others(u)
        /\ row'[u].sched = row[u].sched /\ row'[u].resv = row[u].resv
        /\ row'[u].over = row[u].over /\ row'[u].used = row[u].used
        /\ \/ row'[u].lease = "expired" /\ row'[u].cLease = row[u].cLease
           \/ row'[u].lease = row[u].lease /\ row'[u].cLease = "expired"
    BY <2>1 DEF Others, TypeOK, Row
  <2>3. row[u].sched \in InProgress
    BY <2>1 DEF UnitShape, InProgress
  <2>4. UnitShape(row'[u])
    BY <2>1, <2>2 DEF UnitShape, Leased, TypeOK, Row
  <2>5. Touches(u)
    BY <2>1, <2>2, <2>3, <2>4 DEF Touches
  <2> QED BY <2>5 DEF Calm
<1>2. ASSUME NEW u \in Units, AcceptLate(u) \/ RunTerminates(u) PROVE Calm
  BY <1>2, CountFacts DEF AcceptLate, RunTerminates, db, Calm, Keeps, Doomed
<1>3. ASSUME NEW k \in Runners, RunnerCrashes(k) PROVE Calm
  BY <1>3, CountFacts DEF RunnerCrashes, db, Calm, Keeps, Doomed
<1> QED BY <1>1, <1>2, <1>3, TaskFields, LoopFields DEF Failures

\* Every step is of one of the kinds.
LEMMA StepKind == ASSUME Inv, [Next]_vars PROVE Kinds
<1> USE DEF Inv
<1>1. CASE UNCHANGED vars
  BY <1>1, CountFacts DEF vars, Kinds, Calm, Keeps, Doomed
<1>2. CASE Next
  BY <1>2, KindOfOperator, KindOfTask, KindOfLoop, KindOfTurn, KindOfRest
  DEF Next, Kinds, Calm
<1> QED BY <1>1, <1>2
-----------------------------------------------------------------------------
(***************************************************************************)
(* The inductive invariant, part by part.                                   *)
(***************************************************************************)
\* Every kind of step keeps the shape of units.
LEMMA ShapeStep == ASSUME Inv, Kinds PROVE Shape'
<1> USE DEF Inv, Shape
<1>1. CASE Keeps
  BY <1>1 DEF Keeps
<1>2. CASE Skips
  BY <1>2 DEF Skips, UnitShape, Leased
<1>3. ASSUME NEW u \in Units, Touches(u) \/ Opens(u) PROVE Shape'
  BY <1>3 DEF Touches, Opens, Others, UnitShape
<1>4. ASSUME NEW u \in Units, Reserves(u) PROVE Shape'
  <2>1. ~row[u].over
    BY <1>4 DEF Reserves, DenialIsFinal, Doomed
  <2> QED BY <1>4, <2>1 DEF Reserves, Others, UnitShape, Leased
<1>5. ASSUME NEW u \in Units, Denies(u) \/ Closes(u) \/ Drops(u) PROVE Shape'
  BY <1>5 DEF Denies, Closes, Drops, Others, UnitShape, Leased
<1> QED BY <1>1, <1>2, <1>3, <1>4, <1>5 DEF Kinds, Calm

\* Every kind of step keeps a denial final.
LEMMA DenialStep == ASSUME Inv, Kinds PROVE DenialIsFinal'
<1> USE DEF Inv, DenialIsFinal
<1>1. CASE Keeps
  BY <1>1 DEF Keeps
<1>2. CASE Skips
  BY <1>2 DEF Skips, Doomed
<1>3. ASSUME NEW u \in Units, Touches(u) \/ Opens(u) \/ Reserves(u) \/ Drops(u)
      PROVE  DenialIsFinal'
  BY <1>3 DEF Touches, Opens, Reserves, Drops, Others, Doomed
<1>4. ASSUME NEW u \in Units, Denies(u) PROVE DenialIsFinal'
  BY <1>4 DEF Denies
<1>5. ASSUME NEW u \in Units, Closes(u) PROVE DenialIsFinal'
  BY <1>5 DEF Closes, Others
<1> QED BY <1>1, <1>2, <1>3, <1>4, <1>5 DEF Kinds, Calm

\* Every kind of step keeps the order of the units in flight.
LEMMA OrderedStep == ASSUME Inv, Kinds PROVE Ordered'
<1> USE DEF Inv, Ordered
<1>1. CASE Keeps
  BY <1>1 DEF Keeps
<1>2. CASE Skips
  BY <1>2 DEF Skips
<1>3. ASSUME NEW u \in Units,
             \/ Touches(u) \/ Reserves(u) \/ Denies(u) \/ Closes(u) \/ Drops(u)
      PROVE  Ordered'
  <2>1. \A v \in Units : row[v].sched = "PENDING" <=> row'[v].sched = "PENDING"
    BY <1>3 DEF Touches, Reserves, Denies, Closes, Drops, Others, Leased, InProgress
  <2> QED BY <2>1
<1>4. ASSUME NEW u \in Units, Opens(u) PROVE Ordered'
  <2>1. \A v \in Units : v < u => row[v].sched # "PENDING"
    <3>1. \A v \in Units : v < u => v \in 1..(u - 1)
      BY CampaignAssumption DEF Units
    <3> QED BY <1>4, <3>1 DEF Opens, Claimable
  <2>2. \A v \in Units : v # u => row'[v] = row[v]
    BY <1>4 DEF Opens, Others
  <2>3. row'[u].sched # "PENDING"
    BY <1>4 DEF Opens
  <2> SUFFICES ASSUME NEW v \in Units, NEW w \in Units,
                      v < w, row'[v].sched = "PENDING"
               PROVE  row'[w].sched = "PENDING"
    OBVIOUS
  <2>4. v # u /\ row[v].sched = "PENDING"
    BY <2>2, <2>3
  <2>5. row[w].sched = "PENDING"
    BY <2>4
  <2> QED BY <2>1, <2>2, <2>4, <2>5
<1> QED BY <1>1, <1>2, <1>3, <1>4 DEF Kinds, Calm

\* Every kind of step keeps the ledger equal to the sum of reservations.
LEMMA ReserveStep == ASSUME Inv, TypeOK', Kinds PROVE ReserveIsExact'
<1> USE DEF Inv
<1>0. /\ \A k \in Resource : ledger.reserved[k] \in Nat /\ RunReserve[k] \in Nat
      /\ IsFiniteSet(Reserved) /\ Cardinality(Reserved) \in Nat
  BY ReservedFinite, CampaignAssumption DEF TypeOK, Amount
<1>1. ASSUME UNCHANGED ledger, \A u \in Units : row'[u].resv = row[u].resv
      PROVE  ReserveIsExact'
  <2>1. Reserved' = Reserved
    BY <1>1 DEF Reserved, With
  <2> QED BY <1>1, <2>1 DEF ReserveIsExact
<1>2. CASE Keeps \/ Skips
  BY <1>1, <1>2 DEF Keeps, Skips
<1>3. ASSUME NEW u \in Units, Touches(u) \/ Opens(u) \/ Denies(u) \/ Drops(u)
      PROVE  ReserveIsExact'
  BY <1>1, <1>3 DEF Touches, Opens, Denies, Drops, Others
<1>4. ASSUME NEW u \in Units, Reserves(u) PROVE ReserveIsExact'
  <2>1. u \notin Reserved /\ Reserved' = Reserved \cup {u}
    BY <1>4 DEF Reserves, Others, Reserved, With
  <2>2. Cardinality(Reserved') = Cardinality(Reserved) + 1
    BY <1>0, <2>1, FS_AddElement
  <2>3. \A k \in Resource : ledger'.reserved[k] = ledger.reserved[k] + RunReserve[k]
    BY <1>4 DEF Reserves, Plus, TypeOK
  <2>4. \A n \in Nat, r \in Nat : (n + 1) * r = n * r + r
    OBVIOUS
  <2> QED BY <1>0, <2>2, <2>3, <2>4 DEF ReserveIsExact
<1>5. ASSUME NEW u \in Units, Closes(u) PROVE ReserveIsExact'
  <2>1. u \in Reserved /\ Reserved' = Reserved \ {u}
    BY <1>5 DEF Closes, Others, Reserved, With
  <2>2. Cardinality(Reserved') = Cardinality(Reserved) - 1
    BY <1>0, <2>1, FS_RemoveElement
  <2>3. \A k \in Resource : ledger'.reserved[k] = ledger.reserved[k] - RunReserve[k]
    BY <1>5 DEF Closes, Charges, Minus
  <2>4. \A n \in Nat, r \in Nat : (n - 1) * r = n * r - r
    OBVIOUS
  <2> QED BY <1>0, <2>2, <2>3, <2>4 DEF ReserveIsExact
<1> QED BY <1>2, <1>3, <1>4, <1>5 DEF Kinds, Calm

\* The invariant holds when the campaign is created.
LEMMA InvInit == Init => Inv
<1> SUFFICES ASSUME Init PROVE Inv
  OBVIOUS
<1>1. \A u \in Units : /\ row[u].sched = "PENDING" /\ row[u].resv = "NONE"
                       /\ ~row[u].over /\ row[u].lease = "none"
                       /\ row[u].cLease = "none"
  BY DEF Init
<1>2. Shape /\ DenialIsFinal /\ Ordered
  BY <1>1 DEF Shape, UnitShape, DenialIsFinal, Ordered, Leased
<1>3. Reserved = {}
  BY <1>1 DEF Reserved, With
<1>4. ReserveIsExact
  BY <1>3, FS_EmptySet, CampaignAssumption DEF ReserveIsExact, Init, Zero, Amount
<1> QED BY <1>2, <1>4, TypeInit DEF Inv

\* Every step keeps the invariant.
LEMMA InvStep == ASSUME Inv, [Next]_vars PROVE Inv'
<1>1. TypeOK' /\ Kinds
  BY TypeStep, StepKind
<1> QED BY <1>1, ShapeStep, DenialStep, OrderedStep, ReserveStep DEF Inv

\* The invariant holds in every behaviour of a campaign.
LEMMA Invariance == Spec => []Inv
<1>1. Inv /\ [Next]_vars => Inv'
  BY InvStep
<1> QED BY InvInit, <1>1, PTL DEF Spec

-----------------------------------------------------------------------------
\* Every state of a campaign is well formed; in particular closing a
\* reservation never drives a ledger below zero, whatever crashes and replays
\* came before (the columns reserved_* of shadow_campaigns).
THEOREM CampaignTypes == Spec => []TypeOK
<1>1. Inv => TypeOK
  BY DEF Inv
<1> QED BY Invariance, <1>1, PTL

\* Concurrent admissions never oversell a ceiling: whatever the tasks,
\* runners, replays and crashes, spent, possibly spent and reserved amounts
\* fit unless a run was denied or used more than its reserve
\* (reserve_run_budget, settle_run_budget, mark_failure).
THEOREM AdmissionIsSound == Spec => []NeverOversold
<1>1. Init => NeverOversold
  BY CampaignAssumption DEF Init, NeverOversold, Exposure, Zero, Amount
<1>2. ASSUME Inv, NeverOversold, [Next]_vars PROVE NeverOversold'
  <2> USE DEF Inv
  <2>0. /\ Kinds
        /\ \A k \in Resource :
            /\ ledger.reserved[k] \in Nat /\ ledger.observed[k] \in Nat
            /\ ledger.possibly[k] \in Nat
            /\ RunReserve[k] \in Nat /\ Ceiling[k] \in Nat
    BY <1>2, StepKind, CampaignAssumption DEF TypeOK, Amount
  <2>t. /\ TypeOK'
        /\ \A k \in Resource : ledger'.observed[k] \in Nat /\ ledger'.possibly[k] \in Nat
    BY <1>2, TypeStep DEF TypeOK, Amount
  <2>1. ASSUME UNCHANGED ledger, \A u \in Units : row[u].over => row'[u].over
        PROVE  NeverOversold'
    BY <1>2, <2>1 DEF NeverOversold, Exposure
  <2>2. CASE Keeps \/ Skips
    BY <2>1, <2>2 DEF Keeps, Skips
  <2>3. ASSUME NEW u \in Units, Touches(u) \/ Opens(u) \/ Denies(u) \/ Drops(u)
        PROVE  NeverOversold'
    BY <2>1, <2>3 DEF Touches, Opens, Denies, Drops, Others
  <2>4. ASSUME NEW u \in Units, Reserves(u) PROVE NeverOversold'
    <3>1. \A k \in Resource :
            /\ ledger'.reserved[k] = ledger.reserved[k] + RunReserve[k]
            /\ ledger'.observed[k] = ledger.observed[k]
            /\ ledger'.possibly[k] = ledger.possibly[k]
      BY <2>4 DEF Reserves, Plus, TypeOK
    <3>2. \A k \in Resource :
            ledger.observed[k] + ledger.possibly[k] + ledger.reserved[k]
                + RunReserve[k] <= Ceiling[k]
      BY <2>4 DEF Reserves, Admitted, Admits, Exposure
    <3>3. \A k \in Resource : Exposure(k)' <= Ceiling[k]
      BY <2>0, <3>1, <3>2 DEF Exposure
    <3> QED BY <3>3 DEF NeverOversold
  <2>5. ASSUME NEW u \in Units, Closes(u) PROVE NeverOversold'
    <3>1. CASE row'[u].over
      BY <3>1 DEF NeverOversold
    <3>2. CASE \E v \in Units : row[v].over
      <4>1. ~row[u].over
        BY <1>2, <2>5 DEF Closes, Shape, UnitShape
      <4> QED BY <2>5, <3>2, <4>1 DEF Closes, Others, NeverOversold
    <3>3. CASE ~row'[u].over /\ ~\E v \in Units : row[v].over
      <4>1. \A k \in Resource : Exposure(k) <= Ceiling[k]
        BY <1>2, <3>3 DEF NeverOversold
      <4>p. PICK us \in Usage : Charges(u, us)
        BY <2>5 DEF Closes
      <4>2. \A k \in Resource :
              /\ ledger'.reserved[k] = ledger.reserved[k] - RunReserve[k]
              /\ ledger'.observed[k] = ledger.observed[k] + us.observed[k]
              /\ ledger'.possibly[k] = ledger.possibly[k] + us.possibly[k]
              /\ us.observed[k] + us.possibly[k] <= RunReserve[k]
              /\ us.observed[k] \in Nat /\ us.possibly[k] \in Nat
        BY <4>p, <3>3 DEF Charges, Minus, Plus, Usage, Amount
      <4>3. \A k \in Resource : Exposure(k)' <= Ceiling[k]
        BY <2>0, <2>t, <4>1, <4>2 DEF Exposure
      <4> QED BY <4>3 DEF NeverOversold
    <3> QED BY <3>1, <3>2, <3>3
  <2> QED BY <2>0, <2>2, <2>3, <2>4, <2>5 DEF Kinds, Calm
<1>3. Inv /\ NeverOversold /\ [Next]_vars => NeverOversold'
  BY <1>2
<1> QED BY <1>1, <1>3, Invariance, PTL DEF Spec

\* No schedule of claims, crashes and expired leases puts more than
\* max_concurrency units in flight, although claim_next_result counts only
\* valid leases: it hands out the expired units first, because they come
\* before every pending one.
THEOREM InFlightIsBounded == Spec => []InFlightBounded
<1> DEFINE F == In(InProgress)
<1>0. F = In(Leased \cup {"SUBMITTED"}) /\ F \subseteq Units /\ IsFiniteSet(Units)
  BY FS_Interval, CampaignAssumption DEF InProgress, In, Units
<1>1. IsFiniteSet(F) /\ Cardinality(F) \in Nat
  BY <1>0, FS_Subset, FS_CardinalityType
<1>2. InFlightBounded <=> Cardinality(F) <= MaxConcurrency
  BY <1>0 DEF InFlightBounded
<1>3. Init => InFlightBounded
  <2>1. Init => F = {}
    BY DEF Init, In, InProgress, Leased
  <2> QED BY <1>2, <2>1, FS_EmptySet, CampaignAssumption
<1>4. InFlightBounded' <=> Cardinality(F') <= MaxConcurrency
  BY DEF InFlightBounded, InProgress
<1>5. ASSUME Inv, InFlightBounded, [Next]_vars PROVE InFlightBounded'
  <2> USE DEF Inv
  <2>0. Kinds /\ Cardinality(F) <= MaxConcurrency /\ MaxConcurrency \in Nat
    BY <1>2, <1>5, StepKind, CampaignAssumption
  <2>1. ASSUME \A u \in Units : row'[u].sched \in InProgress => row[u].sched \in InProgress
        PROVE  InFlightBounded'
    <3>1. F' \subseteq F
      BY <2>1 DEF In
    <3>2. Cardinality(F') <= Cardinality(F) /\ Cardinality(F') \in Nat
      BY <1>1, <3>1, FS_Subset, FS_CardinalityType
    <3> QED BY <1>1, <1>4, <2>0, <3>2
  <2>2. CASE Keeps
    BY <2>1, <2>2 DEF Keeps
  <2>3. CASE Skips
    BY <2>1, <2>3 DEF Skips, InProgress, Leased
  <2>4. ASSUME NEW u \in Units,
               \/ Touches(u) \/ Reserves(u) \/ Denies(u) \/ Closes(u) \/ Drops(u)
        PROVE  InFlightBounded'
    BY <2>1, <2>4 DEF Touches, Reserves, Denies, Closes, Drops, Others, InProgress,
                      Leased
  <2>5. ASSUME NEW u \in Units, Opens(u) PROVE InFlightBounded'
    <3>1. ASSUME NEW v \in F PROVE v \in ActiveUnits
      <4>0. v \in Units /\ row[v].sched \in InProgress /\ row[v] \in Row
        BY <1>5, <3>1, RowFields DEF In
      <4>1. CASE row[v].sched = "SUBMITTED"
        BY <1>5, <4>0, <4>1 DEF ActiveUnits, Shape, UnitShape
      <4>2. CASE row[v].sched \in Leased
        <5>1. v # u /\ ~(u < v)
          BY <1>5, <2>5, <4>0, <4>2 DEF Opens, Ordered, Leased
        <5>2. v \in 1..(u - 1)
          BY <4>0, <5>1, CampaignAssumption DEF Units
        <5>3. row[v].lease # "expired" /\ row[v].lease # "none"
          BY <1>5, <2>5, <4>0, <4>2, <5>2 DEF Opens, Claimable, Shape, UnitShape
        <5>4. row[v].lease = "valid"
          BY <4>0, <5>3 DEF Row, Lease
        <5> QED BY <4>0, <4>2, <5>4 DEF ActiveUnits
      <4> QED BY <4>0, <4>1, <4>2 DEF InProgress
    <3>2. IsFiniteSet(ActiveUnits) /\ F \subseteq ActiveUnits
      BY <1>0, <3>1, FS_Subset DEF ActiveUnits
    <3>3. Cardinality(F) <= Cardinality(ActiveUnits) /\ Cardinality(ActiveUnits) \in Nat
      BY <3>2, FS_Subset, FS_CardinalityType
    <3>4. Cardinality(F) < MaxConcurrency
      BY <1>1, <2>0, <2>5, <3>3 DEF Opens
    <3>5. u \notin F /\ F' = F \cup {u}
      BY <2>5 DEF Opens, Others, In, InProgress, Leased
    <3>6. Cardinality(F') = Cardinality(F) + 1
      BY <1>1, <3>5, FS_AddElement
    <3> QED BY <1>1, <1>4, <2>0, <3>4, <3>6
  <2> QED BY <2>0, <2>2, <2>3, <2>4, <2>5 DEF Kinds, Calm
<1>6. Inv /\ InFlightBounded /\ [Next]_vars => InFlightBounded'
  BY <1>5
<1> QED BY <1>3, <1>6, Invariance, PTL DEF Spec

\* A sealed unit is never written again, whoever still works on it, and its
\* reservation is made once and closed once: a late collector, a task whose
\* lease was taken over and a replayed failure all find the fence shut
\* (_assert_active_lease, _assert_collector_lease, mark_failure).
THEOREM UnitsCloseOnce == Spec => ClosedOnce
<1> DEFINE Kept ==
      \A u \in Units :
        /\ row[u].sched \in Sealed => row'[u] = row[u]
        /\ row[u].resv # row'[u].resv =>
            <<row[u].resv, row'[u].resv>> \in
                {<<"NONE", "ACTIVE">>, <<"ACTIVE", "SETTLED">>,
                 <<"ACTIVE", "RELEASED">>}
<1>1. ASSUME Inv, [Next]_vars PROVE Kept
  <2>1. Kinds
    BY <1>1, StepKind
  <2>2. CASE Keeps \/ Skips
    BY <2>2 DEF Keeps, Skips, Sealed
  <2>3. ASSUME NEW u \in Units,
               \/ Touches(u) \/ Opens(u) \/ Denies(u) \/ Drops(u)
        PROVE  Kept
    BY <2>3 DEF Touches, Opens, Denies, Drops, Others, InProgress, Leased, Sealed
  <2>4. ASSUME NEW u \in Units, Reserves(u) \/ Closes(u)
        PROVE  Kept
    BY <2>4 DEF Reserves, Closes, Others, InProgress, Leased, Sealed
  <2> QED BY <2>1, <2>2, <2>3, <2>4 DEF Kinds, Calm
<1>2. Inv /\ [Next]_vars => [Kept]_vars
  BY <1>1
<1> QED BY <1>2, Invariance, PTL DEF Spec, ClosedOnce

\* Once the run of a unit is bound, only settling what that run used closes
\* the unit; no failure of a task releases the reservation of a run that is
\* under way (bind_submission, persist_outcome, mark_collector_failure).
THEOREM BoundRunsAreSettled == Spec => SubmittedIsSettled
<1> DEFINE Paid ==
      \A u \in Units :
        row[u].sched = "SUBMITTED" /\ row'[u].sched # "SUBMITTED"
            => row'[u].sched \in {"COLLECTED", "FAILED"}
               /\ row[u].resv = "ACTIVE" /\ row'[u].resv = "SETTLED"
<1>1. ASSUME Inv, [Next]_vars PROVE Paid
  <2>1. Kinds
    BY <1>1, StepKind
  <2>2. CASE Keeps \/ Skips
    BY <2>2 DEF Keeps, Skips
  <2>3. ASSUME NEW u \in Units,
               \/ Touches(u) \/ Opens(u) \/ Reserves(u) \/ Denies(u)
               \/ Closes(u) \/ Drops(u)
        PROVE  Paid
    BY <2>3 DEF Touches, Opens, Reserves, Denies, Closes, Drops, Others, Leased
  <2> QED BY <2>1, <2>2, <2>3 DEF Kinds, Calm
<1>2. Inv /\ [Next]_vars => [Paid]_vars
  BY <1>1
<1> QED BY <1>2, Invariance, PTL DEF Spec, SubmittedIsSettled

-----------------------------------------------------------------------------
(***************************************************************************)
(* Sums over the units, by the least number at which a claim fails.         *)
(***************************************************************************)
\* A non-empty set of natural numbers has a least element.
LEMMA LeastNumber ==
    ASSUME NEW T \in SUBSET Nat, T # {}
    PROVE  \E n \in T : \A m \in T : n <= m
<1>1. PICK n \in T : \A m \in T : ~(<<m, n>> \in OpToRel(<, Nat))
  BY WFMin, NatLessThanWellFounded
<1>2. ASSUME NEW m \in T PROVE n <= m
  <2>1. SUFFICES ASSUME m < n PROVE FALSE
    OBVIOUS
  <2>2. <<m, n>> \in Nat \X Nat /\ <<m, n>>[1] < <<m, n>>[2]
    BY <2>1
  <2>3. <<m, n>> \in OpToRel(<, Nat)
    BY <2>2 DEF OpToRel
  <2> QED BY <1>1, <2>3
<1> QED BY <1>2

\* f holds the partial sums of amount.
Accumulates(f, amount, m) ==
    f[0] = 0 /\ \A n \in 1..m : f[n] = f[n - 1] + amount[n]

\* Partial sums exist ...
LEMMA SumsExist ==
    ASSUME NEW amount \in [Units -> Nat], NEW m \in 0..NumUnits
    PROVE  \E f \in [0..m -> Nat] : Accumulates(f, amount, m)
<1> DEFINE Has(i) == \E f \in [0..i -> Nat] : Accumulates(f, amount, i)
           T == {i \in 0..NumUnits : ~Has(i)}
<1>0. NumUnits \in Nat
  BY CampaignAssumption
<1>1. SUFFICES ASSUME T # {} PROVE FALSE
  OBVIOUS
<1>2. PICK i \in T : \A j \in T : i <= j
  <2>1. T \in SUBSET Nat
    BY <1>0
  <2> HIDE DEF T
  <2> QED BY <1>1, <2>1, LeastNumber
<1>3. Has(0)
  <2> DEFINE f == [n \in 0..0 |-> 0]
  <2>1. f \in [0..0 -> Nat] /\ Accumulates(f, amount, 0)
    BY DEF Accumulates
  <2> QED BY <2>1
<1>4. i \in 1..NumUnits /\ i - 1 \in 0..NumUnits /\ i - 1 \in Nat
  <2>1. i \in 0..NumUnits /\ ~Has(i)
    OBVIOUS
  <2> HIDE DEF Has
  <2>2. i # 0
    BY <1>3, <2>1
  <2> QED BY <1>0, <2>1, <2>2
<1>5. Has(i - 1)
  BY <1>2, <1>4
<1>6. PICK f \in [0..(i - 1) -> Nat] : Accumulates(f, amount, i - 1)
  BY <1>5
<1> DEFINE g == [n \in 0..i |-> IF n = i THEN f[i - 1] + amount[i] ELSE f[n]]
<1>7. g \in [0..i -> Nat]
  BY <1>0, <1>4, <1>6 DEF Units
<1>8. Accumulates(g, amount, i)
  <2>1. g[0] = 0
    BY <1>4, <1>6 DEF Accumulates
  <2>2. ASSUME NEW n \in 1..i PROVE g[n] = g[n - 1] + amount[n]
    BY <1>4, <1>6 DEF Accumulates
  <2> QED BY <2>1, <2>2 DEF Accumulates
<1> QED BY <1>2, <1>7, <1>8

\* ... and are unique.
LEMMA SumsAgree ==
    ASSUME NEW amount \in [Units -> Nat], NEW f \in [0..NumUnits -> Nat], NEW g,
           Accumulates(f, amount, NumUnits), Accumulates(g, amount, NumUnits)
    PROVE  \A n \in 0..NumUnits : g[n] = f[n]
<1> DEFINE T == {i \in 0..NumUnits : g[i] # f[i]}
<1>1. SUFFICES ASSUME T # {} PROVE FALSE
  OBVIOUS
<1>2. PICK i \in T : \A j \in T : i <= j
  <2>1. T \in SUBSET Nat
    BY CampaignAssumption
  <2> HIDE DEF T
  <2> QED BY <1>1, <2>1, LeastNumber
<1>3. i # 0 /\ i \in 1..NumUnits /\ i - 1 \in 0..NumUnits
  BY <1>2, CampaignAssumption DEF Accumulates
<1>4. g[i - 1] = f[i - 1]
  BY <1>2, <1>3
<1> QED BY <1>2, <1>3, <1>4 DEF Accumulates

\* The recursive function yields them.
LEMMA PartialSumsAccumulate ==
    ASSUME NEW amount \in [Units -> Nat]
    PROVE  /\ PartialSums(amount) \in [0..NumUnits -> Nat]
           /\ Accumulates(PartialSums(amount), amount, NumUnits)
<1> DEFINE Rec(f) == [n \in 0..NumUnits |->
                        IF n = 0 THEN 0 ELSE f[n - 1] + amount[n]]
<1>0. NumUnits \in Nat /\ NumUnits \in 0..NumUnits
  BY CampaignAssumption
<1>1. PICK f \in [0..NumUnits -> Nat] : Accumulates(f, amount, NumUnits)
  BY <1>0, SumsExist
<1>2. f = Rec(f)
  BY <1>0, <1>1 DEF Accumulates
<1>3. PartialSums(amount) = CHOOSE h : h = Rec(h)
  BY DEF PartialSums
<1>4. PICK g : g = PartialSums(amount)
  OBVIOUS
<1>5. g = Rec(g)
  BY <1>2, <1>3, <1>4
<1>6. Accumulates(g, amount, NumUnits)
  BY <1>0, <1>5 DEF Accumulates
<1>7. \A n \in 0..NumUnits : g[n] = f[n]
  BY <1>1, <1>6, SumsAgree
<1>8. g \in [0..NumUnits -> Nat]
  BY <1>5, <1>7
<1> QED BY <1>4, <1>6, <1>8

\* A sum grows by what one of its parts grows by.
LEMMA SumGrows ==
    ASSUME NEW old \in [Units -> Nat], NEW new \in [Units -> Nat],
           NEW u \in Units, NEW d \in Nat,
           new[u] = old[u] + d, \A v \in Units : v # u => new[v] = old[v]
    PROVE  Sum(new) = Sum(old) + d
<1>0. NumUnits \in Nat /\ u \in 1..NumUnits
  BY CampaignAssumption DEF Units
<1>1. PICK f \in [0..NumUnits -> Nat] :
        f = PartialSums(old) /\ Accumulates(f, old, NumUnits)
  BY PartialSumsAccumulate
<1>2. PICK g \in [0..NumUnits -> Nat] :
        g = PartialSums(new) /\ Accumulates(g, new, NumUnits)
  BY PartialSumsAccumulate
<1> DEFINE T == {i \in 0..NumUnits : g[i] # f[i] + IF i >= u THEN d ELSE 0}
<1>3. ASSUME T # {} PROVE FALSE
  <2>1. PICK i \in T : \A j \in T : i <= j
    <3>1. T \in SUBSET Nat
      BY <1>0
    <3> HIDE DEF T
    <3> QED BY <1>3, <3>1, LeastNumber
  <2>2. i # 0
    BY <1>0, <1>1, <1>2, <2>1 DEF Accumulates
  <2>3. i \in 1..NumUnits /\ i - 1 \in 0..NumUnits
    BY <1>0, <2>1, <2>2
  <2>4. g[i - 1] = f[i - 1] + IF i - 1 >= u THEN d ELSE 0
    BY <2>1, <2>3
  <2>5. f[i] = f[i - 1] + old[i] /\ g[i] = g[i - 1] + new[i]
    BY <1>1, <1>2, <2>3 DEF Accumulates
  <2>6. f[i - 1] \in Nat /\ old[i] \in Nat /\ old[u] \in Nat
    BY <2>3 DEF Units
  <2>7. g[i] = f[i] + IF i >= u THEN d ELSE 0
    <3>1. CASE i = u
      BY <1>0, <2>3, <2>4, <2>5, <2>6, <3>1
    <3>2. CASE i # u
      <4>1. new[i] = old[i] /\ (i >= u <=> i - 1 >= u)
        BY <1>0, <2>3, <3>2 DEF Units
      <4> QED BY <2>4, <2>5, <2>6, <4>1
    <3> QED BY <3>1, <3>2
  <2> QED BY <2>1, <2>7
<1>4. g[NumUnits] = f[NumUnits] + d
  <2>1. NumUnits \in 0..NumUnits /\ NumUnits >= u
    BY <1>0
  <2>2. NumUnits \notin T
    BY <1>3
  <2> QED BY <2>1, <2>2
<1> QED BY <1>1, <1>2, <1>4 DEF Sum

\* Nothing adds up to nothing.
LEMMA SumOfNothing ==
    ASSUME NEW amount \in [Units -> Nat], \A u \in Units : amount[u] = 0
    PROVE  Sum(amount) = 0
<1>0. NumUnits \in Nat
  BY CampaignAssumption
<1>1. PICK f \in [0..NumUnits -> Nat] :
        f = PartialSums(amount) /\ Accumulates(f, amount, NumUnits)
  BY PartialSumsAccumulate
<1> DEFINE zero == [n \in 0..NumUnits |-> 0]
<1>2. zero \in [0..NumUnits -> Nat] /\ Accumulates(zero, amount, NumUnits)
  BY <1>0 DEF Accumulates, Units
<1> HIDE DEF zero
<1>3. \A n \in 0..NumUnits : zero[n] = f[n]
  BY <1>1, <1>2, SumsAgree
<1> QED BY <1>0, <1>1, <1>3 DEF Sum, zero

-----------------------------------------------------------------------------
(***************************************************************************)
(* The books of a campaign.                                                 *)
(***************************************************************************)
SumsBalance ==
    \A k \in Resource : /\ ledger.observed[k] = Sum(Observed(k))
                        /\ ledger.possibly[k] = Sum(Possibly(k))
CountsBalance == \A z \in Sealed : Counted(z) = Cardinality(In({z}))

\* What settled units were charged is a natural number.
LEMMA ChargeTypes ==
    ASSUME TypeOK, NEW k \in Resource
    PROVE  Observed(k) \in [Units -> Nat] /\ Possibly(k) \in [Units -> Nat]
<1>1. ASSUME NEW u \in Units
      PROVE  row[u].used.observed[k] \in Nat /\ row[u].used.possibly[k] \in Nat
  <2>1. row[u].used \in Usage
    BY RowFields DEF Row
  <2> QED BY <2>1 DEF Usage, Amount
<1> QED BY <1>1 DEF Observed, Possibly

\* Every kind of step keeps the sums.
LEMMA SumsStep ==
    ASSUME Inv, SumsBalance, Kinds, TypeOK'
    PROVE  SumsBalance'
<1> USE DEF Inv
<1>0. ASSUME NEW k \in Resource
      PROVE  Observed(k)' \in [Units -> Nat] /\ Possibly(k)' \in [Units -> Nat]
  <2>1. ASSUME NEW u \in Units
        PROVE  row'[u].used.observed[k] \in Nat /\ row'[u].used.possibly[k] \in Nat
    BY DEF TypeOK, Row, Usage, Amount
  <2> QED BY <2>1 DEF Observed, Possibly
<1>1. ASSUME ledger'.observed = ledger.observed, ledger'.possibly = ledger.possibly,
             \A u \in Units :
                /\ row'[u].resv = "SETTLED" <=> row[u].resv = "SETTLED"
                /\ row[u].resv = "SETTLED" => row'[u].used = row[u].used
      PROVE  SumsBalance'
  <2>1. \A k \in Resource :
          Observed(k)' = Observed(k) /\ Possibly(k)' = Possibly(k)
    BY <1>1 DEF Observed, Possibly
  <2> QED BY <1>1, <2>1 DEF SumsBalance
<1>2. CASE Keeps
  BY <1>1, <1>2 DEF Keeps
<1>3. CASE Skips
  BY <1>1, <1>3 DEF Skips, Shape, UnitShape
<1>4. ASSUME NEW u \in Units,
             \/ Touches(u) \/ Opens(u) \/ Denies(u) \/ Drops(u)
      PROVE  SumsBalance'
  BY <1>1, <1>4 DEF Touches, Opens, Denies, Drops, Others
<1>5. ASSUME NEW u \in Units, Reserves(u) PROVE SumsBalance'
  BY <1>1, <1>5 DEF Reserves, Others, TypeOK
<1>6. ASSUME NEW u \in Units, Closes(u) PROVE SumsBalance'
  <2>1. PICK us \in Usage : Charges(u, us)
    BY <1>6 DEF Closes
  <2>2. SUFFICES ASSUME NEW k \in Resource
                 PROVE  /\ ledger'.observed[k] = Sum(Observed(k)')
                        /\ ledger'.possibly[k] = Sum(Possibly(k)')
    BY DEF SumsBalance, Sum, PartialSums
  <2>3. us.observed[k] \in Nat /\ us.possibly[k] \in Nat
    BY DEF Usage, Amount
  <2>4. row[u].resv = "ACTIVE" /\ \A v \in Units : v # u => row'[v] = row[v]
    BY <1>6 DEF Closes, Others
  <2>5. \/ row'[u].resv = "SETTLED" /\ row'[u].used = us
        \/ /\ row'[u].resv = "RELEASED"
           /\ us.observed[k] = 0 /\ us.possibly[k] = 0
    BY <1>6, <2>1 DEF Closes, Charges, Unused, Zero
  <2>6. /\ Observed(k)'[u] = Observed(k)[u] + us.observed[k]
        /\ \A v \in Units : v # u => Observed(k)'[v] = Observed(k)[v]
    BY <2>3, <2>4, <2>5 DEF Observed
  <2>7. /\ Possibly(k)'[u] = Possibly(k)[u] + us.possibly[k]
        /\ \A v \in Units : v # u => Possibly(k)'[v] = Possibly(k)[v]
    BY <2>3, <2>4, <2>5 DEF Possibly
  <2>8. /\ Sum(Observed(k)') = Sum(Observed(k)) + us.observed[k]
        /\ Sum(Possibly(k)') = Sum(Possibly(k)) + us.possibly[k]
    <3>1. /\ Observed(k) \in [Units -> Nat] /\ Possibly(k) \in [Units -> Nat]
          /\ Observed(k)' \in [Units -> Nat] /\ Possibly(k)' \in [Units -> Nat]
      BY <1>0, ChargeTypes
    <3>2. Sum(Observed(k)') = Sum(Observed(k)) + us.observed[k]
      BY <2>3, <2>6, <3>1, SumGrows
    <3> QED BY <2>3, <2>7, <3>1, <3>2, SumGrows
  <2>9. /\ ledger'.observed[k] = ledger.observed[k] + us.observed[k]
        /\ ledger'.possibly[k] = ledger.possibly[k] + us.possibly[k]
    BY <2>1 DEF Charges, Plus
  <2> QED BY <2>8, <2>9 DEF SumsBalance
<1> QED BY <1>2, <1>3, <1>4, <1>5, <1>6 DEF Kinds, Calm

\* Every kind of step keeps the counters.
LEMMA CountsStep ==
    ASSUME Inv, CountsBalance, Kinds
    PROVE  CountsBalance'
<1> USE DEF Inv
<1>0. \A S : In(S) \subseteq Units /\ IsFiniteSet(In(S)) /\ Cardinality(In(S)) \in Nat
  <2>1. IsFiniteSet(Units)
    BY FS_Interval, CampaignAssumption DEF Units
  <2>2. \A S : In(S) \subseteq Units
    BY DEF In
  <2> QED BY <2>1, <2>2, FS_Subset, FS_CardinalityType
<1>1. ASSUME CountsNone,
             \A u \in Units, z \in Sealed : row'[u].sched = z <=> row[u].sched = z
      PROVE  CountsBalance'
  <2>1. ASSUME NEW z \in Sealed PROVE In({z})' = In({z})
    BY <1>1 DEF In
  <2> QED BY <1>1, <2>1 DEF CountsBalance, CountsNone
<1>2. ASSUME NEW u \in Units, Others(u), row[u].sched \notin Sealed,
             row'[u].sched \in Sealed, Counts(row'[u].sched)
      PROVE  CountsBalance'
  <2>1. SUFFICES ASSUME NEW z \in Sealed PROVE Counted(z)' = Cardinality(In({z})')
    BY DEF CountsBalance
  <2>2. CASE z = row'[u].sched
    <3>1. u \notin In({z}) /\ In({z})' = In({z}) \cup {u}
      BY <1>2, <2>2 DEF In, Others
    <3>2. Cardinality(In({z})') = Cardinality(In({z})) + 1
      BY <1>0, <3>1, FS_AddElement
    <3> QED BY <1>2, <2>2, <3>2 DEF Counts, CountsBalance
  <2>3. CASE z # row'[u].sched
    <3>1. In({z})' = In({z})
      BY <1>2, <2>3 DEF In, Others
    <3>2. Counted(z)' = Counted(z) + 0 /\ Counted(z) \in Nat
      BY <1>0, <1>2, <2>3 DEF Counts, CountsBalance
    <3> QED BY <3>1, <3>2 DEF CountsBalance
  <2> QED BY <2>2, <2>3
<1>3. CASE Keeps
  BY <1>1, <1>3 DEF Keeps
<1>4. CASE Skips
  <2>1. SUFFICES ASSUME NEW z \in Sealed PROVE Counted(z)' = Cardinality(In({z})')
    BY DEF CountsBalance
  <2>2. CASE z = "SKIPPED"
    <3>1. /\ In({z})' = In({z}) \cup In({"PENDING"})
          /\ In({z}) \cap In({"PENDING"}) = {}
      BY <1>4, <2>2 DEF Skips, In
    <3>2. Cardinality(In({z})') = Cardinality(In({z})) + Cardinality(In({"PENDING"}))
      <4>1. Cardinality(In({z}) \cup In({"PENDING"})) =
              Cardinality(In({z})) + Cardinality(In({"PENDING"}))
                  - Cardinality(In({z}) \cap In({"PENDING"}))
        BY <1>0, FS_Union
      <4>2. Cardinality(In({z}) \cap In({"PENDING"})) = 0
        BY <3>1, FS_EmptySet
      <4>3. Cardinality(In({z})) \in Nat /\ Cardinality(In({"PENDING"})) \in Nat
        BY <1>0
      <4> QED BY <3>1, <4>1, <4>2, <4>3
    <3> QED BY <1>4, <2>2, <3>2 DEF Skips, CountsBalance
  <2>3. CASE z # "SKIPPED"
    <3>1. In({z})' = In({z})
      BY <1>4, <2>3 DEF Skips, In, Sealed
    <3>2. Counted(z)' = Counted(z) + 0 /\ Counted(z) \in Nat
      BY <1>0, <1>4, <2>3 DEF Skips, CountsBalance
    <3> QED BY <3>1, <3>2 DEF CountsBalance
  <2> QED BY <2>2, <2>3
<1>5. ASSUME NEW u \in Units,
             \/ Touches(u) \/ Opens(u) \/ Reserves(u) \/ Denies(u)
      PROVE  CountsBalance'
  <2>1. /\ CountsNone /\ Others(u)
        /\ row[u].sched \notin Sealed /\ row'[u].sched \notin Sealed
    BY <1>5 DEF Touches, Opens, Reserves, Denies, InProgress, Leased, Sealed
  <2> QED BY <1>1, <2>1 DEF Others
<1>6. ASSUME NEW u \in Units, Closes(u) \/ Drops(u) PROVE CountsBalance'
  <2>1. /\ Counts(row'[u].sched) /\ Others(u)
        /\ row[u].sched \notin Sealed /\ row'[u].sched \in Sealed
    BY <1>6 DEF Closes, Drops, InProgress, Leased, Sealed
  <2> QED BY <1>2, <2>1
<1> QED BY <1>3, <1>4, <1>5, <1>6 DEF Kinds, Calm

\* The campaign row always agrees with the result rows: no crash, replay,
\* lost lease or late answer reserves, settles, releases or counts a unit
\* twice or not at all (reserve_run_budget, settle_run_budget, mark_failure,
\* mark_collector_failure, skip_pending).
THEOREM BooksBalance == Spec => []LedgerBalances
<1>1. Init => SumsBalance /\ CountsBalance
  <2> SUFFICES ASSUME Init PROVE SumsBalance /\ CountsBalance
    OBVIOUS
  <2>1. \A u \in Units : row[u].sched = "PENDING" /\ row[u].resv = "NONE"
    BY DEF Init
  <2>2. ASSUME NEW k \in Resource
        PROVE  Sum(Observed(k)) = 0 /\ Sum(Possibly(k)) = 0
    <3>1. Observed(k) \in [Units -> Nat] /\ \A u \in Units : Observed(k)[u] = 0
      BY <2>1 DEF Observed
    <3>2. Possibly(k) \in [Units -> Nat] /\ \A u \in Units : Possibly(k)[u] = 0
      BY <2>1 DEF Possibly
    <3>3. Sum(Observed(k)) = 0
      BY <3>1, SumOfNothing
    <3> QED BY <3>2, <3>3, SumOfNothing
  <2>3. SumsBalance
    BY <2>2 DEF SumsBalance, Init, Zero
  <2>4. ASSUME NEW z \in Sealed PROVE Counted(z) = Cardinality(In({z}))
    <3>1. In({z}) = {}
      BY <2>1 DEF In, Sealed
    <3>2. Counted(z) = 0
      BY DEF Counted, Init, Sealed
    <3> QED BY <3>1, <3>2, FS_EmptySet
  <2> QED BY <2>3, <2>4 DEF CountsBalance
<1>2. ASSUME Inv, SumsBalance, CountsBalance, [Next]_vars
      PROVE  SumsBalance' /\ CountsBalance'
  <2>1. Kinds /\ TypeOK'
    BY <1>2, StepKind, TypeStep
  <2> QED BY <1>2, <2>1, SumsStep, CountsStep
<1>3. Inv /\ SumsBalance /\ CountsBalance /\ [Next]_vars
        => SumsBalance' /\ CountsBalance'
  BY <1>2
<1>4. Inv /\ SumsBalance /\ CountsBalance => LedgerBalances
  <2> SUFFICES ASSUME Inv, SumsBalance, CountsBalance PROVE LedgerBalances
    OBVIOUS
  <2>1. \A k \in Resource :
          ledger.reserved[k] = Cardinality(With({"ACTIVE"})) * RunReserve[k]
    BY DEF Inv, ReserveIsExact, Reserved
  <2>2. /\ Counted("COLLECTED") = counts.collected
        /\ Counted("FAILED") = counts.failed
        /\ Counted("SKIPPED") = counts.skipped
    BY DEF Counted
  <2>3. /\ Counted("COLLECTED") = Cardinality(In({"COLLECTED"}))
        /\ Counted("FAILED") = Cardinality(In({"FAILED"}))
        /\ Counted("SKIPPED") = Cardinality(In({"SKIPPED"}))
    BY DEF CountsBalance, Sealed
  <2> QED BY <2>1, <2>2, <2>3 DEF LedgerBalances, SumsBalance
<1> QED BY <1>1, <1>3, <1>4, Invariance, PTL DEF Spec

-----------------------------------------------------------------------------
(***************************************************************************)
(* The drain.                                                               *)
(***************************************************************************)
Drained == \A u \in Units : row[u].sched \notin InProgress /\ row[u].resv # "ACTIVE"

\* A loop is about to settle a stop, and no one resumed the campaign since it
\* looked.
Settling == \E l \in loops : l.at \in {"skip", "settle"} /\ ~l.stale

\* What such a loop saw is still so; neither is a unit claimed afterwards, as
\* only a resume makes the campaign run again.
PauseInv ==
    /\ campaign.status = "PAUSED" /\ ~campaign.stale => Drained
    /\ Settling => Drained /\ campaign.status \notin {"CREATED", "RUNNING"}

\* What a step does to the status of the campaign.
LEMMA StatusSteps ==
    ASSUME TypeOK, [Next]_vars
    PROVE  \/ campaign' = campaign
           \/ /\ campaign'.stale = campaign.stale
              /\ campaign'.status # "PAUSED"
              /\ campaign'.status \in {"CREATED", "RUNNING"} =>
                    campaign.status = "CREATED" \/ Resume
           \/ \E l \in loops : SettleStop(l)
<1>1. CASE Operator
  BY <1>1 DEF Operator, Materialize, Start, Pause, Resume, Abort, BindFinalReport,
              Command, TypeOK, Campaign
<1>2. ASSUME NEW x \in tasks, TaskStep(x)
      PROVE  \/ campaign' = campaign
             \/ campaign'.stale = campaign.stale /\ campaign'.status = "STOPPING"
  <2>1. \/ campaign' = campaign \/ campaign' = FatalStopped
        \/ \E i : campaign' = [campaign EXCEPT !.status = "STOPPING", !.intent = i]
    BY <1>2 DEF TaskStep, LosesLease, ReserveRefused, ReserveAdmitted,
        ReserveDeferred, ReserveDenied, RenewAfterDeferral, PrepareConversation,
        CreateConversation, BindConversation, PrepareSubmission, SubmitMessage,
        BindSubmission, Refused, FatalStop, MarkFailure, Fail, FailedBefore, db
  <2> QED BY <2>1 DEF FatalStopped, TypeOK, Campaign
<1>3. ASSUME NEW l \in loops, LoopStep(l), ~SettleStop(l)
      PROVE  \/ campaign' = campaign
             \/ /\ campaign'.stale = campaign.stale
                /\ campaign'.status \in {"STOPPING", "AWAITING_REVIEW"}
  <2>1. CASE Persist(l) \/ MarkCollectorFailure(l)
    <3>1. PICK us \in Usages : SettleLedger(us)
      BY <2>1 DEF Persist, MarkCollectorFailure, Seal
    <3> QED BY <3>1 DEF SettleLedger, TypeOK, Campaign
  <2>2. CASE CollectorFatalStop(l) \/ AwaitReview(l)
    BY <2>2 DEF CollectorFatalStop, FatalStopped, AwaitReview, TypeOK, Campaign
  <2>3. CASE \/ PersistedBefore(l) \/ CollectionFails(l) \/ CollectorFailedBefore(l)
             \/ CollectorLosesLease(l) \/ SkipPending(l) \/ TransitionRefused(l)
    BY <2>3 DEF PersistedBefore, CollectionFails, CollectorFailedBefore,
                CollectorLosesLease, SkipPending, TransitionRefused, db
  <2> QED BY <1>3, <2>1, <2>2, <2>3 DEF LoopStep
<1>4. ASSUME NEW k \in Runners, LoopTurn(k) PROVE campaign' = campaign
  BY <1>4 DEF LoopTurn, Claim, CollectorClaim, SeeDrained, SeeSealed, db
<1>5. ASSUME NEW u \in Units, \/ AcceptLate(u) \/ RunTerminates(u)
                               \/ LeaseExpires(u) \/ CollectorLeaseExpires(u)
      PROVE  campaign' = campaign
  BY <1>5 DEF AcceptLate, RunTerminates, LeaseExpires, CollectorLeaseExpires, db
<1>6. CASE Failures
  BY <1>6 DEF Failures, LeaseLost, CollectorLeaseLost, RunnerCrashes, db
<1>7. CASE UNCHANGED vars
  BY <1>7 DEF vars
<1> QED BY <1>1, <1>2, <1>3, <1>4, <1>5, <1>6, <1>7 DEF Next

\* A loop settles a stop only after it saw that nothing is in flight, and a
\* resume leaves no such loop behind.
LEMMA SettlingIsDrained ==
    ASSUME TypeOK, [Next]_vars, Settling'
    PROVE  /\ ~Resume
           /\ \/ Settling
              \/ /\ Drained /\ campaign.status = "STOPPING"
                 /\ UNCHANGED <<campaign, row>>
<1>0. PICK m \in loops' : m.at \in {"skip", "settle"} /\ ~m.stale
  BY DEF Settling
<1>1. ASSUME loops' \subseteq loops PROVE Settling
  BY <1>0, <1>1 DEF Settling
<1>r. ~Resume
  <2> SUFFICES ASSUME Resume PROVE FALSE
    OBVIOUS
  <2>1. \A l \in loops : [l EXCEPT !.stale = TRUE].stale
    BY LoopFields DEF Loop
  <2> QED BY <1>0, <2>1 DEF Resume
<1>2. CASE Operator
  BY <1>1, <1>r, <1>2 DEF Operator, Materialize, Start, Pause, Abort,
                          BindFinalReport, Command
<1>3. ASSUME NEW x \in tasks, TaskStep(x) PROVE Settling
  <2>1. UNCHANGED loops
    BY <1>3 DEF TaskStep, LosesLease, ReserveRefused, ReserveAdmitted,
        ReserveDeferred, ReserveDenied, RenewAfterDeferral, PrepareConversation,
        CreateConversation, BindConversation, PrepareSubmission, SubmitMessage,
        BindSubmission, Refused, FatalStop, MarkFailure, Fail, FailedBefore
  <2> QED BY <1>1, <2>1
<1>4. ASSUME NEW l \in loops, LoopStep(l) PROVE Settling
  <2>1. CASE CollectionFails(l) \/ CollectorFatalStop(l)
    <3>1. PICK at \in {"fatalStop", "markFailure"} : Move(l, at)
      BY <2>1 DEF CollectionFails, CollectorFatalStop
    <3>2. [l EXCEPT !.at = at].at = at
      BY LoopFields DEF Loop
    <3>3. m \in loops
      BY <1>0, <3>1, <3>2 DEF Move
    <3> QED BY <1>0, <3>3 DEF Settling
  <2>2. CASE SkipPending(l)
    <3>1. [l EXCEPT !.at = "settle"].stale = l.stale
      BY LoopFields DEF Loop
    <3>2. m \in loops \/ m = [l EXCEPT !.at = "settle"]
      BY <2>2 DEF SkipPending, Move
    <3> QED BY <1>0, <2>2, <3>1, <3>2 DEF SkipPending, Settling
  <2>3. CASE \/ Persist(l) \/ PersistedBefore(l) \/ MarkCollectorFailure(l)
             \/ CollectorFailedBefore(l) \/ CollectorLosesLease(l)
             \/ SettleStop(l) \/ AwaitReview(l) \/ TransitionRefused(l)
    <3>1. Leave(l) \/ RunnerEnds(l.id)
      BY <2>3 DEF Persist, Seal, PersistedBefore, MarkCollectorFailure,
          CollectorFailedBefore, CollectorLosesLease, SettleStop, AwaitReview,
          TransitionRefused
    <3> QED BY <1>1, <3>1 DEF Leave, RunnerEnds
  <2> QED BY <1>4, <2>1, <2>2, <2>3 DEF LoopStep
<1>5. ASSUME NEW k \in Runners, LoopTurn(k)
      PROVE  \/ Settling
             \/ /\ Drained /\ campaign.status = "STOPPING"
                /\ UNCHANGED <<campaign, row>>
  <2>1. CASE SeeDrained(k)
    BY <2>1 DEF SeeDrained, HasInflightWork, Drained, InProgress, db
  <2>2. CASE \E t \in Tasks, u \in Units : Claim(t, u)
    BY <1>1, <2>2 DEF Claim
  <2>3. CASE SeeSealed(k) \/ \E u \in Units : CollectorClaim(k, u)
    <3>1. PICK at \in {"collect", "review"}, u \in Units : Enter(k, u, at)
      <4>1. 1 \in Units
        BY CampaignAssumption DEF Units
      <4> QED BY <2>3, <4>1 DEF SeeSealed, CollectorClaim
    <3>2. m \in loops
      BY <1>0, <3>1 DEF Enter
    <3> QED BY <1>0, <3>2 DEF Settling
  <2> QED BY <1>5, <2>1, <2>2, <2>3 DEF LoopTurn
<1>6. ASSUME NEW u \in Units, \/ AcceptLate(u) \/ RunTerminates(u)
                               \/ LeaseExpires(u) \/ CollectorLeaseExpires(u)
      PROVE  Settling
  BY <1>1, <1>6 DEF AcceptLate, RunTerminates, LeaseExpires, CollectorLeaseExpires
<1>7. CASE Failures
  BY <1>1, <1>r, <1>7
  DEF Failures, LeaseLost, CollectorLeaseLost, RunnerCrashes, RunnerEnds
<1>8. CASE UNCHANGED vars
  BY <1>1, <1>r, <1>8 DEF vars
<1> QED BY <1>r, <1>2, <1>3, <1>4, <1>5, <1>6, <1>7, <1>8 DEF Next

\* Only a RUNNING campaign opens a unit.
LEMMA DrainedStays ==
    ASSUME Inv, [Next]_vars, Drained, campaign.status # "RUNNING"
    PROVE  Drained'
<1>1. Calm
  BY StepKind DEF Kinds, Opens
<1> QED BY <1>1 DEF Calm, Drained, Keeps, Skips, Touches, Reserves, Denies, Closes,
                    Drops, InProgress, Leased

\* However many runners work on a campaign, and whatever is killed, lost or
\* replayed on the way, it is PAUSED with a unit claimed, submitted or reserved
\* only if the loop that settled the stop had looked before an earlier pause was
\* resumed (has_inflight_work and settle_stop, two transactions of the loop).
THEOREM PauseIsDrained == Spec => []UndrainedIsStale
<1>1. Init => PauseInv
  BY DEF Init, PauseInv, Settling
<1>2. ASSUME Inv, PauseInv, [Next]_vars PROVE PauseInv'
  <2>0. TypeOK
    BY <1>2 DEF Inv
  <2>1. ASSUME campaign'.status = "PAUSED", ~campaign'.stale PROVE Drained'
    <3>1. CASE campaign' = campaign
      BY <1>2, <2>1, <3>1, DrainedStays DEF PauseInv
    <3>2. ASSUME NEW l \in loops, SettleStop(l) PROVE Drained'
      <4>1. campaign'.stale = l.stale
        BY <2>0, <3>2 DEF SettleStop, TypeOK, Campaign
      <4>2. Settling
        BY <2>1, <3>2, <4>1 DEF SettleStop, Settling
      <4> QED BY <1>2, <4>2, DrainedStays DEF PauseInv
    <3> QED BY <1>2, <2>0, <2>1, <3>1, <3>2, StatusSteps
  <2>2. ASSUME Settling'
        PROVE  Drained' /\ campaign'.status \notin {"CREATED", "RUNNING"}
    <3>1. CASE Settling
      <4>1. Drained'
        BY <1>2, <3>1, DrainedStays DEF PauseInv
      <4>2. ASSUME NEW l \in loops, SettleStop(l)
            PROVE  campaign'.status \notin {"CREATED", "RUNNING"}
        BY <2>0, <4>2 DEF SettleStop, SettleTarget, TypeOK, Campaign
      <4> QED BY <1>2, <2>0, <2>2, <3>1, <4>1, <4>2, StatusSteps, SettlingIsDrained
              DEF PauseInv
    <3>2. CASE /\ Drained /\ campaign.status = "STOPPING"
               /\ UNCHANGED <<campaign, row>>
      BY <3>2 DEF Drained
    <3> QED BY <1>2, <2>0, <2>2, <3>1, <3>2, SettlingIsDrained
  <2> QED BY <2>1, <2>2 DEF PauseInv
<1>3. Inv /\ PauseInv /\ [Next]_vars => PauseInv'
  BY <1>2
<1>4. PauseInv => UndrainedIsStale
  BY DEF PauseInv, UndrainedIsStale, NothingInFlight, Drained, In, With, InProgress
<1> QED BY <1>1, <1>3, <1>4, Invariance, PTL DEF Spec
=============================================================================

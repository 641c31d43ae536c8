--------------------------- MODULE ReleaseProofs ---------------------------
(***************************************************************************)
(* Proofs about ReleaseProcess, for every manifest, every profile and policy *)
(* of the catalogue, every outcome of a run and every later change of its    *)
(* tables, and any number of reporters.                                      *)
(*                                                                           *)
(* The inductive invariant is Release: what is recorded of each campaign is  *)
(* consistent (Record: its lifecycle, its result rows, its reviews), and     *)
(* every report in preparation was prepared from the input it is kept with.  *)
(* What passes was earned, because the digest of a row binds it to the       *)
(* tables it was measured on (ClearIsSound) and because the samples a policy *)
(* asks for leave no unit out (AllEnded, AllReviewed), which is a matter     *)
(* of counting the plan (SelectionIsBalanced): ranks that differ number      *)
(* their elements, and equally many are drawn of each stratum.  That what is *)
(* traceable can be reviewed needs Pristine as well: while no table has      *)
(* changed, every row was measured on the source that it still has.  Books   *)
(* has the counters and the ledger of a campaign row as sums over its result *)
(* rows, and the settlement of every row as the audit's.                     *)
(***************************************************************************)
EXTENDS ReleaseProcess, FiniteSetTheorems, TLAPS

CampFields == {"status", "intent", "prov", "planned", "counts", "ledger", "late",
               "seen", "bound"}
RowFields  == {"unit", "state", "run", "resv", "m", "used", "calls", "class", "signals",
               "over", "source"}
ReportFields == {"k", "status", "fresh", "in", "report", "put"}

\* A campaign that is bound has ended, and a pause is over when it has; only one
\* that was started is seen sealed.
Lifecycle(c) ==
    /\ DOMAIN c = CampFields
    /\ c.status = "RUNNING" => c.intent = "NONE"
    /\ c.status = "PAUSED" => c.intent = "PAUSE"
    /\ c.status \in {"COMPLETED", "ABORTED"} => c.intent # "PAUSE"
    /\ c.bound # NoReport => c.status \in {"COMPLETED", "ABORTED"}
    /\ c.seen => c.status \notin {"ABSENT", "CREATED"}

\* The snapshot that a row was measured on, whose queries are still there.
MeasuredOn(r, s) ==
    /\ Stored(s) /\ Errors(s) = {} /\ s.queries = r.source.queries
    /\ r.m = Collect(ReadSnapshot(s), r.unit.case) /\ r.m.signals \subseteq r.signals

RowFits(r) ==
    /\ DOMAIN r = RowFields
    /\ r.resv = "ACTIVE" => r.state \in {"CLAIMED", "SUBMITTED"}
    /\ r.state \in {"SUBMITTED", "COLLECTED"} => r.run
    /\ r.state = "FAILED" =>
        r.class \in {"INFRASTRUCTURE", "PROVIDER_TRANSIENT", "PERMANENT_CONFIGURATION"}
    /\ r.state # "COLLECTED" => r.m = NoMeasurement
    /\ r.source # NoSource => Stored(r.source)
    /\ r.state = "COLLECTED" => Stored(r.source) /\ \E s : MeasuredOn(r, s)

\* The result rows are those of the plan, all or none of them, beside a place for their reviews.
Table(k, rs, rv) ==
    /\ rs = <<>> \/ (DOMAIN rs = 1..Profiles[k].maxRuns /\ Plannable(k, Manifest))
    /\ DOMAIN rv = DOMAIN rs
    /\ \A i \in DOMAIN rs : RowFits(rs[i]) /\ rs[i].unit = RunPlan(k, Manifest)[i]

\* Only a campaign that is stopped for good skips units, and one that awaits its
\* reviews has nothing left to run, however it was stopped on the way.
Progress(c, rs) ==
    /\ c.status \in {"ABSENT", "CREATED"} => \A i \in DOMAIN rs : rs[i].state = "PENDING"
    /\ c.status = "AWAITING_REVIEW" \/ c.seen =>
        rs # <<>> /\ \A i \in DOMAIN rs : rs[i].state \in TerminalResult
    /\ c.status = "RUNNING" \/ c.intent = "PAUSE" =>
        \A i \in DOMAIN rs : rs[i].state # "SKIPPED"

\* Reviews begin when every unit has ended, and only what was collected is reviewed.
Reviewing(rs, rv) ==
    \A i \in DOMAIN rv : rv[i] # NoReview =>
        /\ rv[i].verdict # None /\ rs[i].state = "COLLECTED"
        /\ \A j \in DOMAIN rs : rs[j].state \in TerminalResult

Record(k, c, rs, rv) ==
    Lifecycle(c) /\ Table(k, rs, rv) /\ Progress(c, rs) /\ Reviewing(rs, rv)

Records ==
    /\ DOMAIN camp = Kind /\ DOMAIN rows = Kind /\ DOMAIN reviews = Kind
    /\ \A k \in Kind : Record(k, camp[k], rows[k], reviews[k])

\* A report in preparation keeps what it was prepared from.
Reports ==
    /\ DOMAIN reporter = Reporter
    /\ \A p \in Reporter : reporter[p] # Idle =>
        /\ DOMAIN reporter[p] = ReportFields /\ reporter[p].k \in Kind
        /\ \E late : reporter[p].report = Prepare(reporter[p].in, reporter[p].status, late)

Release == Records /\ Reports

-----------------------------------------------------------------------------
(***************************************************************************)
(* What a step does to the record of one campaign.                           *)
(***************************************************************************)
\* Only the campaign row changes.
LEMMA CampaignStep ==
    ASSUME Records, NEW k \in Kind, NEW c, Lifecycle(c), Progress(c, rows[k]),
           camp' = [camp EXCEPT ![k] = c], rows' = rows, reviews' = reviews
    PROVE  Records'
BY DEF Records, Record

\* The campaign row and one result row change.
LEMMA RowStep ==
    ASSUME Records, NEW k \in Kind, NEW c, NEW i \in DOMAIN rows[k], NEW r,
           Lifecycle(c), RowFits(r), DOMAIN camp' = Kind, camp'[k] = c,
           \A j \in Kind \ {k} : camp'[j] = camp[j], rows' = [rows EXCEPT ![k][i] = r],
           reviews' = reviews, Progress(c, [rows[k] EXCEPT ![i] = r]),
           rows[k][i].state \in TerminalResult => r.state = rows[k][i].state,
           r.unit = rows[k][i].unit
    PROVE  Records'
<1> DEFINE rs == [rows[k] EXCEPT ![i] = r]
<1>1. Record(k, camp[k], rows[k], reviews[k])
  BY DEF Records
<1>2. rows'[k] = rs /\ \A j \in Kind \ {k} : rows'[j] = rows[j]
  BY DEF Records
<1>3. /\ DOMAIN rs = DOMAIN rows[k] /\ rs[i] = r
      /\ \A j \in DOMAIN rows[k] \ {i} : rs[j] = rows[k][j]
  OBVIOUS
<1>4. Table(k, rs, reviews[k])
  <2>1. DOMAIN rows[k] = 1..Profiles[k].maxRuns /\ Plannable(k, Manifest)
    BY <1>1 DEF Record, Table
  <2>2. /\ DOMAIN reviews[k] = DOMAIN rows[k]
        /\ \A j \in DOMAIN rows[k] : /\ RowFits(rows[k][j])
                                     /\ rows[k][j].unit = RunPlan(k, Manifest)[j]
    BY <1>1 DEF Record, Table
  <2> HIDE DEF rs
  <2>3. \A j \in DOMAIN rs : RowFits(rs[j]) /\ rs[j].unit = RunPlan(k, Manifest)[j]
    BY <1>3, <2>2
  <2> QED BY <1>3, <2>1, <2>2, <2>3 DEF Table
<1>5. Reviewing(rs, reviews[k])
  BY <1>1, <1>3 DEF Record, Table, Reviewing
<1>6. Record(k, c, rs, reviews[k])
  BY <1>4, <1>5 DEF Record
<1> QED BY <1>2, <1>6 DEF Records

\* A unit that has not ended goes on or ends, and its campaign goes on or stops.
LEMMA UnitStep ==
    ASSUME Records, NEW k \in Kind, NEW c, NEW i \in DOMAIN rows[k], NEW r,
           Lifecycle(c), RowFits(r), DOMAIN camp' = Kind, camp'[k] = c,
           \A j \in Kind \ {k} : camp'[j] = camp[j], rows' = [rows EXCEPT ![k][i] = r],
           reviews' = reviews,
           rows[k][i].state \in {"PENDING", "CLAIMED", "SUBMITTED"}, r.state # "SKIPPED",
           r.unit = rows[k][i].unit, c.seen = camp[k].seen,
           rows[k][i].state = "PENDING" => camp[k].status = "RUNNING",
           \/ c.status = camp[k].status /\ c.intent = camp[k].intent
           \/ c.status = "STOPPING" /\ c.intent # "PAUSE"
    PROVE  Records'
<1> DEFINE rs == [rows[k] EXCEPT ![i] = r]
<1>1. Progress(camp[k], rows[k])
  BY DEF Records, Record
<1>2. /\ DOMAIN rs = DOMAIN rows[k] /\ rs[i] = r
      /\ \A j \in DOMAIN rows[k] \ {i} : rs[j] = rows[k][j]
  OBVIOUS
<1>3. camp[k].status \notin {"ABSENT", "CREATED", "AWAITING_REVIEW"} /\ ~camp[k].seen
  BY <1>1 DEF Progress, TerminalResult
<1> HIDE DEF rs
<1>4. Progress(c, rs)
  BY <1>1, <1>2, <1>3 DEF Progress
<1>5. rows[k][i].state \notin TerminalResult
  BY DEF TerminalResult
<1> QED BY <1>4, <1>5, RowStep DEF rs

-----------------------------------------------------------------------------
\* CampaignLifecycle and the other steps that leave the results alone.
LEMMA LifecycleSteps ==
    ASSUME Records, NEW k \in Kind,
           \/ \E p \in Provenance : Create(k, p)
           \/ Start(k) \/ Pause(k) \/ Resume(k) \/ Abort(k) \/ FatalStop(k) \/ SettleStop(k)
           \/ SeeSealed(k) \/ AwaitReview(k) \/ LookEnds(k) \/ DeadlinePasses(k)
    PROVE  Records'
<1> DEFINE c == camp'[k]
<1>1. /\ Lifecycle(camp[k]) /\ Progress(camp[k], rows[k]) /\ DOMAIN camp = Kind
  BY DEF Records, Record
<1>2. camp' = [camp EXCEPT ![k] = c] /\ rows' = rows /\ reviews' = reviews
  BY <1>1 DEF Create, Start, Pause, Resume, Abort, FatalStop, SettleStop, SeeSealed,
     AwaitReview, LookEnds, DeadlinePasses, StatusOnly, SetCampaign
<1>3. Lifecycle(c) /\ Progress(c, rows[k])
  <2>1. CASE \E p \in Provenance : Create(k, p)
    <3>1. /\ DOMAIN c = CampFields /\ c.status = "CREATED" /\ c.bound = camp[k].bound
          /\ c.intent = camp[k].intent /\ camp[k].status = "ABSENT" /\ c.seen = camp[k].seen
      BY <1>1, <2>1 DEF Create, SetCampaign, Lifecycle, CampFields
    <3> QED BY <1>1, <3>1 DEF Lifecycle, Progress
  <2>2. ASSUME NEW st, NEW in, StatusOnly(k, st, in)
        PROVE  /\ DOMAIN c = CampFields /\ c.status = st /\ c.intent = in
               /\ c.bound = camp[k].bound /\ c.seen = camp[k].seen
    BY <1>1, <2>2 DEF StatusOnly, SetCampaign, Lifecycle, CampFields
  <2>3. CASE Start(k) \/ Pause(k) \/ Resume(k) \/ FatalStop(k)
    <3> HIDE DEF c
    <3> QED BY <1>1, <2>2, <2>3 DEF Start, Pause, Resume, FatalStop, Lifecycle, Progress
  <2>4. CASE Abort(k)
    <3> HIDE DEF c
    <3> QED BY <1>1, <2>2, <2>4 DEF Abort, Lifecycle, Progress
  <2>5. CASE SettleStop(k)
    <3> HIDE DEF c
    <3> QED BY <1>1, <2>2, <2>5 DEF SettleStop, Lifecycle, Progress
  <2>6. CASE SeeSealed(k)
    <3>1. /\ DOMAIN c = CampFields /\ c.status = "RUNNING" /\ c.bound = camp[k].bound
          /\ c.intent = camp[k].intent /\ camp[k].status = "RUNNING"
      BY <1>1, <2>6 DEF SeeSealed, Lifecycle, CampFields
    <3>2. rows[k] # <<>> /\ \A i \in DOMAIN rows[k] : rows[k][i].state \in SealedResult
      BY <2>6 DEF SeeSealed
    <3> HIDE DEF c
    <3> QED BY <1>1, <3>1, <3>2 DEF Lifecycle, Progress, SealedResult, TerminalResult
  <2>7. CASE AwaitReview(k)
    <3>1. /\ DOMAIN c = CampFields /\ c.status = "AWAITING_REVIEW" /\ c.bound = camp[k].bound
          /\ c.intent = camp[k].intent /\ camp[k].seen
          /\ camp[k].status \in {"RUNNING", "STOPPING"}
      BY <1>1, <2>7 DEF AwaitReview, SetCampaign, Lifecycle, CampFields
    <3> HIDE DEF c
    <3> QED BY <1>1, <3>1 DEF Lifecycle, Progress
  <2>8. CASE LookEnds(k) \/ DeadlinePasses(k)
    <3>1. /\ DOMAIN c = CampFields /\ c.status = camp[k].status /\ c.bound = camp[k].bound
          /\ c.intent = camp[k].intent /\ (c.seen => camp[k].seen)
      BY <1>1, <2>8 DEF LookEnds, DeadlinePasses, Lifecycle, CampFields
    <3> HIDE DEF c
    <3> QED BY <1>1, <3>1 DEF Lifecycle, Progress
  <2> QED BY <2>1, <2>3, <2>4, <2>5, <2>6, <2>7, <2>8
<1> QED BY <1>2, <1>3, CampaignStep

-----------------------------------------------------------------------------
\* A non-empty set of natural numbers has a least element.
LEMMA LeastNumber ==
    ASSUME NEW T \in SUBSET Nat, T # {}
    PROVE  Min(T) \in T /\ \A y \in T : Min(T) <= y
<1>1. PICK n \in T : \A m \in T : ~(<<m, n>> \in OpToRel(<, Nat))
  BY WFMin, NatLessThanWellFounded
<1>2. ASSUME NEW m \in T PROVE n <= m
  <2>1. SUFFICES ASSUME m < n PROVE FALSE
    OBVIOUS
  <2>2. <<m, n>> \in Nat \X Nat /\ <<m, n>>[1] < <<m, n>>[2]
    BY <2>1
  <2>3. <<m, n>> \in OpToRel(<, Nat)
    BY <2>2 DEF OpToRel
  <2> QED BY <1>1, <2>3
<1>3. \E x \in T : \A y \in T : x =< y
  BY <1>2
<1> QED BY <1>3 DEF Min

\* The number of runs that the catalogue has for a campaign.
LEMMA MaxRunsType == \A k \in Kind : Profiles[k].maxRuns \in Nat \ {0}
BY ManifestAssumption DEF ValidProfile

\* The samples that it asks for.
LEMMA PolicyTypes ==
    ASSUME NEW k \in Kind
    PROVE  /\ Policies[k].reviews \in Nat /\ Policies[k].fast \in Nat
           /\ Policies[k].research \in Nat
<1>1. ValidPolicy(Policies[k])
  BY ManifestAssumption, Zenon
<1>2. \A f \in SampleCounts : Policies[k][f] \in Nat
  BY <1>1, Zenon DEF ValidPolicy
<1> QED BY <1>2 DEF SampleCounts

\* The next unit that is claimed is pending.
LEMMA NextIsPending ==
    ASSUME Records, NEW k \in Kind, InState(k, "PENDING") # {}
    PROVE  LET i == Min(InState(k, "PENDING"))
           IN  i \in DOMAIN rows[k] /\ rows[k][i].state = "PENDING"
<1>1. DOMAIN rows[k] \subseteq Nat
  BY MaxRunsType DEF Records, Record, Table
<1>2. InState(k, "PENDING") \in SUBSET Nat
  BY <1>1 DEF InState
<1>3. Min(InState(k, "PENDING")) \in InState(k, "PENDING")
  BY <1>2, LeastNumber
<1> QED BY <1>3 DEF InState

\* materialize: as many rows as the profile has runs, all of them pending.
LEMMA MaterializeStep ==
    ASSUME Records, NEW k \in Kind, Materialize(k)
    PROVE  Records'
<1> DEFINE n == Profiles[k].maxRuns
           m == Cardinality(Selected(k, Manifest))
           plan == RunPlan(k, Manifest)
<1>1. Lifecycle(camp[k]) /\ DOMAIN camp = Kind /\ DOMAIN rows = Kind /\ DOMAIN reviews = Kind
  BY DEF Records, Record
<1>2. DOMAIN plan = 1..n
  <2>1. m \in Nat
    <3>1. Selected(k, Manifest) \in SUBSET Manifest
      BY DEF Selected, Smoke
    <3> QED BY <3>1, ManifestAssumption, FS_Subset, FS_CardinalityType
  <2>2. Len(OrderedCases(Selected(k, Manifest))) = m
    BY <2>1 DEF OrderedCases
  <2>3. m * Profiles[k].repetitions = n
    BY DEF Materialize, Plannable, FitsProfile
  <2> QED BY <2>2, <2>3 DEF RunPlan
<1>3. /\ camp'[k] = [camp[k] EXCEPT !.planned = TRUE] /\ camp[k].status = "CREATED"
      /\ rows'[k] = [i \in 1..n |-> PendingRow(plan[i])]
      /\ reviews'[k] = [i \in 1..n |-> NoReview]
      /\ DOMAIN camp' = Kind /\ DOMAIN rows' = Kind /\ DOMAIN reviews' = Kind
      /\ \A j \in Kind \ {k} : camp'[j] = camp[j] /\ rows'[j] = rows[j] /\ reviews'[j] = reviews[j]
  BY <1>1, <1>2 DEF Materialize, SetCampaign
<1>4. Lifecycle(camp'[k])
  BY <1>1, <1>3 DEF Lifecycle, CampFields
<1>5. ASSUME NEW i \in 1..n
      PROVE  LET r == PendingRow(plan[i])
             IN  RowFits(r) /\ r.state = "PENDING" /\ r.unit = plan[i]
  BY DEF RowFits, PendingRow, RowFields
<1>6. Table(k, rows'[k], reviews'[k])
  BY <1>3, <1>5 DEF Table, Materialize
<1>7. Progress(camp'[k], rows'[k])
  BY <1>1, <1>3, <1>5 DEF Progress, Lifecycle, CampFields
<1>8. Reviewing(rows'[k], reviews'[k])
  BY <1>3 DEF Reviewing
<1>9. Record(k, camp'[k], rows'[k], reviews'[k])
  BY <1>4, <1>6, <1>7, <1>8 DEF Record
<1> QED BY <1>3, <1>9 DEF Records

\* A unit is claimed, admitted, submitted, or fails on the way.
LEMMA ClaimStep ==
    ASSUME Records, NEW k \in Kind, Claim(k)
    PROVE  Records'
<1> DEFINE i == Min(InState(k, "PENDING"))
           r == rows[k][i]
           q == [r EXCEPT !.state = "CLAIMED"]
<1>1. Lifecycle(camp[k]) /\ Table(k, rows[k], reviews[k]) /\ DOMAIN camp = Kind
  BY DEF Records, Record
<1>2. i \in DOMAIN rows[k] /\ r.state = "PENDING" /\ camp[k].status = "RUNNING"
  BY NextIsPending DEF Claim
<1>3. camp' = camp /\ rows' = [rows EXCEPT ![k][i] = q] /\ reviews' = reviews
  BY DEF Claim, SetRow
<1>4. RowFits(r)
  BY <1>1, <1>2 DEF Table
<1>5. RowFits(q) /\ q.state = "CLAIMED" /\ q.unit = r.unit
  BY <1>2, <1>4 DEF RowFits, RowFields
<1> HIDE DEF q, i
<1> QED BY <1>1, <1>2, <1>3, <1>5, UnitStep

\* What the steps of a claimed unit do to its campaign.
Goes(c, d) ==
    /\ Lifecycle(d) /\ d.seen = c.seen /\ d.bound = c.bound
    /\ \/ d.status = c.status /\ d.intent = c.intent
       \/ c.status = "RUNNING" /\ d.status = "STOPPING" /\ d.intent # "PAUSE"

LEMMA GoesOn ==
    ASSUME NEW c, Lifecycle(c), NEW n, NEW l
    PROVE  /\ Goes(c, [c EXCEPT !.counts = n]) /\ Goes(c, [c EXCEPT !.ledger = l])
           /\ Goes(c, [c EXCEPT !.counts = n, !.ledger = l])
BY DEF Goes, Lifecycle, CampFields

LEMMA SubmissionStep ==
    ASSUME NEW k \in Kind, Lifecycle(camp[k]), DOMAIN camp = Kind, Table(k, rows[k], reviews[k]),
           \/ Reserve(k) \/ ReserveDenied(k) \/ Submit(k) \/ AdmissionRefused(k)
           \/ SubmissionRejected(k) \/ SubmissionUnknown(k)
    PROVE  \E i \in Claimed(k) : \E c, r :
             /\ Goes(camp[k], c) /\ RowFits(r)
             /\ camp' = [camp EXCEPT ![k] = c] /\ rows' = [rows EXCEPT ![k][i] = r]
             /\ reviews' = reviews /\ r.unit = rows[k][i].unit
             /\ r.state \in {"CLAIMED", "SUBMITTED", "FAILED"}
<1> DEFINE c == camp[k]
<1>1. ASSUME NEW i \in Claimed(k)
      PROVE  i \in DOMAIN rows[k] /\ rows[k][i].state = "CLAIMED" /\ RowFits(rows[k][i])
  BY DEF Claimed, InState, Table
<1>2. ASSUME NEW i \in Claimed(k), NEW resv, NEW used, NEW class, NEW signal, resv # "ACTIVE",
             class \in {"PROVIDER_TRANSIENT", "PERMANENT_CONFIGURATION"}
      PROVE  LET r == FailedRow(rows[k][i], resv, used, class, signal)
             IN  RowFits(r) /\ r.state = "FAILED" /\ r.unit = rows[k][i].unit
  <2> DEFINE o == rows[k][i]
             r == FailedRow(o, resv, used, class, signal)
  <2>1. RowFits(o) /\ o.state = "CLAIMED"
    BY <1>1
  <2>2. /\ DOMAIN r = RowFields /\ r.state = "FAILED" /\ r.resv = resv /\ r.class = class
        /\ r.m = o.m /\ r.source = o.source /\ r.unit = o.unit
    BY <2>1 DEF FailedRow, RowFits, RowFields
  <2> HIDE DEF r
  <2>3. RowFits(r)
    BY <1>2, <2>1, <2>2 DEF RowFits
  <2> QED BY <2>2, <2>3 DEF r
<1>3. CASE Reserve(k)
  <2> DEFINE l == [c.ledger EXCEPT !.reserved = @ + RunReserve.calls,
                                   !.reservedCost = @ + RunReserve.cost]
             d == [c EXCEPT !.ledger = l]
  <2>1. PICK i \in Claimed(k) :
          /\ SetRow(k, i, [rows[k][i] EXCEPT !.resv = "ACTIVE"])
          /\ SetCampaign(k, d) /\ reviews' = reviews
    BY <1>3 DEF Reserve
  <2> DEFINE r == [rows[k][i] EXCEPT !.resv = "ACTIVE"]
  <2>2. RowFits(r) /\ r.state = "CLAIMED" /\ r.unit = rows[k][i].unit
    BY <1>1 DEF RowFits, RowFields
  <2> HIDE DEF l
  <2>3. Goes(c, d)
    BY GoesOn
  <2> HIDE DEF d, r
  <2> QED BY <2>1, <2>2, <2>3 DEF SetCampaign, SetRow, r
<1>4. CASE ReserveDenied(k)
  <2> DEFINE x == IF OverCalls(k) THEN "CALL_CEILING" ELSE "BUDGET"
             d == [c EXCEPT !.status = "STOPPING", !.intent = x]
  <2>1. PICK i \in Claimed(k) :
          /\ Asks(k, i) /\ SetRow(k, i, [rows[k][i] EXCEPT !.over = TRUE])
          /\ SetCampaign(k, d) /\ reviews' = reviews
    BY <1>4 DEF ReserveDenied
  <2> DEFINE r == [rows[k][i] EXCEPT !.over = TRUE]
  <2>2. RowFits(r) /\ r.state = "CLAIMED" /\ r.unit = rows[k][i].unit
    BY <1>1 DEF RowFits, RowFields, MeasuredOn
  <2>3. x # "PAUSE" /\ c.status = "RUNNING"
    BY <2>1 DEF Asks
  <2> HIDE DEF x
  <2>4. Goes(c, d)
    BY <2>3 DEF Goes, Lifecycle, CampFields
  <2> HIDE DEF d, r
  <2> QED BY <2>1, <2>2, <2>4 DEF SetCampaign, SetRow, r
<1>5. CASE Submit(k)
  <2> DEFINE n == [c.counts EXCEPT !.submitted = @ + 1]
             d == [c EXCEPT !.counts = n]
  <2>1. PICK i \in Claimed(k) :
          /\ SetRow(k, i, [rows[k][i] EXCEPT !.state = "SUBMITTED", !.run = TRUE])
          /\ SetCampaign(k, d) /\ reviews' = reviews
    BY <1>5 DEF Submit
  <2> DEFINE r == [rows[k][i] EXCEPT !.state = "SUBMITTED", !.run = TRUE]
  <2>2. RowFits(r) /\ r.state = "SUBMITTED" /\ r.unit = rows[k][i].unit
    BY <1>1 DEF RowFits, RowFields
  <2> HIDE DEF n
  <2>3. Goes(c, d)
    BY GoesOn
  <2> HIDE DEF d, r
  <2> QED BY <2>1, <2>2, <2>3 DEF SetCampaign, SetRow, r
<1>6. CASE AdmissionRefused(k)
  <2> DEFINE n == [c.counts EXCEPT !.failed = @ + 1]
             d == [c EXCEPT !.counts = n]
  <2>1. PICK i \in Claimed(k) :
          /\ SetRow(k, i, FailedRow(rows[k][i], "NONE", NoUsage,
                            "PERMANENT_CONFIGURATION", "budget_admission_denied"))
          /\ SetCampaign(k, d) /\ reviews' = reviews
    BY <1>6 DEF AdmissionRefused
  <2> HIDE DEF n
  <2>2. Goes(c, d)
    BY GoesOn
  <2> DEFINE r == FailedRow(rows[k][i], "NONE", NoUsage,
                              "PERMANENT_CONFIGURATION", "budget_admission_denied")
  <2>3. RowFits(r) /\ r.state = "FAILED" /\ r.unit = rows[k][i].unit
    BY <1>2
  <2> HIDE DEF d, r
  <2> QED BY <2>1, <2>2, <2>3 DEF SetCampaign, SetRow, r
<1>7. CASE SubmissionRejected(k)
  <2> DEFINE n == [c.counts EXCEPT !.failed = @ + 1]
             l == [c.ledger EXCEPT !.reserved = @ - RunReserve.calls,
                                   !.reservedCost = @ - RunReserve.cost]
             d == [c EXCEPT !.counts = n, !.ledger = l]
  <2>1. PICK i \in Claimed(k) :
          /\ SetRow(k, i, FailedRow(rows[k][i], "RELEASED", NoUsage,
                            "PERMANENT_CONFIGURATION", "request_rejected"))
          /\ SetCampaign(k, d) /\ reviews' = reviews
    BY <1>7 DEF SubmissionRejected
  <2> HIDE DEF n, l
  <2>2. Goes(c, d)
    BY GoesOn
  <2> DEFINE r == FailedRow(rows[k][i], "RELEASED", NoUsage,
                              "PERMANENT_CONFIGURATION", "request_rejected")
  <2>3. RowFits(r) /\ r.state = "FAILED" /\ r.unit = rows[k][i].unit
    BY <1>2
  <2> HIDE DEF d, r
  <2> QED BY <2>1, <2>2, <2>3 DEF SetCampaign, SetRow, r
<1>8. CASE SubmissionUnknown(k)
  <2> DEFINE n == [c.counts EXCEPT !.failed = @ + 1]
             l == [c.ledger EXCEPT !.possibly = @ + RunReserve.calls,
                      !.possiblyCost = @ + RunReserve.cost, !.possiblyCount = @ + 1,
                      !.reserved = @ - RunReserve.calls, !.reservedCost = @ - RunReserve.cost]
             d == [c EXCEPT !.counts = n, !.ledger = l]
             used == [NoUsage EXCEPT !.possibly = RunReserve.calls,
                                     !.possiblyCost = RunReserve.cost]
  <2>1. PICK i \in Claimed(k) :
          /\ SetRow(k, i, FailedRow(rows[k][i], "SETTLED", used,
                            "PROVIDER_TRANSIENT", "transport_exhausted"))
          /\ SetCampaign(k, d) /\ reviews' = reviews
    BY <1>8 DEF SubmissionUnknown
  <2> HIDE DEF n, l, used
  <2>2. Goes(c, d)
    BY GoesOn
  <2> DEFINE r == FailedRow(rows[k][i], "SETTLED", used,
                              "PROVIDER_TRANSIENT", "transport_exhausted")
  <2>3. RowFits(r) /\ r.state = "FAILED" /\ r.unit = rows[k][i].unit
    BY <1>2
  <2> HIDE DEF d, r
  <2> QED BY <2>1, <2>2, <2>3 DEF SetCampaign, SetRow, r
<1> QED BY <1>3, <1>4, <1>5, <1>6, <1>7, <1>8

LEMMA SubmissionSteps ==
    ASSUME Records, NEW k \in Kind,
           \/ Claim(k) \/ Reserve(k) \/ ReserveDenied(k) \/ Submit(k) \/ AdmissionRefused(k)
           \/ SubmissionRejected(k) \/ SubmissionUnknown(k)
    PROVE  Records'
<1>1. CASE Claim(k)
  BY <1>1, ClaimStep
<1>2. CASE ~Claim(k)
  <2>1. Lifecycle(camp[k]) /\ Table(k, rows[k], reviews[k]) /\ DOMAIN camp = Kind
    BY DEF Records, Record
  <2>2. PICK i, c, r :
             /\ i \in Claimed(k)
             /\ Goes(camp[k], c) /\ RowFits(r)
             /\ camp' = [camp EXCEPT ![k] = c] /\ rows' = [rows EXCEPT ![k][i] = r]
             /\ reviews' = reviews /\ r.unit = rows[k][i].unit
             /\ r.state \in {"CLAIMED", "SUBMITTED", "FAILED"}
    BY <1>2, <2>1, SubmissionStep
  <2>3. i \in DOMAIN rows[k] /\ rows[k][i].state = "CLAIMED"
    BY <2>2 DEF Claimed, InState
  <2>4. /\ DOMAIN camp' = Kind /\ camp'[k] = c
        /\ \A j \in Kind \ {k} : camp'[j] = camp[j]
    BY <2>1, <2>2
  <2>5. /\ Lifecycle(c) /\ c.seen = camp[k].seen
        /\ \/ c.status = camp[k].status /\ c.intent = camp[k].intent
           \/ c.status = "STOPPING" /\ c.intent # "PAUSE"
    BY <2>2 DEF Goes
  <2> QED BY <2>2, <2>3, <2>4, <2>5, UnitStep
<1> QED BY <1>1, <1>2

LEMMA UnitMoves ==
    ASSUME Records, NEW k \in Kind,
           \/ Claim(k) \/ Reserve(k) \/ ReserveDenied(k) \/ Submit(k) \/ AdmissionRefused(k)
           \/ SubmissionRejected(k) \/ SubmissionUnknown(k)
    PROVE  \E i \in DOMAIN rows[k] : \E r :
             rows' = [rows EXCEPT ![k][i] = r] /\ r.state # "COLLECTED"
<1>1. Lifecycle(camp[k]) /\ Table(k, rows[k], reviews[k]) /\ DOMAIN camp = Kind
  BY DEF Records, Record
<1>2. CASE Claim(k)
  <2> DEFINE i == Min(InState(k, "PENDING"))
             q == [rows[k][i] EXCEPT !.state = "CLAIMED"]
  <2>1. i \in DOMAIN rows[k] /\ rows' = [rows EXCEPT ![k][i] = q]
    BY <1>2, NextIsPending DEF Claim, SetRow
  <2>2. RowFits(rows[k][i])
    BY <1>1, <2>1 DEF Table
  <2>3. q.state = "CLAIMED"
    BY <2>2 DEF RowFits, RowFields
  <2> HIDE DEF q, i
  <2> QED BY <2>1, <2>3
<1>3. CASE ~Claim(k)
  <2>1. PICK i, r :
             /\ i \in Claimed(k) /\ rows' = [rows EXCEPT ![k][i] = r]
             /\ r.state \in {"CLAIMED", "SUBMITTED", "FAILED"}
    BY <1>1, <1>3, SubmissionStep
  <2>2. i \in DOMAIN rows[k]
    BY <2>1 DEF Claimed, InState
  <2> QED BY <2>1, <2>2
<1> QED BY <1>2, <1>3

\* The candidate's tables: a run ends, and what it left changes later.
LEMMA SourceSteps ==
    ASSUME Records, NEW k \in Kind, RunTerminates(k) \/ SourceDrifts(k)
    PROVE  Records'
<1>1. /\ Lifecycle(camp[k]) /\ Progress(camp[k], rows[k])
      /\ Table(k, rows[k], reviews[k])
      /\ DOMAIN camp = Kind
  BY DEF Records, Record
<1>2. camp' = camp /\ reviews' = reviews
  BY DEF RunTerminates, SourceDrifts
<1>3. PICK i, s :
        /\ i \in DOMAIN rows[k] /\ Stored(s)
        /\ rows' = [rows EXCEPT ![k][i] = [rows[k][i] EXCEPT !.source = s]]
        /\ rows[k][i].state = "COLLECTED" => s.queries = rows[k][i].source.queries
  BY DEF RunTerminates, SourceDrifts, SetRow, InState
<1> DEFINE r == rows[k][i]
           q == [r EXCEPT !.source = s]
<1>4. RowFits(r)
  BY <1>1, <1>3 DEF Table
<1>5. /\ DOMAIN q = RowFields /\ q.source = s
      /\ \A f \in RowFields \ {"source"} : q[f] = r[f]
  BY <1>4 DEF RowFits, RowFields
<1>6. /\ q.state = r.state /\ q.resv = r.resv /\ q.run = r.run /\ q.m = r.m
      /\ q.unit = r.unit /\ q.signals = r.signals /\ q.class = r.class
  BY <1>5 DEF RowFields
<1>7. ASSUME r.state = "COLLECTED" PROVE \E x : MeasuredOn(q, x)
  <2>1. PICK x : MeasuredOn(r, x)
    BY <1>4, <1>7 DEF RowFits
  <2>2. MeasuredOn(q, x)
    BY <2>1, <1>3, <1>5, <1>6, <1>7 DEF MeasuredOn
  <2> QED BY <2>2
<1>8. RowFits(q)
  BY <1>3, <1>4, <1>5, <1>6, <1>7 DEF RowFits
<1>9. Progress(camp[k], [rows[k] EXCEPT ![i] = q])
  <2> DEFINE rs == [rows[k] EXCEPT ![i] = q]
  <2>1. DOMAIN rs = DOMAIN rows[k] /\ \A j \in DOMAIN rows[k] : rs[j].state = rows[k][j].state
    BY <1>3, <1>6
  <2>2. rs # <<>>
    BY <1>3, <2>1
  <2> HIDE DEF rs, q
  <2> QED BY <1>1, <2>1, <2>2 DEF Progress, rs
<1> QED BY <1>1, <1>2, <1>3, <1>6, <1>8, <1>9, RowStep

-----------------------------------------------------------------------------
\* settle_run_budget stops a running campaign or leaves its status alone.
LEMMA SettledLifecycle ==
    ASSUME NEW k \in Kind, NEW u, Lifecycle(camp[k])
    PROVE  Goes(camp[k], SettledCampaign(k, u))
<1> DEFINE l == SettledLedger(camp[k].ledger, u)
           b == Breach(k, l, u)
<1>1. b \in {"CALL_CEILING", "BUDGET", "NONE"}
  BY DEF Breach
<1> HIDE DEF b
<1>2. SettledCampaign(k, u) =
        [camp[k] EXCEPT !.ledger = l,
            !.status = IF b # "NONE" /\ camp[k].status = "RUNNING" THEN "STOPPING" ELSE @,
            !.intent = IF b # "NONE" /\ camp[k].status = "RUNNING" THEN b ELSE @]
  BY DEF SettledCampaign, b
<1> HIDE DEF l
<1> QED BY <1>1, <1>2 DEF Goes, Lifecycle, CampFields

\* The collection of a unit, and its failure.
LEMMA CollectionSteps ==
    ASSUME Records, NEW k \in Kind, CollectResult(k) \/ CollectionFails(k)
    PROVE  Records'
<1>1. /\ Lifecycle(camp[k]) /\ Progress(camp[k], rows[k])
      /\ Table(k, rows[k], reviews[k])
      /\ DOMAIN camp = Kind
  BY DEF Records, Record
<1>2. CASE CollectResult(k)
  <2>1. PICK i \in Collectable(k) :
          LET r    == rows[k][i]
              m    == Collect(ReadSnapshot(r.source), r.unit.case)
              u    == SettledUsage(r.source)
              over == ExceedsReserve(u)
          IN  /\ Errors(r.source) = {}
              /\ SetRow(k, i, [r EXCEPT !.state = "COLLECTED", !.resv = "SETTLED",
                      !.m = m, !.used = u, !.calls = m.calls, !.over = over,
                      !.class = IF over THEN "CANDIDATE_DEFECT" ELSE m.class,
                      !.signals = m.signals \cup IF over THEN {"budget_violation"} ELSE {}])
              /\ SetCampaign(k, [SettledCampaign(k, u) EXCEPT
                      !.counts.collected = @ + 1,
                      !.counts.degraded = @ + IF m.degraded THEN 1 ELSE 0])
              /\ reviews' = reviews
    BY <1>2 DEF CollectResult
  <2> DEFINE r == rows[k][i]
             m == Collect(ReadSnapshot(r.source), r.unit.case)
             u == SettledUsage(r.source)
             over == ExceedsReserve(u)
             e == SettledCampaign(k, u)
             d == [e EXCEPT !.counts.collected = @ + 1,
                            !.counts.degraded = @ + IF m.degraded THEN 1 ELSE 0]
             q == [r EXCEPT !.state = "COLLECTED", !.resv = "SETTLED",
                      !.m = m, !.used = u, !.calls = m.calls, !.over = over,
                      !.class = IF over THEN "CANDIDATE_DEFECT" ELSE m.class,
                      !.signals = m.signals \cup IF over THEN {"budget_violation"} ELSE {}]
  <2>2. /\ DOMAIN camp' = Kind /\ camp'[k] = d /\ \A j \in Kind \ {k} : camp'[j] = camp[j]
        /\ rows' = [rows EXCEPT ![k][i] = q] /\ reviews' = reviews
    BY <1>1, <2>1 DEF SetCampaign, SetRow
  <2>3. i \in DOMAIN rows[k] /\ r.state = "SUBMITTED" /\ r.source # NoSource
    BY <2>1 DEF Collectable, InState
  <2>4. RowFits(r)
    BY <1>1, <2>3 DEF Table
  <2> HIDE DEF m, u, over
  <2>5. /\ DOMAIN q = RowFields /\ q.state = "COLLECTED" /\ q.resv = "SETTLED" /\ q.m = m
        /\ q.unit = r.unit /\ q.run = r.run /\ q.source = r.source /\ m.signals \subseteq q.signals
    BY <2>4 DEF RowFits, RowFields
  <2>6. Stored(r.source)
    BY <2>3, <2>4 DEF RowFits
  <2>7. MeasuredOn(q, r.source)
    BY <2>1, <2>5, <2>6 DEF MeasuredOn, m
  <2>8. RowFits(q)
    BY <2>3, <2>4, <2>5, <2>6, <2>7 DEF RowFits
  <2>9. Goes(camp[k], e)
    BY <1>1, SettledLifecycle
  <2> HIDE DEF e
  <2>10. Goes(camp[k], d)
    BY <2>9 DEF Goes, Lifecycle, CampFields
  <2> HIDE DEF d, q
  <2> QED BY <2>2, <2>3, <2>5, <2>8, <2>10, UnitStep DEF Goes
<1>3. CASE CollectionFails(k)
  <2>1. PICK i, x :
          LET r    == rows[k][i]
              u    == SettledUsage(r.source)
          IN  /\ i \in Collectable(k)
              /\ SetRow(k, i, [r EXCEPT !.state = "FAILED", !.resv = "SETTLED", !.used = u,
                      !.calls = Cardinality(Called(r.source)), !.over = ExceedsReserve(u),
                      !.class = CollectionFailure(x).class,
                      !.signals = {CollectionFailure(x).signal}])
              /\ SetCampaign(k, [SettledCampaign(k, u) EXCEPT !.counts.failed = @ + 1])
              /\ reviews' = reviews
    BY <1>3 DEF CollectionFails
  <2> DEFINE r == rows[k][i]
             u == SettledUsage(r.source)
             over == ExceedsReserve(u)
             calls == Cardinality(Called(r.source))
             class == CollectionFailure(x).class
             signal == CollectionFailure(x).signal
             e == SettledCampaign(k, u)
             d == [e EXCEPT !.counts.failed = @ + 1]
             q == [r EXCEPT !.state = "FAILED", !.resv = "SETTLED", !.used = u,
                      !.calls = calls, !.over = over, !.class = class, !.signals = {signal}]
  <2>2. /\ DOMAIN camp' = Kind /\ camp'[k] = d /\ \A j \in Kind \ {k} : camp'[j] = camp[j]
        /\ rows' = [rows EXCEPT ![k][i] = q] /\ reviews' = reviews
    BY <1>1, <2>1 DEF SetCampaign, SetRow
  <2>3. i \in DOMAIN rows[k] /\ r.state = "SUBMITTED"
    BY <2>1 DEF Collectable, InState
  <2>4. RowFits(r)
    BY <1>1, <2>3 DEF Table
  <2>5. class \in {"INFRASTRUCTURE", "PERMANENT_CONFIGURATION"}
    BY DEF CollectionFailure
  <2> HIDE DEF u, over, calls, class, signal
  <2>6. /\ DOMAIN q = RowFields /\ q.state = "FAILED" /\ q.resv = "SETTLED" /\ q.m = r.m
        /\ q.source = r.source /\ q.unit = r.unit /\ q.class = class
    BY <2>4 DEF RowFits, RowFields
  <2> HIDE DEF q
  <2>7. RowFits(q)
    BY <2>3, <2>4, <2>5, <2>6 DEF RowFits
  <2>8. Goes(camp[k], e)
    BY <1>1, SettledLifecycle
  <2> HIDE DEF e
  <2>9. Goes(camp[k], d)
    BY <2>8 DEF Goes, Lifecycle, CampFields
  <2> HIDE DEF d
  <2> QED BY <2>2, <2>3, <2>6, <2>7, <2>9, UnitStep DEF Goes, q
<1> QED BY <1>2, <1>3

\* The units that a stopping campaign will not begin any more.
LEMMA SkipStep ==
    ASSUME Records, NEW k \in Kind, SkipPending(k)
    PROVE  Records'
<1> DEFINE n == Profiles[k].maxRuns
           pending == InState(k, "PENDING")
           c == [camp[k] EXCEPT !.counts.skipped = @ + Cardinality(pending)]
           rs == [i \in DOMAIN rows[k] |->
                    IF i \in pending THEN [rows[k][i] EXCEPT !.state = "SKIPPED"]
                    ELSE rows[k][i]]
<1>1. /\ Lifecycle(camp[k]) /\ Table(k, rows[k], reviews[k]) /\ Reviewing(rows[k], reviews[k])
      /\ Progress(camp[k], rows[k])
      /\ DOMAIN camp = Kind /\ DOMAIN rows = Kind /\ DOMAIN reviews = Kind
  BY DEF Records, Record
<1>2. /\ camp' = [camp EXCEPT ![k] = c] /\ rows' = [rows EXCEPT ![k] = rs] /\ reviews' = reviews
      /\ camp[k].status = "STOPPING" /\ camp[k].intent # "PAUSE" /\ pending # {}
  BY DEF SkipPending, SetCampaign
<1>3. \A i \in pending : i \in DOMAIN rows[k] /\ rows[k][i].state = "PENDING"
  BY DEF InState
<1>4. DOMAIN rows[k] = 1..n /\ Plannable(k, Manifest)
  BY <1>1, <1>2, <1>3 DEF Table
<1>5. Lifecycle(c) /\ c.status = "STOPPING" /\ c.intent # "PAUSE" /\ c.seen = camp[k].seen
  BY <1>1, <1>2 DEF Lifecycle, CampFields
<1>6. ASSUME NEW i \in DOMAIN rows[k] PROVE RowFits(rs[i]) /\ rs[i].unit = rows[k][i].unit
  <2>1. RowFits(rows[k][i])
    BY <1>1 DEF Table
  <2>2. CASE i \notin pending
    BY <2>1, <2>2
  <2>3. CASE i \in pending
    <3> DEFINE r == rows[k][i]
               q == [r EXCEPT !.state = "SKIPPED"]
    <3>1. rs[i] = q /\ r.state = "PENDING"
      BY <1>3, <2>3
    <3>2. /\ DOMAIN q = RowFields /\ q.state = "SKIPPED" /\ q.resv = r.resv /\ q.m = r.m
          /\ q.source = r.source /\ q.unit = r.unit
      BY <2>1 DEF RowFits, RowFields
    <3>3. RowFits(q)
      BY <2>1, <3>1, <3>2 DEF RowFits
    <3> HIDE DEF q, rs
    <3> QED BY <3>1, <3>2, <3>3
  <2> QED BY <2>2, <2>3
<1>7. Table(k, rs, reviews[k])
  <2>1. DOMAIN rs = DOMAIN rows[k]
    OBVIOUS
  <2>2. /\ DOMAIN reviews[k] = DOMAIN rows[k]
        /\ \A i \in DOMAIN rows[k] : rows[k][i].unit = RunPlan(k, Manifest)[i]
    BY <1>1 DEF Table
  <2> HIDE DEF rs
  <2> QED BY <1>4, <1>6, <2>1, <2>2 DEF Table
<1>8. Progress(c, rs)
  <2>1. ~camp[k].seen
    BY <1>1, <1>2, <1>3 DEF Progress, TerminalResult
  <2> HIDE DEF c, rs
  <2> QED BY <1>5, <2>1 DEF Progress
<1>9. Reviewing(rs, reviews[k])
  BY <1>1, <1>2, <1>3 DEF Table, Reviewing, TerminalResult
<1>10. Record(k, c, rs, reviews[k])
  BY <1>5, <1>7, <1>8, <1>9 DEF Record
<1> HIDE DEF c, rs
<1>11. \A j \in Kind \ {k} : camp'[j] = camp[j] /\ rows'[j] = rows[j]
  BY <1>1, <1>2
<1>12. camp'[k] = c /\ rows'[k] = rs /\ DOMAIN camp' = Kind /\ DOMAIN rows' = Kind
  BY <1>1, <1>2
<1> QED BY <1>1, <1>2, <1>10, <1>11, <1>12 DEF Records

\* The review of a unit.
LEMMA ReviewStep ==
    ASSUME Records, NEW k \in Kind, SubmitReview(k)
    PROVE  Records'
<1> DEFINE n == Profiles[k].maxRuns
<1>1. /\ Lifecycle(camp[k]) /\ Table(k, rows[k], reviews[k]) /\ Reviewing(rows[k], reviews[k])
      /\ Progress(camp[k], rows[k])
      /\ DOMAIN camp = Kind /\ DOMAIN rows = Kind /\ DOMAIN reviews = Kind
  BY DEF Records, Record
<1>2. PICK i \in ToReview(k) : \E v \in ReviewsFor(rows[k][i]) :
        /\ camp[k].status = "AWAITING_REVIEW" /\ reviews' = [reviews EXCEPT ![k][i] = v]
        /\ SetCampaign(k, camp[k]) /\ rows' = rows
  BY DEF SubmitReview
<1>3. PICK v \in ReviewsFor(rows[k][i]) :
        /\ camp[k].status = "AWAITING_REVIEW" /\ reviews' = [reviews EXCEPT ![k][i] = v]
        /\ SetCampaign(k, camp[k]) /\ rows' = rows
  BY <1>2
<1>4. v.verdict # None
  BY <1>3, ReviewAssumption DEF ReviewsFor, ExpectedAnswerMissing, MaterialUnavailable, None
<1>5. /\ i \in DOMAIN rows[k] /\ rows[k][i].state = "COLLECTED"
      /\ \A j \in DOMAIN rows[k] : rows[k][j].state \in TerminalResult
  BY <1>1, <1>3 DEF Progress, ToReview, InState
<1> DEFINE rv == [reviews[k] EXCEPT ![i] = v]
<1>6. /\ DOMAIN rv = DOMAIN reviews[k]
      /\ \A j \in DOMAIN reviews[k] : rv[j] = reviews[k][j] \/ (j = i /\ rv[j] = v)
  OBVIOUS
<1>7. Table(k, rows[k], rv) /\ Reviewing(rows[k], rv)
  BY <1>1, <1>4, <1>5, <1>6 DEF Table, Reviewing
<1>8. Record(k, camp[k], rows[k], rv)
  BY <1>1, <1>7 DEF Record
<1>9. /\ reviews'[k] = rv /\ DOMAIN reviews' = Kind /\ DOMAIN camp' = Kind
      /\ \A j \in Kind : camp'[j] = camp[j]
      /\ \A j \in Kind \ {k} : reviews'[j] = reviews[j]
  BY <1>1, <1>3 DEF SetCampaign
<1> QED BY <1>1, <1>3, <1>8, <1>9 DEF Records

\* bind ends the campaign.
LEMMA BindStep ==
    ASSUME Records, Reports, NEW p \in Reporter, BindReport(p)
    PROVE  Records'
<1> DEFINE q == reporter[p]
           k == q.k
           c == camp[k]
           d == [c EXCEPT !.status = TerminalStatus(c),
                          !.bound = [gate |-> q.report.decision.status, by |-> p]]
<1>1. k \in Kind /\ c.intent # "PAUSE"
  BY DEF BindReport, Bindable, Reports
<1>2. Lifecycle(c) /\ Progress(c, rows[k])
  BY <1>1 DEF Records, Record
<1>3. camp' = [camp EXCEPT ![k] = d] /\ rows' = rows /\ reviews' = reviews
  BY DEF BindReport
<1>4. TerminalStatus(c) \in {"COMPLETED", "ABORTED"}
  BY DEF TerminalStatus
<1>5. /\ DOMAIN d = CampFields /\ d.status \in {"COMPLETED", "ABORTED"} /\ d.intent # "PAUSE"
      /\ d.seen = c.seen
  BY <1>1, <1>2, <1>4 DEF Lifecycle, CampFields
<1>6. Lifecycle(d) /\ Progress(d, rows[k])
  BY <1>2, <1>5 DEF Lifecycle, Progress
<1> HIDE DEF d
<1> QED BY <1>1, <1>3, <1>6, CampaignStep

\* A write to a campaign leaves reports in preparation as they are, but stale.
LEMMA TouchedStep ==
    ASSUME Reports, NEW k, Touched(k)
    PROVE  Reports'
<1>1. ASSUME NEW p \in Reporter, reporter[p] # Idle
      PROVE  /\ reporter'[p].k = reporter[p].k /\ DOMAIN reporter'[p] = ReportFields
             /\ reporter'[p].report = reporter[p].report
             /\ reporter'[p].in = reporter[p].in /\ reporter'[p].status = reporter[p].status
  <2>1. DOMAIN reporter[p] = ReportFields
    BY <1>1 DEF Reports
  <2> QED BY <2>1 DEF Touched, ReportFields
<1>2. ASSUME NEW p \in Reporter, reporter[p] = Idle, reporter'[p] # Idle PROVE FALSE
  BY <1>2 DEF Touched, Idle
<1>3. DOMAIN reporter' = Reporter
  BY DEF Touched
<1> QED BY <1>1, <1>2, <1>3 DEF Reports

\* The reporters themselves.
LEMMA ReporterSteps ==
    ASSUME Reports, NEW p \in Reporter,
           \/ \E k \in Kind : ReadReport(p, k)
           \/ PutReport(p) \/ BindReport(p) \/ ReportEnds(p)
    PROVE  Reports'
<1> USE DEF Reports
<1>1. CASE \E k \in Kind : ReadReport(p, k)
  <2>1. PICK k \in Kind : ReadReport(p, k)
    BY <1>1
  <2> DEFINE q == [k |-> k, status |-> camp[k].status, fresh |-> TRUE,
                   in |-> DecisionInput(k), report |-> Prepared(k), put |-> FALSE]
  <2>2. reporter' = [reporter EXCEPT ![p] = q]
    BY <2>1 DEF ReadReport
  <2>3. q.report = Prepare(q.in, q.status, camp[k].late)
    BY DEF Prepared
  <2>4. DOMAIN q = ReportFields /\ q.k \in Kind
    BY DEF ReportFields
  <2> HIDE DEF q
  <2> QED BY <2>2, <2>3, <2>4
<1>2. CASE PutReport(p)
  <2> DEFINE q == [reporter[p] EXCEPT !.put = TRUE]
  <2>1. reporter[p] # Idle /\ reporter' = [reporter EXCEPT ![p] = q]
    BY <1>2 DEF PutReport
  <2>2. /\ DOMAIN q = ReportFields /\ q.k = reporter[p].k /\ q.report = reporter[p].report
        /\ q.in = reporter[p].in /\ q.status = reporter[p].status
    BY <2>1 DEF ReportFields
  <2> HIDE DEF q
  <2> QED BY <2>1, <2>2
<1>3. CASE BindReport(p)
  <2>1. ASSUME NEW o \in Reporter, reporter[o] # Idle, reporter'[o] # Idle
        PROVE  /\ reporter'[o].k = reporter[o].k /\ DOMAIN reporter'[o] = ReportFields
               /\ reporter'[o].report = reporter[o].report
               /\ reporter'[o].in = reporter[o].in /\ reporter'[o].status = reporter[o].status
    <3>1. DOMAIN reporter[o] = ReportFields
      BY <2>1
    <3> QED BY <1>3, <2>1, <3>1 DEF BindReport, ReportFields
  <2>2. ASSUME NEW o \in Reporter, reporter[o] = Idle, reporter'[o] # Idle PROVE FALSE
    BY <1>3, <2>2 DEF BindReport, Idle
  <2>3. DOMAIN reporter' = Reporter
    BY <1>3 DEF BindReport
  <2> QED BY <2>1, <2>2, <2>3
<1>4. CASE ReportEnds(p)
  BY <1>4 DEF ReportEnds
<1> QED BY <1>1, <1>2, <1>3, <1>4

-----------------------------------------------------------------------------
LEMMA ReleaseInit == Init => Release
<1> SUFFICES ASSUME Init PROVE Release
  OBVIOUS
<1>1. Reports
  BY DEF Init, Reports
<1>2. ASSUME NEW k \in Kind PROVE Record(k, camp[k], rows[k], reviews[k])
  <2>1. /\ Lifecycle(camp[k]) /\ camp[k].status = "ABSENT" /\ camp[k].intent = "NONE"
        /\ ~camp[k].seen
    BY DEF Init, Lifecycle, CampFields
  <2>2. rows[k] = <<>> /\ reviews[k] = <<>> /\ DOMAIN rows[k] = {}
    BY DEF Init
  <2> QED BY <2>1, <2>2 DEF Record, Table, Progress, Reviewing
<1>3. DOMAIN camp = Kind /\ DOMAIN rows = Kind /\ DOMAIN reviews = Kind
  BY DEF Init
<1> QED BY <1>1, <1>2, <1>3 DEF Release, Records

\* The steps on a campaign that increment its version, and those that do not.
LEMMA WritesTouch ==
    ASSUME NEW k \in Kind,
           \/ \E p \in Provenance : Create(k, p)
           \/ Materialize(k) \/ Start(k) \/ Pause(k) \/ Resume(k) \/ Abort(k)
           \/ Claim(k) \/ Reserve(k) \/ ReserveDenied(k) \/ Submit(k) \/ FatalStop(k)
           \/ AdmissionRefused(k) \/ SubmissionRejected(k) \/ SubmissionUnknown(k)
           \/ RunTerminates(k) \/ CollectResult(k) \/ CollectionFails(k)
           \/ SkipPending(k) \/ SettleStop(k) \/ SeeSealed(k) \/ AwaitReview(k)
           \/ LookEnds(k) \/ DeadlinePasses(k) \/ SubmitReview(k) \/ SourceDrifts(k)
    PROVE  Touched(k) \/ reporter' = reporter
BY Zenon DEF Create, Materialize, Start, Pause, Resume, Abort, Claim, Reserve, ReserveDenied,
   Submit, FatalStop, AdmissionRefused, SubmissionRejected, SubmissionUnknown,
   RunTerminates, CollectResult, CollectionFails, SkipPending, SettleStop, SeeSealed,
   AwaitReview, LookEnds, DeadlinePasses, SubmitReview, SourceDrifts, StatusOnly, SetCampaign

LEMMA ReleaseNext == Release /\ [Next]_vars => Release'
<1> SUFFICES ASSUME Release, [Next]_vars PROVE Release'
  OBVIOUS
<1>1. Records /\ Reports
  BY DEF Release
<1>2. CASE UNCHANGED vars
  BY <1>1, <1>2 DEF vars, Release, Records, Reports
<1>3. ASSUME NEW k \in Kind,
             \/ \E p \in Provenance : Create(k, p)
             \/ Materialize(k) \/ Start(k) \/ Pause(k) \/ Resume(k) \/ Abort(k)
             \/ Claim(k) \/ Reserve(k) \/ ReserveDenied(k) \/ Submit(k) \/ FatalStop(k)
             \/ AdmissionRefused(k) \/ SubmissionRejected(k) \/ SubmissionUnknown(k)
             \/ RunTerminates(k) \/ CollectResult(k) \/ CollectionFails(k)
             \/ SkipPending(k) \/ SettleStop(k) \/ SeeSealed(k) \/ AwaitReview(k)
             \/ LookEnds(k) \/ DeadlinePasses(k) \/ SubmitReview(k) \/ SourceDrifts(k)
      PROVE  Release'
  <2>1. Records'
    BY <1>1, <1>3, LifecycleSteps, MaterializeStep, SubmissionSteps, SourceSteps,
       CollectionSteps, SkipStep, ReviewStep
  <2>2. Reports'
    <3>1. Touched(k) \/ reporter' = reporter
      BY <1>3, WritesTouch
    <3>2. reporter' = reporter => Reports'
      BY <1>1 DEF Reports
    <3> QED BY <1>1, <3>1, <3>2, TouchedStep
  <2> QED BY <2>1, <2>2 DEF Release
<1>4. ASSUME NEW p \in Reporter,
             \/ \E k \in Kind : ReadReport(p, k)
             \/ PutReport(p) \/ BindReport(p) \/ ReportEnds(p)
      PROVE  Release'
  <2>1. Reports'
    BY <1>1, <1>4, ReporterSteps
  <2>2. CASE BindReport(p)
    BY <1>1, <2>1, <2>2, BindStep DEF Release
  <2>3. CASE camp' = camp /\ rows' = rows /\ reviews' = reviews
    BY <1>1, <2>1, <2>3 DEF Release, Records
  <2> QED BY <1>4, <2>2, <2>3 DEF ReadReport, PutReport, ReportEnds
<1> QED BY <1>2, <1>3, <1>4 DEF Next

LEMMA ReleaseInvariant == Spec => []Release
<1> QED BY ReleaseInit, ReleaseNext, PTL DEF Spec

-----------------------------------------------------------------------------
(***************************************************************************)
(* A report that is bound is the last word.                                  *)
(***************************************************************************)
\* What a step can do to the row and the reviews of a campaign: leave a bound
\* one alone, or bind it.
LEMMA FinalStep ==
    ASSUME Release, [Next]_vars, NEW k \in Kind, camp'[k].bound # NoReport, Release'
    PROVE  /\ camp'[k].status \in {"COMPLETED", "ABORTED"}
           /\ camp[k].bound # NoReport =>
                /\ camp'[k].bound = camp[k].bound /\ camp'[k].status = camp[k].status
                /\ reviews'[k] = reviews[k]
<1>1. Lifecycle(camp[k]) /\ Lifecycle(camp'[k]) /\ DOMAIN camp = Kind /\ DOMAIN reviews = Kind
  BY DEF Release, Records, Record
<1>2. camp'[k].status \in {"COMPLETED", "ABORTED"}
  BY <1>1 DEF Lifecycle
<1>3. ASSUME camp[k].bound # NoReport
      PROVE  /\ camp'[k].bound = camp[k].bound /\ camp'[k].status = camp[k].status
             /\ reviews'[k] = reviews[k]
  <2>1. camp[k].status \in {"COMPLETED", "ABORTED"} /\ camp[k].intent # "PAUSE"
    BY <1>1, <1>3 DEF Lifecycle
  <2> USE <1>1, <2>1
  <2>2. ASSUME NEW j \in Kind, j # k, NEW c, camp' = [camp EXCEPT ![j] = c],
               \/ reviews' = reviews \/ \E v : reviews' = [reviews EXCEPT ![j] = v]
               \/ \E i, v : reviews' = [reviews EXCEPT ![j][i] = v]
        PROVE  camp'[k] = camp[k] /\ reviews'[k] = reviews[k]
    BY <2>2
  <2>3. ASSUME NEW j \in Kind,
               \/ \E p \in Provenance : Create(j, p)
               \/ Start(j) \/ Pause(j) \/ Resume(j) \/ Abort(j) \/ FatalStop(j) \/ SettleStop(j)
               \/ SeeSealed(j) \/ AwaitReview(j) \/ DeadlinePasses(j)
        PROVE  camp'[k] = camp[k] /\ reviews'[k] = reviews[k]
    BY <2>3 DEF Create, Start, Pause, Resume, Abort, FatalStop, SettleStop, SeeSealed,
       AwaitReview, DeadlinePasses, StatusOnly, SetCampaign
  <2>4. ASSUME NEW j \in Kind, Materialize(j) \/ SubmitReview(j)
        PROVE  camp'[k] = camp[k] /\ reviews'[k] = reviews[k]
    BY <2>4 DEF Materialize, SubmitReview, SetCampaign
  <2>5. ASSUME NEW j \in Kind,
               \/ Reserve(j) \/ ReserveDenied(j) \/ Submit(j) \/ AdmissionRefused(j)
               \/ SubmissionRejected(j) \/ SubmissionUnknown(j)
        PROVE  /\ camp'[k].bound = camp[k].bound /\ camp'[k].status = camp[k].status
               /\ reviews'[k] = reviews[k]
    <3>1. Lifecycle(camp[j]) /\ Table(j, rows[j], reviews[j])
      BY DEF Release, Records, Record
    <3>2. PICK c : /\ Goes(camp[j], c) /\ camp' = [camp EXCEPT ![j] = c] /\ reviews' = reviews
      BY <2>5, <3>1, SubmissionStep
    <3>3. j = k => c.bound = camp[k].bound /\ c.status = camp[k].status
      BY <3>2 DEF Goes
    <3> QED BY <3>2, <3>3
  <2>6. ASSUME NEW j \in Kind, CollectResult(j) \/ CollectionFails(j)
        PROVE  /\ camp'[k].bound = camp[k].bound /\ camp'[k].status = camp[k].status
               /\ reviews'[k] = reviews[k]
    <3>1. PICK c : SetCampaign(j, c) /\ reviews' = reviews /\
              (j = k => c.bound = camp[k].bound /\ c.status = camp[k].status)
      <4>1. ASSUME NEW u
            PROVE  LET e == SettledCampaign(k, u)
                   IN  DOMAIN e = CampFields /\ e.bound = camp[k].bound /\ e.status = camp[k].status
        BY SettledLifecycle DEF Goes, Lifecycle
      <4>2. CASE CollectResult(j)
        <5>1. PICK u, x, y : /\ reviews' = reviews /\ SetCampaign(j, [SettledCampaign(j, u) EXCEPT
                               !.counts.collected = x, !.counts.degraded = y])
          BY <4>2 DEF CollectResult
        <5> DEFINE e == SettledCampaign(j, u)
        <5>2. j = k => DOMAIN e = CampFields /\ e.bound = camp[k].bound /\ e.status = camp[k].status
          BY <4>1
        <5> HIDE DEF e
        <5>3. j = k => LET c == [e EXCEPT !.counts.collected = x, !.counts.degraded = y]
                       IN  c.bound = camp[k].bound /\ c.status = camp[k].status
          BY <5>2 DEF CampFields
        <5> QED BY <5>1, <5>3 DEF e
      <4>3. CASE CollectionFails(j)
        <5>1. PICK u : /\ reviews' = reviews /\ SetCampaign(j, [SettledCampaign(j, u) EXCEPT
                               !.counts.failed = @ + 1])
          BY <4>3 DEF CollectionFails
        <5> DEFINE e == SettledCampaign(j, u)
        <5>2. j = k => DOMAIN e = CampFields /\ e.bound = camp[k].bound /\ e.status = camp[k].status
          BY <4>1
        <5> HIDE DEF e
        <5>3. j = k => LET c == [e EXCEPT !.counts.failed = @ + 1]
                       IN  c.bound = camp[k].bound /\ c.status = camp[k].status
          BY <5>2 DEF CampFields
        <5> QED BY <5>1, <5>3 DEF e
      <4> QED BY <2>6, <4>2, <4>3
    <3> QED BY <3>1 DEF SetCampaign
  <2>7. ASSUME NEW p \in Reporter, BindReport(p)
        PROVE  camp'[k] = camp[k] /\ reviews'[k] = reviews[k]
    BY <1>3, <2>7 DEF BindReport, Bindable
  <2>8. CASE camp' = camp /\ reviews' = reviews
    BY <2>8
  <2>9. ASSUME NEW j \in Kind, LookEnds(j) \/ SkipPending(j)
        PROVE  /\ camp'[k].bound = camp[k].bound /\ camp'[k].status = camp[k].status
               /\ reviews'[k] = reviews[k]
    BY <2>9 DEF LookEnds, SkipPending, SetCampaign, Lifecycle, CampFields
  <2> QED BY <2>3, <2>4, <2>5, <2>6, <2>7, <2>8, <2>9 DEF Next, vars, Claim, RunTerminates,
     SourceDrifts, ReadReport, PutReport, ReportEnds
<1> QED BY <1>2, <1>3

\* Once bind has written a report, no other reporter, no collector and no
\* command changes the gate, the report, the status or the reviews of the
\* campaign, in any number of races.
THEOREM ReportsAreFinal == Spec => OneFinalReport
<1>1. Release /\ Release' /\ [Next]_vars =>
        [\A k \in Kind :
            camp'[k].bound # NoReport =>
                /\ camp'[k].status \in {"COMPLETED", "ABORTED"}
                /\ camp[k].bound # NoReport =>
                    /\ camp'[k].bound = camp[k].bound /\ camp'[k].status = camp[k].status
                    /\ reviews'[k] = reviews[k]]_vars
  BY FinalStep
<1> QED BY <1>1, ReleaseInvariant, PTL DEF Spec, OneFinalReport

-----------------------------------------------------------------------------
(***************************************************************************)
(* No campaign waits for ever for its decision.                              *)
(***************************************************************************)
\* A decision that is final is not pending.
LEMMA FinalIsDecided ==
    ASSUME NEW in, NEW status, NEW late, Prepare(in, status, late).reason # NotFinal
    PROVE  Prepare(in, status, late).decision.status # "PENDING"
<1> DEFINE f == Findings(in)
           d == Evaluate(in, f, TRUE)
<1>1. Prepare(in, status, late).decision = d
  BY DEF Prepare
<1>2. d.status \in {"FAIL", "INSUFFICIENT_SAMPLE", "PASS"}
  <2> HIDE DEF f
  <2> QED BY DEF Evaluate, Decision
<1> QED BY <1>1, <1>2

\* When a decision is final whatever the findings are.
LEMMA EndIsFinal ==
    ASSUME NEW in, NEW status, NEW late, in.intent # "PAUSE",
           status = "ABORTED" \/ (status = "AWAITING_REVIEW" /\ Sealed(in) /\ late)
    PROVE  Prepare(in, status, late).reason # NotFinal
<1> DEFINE f == Findings(in)
<1>1. Prepare(in, status, late).reason = FinalizationReason(in, f, status, late)
  BY DEF Prepare
<1>2. FinalizationReason(in, f, status, late) # NotFinal
  <2> HIDE DEF f
  <2>1. CASE status = "ABORTED"
    BY <2>1 DEF FinalizationReason, NotFinal
  <2>2. CASE status = "AWAITING_REVIEW" /\ Sealed(in) /\ late
    BY <2>2 DEF FinalizationReason, NotFinal
  <2> QED BY <2>1, <2>2
<1> QED BY <1>1, <1>2

\* A campaign that awaits its reviews is sealed.
LEMMA AwaitingIsSealed ==
    ASSUME Release, NEW k \in Kind, camp[k].status = "AWAITING_REVIEW"
    PROVE  Sealed(DecisionInput(k))
<1>1. /\ Table(k, rows[k], reviews[k]) /\ Progress(camp[k], rows[k])
  BY DEF Release, Records, Record
<1>2. DOMAIN rows[k] = 1..Profiles[k].maxRuns /\ Len(rows[k]) = Profiles[k].maxRuns
  BY <1>1, MaxRunsType DEF Table, Progress
<1>3. \A i \in DOMAIN rows[k] : rows[k][i].state \in SealedResult /\ rows[k][i].resv # "ACTIVE"
  BY <1>1 DEF Table, Progress, RowFits, TerminalResult, SealedResult
<1>4. DecisionInput(k).results = rows[k] /\ DecisionInput(k).maxRuns = Profiles[k].maxRuns
  BY DEF DecisionInput
<1> QED BY <1>2, <1>3, <1>4 DEF Sealed, Indices, At, WithReservation

\* Whatever became of its units, its calls, its reviews and its tables, a
\* campaign that was aborted or whose review window has closed has a final
\* decision that bind can write, unless a pause overtook await_review.
THEOREM CampaignsAreDecidable == Spec => []AlwaysDecidable
<1>1. Release => AlwaysDecidable
  <2> SUFFICES ASSUME Release, NEW k \in Kind,
                      \/ camp[k].status = "ABORTED"
                      \/ /\ camp[k].status = "AWAITING_REVIEW" /\ camp[k].late
                         /\ camp[k].intent # "PAUSE"
               PROVE  Prepared(k).reason # NotFinal /\ Prepared(k).decision.status # "PENDING"
    BY DEF AlwaysDecidable
  <2>1. Lifecycle(camp[k])
    BY DEF Release, Records, Record
  <2>2. DecisionInput(k).intent # "PAUSE"
    BY <2>1 DEF Lifecycle, DecisionInput
  <2>3. Prepared(k).reason # NotFinal
    BY <2>2, AwaitingIsSealed, EndIsFinal DEF Prepared
  <2> QED BY <2>3, FinalIsDecided DEF Prepared
<1> QED BY <1>1, ReleaseInvariant, PTL

-----------------------------------------------------------------------------
(***************************************************************************)
(* What a measurement says of the tables it was taken from.                  *)
(***************************************************************************)
\* A set that has not more than no element.
LEMMA NoneCounted ==
    ASSUME NEW S, IsFiniteSet(S), ~(Cardinality(S) > 0)
    PROVE  S = {}
BY FS_CardinalityType, FS_EmptySet

\* The columns that the reader hands on.
LEMMA SnapshotFields ==
    ASSUME NEW db
    PROVE  LET s == ReadSnapshot(db)
           IN  /\ DOMAIN s = Same \cup {"output", "evidence", "citations"}
               /\ s.output = Output(db) /\ s.evidence = ReadEvidence(db)
               /\ s.citations = ReadCitations(db) /\ s.claims = db.claims
               /\ s.queries = db.queries /\ s.invocations = db.invocations
               /\ s.mode = db.mode /\ s.status = db.status /\ s.facts = db.facts
               /\ s.quality = db.quality
BY DEF ReadSnapshot, Same

\* Validation that raises nothing has found the run known and answered, and its
\* claims in order.
LEMMA NoErrors ==
    ASSUME NEW db, Errors(db) = {}
    PROVE  LET s == ReadSnapshot(db)
           IN  /\ ~Unreadable(db)
               /\ RunErrors(s) = {} /\ OutputErrors(s) = {} /\ ClaimErrors(s) = {}
<1> DEFINE s == ReadSnapshot(db)
           checks == <<RunErrors(s), StepErrors(s), AttemptErrors(s),
                       InvocationErrors(s), PlanErrors(s), ProviderErrors(s),
                       OutboxErrors(s), OutputErrors(s), ClaimErrors(s)>>
           failed == {i \in DOMAIN checks : checks[i] # {}}
<1>1. /\ ~Unreadable(db)
      /\ failed # {} => checks[Min(failed)] = {}
  BY DEF Errors
<1>2. DOMAIN checks = 1..9
  OBVIOUS
<1>3. failed = {}
  <2>1. SUFFICES ASSUME failed # {} PROVE FALSE
    OBVIOUS
  <2>2. failed \in SUBSET Nat
    BY <1>2
  <2> HIDE DEF failed
  <2>3. Min(failed) \in failed
    BY <2>1, <2>2, LeastNumber
  <2>4. checks[Min(failed)] = {}
    BY <1>1, <2>1
  <2> QED BY <2>3, <2>4 DEF failed
<1>4. checks[1] = {} /\ checks[8] = {} /\ checks[9] = {}
  BY <1>2, <1>3
<1> QED BY <1>1, <1>4

\* Tables with the same digest have the same citations, evidence and calls, and
\* claims that differ in their text only.
LEMMA DigestKeeps ==
    ASSUME NEW db, NEW was, Digest(ReadSnapshot(db)) = Digest(ReadSnapshot(was))
    PROVE  /\ ReadCitations(db) = ReadCitations(was) /\ ReadEvidence(db) = ReadEvidence(was)
           /\ db.invocations = was.invocations /\ db.mode = was.mode
           /\ \A c \in db.claims : \E d \in was.claims :
                d.id = c.id /\ d.kind = c.kind /\ d.fact = c.fact
<1> DEFINE s == ReadSnapshot(db)
           t == ReadSnapshot(was)
           brief(x) == {[id |-> c.id, kind |-> c.kind, fact |-> c.fact] : c \in x.claims}
<1>1. ASSUME NEW x, DOMAIN x = Same \cup {"output", "evidence", "citations"}
      PROVE  LET d == Digest(x)
             IN  /\ d.citations = x.citations /\ d.evidence = x.evidence
                 /\ d.invocations = x.invocations /\ d.mode = x.mode
                 /\ d.claims = brief(x)
  BY <1>1 DEF Digest, Same
<1>2. /\ DOMAIN s = Same \cup {"output", "evidence", "citations"}
      /\ DOMAIN t = Same \cup {"output", "evidence", "citations"}
      /\ s.citations = ReadCitations(db) /\ t.citations = ReadCitations(was)
      /\ s.evidence = ReadEvidence(db) /\ t.evidence = ReadEvidence(was)
      /\ s.invocations = db.invocations /\ t.invocations = was.invocations
      /\ s.mode = db.mode /\ t.mode = was.mode
      /\ s.claims = db.claims /\ t.claims = was.claims
  BY SnapshotFields
<1> HIDE DEF s, t
<1>3. Digest(s) = Digest(t)
  BY DEF s, t
<1>4. /\ s.citations = t.citations /\ s.evidence = t.evidence
      /\ s.invocations = t.invocations /\ s.mode = t.mode /\ brief(s) = brief(t)
  BY <1>1, <1>2, <1>3
<1>5. ASSUME NEW c \in db.claims
      PROVE  \E d \in was.claims : d.id = c.id /\ d.kind = c.kind /\ d.fact = c.fact
  <2>1. [id |-> c.id, kind |-> c.kind, fact |-> c.fact] \in brief(t)
    BY <1>2, <1>4
  <2>2. PICK d \in was.claims : [id |-> c.id, kind |-> c.kind, fact |-> c.fact] =
                                [id |-> d.id, kind |-> d.kind, fact |-> d.fact]
    BY <1>2, <2>1
  <2> QED BY <2>2
<1> QED BY <1>2, <1>4, <1>5

\* What the reader makes of one citation.
ReadAs(db, y) ==
    [id |-> y.id, claim |-> y.claim, evidence |-> y.evidence, span |-> y.span,
     matches |-> \E v \in db.verified : /\ v.id = y.evidence
                                        /\ Row(db.candidates, v.candidate).quote = y.quote]

\* A citation that the reader finds to match evidence that is chained quotes a
\* candidate that was fetched, and that is the candidate of this evidence.
LEMMA CitedEvidence ==
    ASSUME NEW db, Stored(db), ~Unreadable(db), NEW y \in db.citations,
           ReadAs(db, y).matches,
           NEW e \in ReadEvidence(db), e.id = y.evidence, e.chained
    PROVE  \E v \in db.verified, c \in db.candidates :
            /\ v.id = y.evidence /\ v.verdict = e.verdict /\ v.candidate = c.id
            /\ c.fact = e.fact /\ c.span = e.span /\ y.quote = c.quote /\ Chained(db, c)
<1>1. PICK v \in db.verified :
        v.id = y.evidence /\ Row(db.candidates, v.candidate).quote = y.quote
  BY DEF ReadAs
<1>2. PICK w \in db.verified :
        e = LET c == Row(db.candidates, w.candidate)
            IN  [id |-> w.id, fact |-> c.fact, verdict |-> w.verdict, span |-> c.span,
                 authority |-> c.authority, chained |-> Chained(db, c)]
  BY DEF ReadEvidence
<1>3. v = w
  BY <1>1, <1>2 DEF Stored, Keyed
<1> DEFINE c == Row(db.candidates, v.candidate)
<1>4. c \in db.candidates /\ c.id = v.candidate
  BY DEF Unreadable, Ids, Row
<1> HIDE DEF c
<1>5. e = [id |-> v.id, fact |-> c.fact, verdict |-> v.verdict, span |-> c.span,
           authority |-> c.authority, chained |-> Chained(db, c)]
  BY <1>2, <1>3 DEF c
<1>6. y.quote = c.quote
  BY <1>1 DEF c
<1> QED BY <1>1, <1>4, <1>5, <1>6

\* What a gate holds against a row: nothing.
Clear(r) ==
    /\ ~(r.m.untraceable > 0) /\ ~(r.m.polluted > 0) /\ ~Drifted(r)
    /\ "model_call_budget_exceeded" \notin r.signals
    /\ \A i \in r.source.invocations : i.status \in TerminalInvocation

\* A collected row that a gate holds nothing against has a source that is sound
\* now, whatever became of the tables since they were measured.
LEMMA ClearIsSound ==
    ASSUME NEW r, RowFits(r), r.state = "COLLECTED", Clear(r)
    PROVE  Sound(r.source, r.unit.case)
<1> DEFINE db == r.source
           case == r.unit.case
<1>1. PICK was : MeasuredOn(r, was)
  BY DEF RowFits
<1> DEFINE s == ReadSnapshot(was)
<1>2. /\ Stored(was) /\ Errors(was) = {} /\ was.queries = db.queries
      /\ r.m = Collect(s, case) /\ r.m.signals \subseteq r.signals /\ Stored(db)
  BY <1>1 DEF MeasuredOn, RowFits
<1>3. /\ s.citations = ReadCitations(was) /\ s.evidence = ReadEvidence(was)
      /\ s.claims = was.claims /\ s.queries = was.queries
      /\ s.invocations = was.invocations /\ s.mode = was.mode
  BY SnapshotFields
<1>4. ~Unreadable(db) /\ Digest(ReadSnapshot(db)) = Digest(s)
  <2>1. r.m.digest = Digest(s)
    BY <1>2 DEF Collect
  <2> QED BY <2>1 DEF Clear, Drifted
<1> HIDE DEF s
<1>5. /\ ReadCitations(db) = s.citations /\ ReadEvidence(db) = s.evidence
      /\ db.invocations = s.invocations /\ db.mode = s.mode
      /\ \A c \in db.claims : \E d \in s.claims :
            d.id = c.id /\ d.kind = c.kind /\ d.fact = c.fact
  BY <1>3, <1>4, DigestKeeps DEF s
<1>6. Untraceable(s) = {} /\ Polluted(s, case) = {}
  <2>1. /\ ~(Cardinality(Untraceable(s)) > 0) /\ ~(Cardinality(Polluted(s, case)) > 0)
    BY <1>2 DEF Clear, Collect
  <2>2. IsFiniteSet(s.claims) /\ IsFiniteSet(s.queries)
    BY <1>2, <1>3 DEF Stored
  <2>3. IsFiniteSet(Untraceable(s)) /\ IsFiniteSet(Polluted(s, case))
    <3>1. Untraceable(s) \in SUBSET s.claims /\ Polluted(s, case) \in SUBSET s.queries
      BY DEF Untraceable, Polluted, Factual
    <3> QED BY <2>2, <3>1, FS_Subset
  <2> QED BY <2>1, <2>3, NoneCounted
<1>7. ASSUME NEW c \in db.claims, c.kind = "FACTUAL"
      PROVE  \E x \in db.citations, v \in db.verified, e \in db.candidates :
                /\ x.claim = c.id /\ x.evidence = v.id /\ v.candidate = e.id
                /\ v.verdict = "ACCEPTED" /\ e.fact = c.fact /\ x.quote = e.quote
                /\ \E f \in db.fetches : f.version = e.version /\ f.status = "SUCCEEDED"
  <2>1. PICK d \in s.claims : d.id = c.id /\ d.kind = c.kind /\ d.fact = c.fact
    BY <1>5
  <2>2. PICK x \in s.citations : x.claim = d.id /\ ValidCitation(s, x)
    BY <1>6, <1>7, <2>1 DEF Untraceable, Factual, CitationsOf
  <2>3. Row(s.claims, x.claim) = d
    <3>1. \A y, z \in s.claims : y.id = z.id => y = z
      BY <1>2, <1>3 DEF Stored, Keyed
    <3> QED BY <2>1, <2>2, <3>1 DEF Row
  <2>4. PICK e \in s.evidence : /\ e.id = x.evidence /\ e.verdict = "ACCEPTED"
                                /\ e.fact = d.fact /\ e.chained /\ x.matches
    BY <2>2, <2>3 DEF ValidCitation
  <2>5. x \in ReadCitations(db) /\ e \in ReadEvidence(db)
    BY <1>5
  <2>6. PICK y \in db.citations : x = ReadAs(db, y)
    BY <2>5 DEF ReadCitations, ReadAs
  <2>7. y.claim = x.claim /\ y.evidence = x.evidence
    BY <2>6 DEF ReadAs
  <2>8. PICK v \in db.verified, q \in db.candidates :
            /\ v.id = y.evidence /\ v.verdict = e.verdict /\ v.candidate = q.id
            /\ q.fact = e.fact /\ y.quote = q.quote /\ Chained(db, q)
    <3> HIDE DEF db
    <3> QED BY <1>2, <1>4, <2>4, <2>5, <2>6, <2>7, CitedEvidence
  <2> QED BY <2>1, <2>2, <2>4, <2>7, <2>8 DEF Chained
<1>8. \A q \in db.queries : q.terms \cap case.forbidden = {}
  BY <1>2, <1>3, <1>6 DEF Polluted
<1>9. \A i \in db.invocations : i.status # "STARTED"
  BY DEF Clear, TerminalInvocation
<1>10. Cardinality({i \in db.invocations : i.called}) <= ModelLimit[db.mode]
  <2>1. RunErrors(s) = {}
    BY <1>2, NoErrors DEF s
  <2>2. s.mode \in {"FAST", "RESEARCH"}
    BY <2>1 DEF RunErrors, Raises, ModelLimit
  <2>3. ModelLimit[s.mode] \in Nat
    BY <2>2 DEF ModelLimit
  <2>4. Called(s) \in SUBSET s.invocations /\ IsFiniteSet(s.invocations)
    BY <1>2, <1>3 DEF Called, Stored
  <2>5. Cardinality(Called(s)) \in Nat
    BY <2>4, FS_Subset, FS_CardinalityType
  <2>6. "model_call_budget_exceeded" \notin Signals(s, case)
    BY <1>2 DEF Clear, Collect
  <2>7. "model_call_budget_exceeded" \notin CandidateSignals(s, case)
    BY <2>6 DEF Signals
  <2>8. ~(Cardinality(Called(s)) > ModelLimit[s.mode])
    BY <2>7 DEF CandidateSignals, Raises
  <2> QED BY <1>5, <2>3, <2>5, <2>8 DEF Called
<1> QED BY <1>7, <1>8, <1>9, <1>10 DEF Sound

-----------------------------------------------------------------------------
(***************************************************************************)
(* The plan.                                                                 *)
(***************************************************************************)
\* The number of elements of S with a lower rank than x.
Lower(S, r, x) == Cardinality({y \in S : r[y] < r[x]})

\* Among ranks that differ, the numbers of lower ones are 0 up to the number of
\* elements, each once.
LEMMA RanksAreCounted ==
    ASSUME NEW S, IsFiniteSet(S), NEW r \in [S -> Int],
           \A x, y \in S : r[x] = r[y] => x = y
    PROVE  /\ \A x \in S : Lower(S, r, x) \in 0..(Cardinality(S) - 1)
           /\ \A x, y \in S : Lower(S, r, x) = Lower(S, r, y) => x = y
           /\ \A n \in 0..(Cardinality(S) - 1) : \E x \in S : Lower(S, r, x) = n
           /\ \A n \in 0..Cardinality(S) : Cardinality({x \in S : Lower(S, r, x) < n}) = n
<1> DEFINE N == Cardinality(S)
           below(x) == {y \in S : r[y] < r[x]}
<1>1. N \in Nat
  BY FS_CardinalityType
<1>2. ASSUME NEW x \in S
      PROVE  /\ IsFiniteSet(below(x)) /\ Lower(S, r, x) \in 0..(N - 1)
             /\ Lower(S, r, x) \in Nat
  <2>1. below(x) \in SUBSET S /\ x \notin below(x)
    OBVIOUS
  <2>2. /\ IsFiniteSet(below(x)) /\ Cardinality(below(x)) <= N
        /\ N = Cardinality(below(x)) => S = below(x)
    BY <2>1, FS_Subset
  <2>3. Cardinality(below(x)) \in Nat /\ N # Cardinality(below(x))
    BY <2>1, <2>2, FS_CardinalityType
  <2> HIDE DEF N
  <2> QED BY <1>1, <2>2, <2>3 DEF Lower
<1>3. ASSUME NEW x \in S, NEW y \in S, r[x] < r[y]
      PROVE  Lower(S, r, x) < Lower(S, r, y)
  <2>1. below(x) \in SUBSET below(y) /\ x \in below(y) /\ x \notin below(x)
    BY <1>3
  <2>2. IsFiniteSet(below(x)) /\ IsFiniteSet(below(y))
    BY <1>2
  <2> HIDE DEF below
  <2>3. Cardinality(below(x)) \in Nat /\ Cardinality(below(y)) \in Nat
    BY <2>2, FS_CardinalityType
  <2>4. /\ Cardinality(below(x)) <= Cardinality(below(y))
        /\ Cardinality(below(y)) # Cardinality(below(x))
    BY <2>1, <2>2, FS_Subset
  <2>5. Cardinality(below(x)) < Cardinality(below(y))
    BY <2>3, <2>4
  <2> QED BY <2>5 DEF Lower, below
<1>4. ASSUME NEW x \in S, NEW y \in S, Lower(S, r, x) = Lower(S, r, y) PROVE x = y
  <2>1. \A z \in S : Lower(S, r, z) \in Nat
    BY <1>2
  <2>2. ~(r[x] < r[y]) /\ ~(r[y] < r[x])
    BY <1>3, <1>4, <2>1
  <2>3. r[x] \in Int /\ r[y] \in Int
    OBVIOUS
  <2> QED BY <2>2, <2>3
<1>5. ASSUME NEW n \in Nat, NEW T \in SUBSET S,
             \A x \in T : Lower(S, r, x) \in 0..(n - 1)
      PROVE  /\ IsFiniteSet(0..(n - 1)) /\ Cardinality(0..(n - 1)) = n
             /\ Cardinality(T) = n <=> \A i \in 0..(n - 1) : \E x \in T : Lower(S, r, x) = i
  <2>1. IsFiniteSet(0..(n - 1)) /\ Cardinality(0..(n - 1)) = n
    BY FS_Interval
  <2> DEFINE f == [x \in T |-> Lower(S, r, x)]
  <2>2. f \in Injection(T, 0..(n - 1))
    BY <1>4, <1>5 DEF Injection, IsInjective
  <2>3. Cardinality(T) = n <=> f \in Surjection(T, 0..(n - 1))
    BY <2>1, <2>2, FS_Injection
  <2>4. f \in Surjection(T, 0..(n - 1)) <=> \A i \in 0..(n - 1) : \E x \in T : f[x] = i
    BY <1>5 DEF Surjection
  <2> QED BY <2>1, <2>3, <2>4
<1>6. \A n \in 0..(N - 1) : \E x \in S : Lower(S, r, x) = n
  BY <1>1, <1>2, <1>5
<1>7. ASSUME NEW n \in 0..N PROVE Cardinality({x \in S : Lower(S, r, x) < n}) = n
  <2> DEFINE T == {x \in S : Lower(S, r, x) < n}
  <2>1. n \in Nat /\ n <= N /\ T \in SUBSET S
    BY <1>1
  <2>2. ASSUME NEW x \in T PROVE Lower(S, r, x) \in 0..(n - 1)
    <3>1. Lower(S, r, x) \in Nat /\ Lower(S, r, x) < n
      BY <1>2
    <3> QED BY <2>1, <3>1
  <2>3. \A i \in 0..(n - 1) : \E x \in T : Lower(S, r, x) = i
    BY <1>1, <1>6, <2>1
  <2> QED BY <1>5, <2>1, <2>2, <2>3
<1> QED BY <1>2, <1>4, <1>6, <1>7

\* What the manifest guarantees of its cases.
LEMMA CasesOfManifest ==
    /\ IsFiniteSet(Manifest)
    /\ \A c \in Manifest : /\ c.id \in Nat /\ c.mode \in {"FAST", "RESEARCH"}
                           /\ c.locale \in {"zh-CN", "en"}
    /\ \A c, d \in Manifest : c.id = d.id => c = d
<1>1. IsFiniteSet(Manifest) /\ ValidManifest(Manifest, ActiveWindow)
  BY ManifestAssumption
<1>2. ASSUME NEW c \in Manifest
      PROVE  c.mode \in {"FAST", "RESEARCH"} /\ c.locale \in {"zh-CN", "en"}
  <2>1. ValidCase(c)
    BY <1>1 DEF ValidManifest
  <2> QED BY <2>1, Zenon DEF ValidCase
<1>3. ASSUME NEW c \in Manifest PROVE c.id \in Nat
  <2>1. 1 \in 1..Profiles["FULL"].repetitions
    <3>1. ValidProfile(Profiles["FULL"])
      BY ManifestAssumption DEF Kind
    <3> QED BY <3>1 DEF ValidProfile
  <2> QED BY <2>1, OrderAssumption DEF Kind
<1>4. Cardinality({c.id : c \in Manifest}) = Cardinality(Manifest)
  BY <1>1, Zenon DEF ValidManifest, ValidDistribution
<1> DEFINE f == [c \in Manifest |-> c.id]
           T == {c.id : c \in Manifest}
<1>5. f \in Surjection(Manifest, T)
  BY DEF Surjection
<1>6. f \in Injection(Manifest, T)
  BY <1>1, <1>4, <1>5, FS_Surjection
<1>7. \A c, d \in Manifest : c.id = d.id => c = d
  BY <1>6 DEF Injection, IsInjective
<1> QED BY <1>1, <1>2, <1>3, <1>7

\* Every case is of one of the four strata.
LEMMA StratumOfCase ==
    ASSUME NEW c \in Manifest
    PROVE  /\ StratumNo(c) \in 1..4 /\ Strata[StratumNo(c)] = <<c.mode, c.locale>>
           /\ \A i \in 1..4 : Strata[i] = <<c.mode, c.locale>> => i = StratumNo(c)
<1>1. c.mode \in {"FAST", "RESEARCH"} /\ c.locale \in {"zh-CN", "en"}
  BY CasesOfManifest
<1>2. DOMAIN Strata = 1..4
  BY DEF Strata
<1>3. \E i \in 1..4 : Strata[i] = <<c.mode, c.locale>>
  BY <1>1 DEF Strata
<1>4. \A i, j \in 1..4 : Strata[i] = Strata[j] => i = j
  BY DEF Strata
<1>5. StratumNo(c) \in 1..4 /\ Strata[StratumNo(c)] = <<c.mode, c.locale>>
  BY <1>2, <1>3 DEF StratumNo
<1> QED BY <1>4, <1>5

\* _ordered_cases has every case once.
LEMMA OrderIsBijection ==
    ASSUME NEW m \in SUBSET Manifest
    PROVE  LET o == OrderedCases(m)
           IN  /\ IsFiniteSet(m) /\ DOMAIN o = 1..Cardinality(m)
               /\ \A n \in 1..Cardinality(m) : o[n] \in m
               /\ \A n, l \in 1..Cardinality(m) : o[n] = o[l] => n = l
               /\ \A c \in m : \E n \in 1..Cardinality(m) : o[n] = c
<1> DEFINE N == Cardinality(m)
           at(c) == InStratum(m, <<c.mode, c.locale>>)
           turn(c) == Cardinality({d \in at(c) : d.id < c.id})
           before(c, d) == \/ turn(c) < turn(d)
                           \/ turn(c) = turn(d) /\ StratumNo(c) < StratumNo(d)
           r == [c \in m |-> 5 * turn(c) + StratumNo(c)]
           o == OrderedCases(m)
<1>1. IsFiniteSet(m) /\ N \in Nat
  BY CasesOfManifest, FS_Subset, FS_CardinalityType
<1>2. ASSUME NEW c \in m
      PROVE  /\ turn(c) \in Nat /\ StratumNo(c) \in 1..4
             /\ \A d \in m : StratumNo(c) = StratumNo(d) /\ turn(c) = turn(d) => c = d
  <2> DEFINE P == at(c)
             q == [d \in P |-> d.id]
  <2>1. P \in SUBSET m /\ c \in P
    BY DEF InStratum
  <2>2. IsFiniteSet(P)
    BY <1>1, <2>1, FS_Subset
  <2>3. q \in [P -> Int] /\ \A x, y \in P : q[x] = q[y] => x = y
    BY <2>1, CasesOfManifest
  <2>4. ASSUME NEW x \in P PROVE Lower(P, q, x) = turn(x) /\ at(x) = P
    <3>1. <<x.mode, x.locale>> = <<c.mode, c.locale>>
      BY DEF InStratum
    <3>2. {y \in P : q[y] < q[x]} = {y \in P : y.id < x.id}
      OBVIOUS
    <3> QED BY <3>1, <3>2 DEF Lower
  <2>5. \A x \in P : Lower(P, q, x) \in 0..(Cardinality(P) - 1)
    BY <2>2, <2>3, RanksAreCounted
  <2>6. \A x, y \in P : Lower(P, q, x) = Lower(P, q, y) => x = y
    BY <2>2, <2>3, RanksAreCounted
  <2>7. Cardinality(P) \in Nat
    BY <2>2, FS_CardinalityType
  <2>8. turn(c) \in Nat
    <3>1. Lower(P, q, c) \in 0..(Cardinality(P) - 1) /\ Lower(P, q, c) = turn(c)
      BY <2>1, <2>4, <2>5
    <3> HIDE DEF P, turn
    <3> QED BY <2>7, <3>1
  <2>9. StratumNo(c) \in 1..4
    BY StratumOfCase
  <2>10. ASSUME NEW d \in m, StratumNo(c) = StratumNo(d), turn(c) = turn(d) PROVE c = d
    <3>1. <<d.mode, d.locale>> = <<c.mode, c.locale>>
      BY <2>10, StratumOfCase
    <3>2. d \in P
      BY <3>1 DEF InStratum
    <3> QED BY <2>1, <2>4, <2>6, <2>10, <3>2
  <2> QED BY <2>8, <2>9, <2>10
<1> HIDE DEF turn
<1>3. /\ r \in [m -> Int]
      /\ \A c, d \in m : r[c] = r[d] => c = d
      /\ \A c, d \in m : r[c] < r[d] <=> before(c, d)
  <2>1. r \in [m -> Int]
    BY <1>2
  <2>2. ASSUME NEW c \in m, NEW d \in m
        PROVE  /\ r[c] = r[d] => turn(c) = turn(d) /\ StratumNo(c) = StratumNo(d)
               /\ r[c] < r[d] <=> before(c, d)
    <3>1. turn(c) \in Nat /\ turn(d) \in Nat /\ StratumNo(c) \in 1..4 /\ StratumNo(d) \in 1..4
      BY <1>2
    <3>2. r[c] = 5 * turn(c) + StratumNo(c) /\ r[d] = 5 * turn(d) + StratumNo(d)
      OBVIOUS
    <3> HIDE DEF r
    <3> QED BY <3>1, <3>2
  <2> QED BY <1>2, <2>1, <2>2
<1>4. \A c \in m : {d \in m : before(d, c)} = {d \in m : r[d] < r[c]}
  BY <1>3
<1>5. o = [n \in 1..N |-> CHOOSE c \in m : Cardinality({d \in m : before(d, c)}) = n - 1]
  BY DEF OrderedCases, turn
<1> HIDE DEF r, o, before
<1>6. /\ \A c \in m : Lower(m, r, c) \in 0..(N - 1)
      /\ \A x, y \in m : Lower(m, r, x) = Lower(m, r, y) => x = y
      /\ \A n \in 0..(N - 1) : \E x \in m : Lower(m, r, x) = n
  BY <1>1, <1>3, RanksAreCounted
<1>7. \A c \in m : Cardinality({d \in m : before(d, c)}) = Lower(m, r, c)
  BY <1>4 DEF Lower
<1>8. ASSUME NEW n \in 1..N PROVE o[n] \in m /\ Lower(m, r, o[n]) = n - 1
  <2>1. o[n] = CHOOSE c \in m : Cardinality({d \in m : before(d, c)}) = n - 1
    BY <1>5
  <2>2. n - 1 \in 0..(N - 1)
    BY <1>1
  <2>3. \E c \in m : Cardinality({d \in m : before(d, c)}) = n - 1
    BY <1>6, <1>7, <2>2
  <2>4. o[n] \in m /\ Cardinality({d \in m : before(d, o[n])}) = n - 1
    BY <2>1, <2>3
  <2> QED BY <1>7, <2>4
<1>9. \A n, l \in 1..N : o[n] = o[l] => n = l
  BY <1>1, <1>8
<1>10. ASSUME NEW c \in m PROVE \E n \in 1..N : o[n] = c
  <2> DEFINE n == Lower(m, r, c) + 1
  <2>1. n \in 1..N /\ n - 1 = Lower(m, r, c)
    BY <1>1, <1>6
  <2>2. o[n] = c
    BY <1>6, <1>8, <2>1
  <2> QED BY <2>1, <2>2
<1>11. DOMAIN o = 1..N
  BY <1>5
<1> QED BY <1>1, <1>8, <1>9, <1>10, <1>11 DEF o

\* Division with remainder.
LEMMA Division ==
    ASSUME NEW L \in Nat \ {0}, NEW a \in Nat
    PROVE  a % L \in 0..(L - 1) /\ a \div L \in Nat /\ a = L * (a \div L) + (a % L)
<1>1. a % L \in 0..(L - 1) /\ a \div L \in Nat
  BY SMT
<1> QED BY <1>1, SMT

LEMMA Multiples ==
    ASSUME NEW L \in Nat \ {0}, NEW a \in Int, NEW b \in Int, a < b
    PROVE  L * a + L <= L * b
<1>1. b >= a + 1
  OBVIOUS
<1>2. L * b >= L * (a + 1)
  BY <1>1, SMT
<1>3. L * (a + 1) = L * a + L
  BY SMT
<1> QED BY <1>2, <1>3, SMT

LEMMA DivisionIsUnique ==
    ASSUME NEW L \in Nat \ {0}, NEW p \in Int, NEW q \in Int,
           NEW r \in 0..(L - 1), NEW s \in 0..(L - 1), L * p + r = L * q + s
    PROVE  p = q /\ r = s
<1>1. L * p \in Int /\ L * q \in Int /\ r < L /\ s < L /\ r >= 0 /\ s >= 0
  OBVIOUS
<1>2. ~(p < q)
  <2>1. SUFFICES ASSUME p < q PROVE FALSE
    OBVIOUS
  <2>2. L * p + L <= L * q
    BY <2>1, Multiples
  <2> QED BY <1>1, <2>2
<1>3. ~(q < p)
  <2>1. SUFFICES ASSUME q < p PROVE FALSE
    OBVIOUS
  <2>2. L * q + L <= L * p
    BY <2>1, Multiples
  <2> QED BY <1>1, <2>2
<1>4. p = q
  BY <1>2, <1>3
<1> QED BY <1>1, <1>4

\* The places of L rows of a table with `reps' copies of them.
Place(L, i) == ((i - 1) % L) + 1
Copy(L, i)  == ((i - 1) \div L) + 1

LEMMA PlacesAndCopies ==
    ASSUME NEW L \in Nat \ {0}, NEW reps \in Nat
    PROVE  /\ \A i \in 1..(L * reps) : Place(L, i) \in 1..L /\ Copy(L, i) \in 1..reps
           /\ \A i, j \in 1..(L * reps) :
                Place(L, i) = Place(L, j) /\ Copy(L, i) = Copy(L, j) => i = j
           /\ \A n \in 1..L, q \in 1..reps : \E i \in 1..(L * reps) :
                Place(L, i) = n /\ Copy(L, i) = q
<1>1. L * reps \in Nat
  BY SMT
<1>2. ASSUME NEW i \in 1..(L * reps)
      PROVE  /\ Place(L, i) \in 1..L /\ Copy(L, i) \in 1..reps
             /\ i = L * (Copy(L, i) - 1) + Place(L, i)
  <2> DEFINE a == i - 1
             p == a \div L
             r == a % L
  <2>1. a \in Nat /\ a < L * reps
    BY <1>1
  <2>2. r \in 0..(L - 1) /\ p \in Nat /\ a = L * p + r
    BY <2>1, Division
  <2>3. Place(L, i) = r + 1 /\ Copy(L, i) = p + 1
    BY DEF Place, Copy
  <2> HIDE DEF p, r
  <2>4. p < reps
    <3>1. SUFFICES ASSUME reps < p \/ reps = p PROVE FALSE
      BY <2>2
    <3>2. L * reps + L <= L * p \/ L * reps = L * p
      BY <2>2, <3>1, Multiples
    <3>3. L * p \in Int
      BY <2>2, SMT
    <3> QED BY <1>1, <2>1, <2>2, <3>2, <3>3
  <2>5. i = a + 1
    BY <1>1
  <2>6. i = L * p + (r + 1)
    <3>1. L * p \in Int
      BY <2>2, SMT
    <3> QED BY <2>2, <2>5, <3>1
  <2>7. Copy(L, i) - 1 = p
    BY <2>2, <2>3
  <2>8. Place(L, i) \in 1..L /\ Copy(L, i) \in 1..reps
    BY <2>2, <2>3, <2>4
  <2> QED BY <2>3, <2>6, <2>7, <2>8
<1>3. ASSUME NEW n \in 1..L, NEW q \in 1..reps
      PROVE  \E i \in 1..(L * reps) : Place(L, i) = n /\ Copy(L, i) = q
  <2> DEFINE i == L * (q - 1) + n
  <2>1. L * (q - 1) \in Nat
    BY SMT
  <2>2. L * (q - 1) + L <= L * reps
    BY Multiples
  <2>3. i \in 1..(L * reps)
    BY <1>1, <2>1, <2>2
  <2>4. /\ Place(L, i) \in 1..L /\ Copy(L, i) \in 1..reps
        /\ i = L * (Copy(L, i) - 1) + Place(L, i)
    BY <1>2, <2>3
  <2> DEFINE p == Copy(L, i) - 1
             r == Place(L, i) - 1
  <2>5. p \in Int /\ r \in 0..(L - 1) /\ n - 1 \in 0..(L - 1) /\ q - 1 \in Int
    BY <2>4
  <2>6. L * p + r = L * (q - 1) + (n - 1)
    <3>1. L * p \in Int
      BY <2>5, SMT
    <3> HIDE DEF p
    <3>2. i = L * p + Place(L, i)
      BY <2>4 DEF p
    <3> QED BY <2>1, <2>4, <3>1, <3>2
  <2> HIDE DEF p, r
  <2>7. p = q - 1 /\ r = n - 1
    BY <2>5, <2>6, DivisionIsUnique
  <2>8. Place(L, i) - 1 = n - 1 /\ Copy(L, i) - 1 = q - 1
    BY <2>7 DEF p, r
  <2> HIDE DEF i
  <2>9. Place(L, i) = n /\ Copy(L, i) = q
    BY <2>4, <2>8
  <2> QED BY <2>3, <2>9
<1>4. \A i, j \in 1..(L * reps) : Place(L, i) = Place(L, j) /\ Copy(L, i) = Copy(L, j) => i = j
  BY <1>2
<1> QED BY <1>2, <1>3, <1>4

\* The units that are drawn for review.
Drawn(k) ==
    IF Policies[k].reviews = 0 THEN {}
    ELSE ReviewUnits(Manifest, Profiles[k].repetitions, Policies[k].reviews \div 4)

\* materialize_run_plans: every selected case in every repetition, once.
LEMMA PlanIsBijection ==
    ASSUME NEW k \in Kind, FitsProfile(k, Manifest)
    PROVE  LET plan == RunPlan(k, Manifest)
               n    == Profiles[k].maxRuns
               reps == Profiles[k].repetitions
           IN  /\ \A i \in 1..n : /\ plan[i].case \in Selected(k, Manifest)
                                  /\ plan[i].repetition \in 1..reps
                                  /\ plan[i].selected <=>
                                        <<plan[i].case.id, plan[i].repetition>> \in Drawn(k)
               /\ \A i, j \in 1..n :
                    plan[i].case = plan[j].case /\ plan[i].repetition = plan[j].repetition
                        => i = j
               /\ \A c \in Selected(k, Manifest), q \in 1..reps :
                    \E i \in 1..n : plan[i].case = c /\ plan[i].repetition = q
<1> DEFINE plan == RunPlan(k, Manifest)
           n    == Profiles[k].maxRuns
           reps == Profiles[k].repetitions
           m    == Selected(k, Manifest)
           o    == OrderedCases(m)
           L    == Cardinality(m)
<1>1. n \in Nat \ {0} /\ reps \in Nat \ {0}
  <2>1. ValidProfile(Profiles[k])
    BY ManifestAssumption
  <2> QED BY <2>1 DEF ValidProfile
<1>2. m \in SUBSET Manifest
  BY DEF Selected, Smoke
<1>3. /\ IsFiniteSet(m) /\ DOMAIN o = 1..L
      /\ \A i \in 1..L : o[i] \in m
      /\ \A i, j \in 1..L : o[i] = o[j] => i = j
      /\ \A c \in m : \E i \in 1..L : o[i] = c
  BY <1>2, OrderIsBijection
<1>4. L \in Nat /\ L * reps = n
  BY <1>3, FS_CardinalityType DEF FitsProfile
<1>5. L # 0
  BY <1>1, <1>4
<1>6. Len(o) = L
  BY <1>4 DEF OrderedCases
<1>7. plan = [i \in 1..n |->
                [case |-> o[Place(L, i)], repetition |-> Copy(L, i),
                 selected |-> <<o[Place(L, i)].id, Copy(L, i)>> \in Drawn(k)]]
  BY <1>4, <1>6, Zenon DEF RunPlan, Place, Copy, Drawn
<1> HIDE DEF plan, n, reps, m, o, L
<1>8. /\ \A i \in 1..n : Place(L, i) \in 1..L /\ Copy(L, i) \in 1..reps
      /\ \A i, j \in 1..n : Place(L, i) = Place(L, j) /\ Copy(L, i) = Copy(L, j) => i = j
      /\ \A l \in 1..L, q \in 1..reps : \E i \in 1..n : Place(L, i) = l /\ Copy(L, i) = q
  <2>1. L \in Nat \ {0} /\ reps \in Nat /\ n = L * reps
    BY <1>1, <1>4, <1>5
  <2>2. /\ \A i \in 1..(L * reps) : Place(L, i) \in 1..L /\ Copy(L, i) \in 1..reps
        /\ \A i, j \in 1..(L * reps) :
             Place(L, i) = Place(L, j) /\ Copy(L, i) = Copy(L, j) => i = j
        /\ \A l \in 1..L, q \in 1..reps : \E i \in 1..(L * reps) :
             Place(L, i) = l /\ Copy(L, i) = q
    BY <2>1, PlacesAndCopies
  <2> QED BY <2>1, <2>2, Zenon
<1>9. \A i \in 1..n : /\ plan[i].case = o[Place(L, i)] /\ plan[i].repetition = Copy(L, i)
                      /\ plan[i].selected <=> <<plan[i].case.id, plan[i].repetition>> \in Drawn(k)
  BY <1>7
<1>10. ASSUME NEW i \in 1..n PROVE plan[i].case \in m /\ plan[i].repetition \in 1..reps
  <2>1. Place(L, i) \in 1..L /\ Copy(L, i) \in 1..reps
    BY <1>8
  <2>2. o[Place(L, i)] \in m
    BY <1>3, <2>1
  <2> QED BY <1>9, <2>1, <2>2
<1>11. ASSUME NEW i \in 1..n, NEW j \in 1..n, plan[i].case = plan[j].case,
              plan[i].repetition = plan[j].repetition
       PROVE  i = j
  <2>1. Place(L, i) \in 1..L /\ Place(L, j) \in 1..L
    BY <1>8
  <2>2. o[Place(L, i)] = o[Place(L, j)] /\ Copy(L, i) = Copy(L, j)
    BY <1>9, <1>11
  <2>3. Place(L, i) = Place(L, j)
    BY <1>3, <2>1, <2>2
  <2> QED BY <1>8, <2>2, <2>3
<1>12. ASSUME NEW c \in m, NEW q \in 1..reps
       PROVE  \E i \in 1..n : plan[i].case = c /\ plan[i].repetition = q
  <2>1. PICK l \in 1..L : o[l] = c
    BY <1>3
  <2>2. PICK i \in 1..n : Place(L, i) = l /\ Copy(L, i) = q
    BY <1>8
  <2> QED BY <1>9, <2>1, <2>2
<1>13. /\ \A i \in 1..n : /\ plan[i].case \in m /\ plan[i].repetition \in 1..reps
                          /\ plan[i].selected <=>
                                <<plan[i].case.id, plan[i].repetition>> \in Drawn(k)
       /\ \A i, j \in 1..n :
            plan[i].case = plan[j].case /\ plan[i].repetition = plan[j].repetition => i = j
       /\ \A c \in m, q \in 1..reps :
            \E i \in 1..n : plan[i].case = c /\ plan[i].repetition = q
  BY <1>9, <1>10, <1>11, <1>12
<1> QED BY <1>13, Zenon DEF plan, n, reps, m

\* The answerable cases of a stratum, and those of them that are drawn.
Pool(s)      == Answerable(InStratum(Manifest, Strata[s]))
Key(k, c)    == DigestRank[<<c.id, First(c, Profiles[k].repetitions)>>]
Picked(k, s) ==
    {c \in Pool(s) : Cardinality({d \in Pool(s) : Key(k, d) < Key(k, c)})
                        < Policies[k].reviews \div 4}

\* Each case has a repetition that it would be drawn in, and a key of its own.
LEMMA KeysDiffer ==
    ASSUME NEW k \in Kind
    PROVE  /\ \A c \in Manifest : /\ First(c, Profiles[k].repetitions) \in 1..Profiles[k].repetitions
                                  /\ Key(k, c) \in Nat
           /\ \A c, d \in Manifest : Key(k, c) = Key(k, d) => c = d
<1> DEFINE reps == Profiles[k].repetitions
<1>1. reps \in Nat \ {0}
  <2>1. ValidProfile(Profiles[k])
    BY ManifestAssumption
  <2> QED BY <2>1 DEF ValidProfile
<1>2. \A c, d \in Manifest : \A q, r \in 1..reps :
        /\ DigestRank[<<c.id, q>>] \in Nat
        /\ DigestRank[<<c.id, q>>] = DigestRank[<<d.id, r>>] => c.id = d.id
  BY OrderAssumption
<1>3. ASSUME NEW c \in Manifest PROVE First(c, reps) \in 1..reps
  <2> DEFINE T == {DigestRank[<<c.id, r>>] : r \in 1..reps}
  <2>1. T \in SUBSET Nat
    BY <1>2
  <2>2. DigestRank[<<c.id, 1>>] \in T
    BY <1>1
  <2> HIDE DEF T
  <2>3. Min(T) \in T /\ \A y \in T : Min(T) <= y
    BY <2>1, <2>2, LeastNumber
  <2>4. PICK r \in 1..reps : Min(T) = DigestRank[<<c.id, r>>]
    BY <2>3 DEF T
  <2>5. \A o \in 1..reps : DigestRank[<<c.id, r>>] <= DigestRank[<<c.id, o>>]
    BY <2>3, <2>4 DEF T
  <2> QED BY <2>5 DEF First
<1>4. \A c \in Manifest : Key(k, c) \in Nat
  BY <1>2, <1>3 DEF Key
<1>5. ASSUME NEW c \in Manifest, NEW d \in Manifest, Key(k, c) = Key(k, d) PROVE c = d
  <2>1. c.id = d.id
    BY <1>2, <1>3, <1>5 DEF Key
  <2> QED BY <2>1, CasesOfManifest
<1> QED BY <1>3, <1>4, <1>5

\* select_review_units draws as many cases of each stratum as it is asked for.
LEMMA PicksAreCounted ==
    ASSUME NEW k \in Kind, NEW s \in 1..4,
           EnoughToReview(Manifest, Policies[k].reviews \div 4)
    PROVE  /\ IsFiniteSet(Picked(k, s))
           /\ Cardinality(Picked(k, s)) = Policies[k].reviews \div 4
<1> DEFINE n == Policies[k].reviews \div 4
           P == Pool(s)
           r == [c \in P |-> Key(k, c)]
<1>1. P \in SUBSET Manifest
  BY DEF Pool, Answerable, InStratum
<1>2. IsFiniteSet(P) /\ Cardinality(P) \in Nat
  BY <1>1, CasesOfManifest, FS_Subset, FS_CardinalityType
<1>3. r \in [P -> Int] /\ \A x, y \in P : r[x] = r[y] => x = y
  BY <1>1, KeysDiffer
<1>4. n \in 0..Cardinality(P)
  <2>1. Cardinality(P) >= n
    BY DEF EnoughToReview, Pool, Strata
  <2>2. Policies[k].reviews \in Nat
    BY PolicyTypes
  <2>3. n \in Nat
    BY <2>2
  <2> HIDE DEF n, P
  <2> QED BY <1>2, <2>1, <2>3
<1>5. Cardinality({x \in P : Lower(P, r, x) < n}) = n
  <2> HIDE DEF n, P, r
  <2>1. \A l \in 0..Cardinality(P) : Cardinality({x \in P : Lower(P, r, x) < l}) = l
    BY <1>2, <1>3, RanksAreCounted
  <2> QED BY <1>4, <2>1
<1>6. {x \in P : Lower(P, r, x) < n} = Picked(k, s)
  <2>1. ASSUME NEW x \in P
        PROVE  Lower(P, r, x) = Cardinality({d \in P : Key(k, d) < Key(k, x)})
    <3>1. {y \in P : r[y] < r[x]} = {d \in P : Key(k, d) < Key(k, x)}
      OBVIOUS
    <3> QED BY <3>1 DEF Lower
  <2> QED BY <2>1 DEF Picked
<1>7. Picked(k, s) \in SUBSET P
  BY DEF Picked
<1> QED BY <1>2, <1>5, <1>6, <1>7, FS_Subset

\* A unit is drawn when its case is, in the repetition of its key.
LEMMA DrawnUnits ==
    ASSUME NEW k \in Kind, Policies[k].reviews # 0, NEW c \in Manifest, NEW q
    PROVE  <<c.id, q>> \in Drawn(k) <=>
            /\ c \in Picked(k, StratumNo(c)) /\ q = First(c, Profiles[k].repetitions)
<1> DEFINE reps == Profiles[k].repetitions
           n == Policies[k].reviews \div 4
<1>1. Drawn(k) = UNION {{<<d.id, First(d, reps)>> : d \in Picked(k, s)} : s \in 1..4}
  <2>1. DOMAIN Strata = 1..4
    BY DEF Strata
  <2> QED BY <2>1, Zenon DEF Drawn, ReviewUnits, Picked, Pool, Key
<1>2. \A s \in 1..4 : \A d \in Picked(k, s) : d \in Manifest /\ s = StratumNo(d)
  <2>1. ASSUME NEW s \in 1..4, NEW d \in Picked(k, s)
        PROVE  d \in Manifest /\ <<d.mode, d.locale>> = Strata[s]
    BY DEF Picked, Pool, Answerable, InStratum
  <2> QED BY <2>1, StratumOfCase
<1>3. ASSUME <<c.id, q>> \in Drawn(k)
      PROVE  c \in Picked(k, StratumNo(c)) /\ q = First(c, reps)
  <2>1. PICK s \in 1..4 : <<c.id, q>> \in {<<d.id, First(d, reps)>> : d \in Picked(k, s)}
    BY <1>1, <1>3
  <2>2. PICK d \in Picked(k, s) : <<c.id, q>> = <<d.id, First(d, reps)>>
    BY <2>1
  <2>3. c.id = d.id /\ q = First(d, reps)
    BY <2>2
  <2>4. c = d
    BY <1>2, <2>3, CasesOfManifest
  <2> QED BY <1>2, <2>3, <2>4
<1>4. ASSUME c \in Picked(k, StratumNo(c)), q = First(c, reps)
      PROVE  <<c.id, q>> \in Drawn(k)
  <2>1. StratumNo(c) \in 1..4
    BY StratumOfCase
  <2>2. <<c.id, q>> \in {<<d.id, First(d, reps)>> : d \in Picked(k, StratumNo(c))}
    BY <1>4
  <2> QED BY <1>1, <2>1, <2>2
<1> QED BY <1>3, <1>4

\* The units that the plan selects for review: answerable cases, each once, as
\* many as the policy asks for, equally many of each stratum.
LEMMA SelectionIsBalanced ==
    ASSUME NEW k \in Kind, Plannable(k, Manifest)
    PROVE  LET plan == RunPlan(k, Manifest)
               C    == {i \in 1..Profiles[k].maxRuns : plan[i].selected}
           IN  /\ IsFiniteSet(C) /\ Cardinality(C) = Policies[k].reviews
               /\ Cardinality({plan[i].case : i \in C}) = Policies[k].reviews
               /\ \A i \in C : plan[i].case.answerable
               /\ \A s, t \in 1..4 :
                    Cardinality({i \in C : StratumNo(plan[i].case) = s}) =
                    Cardinality({i \in C : StratumNo(plan[i].case) = t})
<1> DEFINE plan == RunPlan(k, Manifest)
           n    == Profiles[k].maxRuns
           reps == Profiles[k].repetitions
           per  == Policies[k].reviews \div 4
           C    == {i \in 1..n : plan[i].selected}
           S(s) == {i \in C : StratumNo(plan[i].case) = s}
<1>1. n \in Nat /\ IsFiniteSet(1..n) /\ Policies[k].reviews \in Nat
  BY MaxRunsType, PolicyTypes, FS_Interval
<1>2. C \in SUBSET (1..n) /\ IsFiniteSet(C)
  BY <1>1, FS_Subset
<1>3. /\ \A i \in 1..n : /\ plan[i].case \in Selected(k, Manifest)
                         /\ plan[i].repetition \in 1..reps
                         /\ plan[i].selected <=>
                                <<plan[i].case.id, plan[i].repetition>> \in Drawn(k)
      /\ \A i, j \in 1..n :
            plan[i].case = plan[j].case /\ plan[i].repetition = plan[j].repetition => i = j
      /\ \A c \in Selected(k, Manifest), q \in 1..reps :
            \E i \in 1..n : plan[i].case = c /\ plan[i].repetition = q
  <2>1. FitsProfile(k, Manifest)
    BY DEF Plannable
  <2> QED BY <2>1, PlanIsBijection
<1> HIDE DEF plan, n, reps, C
<1>4. CASE Policies[k].reviews = 0
  <2>1. C = {}
    BY <1>3, <1>4 DEF C, Drawn
  <2>2. {plan[i].case : i \in C} = {} /\ \A s \in 1..4 : S(s) = {}
    BY <2>1
  <2> QED BY <1>4, <2>1, <2>2, FS_EmptySet, Zenon DEF C, plan, n
<1>5. CASE Policies[k].reviews # 0
  <2>1. k = "FULL" /\ Selected(k, Manifest) = Manifest
    BY <1>5, CatalogAssumption DEF Kind, Selected
  <2>2. EnoughToReview(Manifest, per) /\ Policies[k].reviews % 4 = 0
    BY <1>1, <1>5 DEF Plannable
  <2>3. per \in Nat /\ Policies[k].reviews = 4 * per
    BY <1>1, <2>2
  <2> HIDE DEF per
  <2>4. ASSUME NEW i \in 1..n
        PROVE  /\ plan[i].case \in Manifest
               /\ i \in C <=> /\ plan[i].case \in Picked(k, StratumNo(plan[i].case))
                              /\ plan[i].repetition = First(plan[i].case, reps)
    <3>1. plan[i].case \in Manifest
      <4>1. plan[i].case \in Selected(k, Manifest)
        BY <1>3, Zenon
      <4> QED BY <4>1, <2>1, Zenon
    <3>2. i \in C <=> <<plan[i].case.id, plan[i].repetition>> \in Drawn(k)
      BY <1>3 DEF C
    <3> QED BY <1>5, <3>1, <3>2, DrawnUnits DEF reps
  <2>5. \A i, j \in C : plan[i].case = plan[j].case => i = j
    BY <1>2, <1>3, <2>4
  <2>6. ASSUME NEW s \in 1..4
        PROVE  IsFiniteSet(S(s)) /\ Cardinality(S(s)) = per
    <3> DEFINE f == [i \in S(s) |-> plan[i].case]
    <3>1. S(s) \in SUBSET C /\ IsFiniteSet(S(s))
      BY <1>2, FS_Subset
    <3>2. f \in [S(s) -> Picked(k, s)]
      BY <1>2, <2>4
    <3>3. \A x, y \in S(s) : f[x] = f[y] => x = y
      BY <2>5
    <3>4. ASSUME NEW c \in Picked(k, s) PROVE \E i \in S(s) : f[i] = c
      <4>1. c \in Manifest /\ <<c.mode, c.locale>> = Strata[s]
        BY DEF Picked, Pool, Answerable, InStratum
      <4>2. s = StratumNo(c)
        BY <4>1, StratumOfCase
      <4>3. First(c, reps) \in 1..reps
        BY <4>1, KeysDiffer DEF reps
      <4>4. PICK i \in 1..n : plan[i].case = c /\ plan[i].repetition = First(c, reps)
        BY <1>3, <2>1, <4>1, <4>3
      <4>5. i \in C
        BY <2>4, <4>2, <4>4
      <4>6. i \in S(s)
        BY <4>2, <4>4, <4>5
      <4> QED BY <4>4, <4>6
    <3>5. f \in Surjection(S(s), Picked(k, s)) /\ f \in Injection(S(s), Picked(k, s))
      BY <3>2, <3>3, <3>4 DEF Surjection, Injection, IsInjective
    <3>6. Cardinality(Picked(k, s)) = Cardinality(S(s))
      BY <3>1, <3>5, FS_Surjection
    <3>7. Cardinality(Picked(k, s)) = per
      BY <2>2, PicksAreCounted DEF per
    <3> QED BY <3>1, <3>6, <3>7
  <2>7. Cardinality(C) = Policies[k].reviews
    <3> DEFINE A == S(1) \cup S(2)
               B == S(3) \cup S(4)
    <3>1. C = A \cup B
      <4>1. ASSUME NEW i \in C PROVE i \in A \cup B
        <5>1. plan[i].case \in Manifest
          BY <1>2, <2>4
        <5>2. StratumNo(plan[i].case) \in 1..4
          BY <5>1, StratumOfCase
        <5>3. 1..4 = {1, 2, 3, 4}
          OBVIOUS
        <5> QED BY <5>2, <5>3
      <4> QED BY <4>1
    <3>2. S(1) \cap S(2) = {} /\ S(3) \cap S(4) = {} /\ A \cap B = {}
      OBVIOUS
    <3>3. /\ IsFiniteSet(S(1)) /\ IsFiniteSet(S(2)) /\ IsFiniteSet(S(3)) /\ IsFiniteSet(S(4))
          /\ Cardinality(S(1)) = per /\ Cardinality(S(2)) = per
          /\ Cardinality(S(3)) = per /\ Cardinality(S(4)) = per
      BY <2>6
    <3> HIDE DEF S
    <3>4. /\ IsFiniteSet(A) /\ Cardinality(A) = per + per - 0
          /\ IsFiniteSet(B) /\ Cardinality(B) = per + per - 0
      BY <3>2, <3>3, FS_Union, FS_EmptySet
    <3> HIDE DEF A, B
    <3>5. Cardinality(A \cup B) = Cardinality(A) + Cardinality(B) - 0
      BY <3>2, <3>4, FS_Union, FS_EmptySet
    <3> QED BY <2>3, <3>1, <3>4, <3>5
  <2>8. Cardinality({plan[i].case : i \in C}) = Cardinality(C)
    <3> DEFINE f == [i \in C |-> plan[i].case]
               T == {plan[i].case : i \in C}
    <3>1. f \in Surjection(C, T) /\ f \in Injection(C, T)
      BY <2>5 DEF Surjection, Injection, IsInjective
    <3> QED BY <1>2, <3>1, FS_Surjection
  <2>9. ASSUME NEW i \in C PROVE plan[i].case.answerable
    <3>1. plan[i].case \in Picked(k, StratumNo(plan[i].case))
      BY <1>2, <2>4
    <3> QED BY <3>1 DEF Picked, Pool, Answerable
  <2>10. \A s, t \in 1..4 : Cardinality(S(s)) = Cardinality(S(t))
    BY <2>6
  <2>11. Cardinality({plan[i].case : i \in C}) = Policies[k].reviews
    BY <2>7, <2>8
  <2> QED BY <1>2, <2>7, <2>9, <2>10, <2>11, Zenon DEF C, plan, n
<1> QED BY <1>4, <1>5

\* Every plan covers the selected cases in every repetition, and what it selects
\* for review is balanced (materialize_run_plans, _review_units).
THEOREM PlansAreBalanced == Spec => []PlanIsBalanced
<1>1. Release => PlanIsBalanced
  <2> SUFFICES ASSUME Release, NEW k \in Kind, rows[k] # <<>>
               PROVE  LET unit(i) == rows[k][i].unit
                          chosen  == {i \in DOMAIN rows[k] : unit(i).selected}
                      IN  /\ {<<unit(i).case, unit(i).repetition>> : i \in DOMAIN rows[k]} =
                                  Selected(k, Manifest) \X (1..Profiles[k].repetitions)
                          /\ Cardinality({unit(i).case : i \in chosen}) = Policies[k].reviews
                          /\ Cardinality(chosen) = Policies[k].reviews
                          /\ \A i \in chosen : unit(i).case.answerable
                          /\ \A s, t \in DOMAIN Strata :
                                Cardinality({i \in chosen : StratumNo(unit(i).case) = s}) =
                                Cardinality({i \in chosen : StratumNo(unit(i).case) = t})
    BY Zenon DEF PlanIsBalanced
  <2> DEFINE plan == RunPlan(k, Manifest)
             n    == Profiles[k].maxRuns
             reps == Profiles[k].repetitions
             C    == {i \in 1..n : plan[i].selected}
             D    == {i \in DOMAIN rows[k] : rows[k][i].unit.selected}
  <2>1. /\ DOMAIN rows[k] = 1..n /\ Plannable(k, Manifest)
        /\ \A i \in 1..n : rows[k][i].unit = plan[i]
    BY DEF Release, Records, Record, Table
  <2>2. FitsProfile(k, Manifest)
    BY <2>1 DEF Plannable
  <2>3. /\ \A i \in 1..n : plan[i].case \in Selected(k, Manifest) /\ plan[i].repetition \in 1..reps
        /\ \A c \in Selected(k, Manifest), q \in 1..reps :
              \E i \in 1..n : plan[i].case = c /\ plan[i].repetition = q
    BY <2>2, PlanIsBijection
  <2>4. /\ Cardinality(C) = Policies[k].reviews
        /\ Cardinality({plan[i].case : i \in C}) = Policies[k].reviews
        /\ \A i \in C : plan[i].case.answerable
        /\ \A s, t \in 1..4 : Cardinality({i \in C : StratumNo(plan[i].case) = s}) =
                              Cardinality({i \in C : StratumNo(plan[i].case) = t})
    BY <2>1, SelectionIsBalanced
  <2>5. DOMAIN Strata = 1..4
    BY DEF Strata
  <2> HIDE DEF plan, n, reps
  <2>6. /\ D = C /\ {rows[k][i].unit.case : i \in D} = {plan[i].case : i \in C}
        /\ \A s : {i \in D : StratumNo(rows[k][i].unit.case) = s} =
                  {i \in C : StratumNo(plan[i].case) = s}
        /\ \A i \in C : rows[k][i].unit.case = plan[i].case
    BY <2>1
  <2>7. {<<rows[k][i].unit.case, rows[k][i].unit.repetition>> : i \in DOMAIN rows[k]} =
            Selected(k, Manifest) \X (1..reps)
    <3>1. {<<rows[k][i].unit.case, rows[k][i].unit.repetition>> : i \in DOMAIN rows[k]} =
            {<<plan[i].case, plan[i].repetition>> : i \in 1..n}
      BY <2>1
    <3>2. ASSUME NEW c \in Selected(k, Manifest), NEW q \in 1..reps
          PROVE  <<c, q>> \in {<<plan[i].case, plan[i].repetition>> : i \in 1..n}
      BY <2>3
    <3> QED BY <2>3, <3>1, <3>2
  <2>8. /\ Cardinality({rows[k][i].unit.case : i \in D}) = Policies[k].reviews
        /\ Cardinality(D) = Policies[k].reviews
        /\ \A i \in D : rows[k][i].unit.case.answerable
    BY <2>4, <2>6
  <2>9. \A s, t \in DOMAIN Strata :
            Cardinality({i \in D : StratumNo(rows[k][i].unit.case) = s}) =
            Cardinality({i \in D : StratumNo(rows[k][i].unit.case) = t})
    <3> DEFINE P(s) == {i \in D : StratumNo(rows[k][i].unit.case) = s}
               Q(s) == {i \in C : StratumNo(plan[i].case) = s}
    <3>1. \A s : P(s) = Q(s)
      BY <2>6
    <3>2. \A s, t \in 1..4 : Cardinality(Q(s)) = Cardinality(Q(t))
      BY <2>4
    <3> HIDE DEF P, Q
    <3>3. \A s, t \in DOMAIN Strata : Cardinality(P(s)) = Cardinality(P(t))
      BY <2>5, <3>1, <3>2
    <3> QED BY <3>3 DEF P
  <2> QED BY <2>7, <2>8, <2>9, Zenon DEF reps
<1> QED BY <1>1, ReleaseInvariant, PTL

-----------------------------------------------------------------------------
(***************************************************************************)
(* A gate that passes was earned.                                            *)
(***************************************************************************)
\* The sample rules hold.
Sampled(in) == FailedSamples(in) = {}

\* PASS is decided last: nothing was found against the input before.
LEMMA PassHasNoFindings ==
    ASSUME NEW in, NEW status, NEW late, Prepare(in, status, late).decision.status = "PASS"
    PROVE  HardViolations(in) = {} /\ Sampled(in)
<1> DEFINE f == Findings(in)
<1>1. f.hard = HardViolations(in) /\ f.sample = FailedSamples(in)
  BY DEF Findings
<1> HIDE DEF f
<1>2. PICK final \in BOOLEAN : Evaluate(in, f, final).status = "PASS"
  <2> DEFINE final == FinalizationReason(in, f, status, late) # NotFinal
             d == Evaluate(in, f, final)
  <2>1. Prepare(in, status, late).decision = IF final THEN d ELSE [d EXCEPT !.status = "PENDING"]
    BY DEF Prepare, f
  <2>2. DOMAIN d = {"status", "failed"}
    BY DEF Evaluate, Decision
  <2> HIDE DEF d
  <2>3. d.status = "PASS"
    BY <2>1, <2>2
  <2> QED BY <2>3 DEF d
<1>3. f.hard = {} /\ f.sample = {}
  BY <1>2 DEF Evaluate, Decision
<1> QED BY <1>1, <1>3 DEF Sampled

\* No hard violation: every terminal row is clear, no review found a major error,
\* the trees were clean.
LEMMA NoViolation ==
    ASSUME NEW in, HardViolations(in) = {}
    PROVE  /\ in.clean
           /\ \A i \in TerminalOf(in) : /\ At(in, i).class # "PERMANENT_CONFIGURATION"
                                        /\ At(in, i).run => Clear(At(in, i))
           /\ \A i \in Indices(in) : in.reviews[i] # NoReview =>
                i \in SelectedOf(in) /\ in.reviews[i].verdict # "MAJOR_ERROR"
<1>1. /\ ~\E i \in TerminalOf(in) : At(in, i).m.untraceable > 0
      /\ ~\E i \in TerminalOf(in) : Drifted(At(in, i))
      /\ ~\E i \in TerminalOf(in) : At(in, i).m.polluted > 0
      /\ ~\E i \in TerminalOf(in) : \/ At(in, i).over
                                    \/ "model_call_budget_exceeded" \in At(in, i).signals
      /\ Orphans(in) = {} /\ in.clean
      /\ ~\E i \in Indices(in) : /\ in.reviews[i] # NoReview
                                 /\ in.reviews[i].verdict = "MAJOR_ERROR"
      /\ ~\E i \in Indices(in) \ SelectedOf(in) : in.reviews[i] # NoReview
      /\ ~\E i \in TerminalOf(in) : At(in, i).class = "PERMANENT_CONFIGURATION"
  BY DEF HardViolations, Raises
<1>2. ASSUME NEW i \in TerminalOf(in), At(in, i).run, NEW v \in At(in, i).source.invocations
      PROVE  v.status \in TerminalInvocation
  <2>1. <<i, v>> \in UNION {{j} \X At(in, j).source.invocations :
                                j \in {j \in TerminalOf(in) : At(in, j).run}}
    BY <1>2
  <2>2. <<i, v>>[2] = v
    OBVIOUS
  <2> QED BY <1>1, <2>1, <2>2 DEF Orphans
<1> QED BY <1>1, <1>2 DEF Clear

\* Enough samples: of both modes and of reviews, and none was given up.
LEMMA EnoughSamples ==
    ASSUME NEW in, Sampled(in),
           Count(Measured(in, "FAST")) \in Nat, Count(Measured(in, "RESEARCH")) \in Nat
    PROVE  /\ Count(Measured(in, "FAST")) >= in.policy.fast
           /\ Count(Measured(in, "RESEARCH")) >= in.policy.research
           /\ Count(Reviewed(in)) >= in.policy.reviews
           /\ WithVerdict(in, "UNREVIEWABLE") = {}
<1> DEFINE p == in.policy
           enough(n, needed) == IF p.exact THEN n = needed ELSE n >= needed
<1>1. /\ enough(Count(Measured(in, "FAST")), p.fast)
      /\ enough(Count(Measured(in, "RESEARCH")), p.research)
      /\ Count(Reviewed(in)) >= p.reviews /\ WithVerdict(in, "UNREVIEWABLE") = {}
  BY DEF Sampled, FailedSamples, Failed
<1>2. ASSUME NEW n \in Nat, NEW needed, enough(n, needed) PROVE n >= needed
  BY <1>2
<1> HIDE DEF enough
<1> QED BY <1>1, <1>2

\* With enough samples every unit has ended and those that were asked for are
\* collected: reviews begin when all have ended, and a gate without reviews asks
\* for all of them by their measured mode.
LEMMA AllEnded ==
    ASSUME Release, NEW k \in Kind, Sampled(DecisionInput(k))
    PROVE  /\ DOMAIN rows[k] = 1..Profiles[k].maxRuns
           /\ \A i \in DOMAIN rows[k] : rows[k][i].state \in TerminalResult
           /\ Cardinality(InState(k, "COLLECTED")) >= Policies[k].fast + Policies[k].research
           /\ Count(Reviewed(DecisionInput(k))) >= Policies[k].reviews
           /\ WithVerdict(DecisionInput(k), "UNREVIEWABLE") = {}
<1> DEFINE in == DecisionInput(k)
           n == Profiles[k].maxRuns
           F == Measured(in, "FAST")
           R == Measured(in, "RESEARCH")
           V == Reviewed(in)
<1>1. Table(k, rows[k], reviews[k]) /\ Reviewing(rows[k], reviews[k])
  BY DEF Release, Records, Record
<1>2. in.results = rows[k] /\ in.reviews = reviews[k] /\ in.policy = Policies[k]
  BY DEF DecisionInput
<1>3. n \in Nat \ {0}
  BY MaxRunsType
<1>4. /\ Policies[k].reviews \in Nat /\ Policies[k].fast \in Nat /\ Policies[k].research \in Nat
  BY PolicyTypes
<1>5. DOMAIN rows[k] \in SUBSET (1..n) /\ IsFiniteSet(1..n) /\ Cardinality(1..n) = n
  <2>1. DOMAIN rows[k] = {} \/ DOMAIN rows[k] = 1..n
    <3>1. rows[k] = <<>> \/ DOMAIN rows[k] = 1..n
      BY <1>1, Zenon DEF Table
    <3>2. rows[k] = <<>> => DOMAIN rows[k] = {}
      OBVIOUS
    <3> HIDE DEF n
    <3> QED BY <3>1, <3>2, Zenon
  <2>2. IsFiniteSet(1..n) /\ Cardinality(1..n) = IF 1 > n THEN 0 ELSE n - 1 + 1
    <3> HIDE DEF n
    <3>1. 1 \in Int /\ n \in Int
      BY <1>3
    <3> QED BY <3>1, FS_Interval, Zenon
  <2> HIDE DEF n
  <2>3. Cardinality(1..n) = n
    BY <1>3, <2>2
  <2> QED BY <2>1, <2>2, <2>3
<1> HIDE DEF in
<1>6. /\ F \in SUBSET (1..n) /\ R \in SUBSET (1..n) /\ V \in SUBSET (1..n)
      /\ F \subseteq DOMAIN rows[k] /\ R \subseteq DOMAIN rows[k] /\ V \subseteq DOMAIN rows[k]
      /\ F \cap R = {}
  BY <1>2, <1>5 DEF Measured, TerminalOf, Reviewed, SelectedOf, Indices, At
<1>7. /\ IsFiniteSet(F) /\ IsFiniteSet(R) /\ IsFiniteSet(V)
      /\ Count(F) \in Nat /\ Count(R) \in Nat /\ Count(V) \in Nat
  BY <1>5, <1>6, FS_Subset, FS_CardinalityType DEF Count
<1>8. /\ Count(F) >= Policies[k].fast /\ Count(R) >= Policies[k].research
      /\ Count(V) >= Policies[k].reviews /\ WithVerdict(in, "UNREVIEWABLE") = {}
  BY <1>2, <1>7, EnoughSamples DEF in
<1>9. /\ IsFiniteSet(F \cup R)
      /\ Cardinality(F \cup R) = Cardinality(F) + Cardinality(R)
  <2> HIDE DEF F, R
  <2>1. /\ IsFiniteSet(F \cup R)
        /\ Cardinality(F \cup R) = Cardinality(F) + Cardinality(R) - Cardinality(F \cap R)
    BY <1>7, FS_Union
  <2>2. Cardinality(F \cap R) = 0
    BY <1>6, FS_EmptySet
  <2> QED BY <1>7, <2>1, <2>2 DEF Count
<1>10. ASSUME NEW i \in F \cup R PROVE rows[k][i].state = "COLLECTED"
  <2>1. i \in DOMAIN rows[k] /\ rows[k][i].m.mode \in {"FAST", "RESEARCH"}
    BY <1>2, <1>6 DEF Measured, At
  <2>2. RowFits(rows[k][i])
    BY <1>1, <2>1 DEF Table
  <2> QED BY <2>1, <2>2 DEF RowFits, NoMeasurement, None
<1>11. Cardinality(InState(k, "COLLECTED")) >= Policies[k].fast + Policies[k].research
  <2> DEFINE C == InState(k, "COLLECTED")
             U == F \cup R
  <2>1. C \in SUBSET (1..n) /\ U \in SUBSET C
    BY <1>5, <1>6, <1>10 DEF InState
  <2> HIDE DEF C, U
  <2>2. IsFiniteSet(C) /\ Cardinality(C) \in Nat
    BY <1>5, <2>1, FS_Subset, FS_CardinalityType
  <2>3. Cardinality(U) <= Cardinality(C)
    BY <2>1, <2>2, FS_Subset
  <2>4. Cardinality(U) = Cardinality(F) + Cardinality(R)
    BY <1>9 DEF U
  <2>5. Cardinality(C) >= Policies[k].fast + Policies[k].research
    <3> HIDE DEF F, R
    <3> QED BY <1>4, <1>7, <1>8, <2>2, <2>3, <2>4 DEF Count
  <2> QED BY <2>5 DEF C
<1>12. CASE Policies[k].reviews = 0
  <2>1. Policies[k].fast + Policies[k].research = n
    BY <1>12, CatalogAssumption
  <2>2. F \cup R \in SUBSET (1..n)
    BY <1>6
  <2>3. Cardinality(F \cup R) <= n
    BY <1>5, <2>2, FS_Subset
  <2>4. Cardinality(1..n) = Cardinality(F \cup R)
    BY <1>3, <1>4, <1>5, <1>7, <1>8, <1>9, <2>1, <2>3 DEF Count
  <2>5. 1..n = F \cup R
    BY <1>5, <2>2, <2>4, FS_Subset
  <2>6. DOMAIN rows[k] = 1..n
    BY <1>5, <1>6, <2>5
  <2>7. \A i \in DOMAIN rows[k] : rows[k][i].state \in TerminalResult
    BY <1>10, <2>5, <2>6 DEF TerminalResult
  <2> QED BY <1>8, <1>11, <2>6, <2>7 DEF in
<1>13. CASE Policies[k].reviews # 0
  <2>1. V # {}
    BY <1>4, <1>8, <1>13, FS_EmptySet DEF Count
  <2>2. PICK i \in DOMAIN rows[k] : reviews[k][i] # NoReview
    BY <1>2, <1>6, <2>1 DEF Reviewed, SelectedOf
  <2>3. \A j \in DOMAIN rows[k] : rows[k][j].state \in TerminalResult
    BY <1>1, <2>2 DEF Table, Reviewing
  <2>4. DOMAIN rows[k] = 1..n
    BY <1>1, <2>2 DEF Table
  <2> QED BY <1>8, <1>11, <2>3, <2>4 DEF in
<1> QED BY <1>12, <1>13

\* As many reviews as there are selected runs are the reviews of all of them.
LEMMA AllReviewed ==
    ASSUME Release, NEW k \in Kind,
           DOMAIN rows[k] = 1..Profiles[k].maxRuns,
           Count(Reviewed(DecisionInput(k))) >= Policies[k].reviews
    PROVE  /\ Reviewed(DecisionInput(k)) = SelectedOf(DecisionInput(k))
           /\ Count(Reviewed(DecisionInput(k))) = Policies[k].reviews
<1> DEFINE in == DecisionInput(k)
           n == Profiles[k].maxRuns
           S == SelectedOf(in)
           V == Reviewed(in)
<1>1. Table(k, rows[k], reviews[k])
  BY DEF Release, Records, Record
<1>2. in.results = rows[k]
  BY DEF DecisionInput
<1>3. n \in Nat /\ IsFiniteSet(1..n)
  BY MaxRunsType, FS_Interval
<1> HIDE DEF in
<1>4. S = {i \in 1..n : RunPlan(k, Manifest)[i].selected}
  BY <1>1, <1>2 DEF SelectedOf, Indices, At, Table
<1>5. Cardinality(S) = Policies[k].reviews
  <2>1. rows[k] # <<>>
    BY MaxRunsType
  <2>2. Plannable(k, Manifest)
    BY <1>1, <2>1 DEF Table
  <2> QED BY <1>4, <2>2, SelectionIsBalanced
<1>6. S \in SUBSET (1..n) /\ V \in SUBSET S
  BY <1>4 DEF Reviewed
<1>7. IsFiniteSet(S) /\ Cardinality(S) \in Nat
  BY <1>3, <1>6, FS_Subset, FS_CardinalityType
<1>8. Cardinality(V) \in Nat /\ Cardinality(V) <= Cardinality(S)
  BY <1>6, <1>7, FS_Subset, FS_CardinalityType
<1>9. Cardinality(V) = Cardinality(S)
  BY <1>5, <1>7, <1>8 DEF in, Count
<1> QED BY <1>5, <1>6, <1>7, <1>9, FS_Subset DEF in, Count

\* Only bind changes what is bound to a campaign.
LEMMA BoundByBind ==
    ASSUME Release, [Next]_vars, NEW k \in Kind, camp'[k].bound # camp[k].bound
    PROVE  \E p \in Reporter : BindReport(p) /\ reporter[p].k = k
<1>1. DOMAIN camp = Kind /\ \A j \in Kind : Lifecycle(camp[j]) /\ DOMAIN camp[j] = CampFields
  BY DEF Release, Records, Record, Lifecycle
<1>2. ASSUME NEW j \in Kind, NEW c, camp' = [camp EXCEPT ![j] = c], c.bound = camp[j].bound
      PROVE  FALSE
  BY <1>1, <1>2
<1>3. ASSUME NEW j \in Kind,
             \/ \E p \in Provenance : Create(j, p)
             \/ Start(j) \/ Pause(j) \/ Resume(j) \/ Abort(j) \/ FatalStop(j) \/ SettleStop(j)
      PROVE  FALSE
  <2>1. PICK st, in, pr : \/ camp' = [camp EXCEPT ![j] = [camp[j] EXCEPT !.status = st, !.prov = pr]]
                          \/ camp' = [camp EXCEPT ![j] = [camp[j] EXCEPT !.status = st, !.intent = in]]
    BY <1>3 DEF Create, Start, Pause, Resume, Abort, FatalStop, SettleStop,
       StatusOnly, SetCampaign
  <2>2. /\ [camp[j] EXCEPT !.status = st, !.prov = pr].bound = camp[j].bound
        /\ [camp[j] EXCEPT !.status = st, !.intent = in].bound = camp[j].bound
    BY <1>1 DEF CampFields
  <2> QED BY <1>2, <2>1, <2>2
<1>4. ASSUME NEW j \in Kind,
             \/ DeadlinePasses(j) \/ Materialize(j) \/ SubmitReview(j)
             \/ SeeSealed(j) \/ AwaitReview(j) \/ LookEnds(j)
      PROVE  FALSE
  <2>1. PICK c : /\ camp' = [camp EXCEPT ![j] = c]
                 /\ \/ c = [camp[j] EXCEPT !.late = TRUE] \/ c = [camp[j] EXCEPT !.planned = TRUE]
                    \/ c = camp[j] \/ c = [camp[j] EXCEPT !.seen = TRUE]
                    \/ c = [camp[j] EXCEPT !.seen = FALSE]
                    \/ c = [camp[j] EXCEPT !.status = "AWAITING_REVIEW", !.seen = FALSE]
    BY <1>4 DEF DeadlinePasses, Materialize, SubmitReview, SeeSealed, AwaitReview, LookEnds,
       SetCampaign
  <2>2. c.bound = camp[j].bound
    BY <1>1, <2>1 DEF CampFields
  <2> QED BY <1>2, <2>1, <2>2
<1>5. ASSUME NEW j \in Kind,
             \/ Reserve(j) \/ ReserveDenied(j) \/ Submit(j) \/ AdmissionRefused(j)
             \/ SubmissionRejected(j) \/ SubmissionUnknown(j)
      PROVE  FALSE
  <2>1. Table(j, rows[j], reviews[j])
    BY DEF Release, Records, Record
  <2>2. PICK c : Goes(camp[j], c) /\ camp' = [camp EXCEPT ![j] = c]
    BY <1>1, <1>5, <2>1, SubmissionStep
  <2> QED BY <1>2, <2>2 DEF Goes
<1>6. ASSUME NEW j \in Kind, CollectResult(j) \/ CollectionFails(j) \/ SkipPending(j)
      PROVE  FALSE
  <2>1. ASSUME NEW e, DOMAIN e = CampFields, e.bound = camp[j].bound, NEW x,
               camp' = [camp EXCEPT ![j] = [e EXCEPT !.counts = x]]
        PROVE  FALSE
    <3> DEFINE c == [e EXCEPT !.counts = x]
    <3>1. c.bound = camp[j].bound
      BY <2>1 DEF CampFields
    <3> HIDE DEF c
    <3> QED BY <1>2, <2>1, <3>1 DEF c
  <2>2. ASSUME NEW u
        PROVE  LET e == SettledCampaign(j, u)
               IN  DOMAIN e = CampFields /\ e.bound = camp[j].bound
    BY <1>1, SettledLifecycle DEF Goes, Lifecycle
  <2>3. CASE CollectResult(j)
    <3>1. PICK u, x, y : camp' = [camp EXCEPT ![j] = [SettledCampaign(j, u) EXCEPT
                                    !.counts.collected = x, !.counts.degraded = y]]
      BY <2>3, ZenonT(60) DEF CollectResult, SetCampaign
    <3> DEFINE e == SettledCampaign(j, u)
               c == [e EXCEPT !.counts.collected = x, !.counts.degraded = y]
    <3>2. DOMAIN e = CampFields /\ e.bound = camp[j].bound
      BY <2>2
    <3> HIDE DEF e
    <3>3. c.bound = camp[j].bound
      BY <3>2 DEF CampFields
    <3>4. camp' = [camp EXCEPT ![j] = c]
      BY <3>1 DEF e
    <3> HIDE DEF c
    <3> QED BY <1>2, <3>3, <3>4
  <2>4. CASE CollectionFails(j)
    <3>1. PICK u : camp' = [camp EXCEPT ![j] = [SettledCampaign(j, u) EXCEPT
                                !.counts.failed = @ + 1]]
      BY <2>4 DEF CollectionFails, SetCampaign
    <3> QED BY <2>1, <2>2, <3>1
  <2>5. CASE SkipPending(j)
    <3>1. PICK x : camp' = [camp EXCEPT ![j] = [camp[j] EXCEPT !.counts.skipped = x]]
      BY <2>5 DEF SkipPending, SetCampaign
    <3> QED BY <1>1, <2>1, <3>1
  <2> QED BY <1>6, <2>3, <2>4, <2>5
<1>7. ASSUME NEW p \in Reporter, BindReport(p) PROVE reporter[p].k = k
  BY <1>1, <1>7 DEF BindReport
<1>8. CASE camp' = camp
  BY <1>8
<1> QED BY <1>3, <1>4, <1>5, <1>6, <1>7, <1>8 DEF Next, vars, Claim, RunTerminates,
   SourceDrifts, ReadReport, PutReport, ReportEnds

\* What holds when a report that says PASS is bound.
LEMMA BoundPass ==
    ASSUME Release, NEW p \in Reporter, BindReport(p),
           reporter[p].report.decision.status = "PASS"
    PROVE  LET k == reporter[p].k
           IN  /\ Len(rows[k]) = Profiles[k].maxRuns /\ Clean(camp[k].prov)
               /\ \A i \in DOMAIN rows[k] :
                    /\ \/ Unlucky(rows[k][i])
                       \/ /\ rows[k][i].state = "COLLECTED"
                          /\ Sound(rows[k][i].source, rows[k][i].unit.case)
                    /\ rows[k][i].unit.selected =>
                            reviews[k][i].verdict \notin {None, "MAJOR_ERROR", "UNREVIEWABLE"}
               /\ Cardinality(InState(k, "COLLECTED")) >= Policies[k].fast + Policies[k].research
               /\ Cardinality({i \in DOMAIN rows[k] : reviews[k][i] # NoReview})
                       = Policies[k].reviews
<1> DEFINE k == reporter[p].k
           in == DecisionInput(k)
<1>1. k \in Kind /\ HardViolations(in) = {} /\ Sampled(in)
  <2>1. reporter[p] # Idle /\ DecisionInput(reporter[p].k) = reporter[p].in
    BY DEF BindReport, Bindable
  <2>2. PICK late : reporter[p].report = Prepare(reporter[p].in, reporter[p].status, late)
    BY <2>1 DEF Release, Reports
  <2>3. reporter[p].k \in Kind
    BY <2>1 DEF Release, Reports
  <2> QED BY <2>1, <2>2, <2>3, PassHasNoFindings
<1> HIDE DEF k
<1>2. /\ DOMAIN rows[k] = 1..Profiles[k].maxRuns
      /\ \A i \in DOMAIN rows[k] : rows[k][i].state \in TerminalResult
      /\ Cardinality(InState(k, "COLLECTED")) >= Policies[k].fast + Policies[k].research
      /\ Count(Reviewed(in)) >= Policies[k].reviews
      /\ WithVerdict(in, "UNREVIEWABLE") = {}
  BY <1>1, AllEnded
<1>3. Reviewed(in) = SelectedOf(in) /\ Count(Reviewed(in)) = Policies[k].reviews
  BY <1>1, <1>2, AllReviewed
<1>4. Len(rows[k]) = Profiles[k].maxRuns
  BY <1>1, <1>2, MaxRunsType
<1>5. Table(k, rows[k], reviews[k]) /\ Reviewing(rows[k], reviews[k])
  BY <1>1 DEF Release, Records, Record
<1>6. in.results = rows[k] /\ in.reviews = reviews[k] /\ in.clean = Clean(camp[k].prov)
  BY DEF DecisionInput
<1> HIDE DEF in
<1>7. /\ in.clean
      /\ \A i \in TerminalOf(in) : /\ At(in, i).class # "PERMANENT_CONFIGURATION"
                                   /\ At(in, i).run => Clear(At(in, i))
      /\ \A i \in Indices(in) : in.reviews[i] # NoReview =>
            i \in SelectedOf(in) /\ in.reviews[i].verdict # "MAJOR_ERROR"
  BY <1>1, NoViolation
<1>8. ASSUME NEW i \in DOMAIN rows[k], rows[k][i].unit.selected
      PROVE  /\ rows[k][i].state = "COLLECTED"
             /\ reviews[k][i].verdict \notin {None, "MAJOR_ERROR", "UNREVIEWABLE"}
  <2>1. i \in Reviewed(in)
    BY <1>3, <1>6, <1>8 DEF SelectedOf, Indices, At
  <2>2. reviews[k][i] # NoReview
    BY <1>6, <2>1 DEF Reviewed
  <2>3. reviews[k][i].verdict # None /\ rows[k][i].state = "COLLECTED"
    BY <1>5, <2>2 DEF Table, Reviewing
  <2>4. reviews[k][i].verdict # "MAJOR_ERROR"
    BY <1>6, <1>7, <2>2 DEF Indices
  <2>5. reviews[k][i].verdict # "UNREVIEWABLE"
    BY <1>2, <1>6, <2>1 DEF WithVerdict
  <2> QED BY <2>3, <2>4, <2>5
<1>9. ASSUME NEW i \in DOMAIN rows[k]
      PROVE  \/ Unlucky(rows[k][i])
             \/ /\ rows[k][i].state = "COLLECTED"
                /\ Sound(rows[k][i].source, rows[k][i].unit.case)
  <2>1. RowFits(rows[k][i]) /\ rows[k][i].state \in TerminalResult
    BY <1>2, <1>5 DEF Table
  <2>2. i \in TerminalOf(in) /\ At(in, i) = rows[k][i]
    BY <1>6, <2>1 DEF TerminalOf, Indices, At
  <2>3. CASE rows[k][i].state = "COLLECTED"
    <3>1. rows[k][i].run
      BY <2>1, <2>3 DEF RowFits
    <3>2. Clear(rows[k][i])
      BY <1>7, <2>2, <3>1
    <3> QED BY <2>1, <2>3, <3>2, ClearIsSound
  <2>4. CASE rows[k][i].state = "FAILED"
    <3>1. rows[k][i].class # "PERMANENT_CONFIGURATION"
      BY <1>7, <2>2
    <3>2. ~rows[k][i].unit.selected
      BY <1>8, <2>4
    <3> QED BY <2>1, <2>4, <3>1, <3>2 DEF RowFits, Unlucky
  <2> QED BY <2>1, <2>3, <2>4 DEF TerminalResult
<1>10. {i \in DOMAIN rows[k] : reviews[k][i] # NoReview} = Reviewed(in)
  BY <1>6, <1>7 DEF Reviewed, SelectedOf, Indices
<1>11. Cardinality({i \in DOMAIN rows[k] : reviews[k][i] # NoReview}) = Policies[k].reviews
  BY <1>3, <1>10 DEF Count
<1> QED BY <1>2, <1>4, <1>6, <1>7, <1>8, <1>9, <1>11 DEF k

\* A gate that passes was earned: at the bind every unit is collected from a
\* source that is sound as it stands, or failed in the infrastructure while a
\* pause was drained; enough were collected, every selected one was reviewed
\* without a major error, and the source trees were clean (bind_report after
\* evaluate_gate).
THEOREM PassesAreEarned == Spec => PassIsEarned
<1> DEFINE Earned(k) ==
        /\ Len(rows[k]) = Profiles[k].maxRuns /\ Clean(camp[k].prov)
        /\ \A i \in DOMAIN rows[k] :
            /\ \/ Unlucky(rows[k][i])
               \/ /\ rows[k][i].state = "COLLECTED"
                  /\ Sound(rows[k][i].source, rows[k][i].unit.case)
            /\ rows[k][i].unit.selected =>
                    reviews[k][i].verdict \notin {None, "MAJOR_ERROR", "UNREVIEWABLE"}
        /\ Cardinality(InState(k, "COLLECTED")) >= Policies[k].fast + Policies[k].research
        /\ Cardinality({i \in DOMAIN rows[k] : reviews[k][i] # NoReview}) = Policies[k].reviews
<1>1. ASSUME Release, [Next]_vars, NEW k \in Kind,
             camp[k].bound.gate # "PASS", camp'[k].bound.gate = "PASS"
      PROVE  Earned(k)
  <2>1. camp'[k].bound # camp[k].bound
    BY <1>1
  <2>2. PICK p \in Reporter : BindReport(p) /\ reporter[p].k = k
    BY <1>1, <2>1, BoundByBind
  <2>3. camp'[k].bound.gate = reporter[p].report.decision.status
    <3>1. DOMAIN camp = Kind /\ DOMAIN camp[k] = CampFields
      BY <1>1 DEF Release, Records, Record, Lifecycle
    <3> QED BY <2>2, <3>1 DEF BindReport, CampFields
  <2>4. reporter[p].report.decision.status = "PASS"
    BY <1>1, <2>3
  <2> HIDE DEF Earned
  <2>5. Earned(reporter[p].k)
    BY <1>1, <2>2, <2>4, BoundPass, Zenon DEF Earned
  <2> QED BY <2>2, <2>5
<1>2. Release /\ [Next]_vars =>
        [\A k \in Kind : camp[k].bound.gate # "PASS" /\ camp'[k].bound.gate = "PASS" => Earned(k)]_vars
  BY <1>1, Zenon
<1> QED BY <1>2, ReleaseInvariant, PTL DEF Spec, PassIsEarned, Earned

-----------------------------------------------------------------------------
(***************************************************************************)
(* What is traceable can be reviewed.                                        *)
(***************************************************************************)
\* As long as no table has changed, every collected row was measured on the
\* source that it has.
Measures(rs)  == \A i \in DOMAIN rs : rs[i].state = "COLLECTED" => MeasuredOn(rs[i], rs[i].source)
Pristine      == drifts \in Nat /\ (drifts = 0 => \A k \in Kind : Measures(rows[k]))

\* One result row changes, and one that is collected is measured.
LEMMA MeasuredRow ==
    ASSUME Records, Pristine, NEW k \in Kind, NEW i \in DOMAIN rows[k], NEW r,
           rows' = [rows EXCEPT ![k][i] = r], drifts' = drifts,
           r.state = "COLLECTED" => MeasuredOn(r, r.source)
    PROVE  Pristine'
<1>1. /\ rows'[k] = [rows[k] EXCEPT ![i] = r] /\ \A j \in Kind \ {k} : rows'[j] = rows[j]
  BY DEF Records
<1>2. Measures(rows[k]) => Measures(rows'[k])
  BY <1>1 DEF Measures
<1> QED BY <1>1, <1>2 DEF Pristine

LEMMA PristineNext == Release /\ Pristine /\ [Next]_vars => Pristine'
<1> SUFFICES ASSUME Release, Pristine, [Next]_vars PROVE Pristine'
  OBVIOUS
<1>1. Records /\ DOMAIN rows = Kind /\ \A k \in Kind : Table(k, rows[k], reviews[k])
  BY DEF Release, Records, Record
<1>2. CASE rows' = rows /\ drifts' = drifts
  BY <1>2 DEF Pristine
<1>3. ASSUME NEW k \in Kind, Materialize(k) PROVE Pristine'
  <2>1. PICK n : rows' = [rows EXCEPT ![k] = [i \in n |-> PendingRow(RunPlan(k, Manifest)[i])]]
    BY <1>3 DEF Materialize
  <2>2. Measures(rows'[k])
    BY <1>1, <2>1 DEF Measures, PendingRow
  <2> QED BY <1>1, <1>3, <2>1, <2>2 DEF Pristine, Materialize
<1>4. ASSUME NEW k \in Kind,
             \/ Claim(k) \/ Reserve(k) \/ ReserveDenied(k) \/ Submit(k) \/ AdmissionRefused(k)
             \/ SubmissionRejected(k) \/ SubmissionUnknown(k)
      PROVE  Pristine'
  <2>1. drifts' = drifts
    BY <1>4, Zenon DEF Claim, Reserve, ReserveDenied, Submit, AdmissionRefused,
       SubmissionRejected, SubmissionUnknown
  <2>2. PICK i, q :
          i \in DOMAIN rows[k] /\ rows' = [rows EXCEPT ![k][i] = q] /\ q.state # "COLLECTED"
    BY <1>1, <1>4, UnitMoves
  <2> QED BY <1>1, <2>1, <2>2, MeasuredRow
<1>5. ASSUME NEW k \in Kind, RunTerminates(k) PROVE Pristine'
  <2>1. PICK i, s : /\ i \in DOMAIN rows[k] /\ rows[k][i].state = "SUBMITTED"
                    /\ rows' = [rows EXCEPT ![k][i] = [rows[k][i] EXCEPT !.source = s]]
                    /\ drifts' = drifts
    BY <1>5 DEF RunTerminates, SetRow, InState
  <2> DEFINE q == [rows[k][i] EXCEPT !.source = s]
  <2>2. RowFits(rows[k][i])
    BY <1>1, <2>1 DEF Table
  <2>3. q.state = "SUBMITTED"
    BY <2>1, <2>2 DEF RowFits, RowFields
  <2> HIDE DEF q
  <2> QED BY <1>1, <2>1, <2>3, MeasuredRow DEF q
<1>6. ASSUME NEW k \in Kind, CollectResult(k) PROVE Pristine'
  <2>1. PICK i \in Collectable(k) :
          LET r    == rows[k][i]
              m    == Collect(ReadSnapshot(r.source), r.unit.case)
              u    == SettledUsage(r.source)
              over == ExceedsReserve(u)
          IN  /\ Errors(r.source) = {}
              /\ rows' = [rows EXCEPT ![k][i] =
                    [r EXCEPT !.state = "COLLECTED", !.resv = "SETTLED",
                      !.m = m, !.used = u, !.calls = m.calls, !.over = over,
                      !.class = IF over THEN "CANDIDATE_DEFECT" ELSE m.class,
                      !.signals = m.signals \cup IF over THEN {"budget_violation"} ELSE {}]]
              /\ drifts' = drifts
    BY <1>6 DEF CollectResult, SetRow
  <2> DEFINE r == rows[k][i]
             m == Collect(ReadSnapshot(r.source), r.unit.case)
             u == SettledUsage(r.source)
             over == ExceedsReserve(u)
             q == [r EXCEPT !.state = "COLLECTED", !.resv = "SETTLED",
                      !.m = m, !.used = u, !.calls = m.calls, !.over = over,
                      !.class = IF over THEN "CANDIDATE_DEFECT" ELSE m.class,
                      !.signals = m.signals \cup IF over THEN {"budget_violation"} ELSE {}]
  <2>2. i \in DOMAIN rows[k] /\ r.source # NoSource
    BY <2>1 DEF Collectable, InState
  <2>3. RowFits(r)
    BY <1>1, <2>2 DEF Table
  <2> HIDE DEF m, u, over
  <2>4. q.m = m /\ q.unit = r.unit /\ q.source = r.source /\ m.signals \subseteq q.signals
    BY <2>3 DEF RowFits, RowFields
  <2>5. MeasuredOn(q, q.source)
    BY <2>1, <2>2, <2>3, <2>4 DEF MeasuredOn, RowFits, m
  <2>6. rows' = [rows EXCEPT ![k][i] = q] /\ drifts' = drifts
    BY <2>1 DEF m, u, over
  <2> HIDE DEF q
  <2> QED BY <1>1, <2>2, <2>5, <2>6, MeasuredRow
<1>7. ASSUME NEW k \in Kind, CollectionFails(k) PROVE Pristine'
  <2>1. PICK i, x :
          LET r == rows[k][i]
              u == SettledUsage(r.source)
          IN  /\ i \in Collectable(k) /\ drifts' = drifts
              /\ rows' = [rows EXCEPT ![k][i] =
                    [r EXCEPT !.state = "FAILED", !.resv = "SETTLED", !.used = u,
                      !.calls = Cardinality(Called(r.source)), !.over = ExceedsReserve(u),
                      !.class = CollectionFailure(x).class,
                      !.signals = {CollectionFailure(x).signal}]]
    BY <1>7 DEF CollectionFails, SetRow
  <2> DEFINE u == SettledUsage(rows[k][i].source)
             calls == Cardinality(Called(rows[k][i].source))
             over == ExceedsReserve(u)
             class == CollectionFailure(x).class
             signals == {CollectionFailure(x).signal}
             q == [rows[k][i] EXCEPT !.state = "FAILED", !.resv = "SETTLED", !.used = u,
                        !.calls = calls, !.over = over, !.class = class, !.signals = signals]
  <2> HIDE DEF u, calls, over, class, signals
  <2>2. i \in DOMAIN rows[k]
    BY <2>1 DEF Collectable, InState
  <2>3. RowFits(rows[k][i])
    BY <1>1, <2>2 DEF Table
  <2>4. q.state = "FAILED"
    BY <2>3 DEF RowFits, RowFields
  <2>5. rows' = [rows EXCEPT ![k][i] = q] /\ drifts' = drifts
    BY <2>1 DEF u, calls, over, class, signals
  <2> HIDE DEF q
  <2> QED BY <1>1, <2>2, <2>4, <2>5, MeasuredRow
<1>8. ASSUME NEW k \in Kind, SkipPending(k) PROVE Pristine'
  <2> DEFINE pending == InState(k, "PENDING")
  <2>1. /\ rows' = [rows EXCEPT ![k] = [i \in DOMAIN rows[k] |->
                IF i \in pending THEN [rows[k][i] EXCEPT !.state = "SKIPPED"]
                ELSE rows[k][i]]]
        /\ drifts' = drifts
    BY <1>8 DEF SkipPending
  <2>2. ASSUME NEW i \in DOMAIN rows[k] PROVE [rows[k][i] EXCEPT !.state = "SKIPPED"].state = "SKIPPED"
    <3>1. RowFits(rows[k][i])
      BY <1>1 DEF Table
    <3> QED BY <3>1 DEF RowFits, RowFields
  <2>3. Measures(rows[k]) => Measures(rows'[k])
    BY <1>1, <2>1, <2>2 DEF Measures
  <2> QED BY <1>1, <2>1, <2>3 DEF Pristine
<1>9. ASSUME NEW k \in Kind, SourceDrifts(k) PROVE Pristine'
  BY <1>9 DEF SourceDrifts, Pristine
<1>10. CASE \/ \E k \in Kind : \/ \E p \in Provenance : Create(k, p)
                              \/ Start(k) \/ Pause(k) \/ Resume(k) \/ Abort(k) \/ FatalStop(k)
                              \/ SettleStop(k) \/ SeeSealed(k) \/ AwaitReview(k) \/ LookEnds(k)
                              \/ DeadlinePasses(k) \/ SubmitReview(k)
                              \/ \E p \in Reporter : ReadReport(p, k)
            \/ \E p \in Reporter : PutReport(p) \/ BindReport(p) \/ ReportEnds(p)
  <2>1. ASSUME NEW k \in Kind, \/ \E p \in Provenance : Create(k, p)
                               \/ Start(k) \/ Pause(k) \/ Resume(k) \/ Abort(k) \/ FatalStop(k)
        PROVE  Pristine'
    BY <1>2, <2>1, Zenon DEF Create, Start, Pause, Resume, Abort, FatalStop, StatusOnly
  <2>2. ASSUME NEW k \in Kind, \/ SettleStop(k) \/ SeeSealed(k) \/ AwaitReview(k) \/ LookEnds(k)
                               \/ DeadlinePasses(k) \/ SubmitReview(k)
        PROVE  Pristine'
    BY <1>2, <2>2, Zenon DEF SettleStop, SeeSealed, AwaitReview, LookEnds, DeadlinePasses, SubmitReview, StatusOnly
  <2>3. ASSUME NEW p \in Reporter, \/ \E k \in Kind : ReadReport(p, k)
                                   \/ PutReport(p) \/ BindReport(p) \/ ReportEnds(p)
        PROVE  Pristine'
    BY <1>2, <2>3, Zenon DEF ReadReport, PutReport, BindReport, ReportEnds
  <2> QED BY <1>10, <2>1, <2>2, <2>3, Zenon
<1>11. CASE UNCHANGED vars
  BY <1>2, <1>11 DEF vars
<1> QED BY <1>3, <1>4, <1>5, <1>6, <1>7, <1>8, <1>9, <1>10, <1>11 DEF Next

LEMMA PristineInvariant == Spec => []Pristine
<1>1. Init => Pristine
  BY DEF Init, Pristine, Measures
<1> QED BY <1>1, PristineNext, ReleaseInvariant, PTL DEF Spec

\* A row that was measured on the source it has, complete and without a finding
\* against its citations, can be shown to the owner.
LEMMA TraceableIsProjectable ==
    ASSUME NEW r, MeasuredOn(r, r.source), ~(r.m.untraceable > 0), r.m.quality = "COMPLETE",
           "nonfactual_citation" \notin r.signals
    PROVE  Projectable(r.source)
<1> DEFINE db == r.source
           s  == ReadSnapshot(db)
<1>1. /\ Stored(db) /\ Errors(db) = {} /\ r.m = Collect(s, r.unit.case)
      /\ r.m.signals \subseteq r.signals
  BY DEF MeasuredOn
<1>2. ~Unreadable(db) /\ OutputErrors(s) = {} /\ ClaimErrors(s) = {}
  BY <1>1, NoErrors
<1>3. /\ s.output = Output(db) /\ s.citations = ReadCitations(db)
      /\ s.evidence = ReadEvidence(db) /\ s.claims = db.claims
      /\ s.status = db.status /\ s.quality = db.quality
  BY SnapshotFields
<1> HIDE DEF s, db
<1>4. \E m \in db.messages : m.id = db.output /\ m.role = "assistant"
  <2>1. s.quality = "COMPLETE"
    BY <1>1 DEF Collect
  <2>2. s.status = "SUCCEEDED"
    BY <1>1, <1>3, <2>1 DEF Stored
  <2>3. s.output
    BY <1>2, <2>2 DEF OutputErrors, Raises
  <2> QED BY <1>3, <2>3 DEF Output
<1>5. \A a \in db.claims : a.kind \in ClaimKind
  BY <1>2, <1>3 DEF ClaimErrors, Raises
<1>6. Untraceable(s) = {}
  <2>1. Untraceable(s) \in SUBSET s.claims /\ IsFiniteSet(s.claims)
    BY <1>1, <1>3 DEF Untraceable, Factual, Stored
  <2>2. ~(Cardinality(Untraceable(s)) > 0)
    BY <1>1 DEF Collect
  <2> QED BY <2>1, <2>2, FS_Subset, NoneCounted
<1>7. \A c \in s.citations : Row(s.claims, c.claim).kind = "FACTUAL"
  <2>1. "nonfactual_citation" \notin Signals(s, r.unit.case)
    BY <1>1 DEF Collect
  <2>2. "nonfactual_citation" \notin CandidateSignals(s, r.unit.case)
    BY <2>1 DEF Signals
  <2> QED BY <2>2 DEF CandidateSignals, Raises
<1>8. ASSUME NEW y \in db.citations PROVE Quotes(db, y)
  <2> DEFINE x == ReadAs(db, y)
  <2>1. x \in s.citations
    BY <1>3 DEF ReadCitations, ReadAs
  <2>2. x.claim = y.claim /\ x.evidence = y.evidence /\ x.span = y.span
    BY DEF ReadAs
  <2> DEFINE a == Row(s.claims, y.claim)
  <2>3. a \in s.claims /\ a.id = y.claim
    <3>1. y.claim \in Ids(s.claims)
      BY <1>2, <2>1, <2>2 DEF ClaimErrors, Raises
    <3> QED BY <3>1 DEF Ids, Row
  <2>4. a.kind = "FACTUAL"
    BY <1>7, <2>1, <2>2
  <2> HIDE DEF x, a
  <2>5. ValidCitation(s, x)
    BY <1>6, <2>1, <2>2, <2>3, <2>4 DEF Untraceable, Factual, CitationsOf
  <2>6. PICK e \in s.evidence : /\ e.id = y.evidence /\ e.verdict = "ACCEPTED"
                                /\ e.fact = a.fact /\ e.chained /\ y.span = e.span
                                /\ x.matches
    BY <2>2, <2>5 DEF ValidCitation, a
  <2>7. PICK v \in db.verified, c \in db.candidates :
            /\ v.id = y.evidence /\ v.verdict = e.verdict /\ v.candidate = c.id
            /\ c.fact = e.fact /\ c.span = e.span /\ y.quote = c.quote /\ Chained(db, c)
    BY <1>1, <1>2, <1>3, <2>6, CitedEvidence DEF x
  <2>8. PICK k \in db.chunks : k.id = c.span /\ k.version = c.version
    BY <2>7 DEF Chained
  <2>9. k.text = c.quote
    BY <1>1, <2>8 DEF Stored
  <2> QED BY <1>3, <2>3, <2>4, <2>6, <2>7, <2>8, <2>9 DEF Quotes
<1>9. Projectable(db)
  BY <1>4, <1>5, <1>8 DEF Projectable
<1> QED BY <1>9 DEF db

\* The collector and the review read the tables at different times and by rules
\* of their own; as long as no table has changed, what one counts as traceable
\* the other can show.
THEOREM TraceableCanBeReviewed == Spec => []TraceableIsReviewable
<1>1. Release /\ Pristine => TraceableIsReviewable
  <2> SUFFICES ASSUME Release, Pristine, NEW k \in Kind, NEW i \in DOMAIN rows[k],
                      rows[k][i].state = "COLLECTED", rows[k][i].m.untraceable = 0,
                      rows[k][i].m.quality = "COMPLETE",
                      "nonfactual_citation" \notin rows[k][i].signals, drifts = 0
               PROVE  ReviewsFor(rows[k][i]) = HumanReview
    BY DEF TraceableIsReviewable
  <2>1. MeasuredOn(rows[k][i], rows[k][i].source)
    BY DEF Pristine, Measures
  <2>2. Projectable(rows[k][i].source)
    BY <2>1, TraceableIsProjectable
  <2> QED BY <2>2 DEF ReviewsFor
<1> QED BY <1>1, ReleaseInvariant, PristineInvariant, PTL

-----------------------------------------------------------------------------
(***************************************************************************)
(* The books.                                                                *)
(***************************************************************************)
UsageFields == {"observed", "possibly", "tokens", "cost", "possiblyCost"}
IsUsage(u)  == DOMAIN u = UsageFields /\ \A f \in UsageFields : u[f] \in Nat

\* The rows that the counters count, and what was charged, one by one.
Begun(rs)        == {i \in DOMAIN rs : rs[i].run}
WithState(rs, s) == {i \in DOMAIN rs : rs[i].state = s}
Reserves(rs, s)  == {i \in DOMAIN rs : rs[i].resv = s}
Impaired(rs)     == {i \in DOMAIN rs : rs[i].state \in TerminalResult /\ rs[i].m.degraded}
InDoubt(r)       == r.resv = "SETTLED" /\ (r.used.possibly > 0 \/ r.used.possiblyCost > 0)
Doubtful(rs)     == {i \in DOMAIN rs : InDoubt(rs[i])}
Charges(rs, f)   == UNION {{i} \X (1..rs[i].used[f]) : i \in Reserves(rs, "SETTLED")}
Units(S, g)      == UNION {{x} \X (1..g[x]) : x \in S}

CountsOf(rs) ==
    [submitted |-> Cardinality(Begun(rs)),
     collected |-> Cardinality(WithState(rs, "COLLECTED")),
     failed    |-> Cardinality(WithState(rs, "FAILED")),
     skipped   |-> Cardinality(WithState(rs, "SKIPPED")),
     degraded  |-> Cardinality(Impaired(rs))]

LedgerOf(rs) ==
    [observed |-> Cardinality(Charges(rs, "observed")),
     possibly |-> Cardinality(Charges(rs, "possibly")),
     tokens   |-> Cardinality(Charges(rs, "tokens")),
     cost     |-> Cardinality(Charges(rs, "cost")),
     possiblyCost  |-> Cardinality(Charges(rs, "possiblyCost")),
     reserved      |-> Cardinality(Reserves(rs, "ACTIVE")) * RunReserve.calls,
     reservedCost  |-> Cardinality(Reserves(rs, "ACTIVE")) * RunReserve.cost,
     possiblyCount |-> Cardinality(Doubtful(rs))]

\* Which reservation goes with which state of a result row.
Kept(r) ==
    /\ IsUsage(r.used)
    /\ r.state \in {"PENDING", "CLAIMED", "SUBMITTED", "COLLECTED", "FAILED", "SKIPPED"}
    /\ r.state \in {"PENDING", "CLAIMED", "SKIPPED"} =>
        ~r.run /\ r.resv \in {"NONE", "ACTIVE"} /\ r.calls = 0
    /\ r.state \in {"PENDING", "SKIPPED"} => r.resv = "NONE"
    /\ r.state = "SUBMITTED" => r.run /\ r.resv = "ACTIVE"
    /\ r.state = "COLLECTED" => r.resv = "SETTLED"
    /\ r.state = "FAILED" => r.resv = "SETTLED" \/ ~r.run
    /\ r.resv = "SETTLED" /\ ~r.run => UnknownOutbound(r)

Audited(r) == r.resv = "SETTLED" /\ r.run => AgreesWithAudit(r)

\* The campaign row agrees with its result rows, and these with the audit as long
\* as it has not changed.
Book(c, rs) ==
    /\ c.counts = CountsOf(rs) /\ c.ledger = LedgerOf(rs)
    /\ \A i \in DOMAIN rs : Kept(rs[i])

Books ==
    /\ drifts \in Nat /\ \A k \in Kind : Book(camp[k], rows[k])
    /\ drifts = 0 => \A k \in Kind : \A i \in DOMAIN rows[k] : Audited(rows[k][i])

\* The report derives what the books say.
LEMMA DerivedIsBooked ==
    ASSUME NEW k
    PROVE  /\ DerivedCounts(DecisionInput(k)) = CountsOf(rows[k])
           /\ DerivedLedger(DecisionInput(k)) = LedgerOf(rows[k])
<1> DEFINE in == DecisionInput(k)
           rs == rows[k]
<1>1. in.results = rs
  BY DEF DecisionInput
<1> HIDE DEF in, rs
<1>2. /\ {i \in Indices(in) : At(in, i).run} = Begun(rs)
      /\ \A s : {i \in Indices(in) : At(in, i).state = s} = WithState(rs, s)
      /\ \A s : WithReservation(in, s) = Reserves(rs, s)
      /\ {i \in TerminalOf(in) : At(in, i).m.degraded} = Impaired(rs)
      /\ {i \in WithReservation(in, "SETTLED") : \/ At(in, i).used.possibly > 0
                                                 \/ At(in, i).used.possiblyCost > 0}
            = Doubtful(rs)
  BY <1>1 DEF Indices, At, Begun, WithState, WithReservation, Reserves, TerminalOf, Impaired,
     Doubtful, InDoubt
<1>3. \A f : Total(LAMBDA i : At(in, i).used[f], WithReservation(in, "SETTLED")) =
             Cardinality(Charges(rs, f))
  <2>1. ASSUME NEW f
        PROVE  {{i} \X (1..At(in, i).used[f]) : i \in WithReservation(in, "SETTLED")} =
               {{i} \X (1..rs[i].used[f]) : i \in Reserves(rs, "SETTLED")}
    BY <1>1, <1>2 DEF At
  <2> QED BY <2>1, Zenon DEF Total, Charges
<1>4. DerivedCounts(in) = CountsOf(rs)
  BY <1>2 DEF DerivedCounts, CountsOf, Count
<1>5. DerivedLedger(in) = LedgerOf(rs)
  BY <1>2, <1>3 DEF DerivedLedger, LedgerOf, Count
<1> QED BY <1>4, <1>5 DEF in, rs

\* A sum that is counted one by one is a number.
LEMMA TotalIsNumber ==
    ASSUME NEW S, IsFiniteSet(S), NEW g, \A x \in S : g[x] \in Nat
    PROVE  IsFiniteSet(Units(S, g)) /\ Cardinality(Units(S, g)) \in Nat
<1> DEFINE P(x) == {x} \X (1..g[x])
           I == {P(x) : x \in S}
           h == [x \in S |-> P(x)]
<1>1. h \in Surjection(S, I)
  <2> HIDE DEF P
  <2> QED BY DEF Surjection
<1>2. IsFiniteSet(I)
  BY <1>1, FS_Surjection
<1>3. ASSUME NEW x \in S PROVE IsFiniteSet(P(x))
  <2> DEFINE n == g[x]
  <2>1. IsFiniteSet({x})
    BY FS_Singleton
  <2>2. 1 \in Int /\ n \in Int
    OBVIOUS
  <2> HIDE DEF n
  <2>3. IsFiniteSet(1..n)
    BY <2>2, FS_Interval, Zenon
  <2>4. IsFiniteSet({x} \X (1..n))
    BY <2>1, <2>3, FS_Product, Zenon
  <2> QED BY <2>4 DEF n
<1> HIDE DEF P
<1>4. IsFiniteSet(UNION I)
  BY <1>2, <1>3, FS_UNION
<1>5. UNION I = Units(S, g)
  BY DEF P, Units
<1> QED BY <1>4, <1>5, FS_CardinalityType

\* Two sets that differ in one element at most.
LEMMA OneMore ==
    ASSUME NEW D, IsFiniteSet(D), NEW A \in SUBSET D, NEW B \in SUBSET D, NEW i \in D,
           \A j \in D \ {i} : j \in A <=> j \in B
    PROVE  /\ Cardinality(A) \in Nat /\ Cardinality(B) \in Nat
           /\ i \in A /\ i \in B => Cardinality(B) = Cardinality(A)
           /\ i \notin A /\ i \notin B => Cardinality(B) = Cardinality(A)
           /\ i \notin A /\ i \in B => Cardinality(B) = Cardinality(A) + 1
           /\ i \in A /\ i \notin B => Cardinality(B) = Cardinality(A) - 1
<1>1. IsFiniteSet(A) /\ IsFiniteSet(B) /\ Cardinality(A) \in Nat /\ Cardinality(B) \in Nat
  BY FS_Subset, FS_CardinalityType
<1>2. (i \in A <=> i \in B) => A = B
  OBVIOUS
<1>3. i \notin A /\ i \in B => B = A \cup {i}
  OBVIOUS
<1>4. i \in A /\ i \notin B => B = A \ {i}
  OBVIOUS
<1> QED BY <1>1, <1>2, <1>3, <1>4, FS_AddElement, FS_RemoveElement

\* One, if it is so.
Bit(b) == IF b THEN 1 ELSE 0

\* What was counted as A is counted as B, where only i can make a difference.
Recounted(A, B, i) ==
    /\ Cardinality(A) \in Nat
    /\ Cardinality(B) = Cardinality(A) + Bit(i \in B) - Bit(i \in A)

\* The element in which they differ makes the difference of their numbers.
LEMMA OneBit ==
    ASSUME NEW D, IsFiniteSet(D), NEW A \in SUBSET D, NEW B \in SUBSET D, NEW i \in D,
           \A j \in D \ {i} : j \in A <=> j \in B
    PROVE  Recounted(A, B, i)
BY OneMore DEF Bit, Recounted

\* A charge that is added to the others.
LEMMA OneCharge ==
    ASSUME NEW S, IsFiniteSet(S), NEW i, i \notin S, NEW g, \A x \in S : g[x] \in Nat,
           g[i] \in Nat
    PROVE  /\ Cardinality(Units(S, g)) \in Nat
           /\ Cardinality(Units(S \cup {i}, g)) = Cardinality(Units(S, g)) + g[i]
<1> DEFINE n == g[i]
           P == {i} \X (1..n)
<1>1. IsFiniteSet(Units(S, g)) /\ Cardinality(Units(S, g)) \in Nat
  BY TotalIsNumber, Zenon
<1>2. Units(S \cup {i}, g) = Units(S, g) \cup P
  BY DEF Units
<1>3. Units(S, g) \cap P = {}
  BY DEF Units
<1>4. IsFiniteSet(P) /\ Cardinality(P) = n
  <2>1. IsFiniteSet({i}) /\ Cardinality({i}) = 1
    BY FS_Singleton
  <2>2. 1 \in Int /\ n \in Int /\ n \in Nat
    OBVIOUS
  <2> HIDE DEF n
  <2>3. IsFiniteSet(1..n) /\ Cardinality(1..n) = IF 1 > n THEN 0 ELSE n - 1 + 1
    BY <2>2, FS_Interval, Zenon
  <2>4. Cardinality(1..n) = n
    BY <2>2, <2>3
  <2>5. IsFiniteSet(P) /\ Cardinality(P) = 1 * Cardinality(1..n)
    BY <2>1, <2>3, FS_Product, Zenon DEF P
  <2> QED BY <2>2, <2>4, <2>5
<1> DEFINE A == Units(S, g)
           B == Units(S \cup {i}, g)
<1>8. IsFiniteSet(A) /\ Cardinality(A) \in Nat /\ B = A \cup P /\ A \cap P = {} /\ n \in Nat
  BY <1>1, <1>2, <1>3
<1> HIDE DEF A, B, P, n
<1>5. Cardinality(A \cup P) = Cardinality(A) + Cardinality(P) - Cardinality(A \cap P)
  BY <1>4, <1>8, FS_Union
<1>6. Cardinality(A \cap P) = 0
  BY <1>8, FS_EmptySet
<1>7. Cardinality(B) = Cardinality(A) + n
  BY <1>4, <1>5, <1>6, <1>8
<1> QED BY <1>7, <1>8, Zenon DEF A, B, n

\* Which rows a field can change.
LEMMA RowChange ==
    ASSUME NEW rs, IsFiniteSet(DOMAIN rs), NEW i \in DOMAIN rs, NEW r
    PROVE  LET qs == [rs EXCEPT ![i] = r]
           IN  /\ Recounted(Begun(rs), Begun(qs), i)
               /\ Recounted(Impaired(rs), Impaired(qs), i)
               /\ Recounted(Doubtful(rs), Doubtful(qs), i)
               /\ \A s : /\ Recounted(WithState(rs, s), WithState(qs, s), i)
                         /\ Recounted(Reserves(rs, s), Reserves(qs, s), i)
<1> DEFINE qs == [rs EXCEPT ![i] = r]
           D == DOMAIN rs
<1>1. DOMAIN qs = D /\ \A j \in D \ {i} : qs[j] = rs[j]
  OBVIOUS
<1> HIDE DEF qs
<1>2. /\ Begun(rs) \in SUBSET D /\ Begun(qs) \in SUBSET D
      /\ \A j \in D \ {i} : j \in Begun(rs) <=> j \in Begun(qs)
  BY <1>1 DEF Begun
<1>3. /\ Impaired(rs) \in SUBSET D /\ Impaired(qs) \in SUBSET D
      /\ \A j \in D \ {i} : j \in Impaired(rs) <=> j \in Impaired(qs)
  BY <1>1 DEF Impaired
<1>4. /\ Doubtful(rs) \in SUBSET D /\ Doubtful(qs) \in SUBSET D
      /\ \A j \in D \ {i} : j \in Doubtful(rs) <=> j \in Doubtful(qs)
  BY <1>1 DEF Doubtful
<1>5. ASSUME NEW s
      PROVE /\ WithState(rs, s) \in SUBSET D /\ WithState(qs, s) \in SUBSET D
            /\ \A j \in D \ {i} : j \in WithState(rs, s) <=> j \in WithState(qs, s)
  BY <1>1 DEF WithState
<1>6. ASSUME NEW s
      PROVE /\ Reserves(rs, s) \in SUBSET D /\ Reserves(qs, s) \in SUBSET D
            /\ \A j \in D \ {i} : j \in Reserves(rs, s) <=> j \in Reserves(qs, s)
  BY <1>1 DEF Reserves
<1> HIDE DEF D
<1>7. i \in D /\ IsFiniteSet(D)
  BY DEF D
<1>8. /\ Recounted(Begun(rs), Begun(qs), i)
      /\ Recounted(Impaired(rs), Impaired(qs), i)
      /\ Recounted(Doubtful(rs), Doubtful(qs), i)
  BY <1>2, <1>3, <1>4, <1>7, OneBit
<1>9. ASSUME NEW s
      PROVE  /\ Recounted(WithState(rs, s), WithState(qs, s), i)
             /\ Recounted(Reserves(rs, s), Reserves(qs, s), i)
  BY <1>5, <1>6, <1>7, OneBit
<1> QED BY <1>8, <1>9, Zenon DEF qs

\* A row that is settled is charged what it used.
LEMMA ChargeChange ==
    ASSUME NEW rs, IsFiniteSet(DOMAIN rs), NEW i \in DOMAIN rs, NEW r, NEW f,
           \A j \in DOMAIN rs : rs[j].used[f] \in Nat, r.used[f] \in Nat,
           rs[i].resv # "SETTLED", r.resv = "SETTLED"
    PROVE  LET qs == [rs EXCEPT ![i] = r]
           IN  /\ Cardinality(Charges(rs, f)) \in Nat
               /\ Cardinality(Charges(qs, f)) = Cardinality(Charges(rs, f)) + r.used[f]
<1> DEFINE qs == [rs EXCEPT ![i] = r]
           S == Reserves(rs, "SETTLED")
           g == [j \in DOMAIN rs |-> qs[j].used[f]]
<1>1. DOMAIN qs = DOMAIN rs /\ qs[i] = r /\ \A j \in DOMAIN rs \ {i} : qs[j] = rs[j]
  OBVIOUS
<1> HIDE DEF qs
<1>2. /\ S \in SUBSET DOMAIN rs /\ i \notin S /\ Reserves(qs, "SETTLED") = S \cup {i}
  BY <1>1 DEF Reserves
<1>3. IsFiniteSet(S)
  BY <1>2, FS_Subset
<1>4. g[i] = r.used[f] /\ \A j \in S : g[j] = rs[j].used[f]
  BY <1>1, <1>2
<1>5. \A j \in S \cup {i} : g[j] = qs[j].used[f]
  BY <1>1, <1>2
<1> HIDE DEF g
<1>6. {{x} \X (1..g[x]) : x \in S} = {{x} \X (1..rs[x].used[f]) : x \in S}
  BY <1>4
<1>7. {{x} \X (1..g[x]) : x \in S \cup {i}} = {{x} \X (1..qs[x].used[f]) : x \in S \cup {i}}
  BY <1>5
<1>8. /\ g[i] \in Nat /\ \A j \in S : g[j] \in Nat
  BY <1>2, <1>4
<1> HIDE DEF S
<1>9. Charges(rs, f) = Units(S, g)
  BY <1>6, Zenon DEF Charges, Units, S
<1>10. Charges(qs, f) = Units(S \cup {i}, g)
  BY <1>2, <1>7, Zenon DEF Charges, Units
<1>11. /\ Cardinality(Charges(rs, f)) \in Nat
       /\ Cardinality(Charges(qs, f)) = Cardinality(Charges(rs, f)) + g[i]
  <2>1. i \notin S
    BY <1>2
  <2>2. /\ Cardinality(Units(S, g)) \in Nat
        /\ Cardinality(Units(S \cup {i}, g)) = Cardinality(Units(S, g)) + g[i]
    BY <1>3, <1>8, <2>1, OneCharge, Zenon
  <2> QED BY <1>9, <1>10, <2>2, Zenon
<1> QED BY <1>4, <1>11 DEF qs

\* Otherwise what has been charged stays as it is.
LEMMA ChargesStay ==
    ASSUME NEW rs, NEW qs, DOMAIN qs = DOMAIN rs,
           \A j \in DOMAIN rs : /\ qs[j].resv = "SETTLED" <=> rs[j].resv = "SETTLED"
                                /\ rs[j].resv = "SETTLED" => qs[j].used = rs[j].used
    PROVE  \A f : Charges(qs, f) = Charges(rs, f)
<1>1. Reserves(qs, "SETTLED") = Reserves(rs, "SETTLED")
  BY DEF Reserves
<1>2. \A j \in Reserves(rs, "SETTLED") : qs[j].used = rs[j].used
  BY DEF Reserves
<1> DEFINE S == Reserves(rs, "SETTLED")
<1> HIDE DEF S
<1>3. ASSUME NEW f
      PROVE {{j} \X (1..qs[j].used[f]) : j \in S} = {{j} \X (1..rs[j].used[f]) : j \in S}
  BY <1>2 DEF S
<1> QED BY <1>1, <1>3, Zenon DEF Charges, S

\* Rows that show the counters the same are booked the same.
LEMMA SameBooks ==
    ASSUME NEW rs, NEW qs, DOMAIN qs = DOMAIN rs,
           \A j \in DOMAIN rs : /\ qs[j].run = rs[j].run /\ qs[j].state = rs[j].state
                                /\ qs[j].resv = rs[j].resv /\ qs[j].m = rs[j].m
                                /\ qs[j].used = rs[j].used
    PROVE  CountsOf(qs) = CountsOf(rs) /\ LedgerOf(qs) = LedgerOf(rs)
<1>1. /\ Begun(qs) = Begun(rs) /\ Impaired(qs) = Impaired(rs) /\ Doubtful(qs) = Doubtful(rs)
  BY DEF Begun, Impaired, Doubtful, InDoubt
<1>2. \A s : WithState(qs, s) = WithState(rs, s) /\ Reserves(qs, s) = Reserves(rs, s)
  BY DEF WithState, Reserves
<1>3. \A f : Charges(qs, f) = Charges(rs, f)
  BY ChargesStay
<1> QED BY <1>1, <1>2, <1>3, Zenon DEF CountsOf, LedgerOf

\* The books of one campaign are changed.
LEMMA BookStep ==
    ASSUME Records, Books, NEW k \in Kind, Book(camp'[k], rows'[k]), drifts' = drifts,
           \A j \in Kind \ {k} : camp'[j] = camp[j] /\ rows'[j] = rows[j],
           drifts = 0 => \A i \in DOMAIN rows'[k] : Audited(rows'[k][i])
    PROVE  Books'
<1>1. /\ drifts' \in Nat
      /\ \A j \in Kind : Book(camp[j], rows[j])
      /\ drifts = 0 => \A j \in Kind : \A i \in DOMAIN rows[j] : Audited(rows[j][i])
  BY DEF Books
<1>2. ASSUME NEW j \in Kind PROVE Book(camp'[j], rows'[j])
  BY <1>1
<1>3. ASSUME NEW j \in Kind, drifts = 0, NEW i \in DOMAIN rows'[j] PROVE Audited(rows'[j][i])
  BY <1>1, <1>3
<1> QED BY <1>1, <1>2, <1>3 DEF Books

\* One row of the books is changed.
LEMMA BookedRow ==
    ASSUME Records, Books, NEW k \in Kind, NEW i \in DOMAIN rows[k], NEW r, NEW c,
           Kept(r), drifts = 0 => Audited(r), drifts' = drifts,
           camp'[k] = c, \A j \in Kind \ {k} : camp'[j] = camp[j],
           rows' = [rows EXCEPT ![k][i] = r],
           c.counts = CountsOf([rows[k] EXCEPT ![i] = r]),
           c.ledger = LedgerOf([rows[k] EXCEPT ![i] = r])
    PROVE  Books'
<1> DEFINE qs == [rows[k] EXCEPT ![i] = r]
<1>1. /\ camp'[k] = c /\ rows'[k] = qs
      /\ \A j \in Kind \ {k} : camp'[j] = camp[j] /\ rows'[j] = rows[j]
  BY DEF Records
<1>2. DOMAIN qs = DOMAIN rows[k] /\ qs[i] = r /\ \A j \in DOMAIN rows[k] \ {i} : qs[j] = rows[k][j]
  OBVIOUS
<1>3. c.counts = CountsOf(qs) /\ c.ledger = LedgerOf(qs)
  OBVIOUS
<1> HIDE DEF qs
<1>4. \A j \in DOMAIN rows[k] : Kept(rows[k][j])
  BY DEF Books, Book
<1>5. drifts = 0 => \A j \in DOMAIN rows[k] : Audited(rows[k][j])
  BY DEF Books
<1>6. \A j \in DOMAIN qs : Kept(qs[j])
  BY <1>2, <1>4
<1>7. drifts = 0 => \A j \in DOMAIN qs : Audited(qs[j])
  BY <1>2, <1>5
<1>8. Book(c, qs)
  BY <1>3, <1>6 DEF Book
<1> QED BY <1>1, <1>7, <1>8, BookStep

\* The result rows are finitely many.
LEMMA RowsAreFinite ==
    ASSUME Records, NEW k \in Kind
    PROVE  IsFiniteSet(DOMAIN rows[k])
<1> DEFINE n == Profiles[k].maxRuns
<1>1. DOMAIN rows[k] = {} \/ DOMAIN rows[k] = 1..n
  BY DEF Records, Record, Table
<1>2. 1 \in Int /\ n \in Int
  BY MaxRunsType
<1> HIDE DEF n
<1>3. IsFiniteSet(1..n)
  BY <1>2, FS_Interval, Zenon
<1> QED BY <1>1, <1>3, FS_EmptySet

-----------------------------------------------------------------------------
\* What a run is settled with is its usage, and every call is billed or
\* possibly so.
LEMMA SettledIsUsage ==
    ASSUME NEW db, Stored(db)
    PROVE  LET u   == SettledUsage(db)
               now == Usage(db.invocations)
           IN  /\ IsUsage(u)
               /\ u.observed = now.observed /\ u.possibly = now.possibly
               /\ u.tokens = now.tokens /\ u.cost = CostOf(now)
               /\ u.possiblyCost = PossiblyCostOf(now)
               /\ Cardinality(Called(db)) = now.observed + now.possibly
<1> DEFINE I == db.invocations
           B == CallsBilled(I, "BILLED")
           P == CallsBilled(I, "POSSIBLY_BILLED")
           now == Usage(I)
           u == SettledUsage(db)
<1>1. IsFiniteSet(I) /\ \A i \in I : /\ i.tokens \in Nat
                                     /\ i.called => i.billing \in {"BILLED", "POSSIBLY_BILLED"}
  BY DEF Stored, Accounted
<1>2. B \in SUBSET I /\ P \in SUBSET I /\ B \cap P = {} /\ Called(db) = B \cup P
  BY <1>1 DEF CallsBilled, Called
<1>3. /\ IsFiniteSet(B) /\ Cardinality(B) \in Nat
      /\ IsFiniteSet(P) /\ Cardinality(P) \in Nat
  BY <1>1, <1>2, FS_Subset, FS_CardinalityType
<1>4. Tokens(B) \in Nat
  <2> DEFINE g == [i \in I |-> i.tokens]
  <2>1. \A i \in B : g[i] = i.tokens /\ g[i] \in Nat
    BY <1>1, <1>2
  <2> HIDE DEF g, B
  <2>2. {{x} \X (1..x.tokens) : x \in B} = {{x} \X (1..g[x]) : x \in B}
    BY <2>1
  <2>3. IsFiniteSet(B) /\ \A i \in B : g[i] \in Nat
    BY <1>3, <2>1
  <2>4. Cardinality(Units(B, g)) \in Nat
    BY <2>3, TotalIsNumber, Zenon
  <2> QED BY <2>2, <2>4, Zenon DEF Tokens, Total, Units
<1> HIDE DEF B, P
<1>5. Cardinality(Called(db)) = Cardinality(B) + Cardinality(P)
  <2>1. Cardinality(B \cup P) = Cardinality(B) + Cardinality(P) - Cardinality(B \cap P)
    BY <1>3, FS_Union
  <2>2. Cardinality(B \cap P) = 0
    BY <1>2, FS_EmptySet
  <2> QED BY <1>2, <1>3, <2>1, <2>2
<1>6. now = [observed |-> Cardinality(B), possibly |-> Cardinality(P), tokens |-> Tokens(B)]
  BY Zenon DEF Usage, B, P
<1>7. u = [observed |-> now.observed, possibly |-> now.possibly, tokens |-> now.tokens,
           cost |-> CostOf(now), possiblyCost |-> PossiblyCostOf(now)]
  BY Zenon DEF SettledUsage
<1> HIDE DEF now, u
<1>8. /\ now.observed = Cardinality(B) /\ now.possibly = Cardinality(P)
      /\ now.tokens = Tokens(B)
  BY <1>6
<1>9. CostOf(now) \in Nat /\ PossiblyCostOf(now) \in Nat
  BY <1>4, <1>8, ReserveAssumption DEF CostOf, PossiblyCostOf
<1>10. /\ u.observed = now.observed /\ u.possibly = now.possibly
       /\ u.tokens = now.tokens /\ u.cost = CostOf(now)
       /\ u.possiblyCost = PossiblyCostOf(now) /\ DOMAIN u = UsageFields
  BY <1>7 DEF UsageFields
<1>11. IsUsage(u)
  BY <1>3, <1>4, <1>8, <1>9, <1>10 DEF IsUsage, UsageFields
<1> QED BY <1>5, <1>8, <1>10, <1>11 DEF now, u
-----------------------------------------------------------------------------
\* One reservation more or less.
LEMMA Reserving ==
    ASSUME NEW n \in Nat, NEW c \in Nat
    PROVE  (n + 1) * c = n * c + c /\ (n - 1) * c = n * c - c /\ n * c \in Nat
OBVIOUS

\* The fields of the books.
LEMMA CountFields ==
    ASSUME NEW rs
    PROVE  /\ CountsOf(rs).submitted = Cardinality(Begun(rs))
           /\ CountsOf(rs).collected = Cardinality(WithState(rs, "COLLECTED"))
           /\ CountsOf(rs).failed = Cardinality(WithState(rs, "FAILED"))
           /\ CountsOf(rs).skipped = Cardinality(WithState(rs, "SKIPPED"))
           /\ CountsOf(rs).degraded = Cardinality(Impaired(rs))
BY DEF CountsOf

LEMMA LedgerFields ==
    ASSUME NEW rs
    PROVE  /\ LedgerOf(rs).observed = Cardinality(Charges(rs, "observed"))
           /\ LedgerOf(rs).possibly = Cardinality(Charges(rs, "possibly"))
           /\ LedgerOf(rs).tokens = Cardinality(Charges(rs, "tokens"))
           /\ LedgerOf(rs).cost = Cardinality(Charges(rs, "cost"))
           /\ LedgerOf(rs).possiblyCost = Cardinality(Charges(rs, "possiblyCost"))
           /\ LedgerOf(rs).reserved = Cardinality(Reserves(rs, "ACTIVE")) * RunReserve.calls
           /\ LedgerOf(rs).reservedCost = Cardinality(Reserves(rs, "ACTIVE")) * RunReserve.cost
           /\ LedgerOf(rs).possiblyCount = Cardinality(Doubtful(rs))
BY DEF LedgerOf

\* They are numbers.
LEMMA BookNumbers ==
    ASSUME NEW rs, IsFiniteSet(DOMAIN rs), \A j \in DOMAIN rs : IsUsage(rs[j].used)
    PROVE  /\ CountsOf(rs).submitted \in Nat /\ CountsOf(rs).collected \in Nat
           /\ CountsOf(rs).failed \in Nat /\ CountsOf(rs).skipped \in Nat
           /\ CountsOf(rs).degraded \in Nat
           /\ LedgerOf(rs).observed \in Nat /\ LedgerOf(rs).possibly \in Nat
           /\ LedgerOf(rs).tokens \in Nat /\ LedgerOf(rs).cost \in Nat
           /\ LedgerOf(rs).possiblyCost \in Nat /\ LedgerOf(rs).reserved \in Nat
           /\ LedgerOf(rs).reservedCost \in Nat /\ LedgerOf(rs).possiblyCount \in Nat
<1>1. ASSUME NEW S \in SUBSET DOMAIN rs PROVE Cardinality(S) \in Nat /\ IsFiniteSet(S)
  BY FS_Subset, FS_CardinalityType
<1>2. /\ Begun(rs) \in SUBSET DOMAIN rs /\ Impaired(rs) \in SUBSET DOMAIN rs
      /\ Doubtful(rs) \in SUBSET DOMAIN rs
      /\ \A s : WithState(rs, s) \in SUBSET DOMAIN rs /\ Reserves(rs, s) \in SUBSET DOMAIN rs
  BY DEF Begun, Impaired, Doubtful, WithState, Reserves
<1>3. /\ Cardinality(Reserves(rs, "ACTIVE")) * RunReserve.calls \in Nat
      /\ Cardinality(Reserves(rs, "ACTIVE")) * RunReserve.cost \in Nat
  BY <1>1, <1>2, Reserving, ReserveAssumption
<1>4. ASSUME NEW f \in UsageFields PROVE Cardinality(Charges(rs, f)) \in Nat
  <2> DEFINE S == Reserves(rs, "SETTLED")
             g == [j \in DOMAIN rs |-> rs[j].used[f]]
  <2>1. S \in SUBSET DOMAIN rs /\ IsFiniteSet(S)
    BY <1>1, <1>2
  <2>2. \A j \in S : g[j] = rs[j].used[f] /\ g[j] \in Nat
    BY <2>1 DEF IsUsage
  <2> HIDE DEF S, g
  <2>3. {{x} \X (1..g[x]) : x \in S} = {{x} \X (1..rs[x].used[f]) : x \in S}
    BY <2>2
  <2>4. IsFiniteSet(S) /\ \A j \in S : g[j] \in Nat
    BY <2>1, <2>2
  <2>5. Cardinality(Units(S, g)) \in Nat
    BY <2>4, TotalIsNumber, Zenon
  <2> QED BY <2>3, <2>5, Zenon DEF Charges, Units, S
<1> QED BY <1>1, <1>2, <1>3, <1>4, CountFields, LedgerFields DEF UsageFields

\* The books when a unit goes on or fails without a charge: its start or its end
\* is counted, and its reservation added or taken away.
Moved(n, s, f) ==
    [submitted |-> n.submitted + s, collected |-> n.collected, failed |-> n.failed + f,
     skipped |-> n.skipped, degraded |-> n.degraded]

Held(l, h) ==
    [observed |-> l.observed, possibly |-> l.possibly, tokens |-> l.tokens,
     cost |-> l.cost, possiblyCost |-> l.possiblyCost,
     reserved |-> l.reserved + h * RunReserve.calls,
     reservedCost |-> l.reservedCost + h * RunReserve.cost,
     possiblyCount |-> l.possiblyCount]

CountedOn(n, r, q) == Moved(n, Bit(q.run) - Bit(r.run), Bit(q.state = "FAILED"))
HeldOn(l, r, q)    == Held(l, Bit(q.resv = "ACTIVE") - Bit(r.resv = "ACTIVE"))

LEMMA UnsettledRow ==
    ASSUME NEW rs, IsFiniteSet(DOMAIN rs), NEW i \in DOMAIN rs, NEW r,
           rs[i].state \in {"PENDING", "CLAIMED"},
           r.state \in {"CLAIMED", "SUBMITTED", "FAILED"}, ~r.m.degraded,
           rs[i].resv # "SETTLED", r.resv # "SETTLED"
    PROVE  LET qs == [rs EXCEPT ![i] = r]
           IN  /\ CountsOf(qs) =
                    Moved(CountsOf(rs), Bit(r.run) - Bit(rs[i].run), Bit(r.state = "FAILED"))
               /\ LedgerOf(qs) =
                    Held(LedgerOf(rs), Bit(r.resv = "ACTIVE") - Bit(rs[i].resv = "ACTIVE"))
<1> DEFINE qs == [rs EXCEPT ![i] = r]
           n == Cardinality(Reserves(rs, "ACTIVE"))
           s == Bit(r.run) - Bit(rs[i].run)
           f == Bit(r.state = "FAILED")
           h == Bit(r.resv = "ACTIVE") - Bit(rs[i].resv = "ACTIVE")
<1>1. DOMAIN qs = DOMAIN rs /\ qs[i] = r /\ \A j \in DOMAIN rs \ {i} : qs[j] = rs[j]
  OBVIOUS
<1>2. /\ Recounted(Begun(rs), Begun(qs), i)
      /\ Recounted(Impaired(rs), Impaired(qs), i)
      /\ Recounted(Doubtful(rs), Doubtful(qs), i)
      /\ \A x : /\ Recounted(WithState(rs, x), WithState(qs, x), i)
                /\ Recounted(Reserves(rs, x), Reserves(qs, x), i)
  BY RowChange
<1> HIDE DEF qs
<1>3. Cardinality(Begun(qs)) = Cardinality(Begun(rs)) + s
  <2>1. (i \in Begun(qs) <=> r.run) /\ (i \in Begun(rs) <=> rs[i].run)
    BY <1>1 DEF Begun
  <2> QED BY <1>2, <2>1 DEF Recounted, Bit
<1>4. /\ Cardinality(Impaired(qs)) = Cardinality(Impaired(rs))
      /\ Cardinality(Doubtful(qs)) = Cardinality(Doubtful(rs))
  <2>1. i \notin Impaired(qs) /\ i \notin Impaired(rs) /\ i \notin Doubtful(qs) /\ i \notin Doubtful(rs)
    BY <1>1 DEF Impaired, TerminalResult, Doubtful, InDoubt
  <2> QED BY <1>2, <2>1 DEF Recounted, Bit
<1>5. ASSUME NEW x \in {"COLLECTED", "SKIPPED"}
      PROVE  Cardinality(WithState(qs, x)) = Cardinality(WithState(rs, x))
  <2>1. i \notin WithState(qs, x) /\ i \notin WithState(rs, x)
    BY <1>1 DEF WithState
  <2> QED BY <1>2, <2>1 DEF Recounted, Bit
<1>6. Cardinality(WithState(qs, "FAILED")) = Cardinality(WithState(rs, "FAILED")) + f
  <2>1. (i \in WithState(qs, "FAILED") <=> r.state = "FAILED") /\ i \notin WithState(rs, "FAILED")
    BY <1>1 DEF WithState
  <2> QED BY <1>2, <2>1 DEF Recounted, Bit
<1>7. n \in Nat /\ Cardinality(Reserves(qs, "ACTIVE")) = n + h
  <2>1. /\ i \in Reserves(qs, "ACTIVE") <=> r.resv = "ACTIVE"
        /\ i \in Reserves(rs, "ACTIVE") <=> rs[i].resv = "ACTIVE"
    BY <1>1 DEF Reserves
  <2> QED BY <1>2, <2>1 DEF Recounted, Bit
<1>8. \A g : Charges(qs, g) = Charges(rs, g)
  BY <1>1, ChargesStay
<1>9. h \in {-1, 0, 1}
  BY DEF Bit
<1> HIDE DEF n, s, f, h
<1>10. /\ (n + h) * RunReserve.calls = n * RunReserve.calls + h * RunReserve.calls
       /\ (n + h) * RunReserve.cost = n * RunReserve.cost + h * RunReserve.cost
  <2>1. CASE h = 0
    BY <1>7, <2>1, Reserving, ReserveAssumption
  <2>2. CASE h = 1
    BY <1>7, <2>2, Reserving, ReserveAssumption
  <2>3. CASE h = -1
    BY <1>7, <2>3, Reserving, ReserveAssumption
  <2> QED BY <1>9, <2>1, <2>2, <2>3
<1>11. CountsOf(qs) = Moved(CountsOf(rs), s, f)
  BY <1>3, <1>4, <1>5, <1>6, CountFields, Zenon DEF CountsOf, Moved
<1>12. LedgerOf(qs) = Held(LedgerOf(rs), h)
  BY <1>4, <1>7, <1>8, <1>10, LedgerFields, Zenon DEF LedgerOf, Held, n
<1> QED BY <1>11, <1>12, Zenon DEF qs, s, f, h

\* The books when a unit is settled: its end is counted, and its usage charged
\* in place of the reservation that it may have held.
CountedWith(n, r) ==
    [submitted |-> n.submitted, collected |-> n.collected + Bit(r.state = "COLLECTED"),
     failed |-> n.failed + Bit(r.state = "FAILED"),
     skipped |-> n.skipped, degraded |-> n.degraded + Bit(r.m.degraded)]

ChargedWith(l, u, held) ==
    [observed |-> l.observed + u.observed, possibly |-> l.possibly + u.possibly,
     tokens |-> l.tokens + u.tokens, cost |-> l.cost + u.cost,
     possiblyCost |-> l.possiblyCost + u.possiblyCost,
     reserved |-> l.reserved - held * RunReserve.calls,
     reservedCost |-> l.reservedCost - held * RunReserve.cost,
     possiblyCount |-> l.possiblyCount + Bit(u.possibly > 0 \/ u.possiblyCost > 0)]

LEMMA SettledRow ==
    ASSUME NEW rs, IsFiniteSet(DOMAIN rs), NEW i \in DOMAIN rs, NEW r,
           \A j \in DOMAIN rs : IsUsage(rs[j].used), IsUsage(r.used),
           rs[i].state \in {"CLAIMED", "SUBMITTED"}, r.state \in TerminalResult,
           r.run = rs[i].run, rs[i].resv # "SETTLED", r.resv = "SETTLED"
    PROVE  LET qs == [rs EXCEPT ![i] = r]
           IN  /\ CountsOf(qs) = CountedWith(CountsOf(rs), r)
               /\ LedgerOf(qs) = ChargedWith(LedgerOf(rs), r.used, Bit(rs[i].resv = "ACTIVE"))
<1> DEFINE qs == [rs EXCEPT ![i] = r]
           n == Cardinality(Reserves(rs, "ACTIVE"))
           u == r.used
           held == Bit(rs[i].resv = "ACTIVE")
<1>1. DOMAIN qs = DOMAIN rs /\ qs[i] = r /\ \A j \in DOMAIN rs \ {i} : qs[j] = rs[j]
  OBVIOUS
<1>2. /\ Recounted(Begun(rs), Begun(qs), i)
      /\ Recounted(Impaired(rs), Impaired(qs), i)
      /\ Recounted(Doubtful(rs), Doubtful(qs), i)
      /\ \A s : /\ Recounted(WithState(rs, s), WithState(qs, s), i)
                /\ Recounted(Reserves(rs, s), Reserves(qs, s), i)
  BY RowChange
<1>3. ASSUME NEW f \in UsageFields
      PROVE  Cardinality(Charges(qs, f)) = Cardinality(Charges(rs, f)) + u[f]
  <2>1. (\A j \in DOMAIN rs : rs[j].used[f] \in Nat) /\ r.used[f] \in Nat
    BY DEF IsUsage
  <2> QED BY <2>1, ChargeChange
<1> HIDE DEF qs
<1>4. Cardinality(Begun(qs)) = Cardinality(Begun(rs))
  <2>1. i \in Begun(qs) <=> i \in Begun(rs)
    BY <1>1 DEF Begun
  <2> QED BY <1>2, <2>1 DEF Recounted, Bit
<1>5. /\ Cardinality(Impaired(qs)) = Cardinality(Impaired(rs)) + Bit(r.m.degraded)
      /\ Cardinality(Doubtful(qs)) =
            Cardinality(Doubtful(rs)) + Bit(u.possibly > 0 \/ u.possiblyCost > 0)
  <2>1. /\ i \in Impaired(qs) <=> r.m.degraded
        /\ i \notin Impaired(rs) /\ i \notin Doubtful(rs)
        /\ i \in Doubtful(qs) <=> (u.possibly > 0 \/ u.possiblyCost > 0)
    BY <1>1 DEF Impaired, TerminalResult, Doubtful, InDoubt
  <2> HIDE DEF u
  <2> QED BY <1>2, <2>1 DEF Recounted, Bit
<1>6. /\ Cardinality(WithState(qs, "SKIPPED")) = Cardinality(WithState(rs, "SKIPPED"))
      /\ \A s \in {"COLLECTED", "FAILED"} :
            Cardinality(WithState(qs, s)) = Cardinality(WithState(rs, s)) + Bit(r.state = s)
  <2>1. /\ i \notin WithState(qs, "SKIPPED") /\ i \notin WithState(rs, "SKIPPED")
        /\ \A s \in {"COLLECTED", "FAILED"} :
                (i \in WithState(qs, s) <=> r.state = s) /\ i \notin WithState(rs, s)
    BY <1>1 DEF WithState, TerminalResult
  <2> QED BY <1>2, <2>1 DEF Recounted, Bit
<1>7. n \in Nat /\ Cardinality(Reserves(qs, "ACTIVE")) = n - held
  <2>1. i \notin Reserves(qs, "ACTIVE") /\ (i \in Reserves(rs, "ACTIVE") <=> rs[i].resv = "ACTIVE")
    BY <1>1 DEF Reserves
  <2> QED BY <1>2, <2>1 DEF Recounted, Bit
<1>8. held = 0 \/ held = 1
  BY DEF Bit
<1> HIDE DEF n, held, u
<1>9. /\ (n - held) * RunReserve.calls = n * RunReserve.calls - held * RunReserve.calls
      /\ (n - held) * RunReserve.cost = n * RunReserve.cost - held * RunReserve.cost
  <2>1. CASE held = 0
    BY <1>7, <2>1, Reserving, ReserveAssumption
  <2>2. CASE held = 1
    BY <1>7, <2>2, Reserving, ReserveAssumption
  <2> QED BY <1>8, <2>1, <2>2
<1>10. CountsOf(qs) = CountedWith(CountsOf(rs), r)
  <2>1. /\ Cardinality(WithState(qs, "COLLECTED"))
            = Cardinality(WithState(rs, "COLLECTED")) + Bit(r.state = "COLLECTED")
        /\ Cardinality(WithState(qs, "FAILED"))
            = Cardinality(WithState(rs, "FAILED")) + Bit(r.state = "FAILED")
    BY <1>6
  <2> QED BY <1>4, <1>5, <1>6, <2>1, CountFields, Zenon DEF CountsOf, CountedWith
<1>11. LedgerOf(qs) = ChargedWith(LedgerOf(rs), u, held)
  <2> DEFINE b == Bit(u.possibly > 0 \/ u.possiblyCost > 0)
  <2>1. /\ Cardinality(Reserves(qs, "ACTIVE")) * RunReserve.calls
            = Cardinality(Reserves(rs, "ACTIVE")) * RunReserve.calls - held * RunReserve.calls
        /\ Cardinality(Reserves(qs, "ACTIVE")) * RunReserve.cost
            = Cardinality(Reserves(rs, "ACTIVE")) * RunReserve.cost - held * RunReserve.cost
    BY <1>7, <1>9 DEF n
  <2>2. /\ Cardinality(Charges(qs, "observed")) = Cardinality(Charges(rs, "observed")) + u.observed
        /\ Cardinality(Charges(qs, "possibly")) = Cardinality(Charges(rs, "possibly")) + u.possibly
        /\ Cardinality(Charges(qs, "tokens")) = Cardinality(Charges(rs, "tokens")) + u.tokens
        /\ Cardinality(Charges(qs, "cost")) = Cardinality(Charges(rs, "cost")) + u.cost
        /\ Cardinality(Charges(qs, "possiblyCost"))
            = Cardinality(Charges(rs, "possiblyCost")) + u.possiblyCost
    BY <1>3 DEF UsageFields
  <2>3. Cardinality(Doubtful(qs)) = Cardinality(Doubtful(rs)) + b
    BY <1>5
  <2> HIDE DEF b
  <2> QED BY <2>1, <2>2, <2>3, LedgerFields, Zenon DEF LedgerOf, ChargedWith, b
<1> QED BY <1>10, <1>11, Zenon DEF qs, u, held
-----------------------------------------------------------------------------
\* The fields that the books have.
LEMMA BookFields ==
    ASSUME NEW c, NEW rs, Book(c, rs)
    PROVE  /\ DOMAIN c.counts = {"submitted", "collected", "failed", "skipped", "degraded"}
           /\ DOMAIN c.ledger = {"observed", "possibly", "tokens", "cost", "possiblyCost",
                                 "reserved", "reservedCost", "possiblyCount"}
BY DEF Book, CountsOf, LedgerOf

\* The books of a campaign before a step on one of its rows.
LEMMA BooksBefore ==
    ASSUME Records, Books, NEW k \in Kind
    PROVE  /\ DOMAIN camp[k] = CampFields /\ Book(camp[k], rows[k])
           /\ camp[k].counts = CountsOf(rows[k]) /\ camp[k].ledger = LedgerOf(rows[k])
           /\ \A i \in DOMAIN rows[k] : DOMAIN rows[k][i] = RowFields /\ Kept(rows[k][i])
BY DEF Records, Record, Lifecycle, Table, RowFits, Books, Book

\* What these steps write into the campaign row.
LEMMA Writes ==
    ASSUME Records, Books, NEW k \in Kind
    PROVE  LET n == camp[k].counts
               l == camp[k].ledger
           IN  /\ n = Moved(n, 0, 0) /\ l = Held(l, 0)
               /\ [n EXCEPT !.submitted = @ + 1] = Moved(n, 1, 0)
               /\ [n EXCEPT !.failed = @ + 1] = Moved(n, 0, 1)
               /\ [l EXCEPT !.reserved = @ + RunReserve.calls,
                            !.reservedCost = @ + RunReserve.cost] = Held(l, 1)
               /\ [l EXCEPT !.reserved = @ - RunReserve.calls,
                            !.reservedCost = @ - RunReserve.cost] = Held(l, -1)
<1> DEFINE n == camp[k].counts
           l == camp[k].ledger
           rs == rows[k]
<1>1. n = CountsOf(rs) /\ l = LedgerOf(rs)
  BY BooksBefore
<1>2. IsFiniteSet(DOMAIN rs) /\ \A j \in DOMAIN rs : IsUsage(rs[j].used)
  BY RowsAreFinite, BooksBefore DEF Kept
<1> HIDE DEF rs
<1>3. n.submitted \in Nat /\ n.failed \in Nat /\ l.reserved \in Nat /\ l.reservedCost \in Nat
  BY <1>1, <1>2, BookNumbers
<1>4. /\ n = [submitted |-> n.submitted, collected |-> n.collected, failed |-> n.failed,
              skipped |-> n.skipped, degraded |-> n.degraded]
      /\ l = [observed |-> l.observed, possibly |-> l.possibly, tokens |-> l.tokens,
              cost |-> l.cost, possiblyCost |-> l.possiblyCost, reserved |-> l.reserved,
              reservedCost |-> l.reservedCost, possiblyCount |-> l.possiblyCount]
  BY <1>1 DEF CountsOf, LedgerOf
<1> HIDE DEF n, l
<1>5. /\ n = Moved(n, 0, 0) /\ [n EXCEPT !.submitted = @ + 1] = Moved(n, 1, 0)
      /\ [n EXCEPT !.failed = @ + 1] = Moved(n, 0, 1)
  BY <1>3, <1>4 DEF Moved
<1>6. l = Held(l, 0)
  BY <1>3, <1>4, ReserveAssumption DEF Held
<1> DEFINE a == RunReserve.calls
           b == RunReserve.cost
<1>7. a \in Nat /\ b \in Nat
  BY ReserveAssumption
<1>8. /\ l.reserved + 1 * a = l.reserved + a /\ l.reservedCost + 1 * b = l.reservedCost + b
      /\ l.reserved + (-1) * a = l.reserved - a /\ l.reservedCost + (-1) * b = l.reservedCost - b
  BY <1>3, <1>7
<1>9. ASSUME NEW h, NEW x, NEW y, l.reserved + h * a = x, l.reservedCost + h * b = y
      PROVE  [l EXCEPT !.reserved = x, !.reservedCost = y] = Held(l, h)
  <2> HIDE DEF a, b
  <2>1. Held(l, h) =
            [observed |-> l.observed, possibly |-> l.possibly, tokens |-> l.tokens,
             cost |-> l.cost, possiblyCost |-> l.possiblyCost, reserved |-> x,
             reservedCost |-> y, possiblyCount |-> l.possiblyCount]
    BY <1>9, Zenon DEF Held, a, b
  <2> DEFINE v == [l EXCEPT !.reserved = x]
             w == [v EXCEPT !.reservedCost = y]
  <2>2. v = [observed |-> l.observed, possibly |-> l.possibly, tokens |-> l.tokens,
             cost |-> l.cost, possiblyCost |-> l.possiblyCost, reserved |-> x,
             reservedCost |-> l.reservedCost, possiblyCount |-> l.possiblyCount]
    BY <1>4
  <2> HIDE DEF v
  <2>3. w = [observed |-> l.observed, possibly |-> l.possibly, tokens |-> l.tokens,
             cost |-> l.cost, possiblyCost |-> l.possiblyCost, reserved |-> x,
             reservedCost |-> y, possiblyCount |-> l.possiblyCount]
    BY <2>2
  <2> QED BY <2>1, <2>3 DEF v
<1>10. /\ [l EXCEPT !.reserved = @ + a, !.reservedCost = @ + b] = Held(l, 1)
       /\ [l EXCEPT !.reserved = @ - a, !.reservedCost = @ - b] = Held(l, -1)
  <2>1. /\ [l EXCEPT !.reserved = l.reserved + a, !.reservedCost = l.reservedCost + b] = Held(l, 1)
        /\ [l EXCEPT !.reserved = l.reserved - a, !.reservedCost = l.reservedCost - b] = Held(l, -1)
    BY <1>8, <1>9
  <2>2. DOMAIN l = {"observed", "possibly", "tokens", "cost", "possiblyCost", "reserved",
                    "reservedCost", "possiblyCount"}
    BY <1>4
  <2> HIDE DEF a, b
  <2> QED BY <2>1, <2>2
<1> QED BY <1>5, <1>6, <1>10 DEF n, l, a, b

\* A unit goes on or fails without a charge.
Unsettled(r, q) ==
    /\ r.state \in {"PENDING", "CLAIMED"} /\ q.state \in {"CLAIMED", "SUBMITTED", "FAILED"}
    /\ r.resv # "SETTLED" /\ q.resv # "SETTLED" /\ q.m = r.m /\ Kept(q)

LEMMA UnsettledBooks ==
    ASSUME Records, Books, NEW k \in Kind, NEW i \in DOMAIN rows[k], NEW q,
           Unsettled(rows[k][i], q),
           camp'[k].counts = CountedOn(camp[k].counts, rows[k][i], q),
           camp'[k].ledger = HeldOn(camp[k].ledger, rows[k][i], q),
           \A j \in Kind \ {k} : camp'[j] = camp[j],
           rows' = [rows EXCEPT ![k][i] = q], drifts' = drifts
    PROVE  Books'
<1> DEFINE rs == rows[k]
           d == camp'[k]
           s == Bit(q.run) - Bit(rs[i].run)
           f == Bit(q.state = "FAILED")
           h == Bit(q.resv = "ACTIVE") - Bit(rs[i].resv = "ACTIVE")
<1>1. /\ IsFiniteSet(DOMAIN rs) /\ i \in DOMAIN rs
      /\ camp[k].counts = CountsOf(rs) /\ camp[k].ledger = LedgerOf(rs)
  BY RowsAreFinite, BooksBefore
<1>2. ~q.m.degraded
  BY DEF Records, Record, Table, RowFits, NoMeasurement, Unsettled
<1>3. Audited(q)
  BY DEF Audited, Unsettled
<1>0. d.counts = Moved(camp[k].counts, s, f) /\ d.ledger = Held(camp[k].ledger, h)
  BY Zenon DEF CountedOn, HeldOn
<1> HIDE DEF rs, d, s, f, h
<1> DEFINE qs == [rs EXCEPT ![i] = q]
<1>4. CountsOf(qs) = Moved(CountsOf(rs), s, f) /\ LedgerOf(qs) = Held(LedgerOf(rs), h)
  <2>1. rs[i].state \in {"PENDING", "CLAIMED"} /\ rs[i].resv # "SETTLED"
    BY DEF rs, Unsettled
  <2>2. /\ s = Bit(q.run) - Bit(rs[i].run)
        /\ h = Bit(q.resv = "ACTIVE") - Bit(rs[i].resv = "ACTIVE")
    BY DEF s, h
  <2>3. /\ CountsOf(qs) =
            Moved(CountsOf(rs), Bit(q.run) - Bit(rs[i].run), Bit(q.state = "FAILED"))
        /\ LedgerOf(qs) =
            Held(LedgerOf(rs), Bit(q.resv = "ACTIVE") - Bit(rs[i].resv = "ACTIVE"))
    BY <1>1, <1>2, <2>1, UnsettledRow DEF Unsettled
  <2> QED BY <2>2, <2>3, Zenon DEF f
<1>5. d.counts = CountsOf(qs) /\ d.ledger = LedgerOf(qs)
  BY <1>0, <1>1, <1>4
<1>6. Kept(q)
  BY DEF Unsettled
<1> QED BY <1>3, <1>5, <1>6, BookedRow DEF rs, d

\* A unit is claimed.
LEMMA ClaimBooks ==
    ASSUME Records, Books, NEW k \in Kind, Claim(k)
    PROVE  Books'
<1> DEFINE i == Min(InState(k, "PENDING"))
           r == rows[k][i]
           q == [r EXCEPT !.state = "CLAIMED"]
<1>1. i \in DOMAIN rows[k] /\ r.state = "PENDING"
  BY NextIsPending DEF Claim
<1>2. camp' = camp /\ rows' = [rows EXCEPT ![k][i] = q] /\ drifts' = drifts
  BY DEF Claim, SetRow
<1>3. DOMAIN r = RowFields /\ Kept(r)
  BY <1>1, BooksBefore
<1>4. /\ q.state = "CLAIMED" /\ q.run = r.run /\ q.resv = r.resv /\ q.used = r.used
      /\ q.calls = r.calls /\ q.m = r.m
  BY <1>3 DEF RowFields
<1> HIDE DEF q
<1>5. Kept(q) /\ r.resv = "NONE"
  BY <1>1, <1>3, <1>4 DEF Kept
<1>6. /\ 0 = Bit(q.run) - Bit(r.run) /\ 0 = Bit(q.state = "FAILED")
      /\ 0 = Bit(q.resv = "ACTIVE") - Bit(r.resv = "ACTIVE")
  BY <1>4 DEF Bit
<1>7. camp[k].counts = Moved(camp[k].counts, 0, 0) /\ camp[k].ledger = Held(camp[k].ledger, 0)
  BY Writes
<1>8. camp'[k] = camp[k] /\ \A j \in Kind \ {k} : camp'[j] = camp[j]
  BY <1>2
<1> HIDE DEF i
<1>9. Unsettled(r, q)
  BY <1>1, <1>4, <1>5 DEF Unsettled
<1>10. /\ camp'[k].counts = CountedOn(camp[k].counts, r, q)
       /\ camp'[k].ledger = HeldOn(camp[k].ledger, r, q)
  BY <1>6, <1>7, <1>8, Zenon DEF CountedOn, HeldOn
<1> QED BY <1>1, <1>2, <1>8, <1>9, <1>10, UnsettledBooks

\* A claimed unit before its step.
LEMMA ClaimedRow ==
    ASSUME Records, Books, NEW k \in Kind, NEW i \in Claimed(k)
    PROVE  LET r == rows[k][i]
           IN  /\ i \in DOMAIN rows[k] /\ r.state = "CLAIMED" /\ DOMAIN r = RowFields
               /\ ~r.run /\ r.resv \in {"NONE", "ACTIVE"} /\ r.calls = 0
               /\ IsUsage(r.used) /\ ~r.m.degraded
<1>1. i \in DOMAIN rows[k] /\ rows[k][i].state = "CLAIMED"
  BY DEF Claimed, InState
<1>2. DOMAIN rows[k][i] = RowFields /\ Kept(rows[k][i])
  BY <1>1, BooksBefore
<1>3. ~rows[k][i].m.degraded
  BY <1>1 DEF Records, Record, Table, RowFits, NoMeasurement
<1> QED BY <1>1, <1>2, <1>3 DEF Kept

\* A failed row keeps what it had.
LEMMA FailedFields ==
    ASSUME NEW r, DOMAIN r = RowFields, NEW resv, NEW used, NEW class, NEW signal
    PROVE  LET q == FailedRow(r, resv, used, class, signal)
           IN  /\ q.state = "FAILED" /\ q.resv = resv /\ q.used = used /\ q.run = r.run
               /\ q.calls = r.calls /\ q.m = r.m
BY DEF FailedRow, RowFields

\* Its budget is reserved or denied, it is submitted, or it fails without a charge.
LEMMA ReserveBooks ==
    ASSUME Records, Books, NEW k \in Kind,
           \/ Reserve(k) \/ ReserveDenied(k) \/ Submit(k) \/ AdmissionRefused(k)
           \/ SubmissionRejected(k)
    PROVE  Books'
<1> DEFINE c == camp[k]
           n == c.counts
           l == c.ledger
<1>1. DOMAIN c = CampFields
  BY BooksBefore
<1>2. /\ n = Moved(n, 0, 0) /\ l = Held(l, 0)
      /\ [n EXCEPT !.submitted = @ + 1] = Moved(n, 1, 0)
      /\ [n EXCEPT !.failed = @ + 1] = Moved(n, 0, 1)
      /\ [l EXCEPT !.reserved = @ + RunReserve.calls,
                   !.reservedCost = @ + RunReserve.cost] = Held(l, 1)
      /\ [l EXCEPT !.reserved = @ - RunReserve.calls,
                   !.reservedCost = @ - RunReserve.cost] = Held(l, -1)
  BY Writes
<1>3. ASSUME NEW d, camp' = [camp EXCEPT ![k] = d]
      PROVE  camp'[k] = d /\ \A j \in Kind \ {k} : camp'[j] = camp[j]
  BY <1>3 DEF Records
<1>4. \A a, b : /\ [c EXCEPT !.counts = a].counts = a /\ [c EXCEPT !.counts = a].ledger = l
                /\ [c EXCEPT !.ledger = b].counts = n /\ [c EXCEPT !.ledger = b].ledger = b
                /\ [c EXCEPT !.counts = a, !.ledger = b].counts = a
                /\ [c EXCEPT !.counts = a, !.ledger = b].ledger = b
                /\ [c EXCEPT !.status = a, !.intent = b].counts = n
                /\ [c EXCEPT !.status = a, !.intent = b].ledger = l
  BY <1>1 DEF CampFields
<1>5. CASE Reserve(k)
  <2> DEFINE m == [l EXCEPT !.reserved = @ + RunReserve.calls,
                            !.reservedCost = @ + RunReserve.cost]
             d == [c EXCEPT !.ledger = m]
  <2>1. PICK i \in Claimed(k) :
          /\ Asks(k, i) /\ SetRow(k, i, [rows[k][i] EXCEPT !.resv = "ACTIVE"])
          /\ SetCampaign(k, d) /\ drifts' = drifts
    BY <1>5 DEF Reserve
  <2> DEFINE r == rows[k][i]
             q == [r EXCEPT !.resv = "ACTIVE"]
  <2>2. /\ i \in DOMAIN rows[k] /\ r.state = "CLAIMED" /\ DOMAIN r = RowFields /\ ~r.run
        /\ r.resv = "NONE" /\ r.calls = 0 /\ IsUsage(r.used)
    BY <2>1, ClaimedRow DEF Asks
  <2>3. camp' = [camp EXCEPT ![k] = d] /\ rows' = [rows EXCEPT ![k][i] = q] /\ drifts' = drifts
    BY <2>1 DEF SetCampaign, SetRow
  <2>4. /\ q.state = "CLAIMED" /\ q.run = r.run /\ q.resv = "ACTIVE" /\ q.used = r.used
        /\ q.calls = 0 /\ q.m = r.m
    BY <2>2 DEF RowFields
  <2> HIDE DEF m
  <2>5. d.counts = Moved(n, 0, 0) /\ d.ledger = Held(l, 1)
    BY <1>2, <1>4 DEF m
  <2> HIDE DEF q, d
  <2>6. /\ Kept(q) /\ 0 = Bit(q.run) - Bit(r.run) /\ 0 = Bit(q.state = "FAILED")
        /\ 1 = Bit(q.resv = "ACTIVE") - Bit(r.resv = "ACTIVE")
    BY <2>2, <2>4 DEF Bit, Kept
  <2>7. camp'[k] = d /\ \A j \in Kind \ {k} : camp'[j] = camp[j]
    BY <1>3, <2>3
  <2>8. Unsettled(r, q)
    BY <2>2, <2>4, <2>6 DEF Unsettled
  <2>9. camp'[k].counts = CountedOn(n, r, q) /\ camp'[k].ledger = HeldOn(l, r, q)
    BY <2>5, <2>6, <2>7, Zenon DEF CountedOn, HeldOn
  <2> QED BY <2>2, <2>3, <2>7, <2>8, <2>9, UnsettledBooks
<1>6. CASE ReserveDenied(k)
  <2> DEFINE x == IF OverCalls(k) THEN "CALL_CEILING" ELSE "BUDGET"
             d == [c EXCEPT !.status = "STOPPING", !.intent = x]
  <2>1. PICK i \in Claimed(k) :
          /\ SetRow(k, i, [rows[k][i] EXCEPT !.over = TRUE])
          /\ SetCampaign(k, d) /\ drifts' = drifts
    BY <1>6 DEF ReserveDenied
  <2> DEFINE r == rows[k][i]
             q == [r EXCEPT !.over = TRUE]
  <2>2. /\ i \in DOMAIN rows[k] /\ r.state = "CLAIMED" /\ DOMAIN r = RowFields /\ ~r.run
        /\ r.resv \in {"NONE", "ACTIVE"} /\ r.calls = 0 /\ IsUsage(r.used)
    BY ClaimedRow
  <2>3. camp' = [camp EXCEPT ![k] = d] /\ rows' = [rows EXCEPT ![k][i] = q] /\ drifts' = drifts
    BY <2>1 DEF SetCampaign, SetRow
  <2>4. /\ q.state = "CLAIMED" /\ q.run = r.run /\ q.resv = r.resv /\ q.used = r.used
        /\ q.calls = 0 /\ q.m = r.m
    BY <2>2 DEF RowFields
  <2> HIDE DEF x
  <2>5. d.counts = Moved(n, 0, 0) /\ d.ledger = Held(l, 0)
    BY <1>2, <1>4
  <2> HIDE DEF q, d
  <2>6. /\ Kept(q) /\ 0 = Bit(q.run) - Bit(r.run) /\ 0 = Bit(q.state = "FAILED")
        /\ 0 = Bit(q.resv = "ACTIVE") - Bit(r.resv = "ACTIVE")
    BY <2>2, <2>4 DEF Bit, Kept
  <2>7. camp'[k] = d /\ \A j \in Kind \ {k} : camp'[j] = camp[j]
    BY <1>3, <2>3
  <2>8. Unsettled(r, q)
    BY <2>2, <2>4, <2>6 DEF Unsettled
  <2>9. camp'[k].counts = CountedOn(n, r, q) /\ camp'[k].ledger = HeldOn(l, r, q)
    BY <2>5, <2>6, <2>7, Zenon DEF CountedOn, HeldOn
  <2> QED BY <2>2, <2>3, <2>7, <2>8, <2>9, UnsettledBooks
<1>7. CASE Submit(k)
  <2> DEFINE m == [n EXCEPT !.submitted = @ + 1]
             d == [c EXCEPT !.counts = m]
  <2>1. PICK i \in Claimed(k) :
          /\ rows[k][i].resv = "ACTIVE"
          /\ SetRow(k, i, [rows[k][i] EXCEPT !.state = "SUBMITTED", !.run = TRUE])
          /\ SetCampaign(k, d) /\ drifts' = drifts
    BY <1>7 DEF Submit
  <2> DEFINE r == rows[k][i]
             q == [r EXCEPT !.state = "SUBMITTED", !.run = TRUE]
  <2>2. /\ i \in DOMAIN rows[k] /\ r.state = "CLAIMED" /\ DOMAIN r = RowFields /\ ~r.run
        /\ r.resv = "ACTIVE" /\ r.calls = 0 /\ IsUsage(r.used)
    BY <2>1, ClaimedRow
  <2>3. camp' = [camp EXCEPT ![k] = d] /\ rows' = [rows EXCEPT ![k][i] = q] /\ drifts' = drifts
    BY <2>1 DEF SetCampaign, SetRow
  <2>4. /\ q.state = "SUBMITTED" /\ q.run = TRUE /\ q.resv = r.resv /\ q.used = r.used
        /\ q.calls = 0 /\ q.m = r.m
    BY <2>2 DEF RowFields
  <2> HIDE DEF m
  <2>5. d.counts = Moved(n, 1, 0) /\ d.ledger = Held(l, 0)
    BY <1>2, <1>4 DEF m
  <2> HIDE DEF q, d
  <2>6. /\ Kept(q) /\ 1 = Bit(q.run) - Bit(r.run) /\ 0 = Bit(q.state = "FAILED")
        /\ 0 = Bit(q.resv = "ACTIVE") - Bit(r.resv = "ACTIVE")
    BY <2>2, <2>4 DEF Bit, Kept
  <2>7. camp'[k] = d /\ \A j \in Kind \ {k} : camp'[j] = camp[j]
    BY <1>3, <2>3
  <2>8. Unsettled(r, q)
    BY <2>2, <2>4, <2>6 DEF Unsettled
  <2>9. camp'[k].counts = CountedOn(n, r, q) /\ camp'[k].ledger = HeldOn(l, r, q)
    BY <2>5, <2>6, <2>7, Zenon DEF CountedOn, HeldOn
  <2> QED BY <2>2, <2>3, <2>7, <2>8, <2>9, UnsettledBooks
<1>8. IsUsage(NoUsage)
  BY DEF NoUsage, IsUsage, UsageFields
<1>9. CASE AdmissionRefused(k)
  <2> DEFINE m == [n EXCEPT !.failed = @ + 1]
             d == [c EXCEPT !.counts = m]
  <2>1. PICK i \in Claimed(k) :
          /\ rows[k][i].resv = "NONE"
          /\ SetRow(k, i, FailedRow(rows[k][i], "NONE", NoUsage,
                            "PERMANENT_CONFIGURATION", "budget_admission_denied"))
          /\ SetCampaign(k, d) /\ drifts' = drifts
    BY <1>9 DEF AdmissionRefused
  <2> DEFINE r == rows[k][i]
             q == FailedRow(r, "NONE", NoUsage, "PERMANENT_CONFIGURATION",
                            "budget_admission_denied")
  <2>2. /\ i \in DOMAIN rows[k] /\ r.state = "CLAIMED" /\ DOMAIN r = RowFields /\ ~r.run
        /\ r.resv = "NONE" /\ r.calls = 0
    BY <2>1, ClaimedRow
  <2>3. camp' = [camp EXCEPT ![k] = d] /\ rows' = [rows EXCEPT ![k][i] = q] /\ drifts' = drifts
    BY <2>1 DEF SetCampaign, SetRow
  <2>4. /\ q.state = "FAILED" /\ q.run = r.run /\ q.resv = "NONE" /\ q.used = NoUsage
        /\ q.calls = 0 /\ q.m = r.m
    BY <2>2, FailedFields
  <2> HIDE DEF m
  <2>5. d.counts = Moved(n, 0, 1) /\ d.ledger = Held(l, 0)
    BY <1>2, <1>4 DEF m
  <2> HIDE DEF q, d
  <2>6. /\ Kept(q) /\ 0 = Bit(q.run) - Bit(r.run) /\ 1 = Bit(q.state = "FAILED")
        /\ 0 = Bit(q.resv = "ACTIVE") - Bit(r.resv = "ACTIVE")
    BY <1>8, <2>2, <2>4 DEF Bit, Kept
  <2>7. camp'[k] = d /\ \A j \in Kind \ {k} : camp'[j] = camp[j]
    BY <1>3, <2>3
  <2>8. Unsettled(r, q)
    BY <2>2, <2>4, <2>6 DEF Unsettled
  <2>9. camp'[k].counts = CountedOn(n, r, q) /\ camp'[k].ledger = HeldOn(l, r, q)
    BY <2>5, <2>6, <2>7, Zenon DEF CountedOn, HeldOn
  <2> QED BY <2>2, <2>3, <2>7, <2>8, <2>9, UnsettledBooks
<1>10. CASE SubmissionRejected(k)
  <2> DEFINE m == [n EXCEPT !.failed = @ + 1]
             p == [l EXCEPT !.reserved = @ - RunReserve.calls,
                            !.reservedCost = @ - RunReserve.cost]
             d == [c EXCEPT !.counts = m, !.ledger = p]
  <2>1. PICK i \in Claimed(k) :
          /\ rows[k][i].resv = "ACTIVE"
          /\ SetRow(k, i, FailedRow(rows[k][i], "RELEASED", NoUsage,
                            "PERMANENT_CONFIGURATION", "request_rejected"))
          /\ SetCampaign(k, d) /\ drifts' = drifts
    BY <1>10 DEF SubmissionRejected
  <2> DEFINE r == rows[k][i]
             q == FailedRow(r, "RELEASED", NoUsage, "PERMANENT_CONFIGURATION",
                            "request_rejected")
  <2>2. /\ i \in DOMAIN rows[k] /\ r.state = "CLAIMED" /\ DOMAIN r = RowFields /\ ~r.run
        /\ r.resv = "ACTIVE" /\ r.calls = 0
    BY <2>1, ClaimedRow
  <2>3. camp' = [camp EXCEPT ![k] = d] /\ rows' = [rows EXCEPT ![k][i] = q] /\ drifts' = drifts
    BY <2>1 DEF SetCampaign, SetRow
  <2>4. /\ q.state = "FAILED" /\ q.run = r.run /\ q.resv = "RELEASED" /\ q.used = NoUsage
        /\ q.calls = 0 /\ q.m = r.m
    BY <2>2, FailedFields
  <2> HIDE DEF m, p
  <2>5. d.counts = Moved(n, 0, 1) /\ d.ledger = Held(l, -1)
    BY <1>2, <1>4 DEF m, p
  <2> HIDE DEF q, d
  <2>6. /\ Kept(q) /\ 0 = Bit(q.run) - Bit(r.run) /\ 1 = Bit(q.state = "FAILED")
        /\ -1 = Bit(q.resv = "ACTIVE") - Bit(r.resv = "ACTIVE")
    BY <1>8, <2>2, <2>4 DEF Bit, Kept
  <2>7. camp'[k] = d /\ \A j \in Kind \ {k} : camp'[j] = camp[j]
    BY <1>3, <2>3
  <2>8. Unsettled(r, q)
    BY <2>2, <2>4, <2>6 DEF Unsettled
  <2>9. camp'[k].counts = CountedOn(n, r, q) /\ camp'[k].ledger = HeldOn(l, r, q)
    BY <2>5, <2>6, <2>7, Zenon DEF CountedOn, HeldOn
  <2> QED BY <2>2, <2>3, <2>7, <2>8, <2>9, UnsettledBooks
<1> QED BY <1>5, <1>6, <1>7, <1>9, <1>10

\* A submission is lost: the unit is charged its reservation and possibly billed.
LEMMA UnknownBooks ==
    ASSUME Records, Books, NEW k \in Kind, SubmissionUnknown(k)
    PROVE  Books'
<1> DEFINE c == camp[k]
           used == [NoUsage EXCEPT !.possibly = RunReserve.calls,
                                   !.possiblyCost = RunReserve.cost]
           d == [c EXCEPT !.counts.failed = @ + 1,
                   !.ledger.possibly = @ + RunReserve.calls,
                   !.ledger.possiblyCost = @ + RunReserve.cost,
                   !.ledger.possiblyCount = @ + 1,
                   !.ledger.reserved = @ - RunReserve.calls,
                   !.ledger.reservedCost = @ - RunReserve.cost]
<1>0. PICK i \in Claimed(k) :
        /\ rows[k][i].resv = "ACTIVE"
        /\ SetRow(k, i, FailedRow(rows[k][i], "SETTLED", used,
                            "PROVIDER_TRANSIENT", "transport_exhausted"))
        /\ SetCampaign(k, d) /\ drifts' = drifts
  BY Zenon DEF SubmissionUnknown
<1> DEFINE r == rows[k][i]
           q == FailedRow(r, "SETTLED", used, "PROVIDER_TRANSIENT", "transport_exhausted")
<1>1. i \in DOMAIN rows[k] /\ r.state = "CLAIMED"
  BY ClaimedRow
<1>2. /\ camp'[k] = d /\ (\A j \in Kind \ {k} : camp'[j] = camp[j])
      /\ rows' = [rows EXCEPT ![k][i] = q] /\ drifts' = drifts
  BY <1>0, Zenon DEF SetCampaign, SetRow, Records
<1>3. DOMAIN r = RowFields
  BY ClaimedRow
<1>4. ~r.run /\ r.resv = "ACTIVE" /\ r.calls = 0 /\ ~r.m.degraded
  BY <1>0, ClaimedRow
<1>5. used = [observed |-> 0, possibly |-> RunReserve.calls, tokens |-> 0, cost |-> 0,
              possiblyCost |-> RunReserve.cost]
  <2> DEFINE p == RunReserve.calls
             x == RunReserve.cost
             v == [observed |-> 0, possibly |-> p, tokens |-> 0, cost |-> 0, possiblyCost |-> 0]
             w == [observed |-> 0, possibly |-> p, tokens |-> 0, cost |-> 0, possiblyCost |-> x]
  <2> HIDE DEF p, x
  <2>1. [NoUsage EXCEPT !.possibly = p] = v
    BY DEF NoUsage
  <2>2. [v EXCEPT !.possiblyCost = x] = w
    OBVIOUS
  <2>3. [NoUsage EXCEPT !.possibly = p, !.possiblyCost = x] = w
    BY <2>1, <2>2
  <2> QED BY <2>3 DEF p, x
<1> HIDE DEF used
<1>6. /\ q.state = "FAILED" /\ q.run = r.run /\ q.resv = "SETTLED" /\ q.used = used
      /\ q.calls = 0 /\ q.m = r.m
  BY <1>3, <1>4, FailedFields
<1>7. IsUsage(used)
  BY <1>5, ReserveAssumption DEF IsUsage, UsageFields
<1>8. UnknownOutbound(q)
  <2>1. used.cost = 0
    BY <1>5
  <2> QED BY <1>5, <1>6, <2>1 DEF UnknownOutbound
<1>9. Kept(q) /\ Audited(q)
  BY <1>4, <1>6, <1>7, <1>8 DEF Kept, Audited
<1>10. /\ DOMAIN c = CampFields /\ Book(c, rows[k])
       /\ c.counts = CountsOf(rows[k]) /\ c.ledger = LedgerOf(rows[k])
  BY BooksBefore
<1> DEFINE rs == rows[k]
<1>11. /\ IsFiniteSet(DOMAIN rs) /\ rs[i].state = "CLAIMED" /\ rs[i].resv = "ACTIVE"
       /\ i \in DOMAIN rs /\ q.run = rs[i].run
       /\ \A j \in DOMAIN rs : IsUsage(rs[j].used)
  BY <1>1, <1>4, <1>6, RowsAreFinite, BooksBefore DEF Kept
<1>12. c.counts = CountsOf(rs) /\ c.ledger = LedgerOf(rs) /\ Book(c, rs)
  BY <1>10
<1> HIDE DEF c, q, r
<1>13. d.counts = [submitted |-> c.counts.submitted, collected |-> c.counts.collected,
                   failed |-> c.counts.failed + 1, skipped |-> c.counts.skipped,
                   degraded |-> c.counts.degraded]
  BY <1>10, BookFields DEF CampFields
<1>14. d.ledger = [observed |-> c.ledger.observed,
                   possibly |-> c.ledger.possibly + RunReserve.calls,
                   tokens |-> c.ledger.tokens, cost |-> c.ledger.cost,
                   possiblyCost |-> c.ledger.possiblyCost + RunReserve.cost,
                   reserved |-> c.ledger.reserved - RunReserve.calls,
                   reservedCost |-> c.ledger.reservedCost - RunReserve.cost,
                   possiblyCount |-> c.ledger.possiblyCount + 1]
  <2> DEFINE l == c.ledger
             m == d.ledger
  <2>1. m = [l EXCEPT !.possibly = @ + RunReserve.calls,
                      !.possiblyCost = @ + RunReserve.cost, !.possiblyCount = @ + 1,
                      !.reserved = @ - RunReserve.calls,
                      !.reservedCost = @ - RunReserve.cost]
    BY <1>10 DEF CampFields
  <2>2. DOMAIN l = {"observed", "possibly", "tokens", "cost", "possiblyCost", "reserved",
                    "reservedCost", "possiblyCount"}
    BY <1>12, BookFields
  <2> HIDE DEF l, d, m
  <2>3. m = [observed |-> l.observed, possibly |-> l.possibly + RunReserve.calls,
             tokens |-> l.tokens, cost |-> l.cost,
             possiblyCost |-> l.possiblyCost + RunReserve.cost,
             reserved |-> l.reserved - RunReserve.calls,
             reservedCost |-> l.reservedCost - RunReserve.cost,
             possiblyCount |-> l.possiblyCount + 1]
    BY <2>1, <2>2
  <2> QED BY <2>3 DEF l, m
<1> HIDE DEF d, rs
<1> DEFINE qs == [rs EXCEPT ![i] = q]
<1>15. /\ CountsOf(qs) = CountedWith(CountsOf(rs), q)
       /\ LedgerOf(qs) = ChargedWith(LedgerOf(rs), used, Bit(rs[i].resv = "ACTIVE"))
  <2>1. /\ q.state \in TerminalResult /\ rs[i].state \in {"CLAIMED", "SUBMITTED"}
        /\ rs[i].resv # "SETTLED" /\ IsUsage(q.used)
    BY <1>6, <1>7, <1>11 DEF TerminalResult
  <2> QED BY <1>6, <1>11, <2>1, SettledRow
<1> HIDE DEF qs
<1>16. /\ Bit(q.state = "COLLECTED") = 0 /\ Bit(q.state = "FAILED") = 1
       /\ Bit(q.m.degraded) = 0 /\ Bit(rs[i].resv = "ACTIVE") = 1
       /\ Bit(used.possibly > 0 \/ used.possiblyCost > 0) = 1
  BY <1>4, <1>5, <1>6, <1>11, ReserveAssumption DEF Bit
<1>17. d.counts = CountsOf(qs)
  BY <1>11, <1>12, <1>13, <1>15, <1>16, BookNumbers DEF CountedWith
<1>18. d.ledger = LedgerOf(qs)
  BY <1>5, <1>11, <1>12, <1>14, <1>15, <1>16, BookNumbers, ReserveAssumption DEF ChargedWith
<1> QED BY <1>1, <1>2, <1>9, <1>17, <1>18, BookedRow DEF rs, qs

\* The books when the collector settles a unit from the audit.
LEMMA SettleBooks ==
    ASSUME Records, Books, NEW k \in Kind, NEW i \in Collectable(k), NEW q,
           q.state \in TerminalResult, q.run = rows[k][i].run, q.resv = "SETTLED",
           q.used = SettledUsage(rows[k][i].source), q.source = rows[k][i].source,
           q.calls = Cardinality(Called(rows[k][i].source)),
           camp'[k].counts = CountedWith(camp[k].counts, q),
           camp'[k].ledger = SettledLedger(camp[k].ledger, q.used),
           \A j \in Kind \ {k} : camp'[j] = camp[j],
           rows' = [rows EXCEPT ![k][i] = q], drifts' = drifts
    PROVE  Books'
<1> DEFINE c == camp[k]
           r == rows[k][i]
           u == SettledUsage(r.source)
           now == Usage(r.source.invocations)
<1>1. i \in DOMAIN rows[k] /\ r.state = "SUBMITTED" /\ r.source # NoSource
  BY DEF Collectable, InState
<1>2. Kept(r) /\ RowFits(r)
  BY <1>1, BooksBefore DEF Records, Record, Table
<1>3. r.run /\ r.resv = "ACTIVE" /\ Stored(r.source)
  BY <1>1, <1>2 DEF Kept, RowFits
<1>4. /\ IsUsage(u)
      /\ u.observed = now.observed /\ u.possibly = now.possibly
      /\ u.tokens = now.tokens /\ u.cost = CostOf(now) /\ u.possiblyCost = PossiblyCostOf(now)
      /\ Cardinality(Called(r.source)) = now.observed + now.possibly
  BY <1>3, SettledIsUsage
<1>5. q.used = u /\ q.source = r.source /\ q.calls = Cardinality(Called(r.source)) /\ q.run = r.run
  OBVIOUS
<1> HIDE DEF u
<1>6. AgreesWithAudit(q)
  BY <1>4, <1>5, Zenon DEF AgreesWithAudit
<1>7. Kept(q) /\ Audited(q)
  BY <1>3, <1>4, <1>5, <1>6 DEF Kept, Audited, TerminalResult
<1> DEFINE rs == rows[k]
<1>8. /\ IsFiniteSet(DOMAIN rs) /\ \A j \in DOMAIN rs : IsUsage(rs[j].used)
  BY RowsAreFinite, BooksBefore DEF Kept
<1>9. /\ i \in DOMAIN rs /\ rs[i].state \in {"CLAIMED", "SUBMITTED"} /\ rs[i].resv # "SETTLED"
      /\ rs[i].resv = "ACTIVE" /\ q.run = rs[i].run
  BY <1>1, <1>3
<1>10. c.counts = CountsOf(rs) /\ c.ledger = LedgerOf(rs)
  BY BooksBefore
<1> HIDE DEF rs
<1> DEFINE qs == [rs EXCEPT ![i] = q]
<1>11. /\ CountsOf(qs) = CountedWith(CountsOf(rs), q)
       /\ LedgerOf(qs) = ChargedWith(LedgerOf(rs), u, Bit(rs[i].resv = "ACTIVE"))
  BY <1>4, <1>5, <1>8, <1>9, SettledRow
<1> HIDE DEF qs
<1>12. ChargedWith(LedgerOf(rs), u, Bit(rs[i].resv = "ACTIVE")) = SettledLedger(LedgerOf(rs), u)
  <2> DEFINE l == LedgerOf(rs)
             b == Bit(u.possibly > 0 \/ u.possiblyCost > 0)
  <2>1. Bit(rs[i].resv = "ACTIVE") = 1
    BY <1>9 DEF Bit
  <2>2. /\ l.reserved - 1 * RunReserve.calls = l.reserved - RunReserve.calls
        /\ l.reservedCost - 1 * RunReserve.cost = l.reservedCost - RunReserve.cost
    BY ReserveAssumption
  <2>3. u.possibly \in Nat /\ u.possiblyCost \in Nat
    BY <1>4 DEF IsUsage, UsageFields
  <2>4. b = IF u.possibly + u.possiblyCost > 0 THEN 1 ELSE 0
    BY <2>3 DEF Bit
  <2> HIDE DEF l
  <2>5. ChargedWith(l, u, 1) = SettledLedger(l, u)
    BY <2>2, <2>4, Zenon DEF ChargedWith, SettledLedger, b
  <2> QED BY <2>1, <2>5 DEF l
<1>13. camp'[k].counts = CountsOf(qs) /\ camp'[k].ledger = LedgerOf(qs)
  BY <1>5, <1>10, <1>11, <1>12
<1> QED BY <1>1, <1>7, <1>13, BookedRow DEF rs, qs

\* settle_run_budget leaves the counters alone.
LEMMA SettledCounts ==
    ASSUME NEW k \in Kind, NEW u, DOMAIN camp[k] = CampFields
    PROVE  LET e == SettledCampaign(k, u)
           IN  /\ DOMAIN e = CampFields /\ e.counts = camp[k].counts
               /\ e.ledger = SettledLedger(camp[k].ledger, u)
<1> DEFINE l == SettledLedger(camp[k].ledger, u)
           b == Breach(k, l, u)
<1> HIDE DEF b
<1>1. SettledCampaign(k, u) =
        [camp[k] EXCEPT !.ledger = l,
            !.status = IF b # "NONE" /\ camp[k].status = "RUNNING" THEN "STOPPING" ELSE @,
            !.intent = IF b # "NONE" /\ camp[k].status = "RUNNING" THEN b ELSE @]
  BY DEF SettledCampaign, b
<1> HIDE DEF l
<1>2. /\ DOMAIN SettledCampaign(k, u) = CampFields
      /\ SettledCampaign(k, u).counts = camp[k].counts /\ SettledCampaign(k, u).ledger = l
  BY <1>1 DEF CampFields
<1> QED BY <1>2 DEF l

\* A unit is collected.
LEMMA CollectBooks ==
    ASSUME Records, Books, NEW k \in Kind, CollectResult(k)
    PROVE  Books'
<1>1. PICK i \in Collectable(k) :
        LET r    == rows[k][i]
            m    == Collect(ReadSnapshot(r.source), r.unit.case)
            u    == SettledUsage(r.source)
            over == ExceedsReserve(u)
        IN  /\ rows' = [rows EXCEPT ![k][i] =
                  [r EXCEPT !.state = "COLLECTED", !.resv = "SETTLED",
                    !.m = m, !.used = u, !.calls = m.calls, !.over = over,
                    !.class = IF over THEN "CANDIDATE_DEFECT" ELSE m.class,
                    !.signals = m.signals \cup IF over THEN {"budget_violation"} ELSE {}]]
            /\ camp' = [camp EXCEPT ![k] = [SettledCampaign(k, u) EXCEPT
                    !.counts.collected = @ + 1,
                    !.counts.degraded = @ + IF m.degraded THEN 1 ELSE 0]]
            /\ drifts' = drifts
  BY DEF CollectResult, SetRow, SetCampaign
<1> DEFINE r == rows[k][i]
           m == Collect(ReadSnapshot(r.source), r.unit.case)
           u == SettledUsage(r.source)
           over == ExceedsReserve(u)
           class == IF over THEN "CANDIDATE_DEFECT" ELSE m.class
           signals == m.signals \cup IF over THEN {"budget_violation"} ELSE {}
           e == SettledCampaign(k, u)
           n == camp[k].counts
           x == IF m.degraded THEN 1 ELSE 0
           d == [e EXCEPT !.counts.collected = @ + 1, !.counts.degraded = @ + x]
           q == [r EXCEPT !.state = "COLLECTED", !.resv = "SETTLED", !.m = m, !.used = u,
                    !.calls = m.calls, !.over = over, !.class = class, !.signals = signals]
<1>2. i \in DOMAIN rows[k]
  BY DEF Collectable, InState
<1>3. DOMAIN r = RowFields
  BY <1>2, BooksBefore
<1>4. /\ camp'[k] = d /\ (\A j \in Kind \ {k} : camp'[j] = camp[j])
      /\ rows' = [rows EXCEPT ![k][i] = q] /\ drifts' = drifts
  BY <1>1 DEF Records
<1>5. m.calls = Cardinality(Called(r.source))
  <2>1. Called(ReadSnapshot(r.source)) = Called(r.source)
    BY SnapshotFields DEF Called
  <2>2. m.calls = Cardinality(Called(ReadSnapshot(r.source)))
    BY DEF Collect
  <2> QED BY <2>1, <2>2
<1> HIDE DEF m, u, over, class, signals
<1>6. /\ q.state = "COLLECTED" /\ q.resv = "SETTLED" /\ q.m = m /\ q.used = u
      /\ q.calls = m.calls /\ q.run = r.run /\ q.source = r.source
  BY <1>3 DEF RowFields
<1>7. /\ DOMAIN e = CampFields /\ e.counts = n /\ e.ledger = SettledLedger(camp[k].ledger, u)
  BY BooksBefore, SettledCounts
<1> HIDE DEF e
<1>8. /\ DOMAIN n = {"submitted", "collected", "failed", "skipped", "degraded"}
      /\ n.failed \in Nat
  <2>1. IsFiniteSet(DOMAIN rows[k]) /\ \A j \in DOMAIN rows[k] : IsUsage(rows[k][j].used)
    BY RowsAreFinite, BooksBefore DEF Kept
  <2> QED BY <2>1, BooksBefore, BookFields, BookNumbers
<1> HIDE DEF n
<1>9. d.counts = [submitted |-> n.submitted, collected |-> n.collected + 1, failed |-> n.failed,
                  skipped |-> n.skipped, degraded |-> n.degraded + x]
  <2> HIDE DEF x
  <2>1. d.counts = [n EXCEPT !.collected = @ + 1, !.degraded = @ + x]
    BY <1>7 DEF CampFields
  <2> HIDE DEF d
  <2> QED BY <1>8, <2>1
<1>10. d.ledger = SettledLedger(camp[k].ledger, u)
  BY <1>7 DEF CampFields
<1>11. d.counts = CountedWith(n, q)
  <2>1. /\ Bit(q.state = "COLLECTED") = 1 /\ Bit(q.state = "FAILED") = 0
        /\ Bit(q.m.degraded) = x /\ n.failed + 0 = n.failed
    BY <1>6, <1>8 DEF Bit
  <2> HIDE DEF x, d, q
  <2> QED BY <1>9, <2>1, Zenon DEF CountedWith
<1>12. q.state \in TerminalResult
  BY <1>6 DEF TerminalResult
<1> HIDE DEF d, q
<1>13. /\ camp'[k].counts = CountedWith(camp[k].counts, q)
       /\ camp'[k].ledger = SettledLedger(camp[k].ledger, q.used)
  BY <1>4, <1>6, <1>10, <1>11 DEF n
<1> QED BY <1>4, <1>5, <1>6, <1>12, <1>13, SettleBooks DEF u

\* Its collection fails.
LEMMA FailureBooks ==
    ASSUME Records, Books, NEW k \in Kind, CollectionFails(k)
    PROVE  Books'
<1>1. PICK i, x :
        LET r == rows[k][i]
            u == SettledUsage(r.source)
        IN  /\ i \in Collectable(k)
            /\ rows' = [rows EXCEPT ![k][i] =
                  [r EXCEPT !.state = "FAILED", !.resv = "SETTLED", !.used = u,
                    !.calls = Cardinality(Called(r.source)), !.over = ExceedsReserve(u),
                    !.class = CollectionFailure(x).class,
                    !.signals = {CollectionFailure(x).signal}]]
            /\ camp' = [camp EXCEPT ![k] = [SettledCampaign(k, u) EXCEPT
                    !.counts.failed = @ + 1]]
            /\ drifts' = drifts
  BY DEF CollectionFails, SetRow, SetCampaign
<1> DEFINE r == rows[k][i]
           u == SettledUsage(r.source)
           over == ExceedsReserve(u)
           calls == Cardinality(Called(r.source))
           class == CollectionFailure(x).class
           signals == {CollectionFailure(x).signal}
           e == SettledCampaign(k, u)
           n == camp[k].counts
           d == [e EXCEPT !.counts.failed = @ + 1]
           q == [r EXCEPT !.state = "FAILED", !.resv = "SETTLED", !.used = u,
                    !.calls = calls, !.over = over, !.class = class, !.signals = signals]
<1>2. i \in Collectable(k) /\ i \in DOMAIN rows[k] /\ r.state = "SUBMITTED"
  BY <1>1 DEF Collectable, InState
<1>3. DOMAIN r = RowFields /\ r.m.degraded = FALSE
  BY <1>2 DEF Records, Record, Table, RowFits, NoMeasurement
<1>4. /\ camp'[k] = d /\ (\A j \in Kind \ {k} : camp'[j] = camp[j])
      /\ rows' = [rows EXCEPT ![k][i] = q] /\ drifts' = drifts
  BY <1>1 DEF Records
<1> HIDE DEF u, over, class, signals, calls
<1>6. /\ q.state = "FAILED" /\ q.resv = "SETTLED" /\ q.m = r.m /\ q.used = u
      /\ q.calls = calls /\ q.run = r.run /\ q.source = r.source
  BY <1>3 DEF RowFields
<1>7. /\ DOMAIN e = CampFields /\ e.counts = n /\ e.ledger = SettledLedger(camp[k].ledger, u)
  BY BooksBefore, SettledCounts
<1> HIDE DEF e
<1>8. /\ DOMAIN n = {"submitted", "collected", "failed", "skipped", "degraded"}
      /\ n.collected \in Nat /\ n.degraded \in Nat
  <2>1. IsFiniteSet(DOMAIN rows[k]) /\ \A j \in DOMAIN rows[k] : IsUsage(rows[k][j].used)
    BY RowsAreFinite, BooksBefore DEF Kept
  <2> QED BY <2>1, BooksBefore, BookFields, BookNumbers
<1> HIDE DEF n
<1>9. d.counts = [submitted |-> n.submitted, collected |-> n.collected, failed |-> n.failed + 1,
                  skipped |-> n.skipped, degraded |-> n.degraded]
  <2>1. d.counts = [n EXCEPT !.failed = @ + 1]
    BY <1>7 DEF CampFields
  <2> HIDE DEF d
  <2> QED BY <1>8, <2>1
<1>10. d.ledger = SettledLedger(camp[k].ledger, u)
  BY <1>7 DEF CampFields
<1>11. d.counts = CountedWith(n, q)
  <2>1. /\ Bit(q.state = "COLLECTED") = 0 /\ Bit(q.state = "FAILED") = 1
        /\ Bit(q.m.degraded) = 0 /\ n.collected + 0 = n.collected /\ n.degraded + 0 = n.degraded
    BY <1>3, <1>6, <1>8 DEF Bit
  <2> HIDE DEF d, q
  <2> QED BY <1>9, <2>1, Zenon DEF CountedWith
<1>12. q.state \in TerminalResult
  BY <1>6 DEF TerminalResult
<1> HIDE DEF d, q
<1>13. /\ camp'[k].counts = CountedWith(camp[k].counts, q)
       /\ camp'[k].ledger = SettledLedger(camp[k].ledger, q.used)
  BY <1>4, <1>6, <1>10, <1>11 DEF n
<1> QED BY <1>2, <1>4, <1>6, <1>12, <1>13, SettleBooks DEF u, calls

\* Tables that nothing has been booked of yet.
LEMMA NothingBooked ==
    ASSUME NEW rs, \A j \in DOMAIN rs : rs[j].state = "PENDING" /\ ~rs[j].run /\ rs[j].resv = "NONE"
    PROVE  CountsOf(rs) = NoCounts /\ LedgerOf(rs) = NoLedger
<1>1. /\ Begun(rs) = {} /\ Impaired(rs) = {} /\ Doubtful(rs) = {}
      /\ WithState(rs, "COLLECTED") = {} /\ WithState(rs, "FAILED") = {}
      /\ WithState(rs, "SKIPPED") = {}
      /\ Reserves(rs, "ACTIVE") = {} /\ Reserves(rs, "SETTLED") = {}
  BY DEF Begun, Impaired, TerminalResult, Doubtful, InDoubt, WithState, Reserves
<1>2. \A f : Charges(rs, f) = {}
  BY <1>1 DEF Charges
<1>3. Cardinality({}) = 0
  BY FS_EmptySet
<1>4. 0 * RunReserve.calls = 0 /\ 0 * RunReserve.cost = 0
  BY ReserveAssumption
<1>5. CountsOf(rs) = NoCounts
  BY <1>1, <1>3, Zenon DEF CountsOf, NoCounts
<1>6. LedgerOf(rs) =
        [observed |-> 0, possibly |-> 0, tokens |-> 0, cost |-> 0, possiblyCost |-> 0,
         reserved |-> 0, reservedCost |-> 0, possiblyCount |-> 0]
  BY <1>1, <1>2, <1>3, <1>4, Zenon DEF LedgerOf
<1> QED BY <1>5, <1>6 DEF NoLedger

\* The plan is materialized.
LEMMA MaterializeBooks ==
    ASSUME Records, Books, NEW k \in Kind, Materialize(k)
    PROVE  Books'
<1> DEFINE rs == rows[k]
           plan == RunPlan(k, Manifest)
           qs == [i \in DOMAIN plan |-> PendingRow(plan[i])]
           d == [camp[k] EXCEPT !.planned = TRUE]
<1>1. /\ camp'[k] = d /\ rows'[k] = qs /\ drifts' = drifts /\ camp[k].status = "CREATED"
      /\ \A j \in Kind \ {k} : camp'[j] = camp[j] /\ rows'[j] = rows[j]
  BY DEF Materialize, SetCampaign, Records
<1>2. \A j \in DOMAIN rs : rs[j].state = "PENDING" /\ ~rs[j].run /\ rs[j].resv = "NONE"
  <2>1. \A j \in DOMAIN rs : rs[j].state = "PENDING"
    BY <1>1 DEF Records, Record, Progress
  <2> QED BY <2>1, BooksBefore DEF Kept
<1>3. /\ d.counts = CountsOf(rs) /\ d.ledger = LedgerOf(rs)
  BY BooksBefore DEF CampFields
<1>4. ASSUME NEW j \in DOMAIN qs
      PROVE  /\ qs[j].state = "PENDING" /\ qs[j].run = FALSE /\ qs[j].resv = "NONE"
             /\ qs[j].calls = 0 /\ qs[j].used = NoUsage
  <2>1. qs[j] = PendingRow(plan[j])
    OBVIOUS
  <2> QED BY <2>1 DEF PendingRow
<1> HIDE DEF qs, d, rs
<1>5. /\ CountsOf(rs) = NoCounts /\ LedgerOf(rs) = NoLedger
      /\ CountsOf(qs) = NoCounts /\ LedgerOf(qs) = NoLedger
  BY <1>2, <1>4, NothingBooked
<1>6. IsUsage(NoUsage)
  BY DEF NoUsage, IsUsage, UsageFields
<1>7. \A j \in DOMAIN qs : Kept(qs[j]) /\ Audited(qs[j])
  BY <1>4, <1>6 DEF Kept, Audited, TerminalResult
<1>8. Book(d, qs)
  BY <1>3, <1>5, <1>7 DEF Book
<1> QED BY <1>1, <1>7, <1>8, BookStep

\* What a stopping campaign skips is counted all at once.
LEMMA SkipBooks ==
    ASSUME Records, Books, NEW k \in Kind, SkipPending(k)
    PROVE  Books'
<1> DEFINE rs == rows[k]
           pending == InState(k, "PENDING")
           d == [camp[k] EXCEPT !.counts.skipped = @ + Cardinality(pending)]
           qs == [i \in DOMAIN rs |->
                    IF i \in pending THEN [rs[i] EXCEPT !.state = "SKIPPED"] ELSE rs[i]]
<1>1. /\ camp'[k] = d /\ rows'[k] = qs /\ drifts' = drifts
      /\ \A j \in Kind \ {k} : camp'[j] = camp[j] /\ rows'[j] = rows[j]
  BY DEF SkipPending, SetCampaign, Records
<1>2. pending = WithState(rs, "PENDING")
  BY DEF InState, WithState
<1>3. \A j \in DOMAIN rs : DOMAIN rs[j] = RowFields /\ Kept(rs[j])
  BY BooksBefore
<1>4. DOMAIN qs = DOMAIN rs
  OBVIOUS
<1>5. ASSUME NEW j \in DOMAIN rs, j \in pending
      PROVE  /\ qs[j].state = "SKIPPED" /\ qs[j].run = rs[j].run /\ qs[j].resv = rs[j].resv
             /\ qs[j].used = rs[j].used /\ qs[j].calls = rs[j].calls
             /\ rs[j].state = "PENDING" /\ ~rs[j].run /\ rs[j].resv = "NONE" /\ rs[j].calls = 0
             /\ IsUsage(rs[j].used)
  <2>1. qs[j] = [rs[j] EXCEPT !.state = "SKIPPED"] /\ rs[j].state = "PENDING"
    BY <1>2, <1>5 DEF WithState
  <2> DEFINE r == rs[j]
             q == [r EXCEPT !.state = "SKIPPED"]
  <2>2. DOMAIN r = RowFields /\ Kept(r)
    BY <1>3
  <2> HIDE DEF r
  <2>3. q.state = "SKIPPED" /\ q.run = r.run /\ q.resv = r.resv /\ q.used = r.used /\ q.calls = r.calls
    BY <2>2 DEF RowFields
  <2> HIDE DEF qs
  <2>4. ~r.run /\ r.resv = "NONE" /\ r.calls = 0 /\ IsUsage(r.used)
    BY <2>1, <2>2 DEF Kept, r
  <2> HIDE DEF q
  <2>5. qs[j] = q /\ r = rs[j]
    BY <2>1 DEF q, r
  <2> QED BY <2>1, <2>3, <2>4, <2>5
<1>6. ASSUME NEW j \in DOMAIN rs, j \notin pending PROVE qs[j] = rs[j] /\ rs[j].state # "PENDING"
  BY <1>2, <1>6 DEF WithState
<1>7. pending \subseteq DOMAIN rs /\ IsFiniteSet(DOMAIN rs)
  BY RowsAreFinite DEF InState
<1>8. IsFiniteSet(pending) /\ Cardinality(pending) \in Nat
  BY <1>7, FS_Subset, FS_CardinalityType
<1> DEFINE n == camp[k].counts
<1>9. /\ DOMAIN camp[k] = CampFields /\ n = CountsOf(rs) /\ camp[k].ledger = LedgerOf(rs)
      /\ DOMAIN n = {"submitted", "collected", "failed", "skipped", "degraded"}
  BY BooksBefore, BookFields
<1>10. d.counts = [submitted |-> n.submitted, collected |-> n.collected, failed |-> n.failed,
                   skipped |-> n.skipped + Cardinality(pending), degraded |-> n.degraded]
       /\ d.ledger = LedgerOf(rs)
  <2> DEFINE z == Cardinality(pending)
  <2> HIDE DEF z
  <2>1. d.counts = [n EXCEPT !.skipped = @ + z] /\ d.ledger = LedgerOf(rs)
    BY <1>9 DEF CampFields, z
  <2> HIDE DEF n, d
  <2>2. d.counts = [submitted |-> n.submitted, collected |-> n.collected, failed |-> n.failed,
                    skipped |-> n.skipped + z, degraded |-> n.degraded]
    BY <1>9, <2>1
  <2> QED BY <2>1, <2>2 DEF z
<1> HIDE DEF qs, d, pending, n, rs
<1>11. /\ Begun(qs) = Begun(rs) /\ Impaired(qs) = Impaired(rs) /\ Doubtful(qs) = Doubtful(rs)
       /\ \A s : Reserves(qs, s) = Reserves(rs, s)
       /\ WithState(qs, "COLLECTED") = WithState(rs, "COLLECTED")
       /\ WithState(qs, "FAILED") = WithState(rs, "FAILED")
  <2>1. Begun(qs) = Begun(rs)
    BY <1>4, <1>5, <1>6 DEF Begun
  <2>2. Impaired(qs) = Impaired(rs)
    BY <1>4, <1>5, <1>6 DEF Impaired, TerminalResult
  <2>3. Doubtful(qs) = Doubtful(rs)
    BY <1>4, <1>5, <1>6 DEF Doubtful, InDoubt
  <2>4. \A s : Reserves(qs, s) = Reserves(rs, s)
    BY <1>4, <1>5, <1>6 DEF Reserves
  <2>5. /\ WithState(qs, "COLLECTED") = WithState(rs, "COLLECTED")
        /\ WithState(qs, "FAILED") = WithState(rs, "FAILED")
    BY <1>4, <1>5, <1>6 DEF WithState
  <2> QED BY <2>1, <2>2, <2>3, <2>4, <2>5
<1>12. \A f : Charges(qs, f) = Charges(rs, f)
  BY <1>4, <1>5, <1>6, ChargesStay
<1>13. Cardinality(WithState(qs, "SKIPPED")) =
       Cardinality(WithState(rs, "SKIPPED")) + Cardinality(pending)
  <2> DEFINE A == WithState(rs, "SKIPPED")
             B == WithState(qs, "SKIPPED")
  <2>1. B = A \cup pending /\ A \cap pending = {}
    BY <1>2, <1>4, <1>5, <1>6 DEF WithState
  <2>2. IsFiniteSet(A) /\ Cardinality(A) \in Nat
    BY <1>7, FS_Subset, FS_CardinalityType DEF WithState
  <2> HIDE DEF A, B
  <2>3. Cardinality(A \cup pending) =
        Cardinality(A) + Cardinality(pending) - Cardinality(A \cap pending)
    BY <1>8, <2>2, FS_Union
  <2>4. Cardinality(A \cap pending) = 0
    BY <2>1, FS_EmptySet
  <2>5. Cardinality(B) = Cardinality(A) + Cardinality(pending)
    BY <1>8, <2>1, <2>2, <2>3, <2>4
  <2> QED BY <2>5 DEF A, B
<1>14. d.counts = CountsOf(qs)
  BY <1>9, <1>10, <1>11, <1>13, CountFields, Zenon DEF CountsOf
<1>15. d.ledger = LedgerOf(qs)
  <2>1. LedgerOf(qs) = LedgerOf(rs)
    BY <1>11, <1>12, Zenon DEF LedgerOf
  <2> QED BY <1>10, <2>1
<1>16. \A j \in DOMAIN qs : Kept(qs[j])
  <2>1. ASSUME NEW j \in DOMAIN rs, j \in pending PROVE Kept(qs[j])
    BY <1>5, <2>1 DEF Kept, TerminalResult
  <2> QED BY <1>3, <1>4, <1>6, <2>1
<1>17. ASSUME drifts = 0 PROVE \A j \in DOMAIN qs : Audited(qs[j])
  <2>1. ASSUME NEW j \in DOMAIN rs, j \in pending PROVE Audited(qs[j])
    BY <1>5, <2>1 DEF Audited
  <2>2. \A j \in DOMAIN rs : Audited(rs[j])
    BY <1>17 DEF Books, rs
  <2> QED BY <1>4, <1>6, <2>1, <2>2
<1>18. Book(d, qs)
  BY <1>14, <1>15, <1>16 DEF Book
<1> QED BY <1>1, <1>17, <1>18, BookStep

\* The candidate's tables: what a run leaves is not booked before it is
\* collected, and a later change of the audit is not booked at all.
LEMMA SourceBooks ==
    ASSUME Records, Books, NEW k \in Kind, RunTerminates(k) \/ SourceDrifts(k)
    PROVE  Books'
<1>1. PICK i, s :
        /\ i \in DOMAIN rows[k] /\ camp' = camp
        /\ rows' = [rows EXCEPT ![k][i] = [rows[k][i] EXCEPT !.source = s]]
        /\ \/ drifts' = drifts /\ rows[k][i].state = "SUBMITTED"
           \/ drifts' = drifts + 1
  BY DEF RunTerminates, SourceDrifts, SetRow, Inflight, InState
<1> DEFINE rs == rows[k]
           r == rs[i]
           q == [r EXCEPT !.source = s]
           qs == [rs EXCEPT ![i] = q]
<1>2. /\ rows'[k] = qs /\ \A j \in Kind \ {k} : rows'[j] = rows[j]
  BY <1>1 DEF Records
<1>3. DOMAIN r = RowFields /\ \A j \in DOMAIN rs : Kept(rs[j])
  BY <1>1, BooksBefore
<1>4. /\ q.run = r.run /\ q.state = r.state /\ q.resv = r.resv /\ q.m = r.m /\ q.used = r.used
      /\ q.calls = r.calls
  BY <1>3 DEF RowFields
<1>5. DOMAIN qs = DOMAIN rs /\ qs[i] = q /\ \A j \in DOMAIN rs \ {i} : qs[j] = rs[j]
  BY <1>1
<1>6. Book(camp[k], rs)
  BY DEF Books
<1> HIDE DEF qs, q
<1>7. \A j \in DOMAIN rs : /\ qs[j].run = rs[j].run /\ qs[j].state = rs[j].state
                           /\ qs[j].resv = rs[j].resv /\ qs[j].m = rs[j].m
                           /\ qs[j].used = rs[j].used /\ qs[j].calls = rs[j].calls
  BY <1>4, <1>5
<1> HIDE DEF rs
<1>8. CountsOf(qs) = CountsOf(rs) /\ LedgerOf(qs) = LedgerOf(rs)
  BY <1>5, <1>7, SameBooks
<1>9. \A j \in DOMAIN qs : Kept(qs[j])
  <2>1. ASSUME NEW j \in DOMAIN rs PROVE Kept(qs[j])
    BY <1>3, <1>7 DEF Kept, UnknownOutbound
  <2> QED BY <1>5, <2>1
<1>10. Book(camp'[k], qs)
  BY <1>1, <1>6, <1>8, <1>9 DEF Book
<1>11. CASE drifts' = drifts /\ rows[k][i].state = "SUBMITTED"
  <2>1. q.resv = "ACTIVE"
    BY <1>1, <1>3, <1>4, <1>11 DEF Kept, rs
  <2>2. drifts = 0 => \A j \in DOMAIN rs : Audited(rs[j])
    BY DEF Books, rs
  <2>3. drifts = 0 => \A j \in DOMAIN qs : Audited(qs[j])
    BY <1>5, <2>1, <2>2 DEF Audited
  <2> QED BY <1>1, <1>2, <1>10, <1>11, <2>3, BookStep
<1>12. CASE drifts' = drifts + 1
  <2>1. drifts' \in Nat /\ drifts' # 0
    BY <1>12 DEF Books
  <2>2. \A j \in Kind : Book(camp'[j], rows'[j])
    BY <1>1, <1>2, <1>10 DEF Books
  <2> QED BY <2>1, <2>2 DEF Books
<1> QED BY <1>1, <1>11, <1>12

\* The steps that neither begin nor end a unit leave the books as they are.
LEMMA OtherBooks ==
    ASSUME Records, Books, rows' = rows, drifts' = drifts,
           \A k \in Kind : /\ camp'[k].counts = camp[k].counts
                           /\ camp'[k].ledger = camp[k].ledger
    PROVE  Books'
BY DEF Books, Book

LEMMA BooksNext == Release /\ Books /\ [Next]_vars => Books'
<1> SUFFICES ASSUME Release, Books, [Next]_vars PROVE Books'
  OBVIOUS
<1>1. Records
  BY DEF Release
<1>2. ASSUME NEW k \in Kind,
             \/ Materialize(k) \/ Claim(k) \/ Reserve(k) \/ ReserveDenied(k) \/ Submit(k)
             \/ AdmissionRefused(k) \/ SubmissionRejected(k) \/ SubmissionUnknown(k)
             \/ RunTerminates(k) \/ CollectResult(k) \/ CollectionFails(k)
             \/ SkipPending(k) \/ SourceDrifts(k)
      PROVE  Books'
  BY <1>1, <1>2, MaterializeBooks, ClaimBooks, ReserveBooks, UnknownBooks, SourceBooks,
     CollectBooks, FailureBooks, SkipBooks
<1>3. ASSUME NEW k \in Kind, NEW c, DOMAIN c = CampFields,
             c.counts = camp[k].counts, c.ledger = camp[k].ledger,
             camp' = [camp EXCEPT ![k] = c], rows' = rows, drifts' = drifts
      PROVE  Books'
  <2>1. \A j \in Kind : /\ camp'[j].counts = camp[j].counts
                        /\ camp'[j].ledger = camp[j].ledger
    BY <1>1, <1>3 DEF Records
  <2> QED BY <1>1, <1>3, <2>1, OtherBooks
<1>4. \A k \in Kind : DOMAIN camp[k] = CampFields
  BY <1>1, BooksBefore
<1>5. ASSUME NEW k \in Kind,
             \/ \E p \in Provenance : Create(k, p)
             \/ Start(k) \/ Pause(k) \/ Resume(k) \/ Abort(k) \/ FatalStop(k) \/ SettleStop(k)
             \/ SeeSealed(k) \/ AwaitReview(k) \/ LookEnds(k) \/ DeadlinePasses(k)
             \/ SubmitReview(k)
      PROVE  Books'
  <2>1. ASSUME NEW p \in Provenance, Create(k, p) PROVE Books'
    <3> DEFINE c == [camp[k] EXCEPT !.status = "CREATED", !.prov = p]
    <3>1. camp' = [camp EXCEPT ![k] = c] /\ rows' = rows /\ drifts' = drifts
      BY <2>1 DEF Create, SetCampaign
    <3>2. DOMAIN c = CampFields /\ c.counts = camp[k].counts /\ c.ledger = camp[k].ledger
      BY <1>4 DEF CampFields
    <3> HIDE DEF c
    <3> QED BY <1>3, <3>1, <3>2
  <2>2. ASSUME NEW status, NEW intent, StatusOnly(k, status, intent) PROVE Books'
    <3> DEFINE c == [camp[k] EXCEPT !.status = status, !.intent = intent]
    <3>1. camp' = [camp EXCEPT ![k] = c] /\ rows' = rows /\ drifts' = drifts
      BY <2>2 DEF StatusOnly, SetCampaign
    <3>2. DOMAIN c = CampFields /\ c.counts = camp[k].counts /\ c.ledger = camp[k].ledger
      BY <1>4 DEF CampFields
    <3> HIDE DEF c
    <3> QED BY <1>3, <3>1, <3>2
  <2>3. CASE DeadlinePasses(k)
    <3> DEFINE c == [camp[k] EXCEPT !.late = TRUE]
    <3>1. camp' = [camp EXCEPT ![k] = c] /\ rows' = rows /\ drifts' = drifts
      BY <2>3 DEF DeadlinePasses
    <3>2. DOMAIN c = CampFields /\ c.counts = camp[k].counts /\ c.ledger = camp[k].ledger
      BY <1>4 DEF CampFields
    <3> HIDE DEF c
    <3> QED BY <1>3, <3>1, <3>2
  <2>4. CASE SubmitReview(k)
    <3>1. camp' = [camp EXCEPT ![k] = camp[k]] /\ rows' = rows /\ drifts' = drifts
      BY <2>4, Zenon DEF SubmitReview, SetCampaign
    <3> QED BY <1>3, <1>4, <3>1
  <2>5. CASE Start(k) \/ Pause(k) \/ Resume(k) \/ Abort(k) \/ FatalStop(k) \/ SettleStop(k)
    BY <2>2, <2>5, Zenon DEF Start, Pause, Resume, Abort, FatalStop, SettleStop
  <2>6. CASE SeeSealed(k) \/ LookEnds(k)
    <3>1. PICK x :
            camp' = [camp EXCEPT ![k] = [camp[k] EXCEPT !.seen = x]] /\ rows' = rows /\ drifts' = drifts
      BY <2>6 DEF SeeSealed, LookEnds
    <3> DEFINE c == [camp[k] EXCEPT !.seen = x]
    <3>2. DOMAIN c = CampFields /\ c.counts = camp[k].counts /\ c.ledger = camp[k].ledger
      BY <1>4 DEF CampFields
    <3> HIDE DEF c
    <3> QED BY <1>3, <3>1, <3>2 DEF c
  <2>7. CASE AwaitReview(k)
    <3> DEFINE c == [camp[k] EXCEPT !.status = "AWAITING_REVIEW", !.seen = FALSE]
    <3>1. camp' = [camp EXCEPT ![k] = c] /\ rows' = rows /\ drifts' = drifts
      BY <2>7 DEF AwaitReview, SetCampaign
    <3>2. DOMAIN c = CampFields /\ c.counts = camp[k].counts /\ c.ledger = camp[k].ledger
      BY <1>4 DEF CampFields
    <3> HIDE DEF c
    <3> QED BY <1>3, <3>1, <3>2
  <2> QED BY <1>5, <2>1, <2>3, <2>4, <2>5, <2>6, <2>7
<1>6. ASSUME NEW p \in Reporter, BindReport(p) PROVE Books'
  <2> DEFINE k == reporter[p].k
             c == [camp[k] EXCEPT !.status = TerminalStatus(camp[k]),
                     !.bound = [gate |-> reporter[p].report.decision.status, by |-> p]]
  <2>1. camp' = [camp EXCEPT ![k] = c] /\ rows' = rows /\ drifts' = drifts
    BY <1>6 DEF BindReport
  <2>2. k \in Kind
    BY <1>6 DEF Release, Reports, BindReport, Bindable
  <2>3. DOMAIN c = CampFields /\ c.counts = camp[k].counts /\ c.ledger = camp[k].ledger
    <3> DEFINE a == TerminalStatus(camp[k])
               b == [gate |-> reporter[p].report.decision.status, by |-> p]
    <3> HIDE DEF a, b
    <3>1. c = [camp[k] EXCEPT !.status = a, !.bound = b]
      BY DEF a, b
    <3> HIDE DEF c
    <3> QED BY <1>4, <2>2, <3>1 DEF CampFields
  <2> HIDE DEF c, k
  <2> QED BY <1>3, <2>1, <2>2, <2>3
<1>7. CASE camp' = camp /\ rows' = rows /\ drifts' = drifts
  BY <1>7 DEF Books
<1>8. CASE \/ \E k \in Kind : \E p \in Reporter : ReadReport(p, k)
           \/ \E p \in Reporter : PutReport(p) \/ ReportEnds(p)
  BY <1>7, <1>8, Zenon DEF ReadReport, PutReport, ReportEnds
<1>9. CASE UNCHANGED vars
  BY <1>7, <1>9 DEF vars
<1> QED BY <1>2, <1>5, <1>6, <1>8, <1>9, Zenon DEF Next

LEMMA BooksInvariant == Spec => []Books
<1>1. Init => Books
  <2> SUFFICES ASSUME Init PROVE Books
    OBVIOUS
  <2>1. CountsOf(<<>>) = NoCounts /\ LedgerOf(<<>>) = NoLedger
    BY NothingBooked
  <2>2. ASSUME NEW k \in Kind
        PROVE  /\ rows[k] = <<>> /\ DOMAIN rows[k] = {}
               /\ camp[k].counts = NoCounts /\ camp[k].ledger = NoLedger
    BY DEF Init
  <2>3. drifts = 0
    BY DEF Init
  <2> QED BY <2>1, <2>2, <2>3 DEF Books, Book
<1> QED BY <1>1, BooksNext, ReleaseInvariant, PTL DEF Spec

\* The campaign row, the result rows and the audit of model calls agree, whatever
\* ended the units, as long as the audit has not changed (settle_run_budget, the
\* collector's persist and the reconciliation of the report).
THEOREM BooksReconcile == Spec => []LedgerReconciles
<1>1. ASSUME Release, Books PROVE LedgerReconciles
  <2> SUFFICES ASSUME NEW k \in Kind, drifts = 0
               PROVE  Mismatches(DecisionInput(k)) \subseteq {"orphans"}
    BY DEF LedgerReconciles
  <2> DEFINE in == DecisionInput(k)
             rs == rows[k]
  <2>1. in.counts = camp[k].counts /\ in.ledger = camp[k].ledger /\ in.results = rs
    BY DEF DecisionInput
  <2>2. /\ camp[k].counts = CountsOf(rs) /\ camp[k].ledger = LedgerOf(rs)
        /\ \A i \in DOMAIN rs : Kept(rs[i])
    BY <1>1, BooksBefore DEF Release
  <2>3. DerivedCounts(in) = CountsOf(rs) /\ DerivedLedger(in) = LedgerOf(rs)
    BY DerivedIsBooked
  <2>4. \A i \in DOMAIN rs : Audited(rs[i])
    BY <1>1 DEF Books
  <2> HIDE DEF in, rs
  <2>5. /\ {f \in DOMAIN in.counts : in.counts[f] # DerivedCounts(in)[f]} = {}
        /\ {f \in DOMAIN in.ledger : in.ledger[f] # DerivedLedger(in)[f]} = {}
    BY <2>1, <2>2, <2>3
  <2>6. {j \in WithReservation(in, "SETTLED") :
            ~(IF At(in, j).run THEN AgreesWithAudit(At(in, j))
                               ELSE UnknownOutbound(At(in, j)))} = {}
    <3>1. ASSUME NEW j \in DOMAIN rs, rs[j].resv = "SETTLED"
          PROVE  IF rs[j].run THEN AgreesWithAudit(rs[j]) ELSE UnknownOutbound(rs[j])
      <4>1. Kept(rs[j]) /\ Audited(rs[j])
        BY <2>2, <2>4
      <4> QED BY <3>1, <4>1 DEF Kept, Audited, TerminalResult
    <3> QED BY <2>1, <3>1, Zenon DEF WithReservation, Indices, At
  <2>7. {j \in TerminalOf(in) :
            /\ At(in, j).resv # "SETTLED"
            /\ At(in, j).state = "COLLECTED" \/ At(in, j).run} = {}
    BY <2>1, <2>2 DEF TerminalOf, Indices, At, Kept, TerminalResult
  <2> DEFINE A == {j \in WithReservation(in, "SETTLED") :
                    ~(IF At(in, j).run THEN AgreesWithAudit(At(in, j))
                                       ELSE UnknownOutbound(At(in, j)))}
             B == {j \in TerminalOf(in) :
                    /\ At(in, j).resv # "SETTLED"
                    /\ At(in, j).state = "COLLECTED" \/ At(in, j).run}
             C == {f \in DOMAIN in.counts : in.counts[f] # DerivedCounts(in)[f]}
             D == {f \in DOMAIN in.ledger : in.ledger[f] # DerivedLedger(in)[f]}
  <2>8. Mismatches(in) = C \cup D \cup {<<i, "settlement">> : i \in A}
            \cup {<<i, "unsettled">> : i \in B}
            \cup (IF Orphans(in) = {} THEN {} ELSE {"orphans"})
    BY Zenon DEF Mismatches
  <2>9. A = {} /\ B = {} /\ C = {} /\ D = {}
    BY <2>5, <2>6, <2>7, Zenon
  <2> HIDE DEF A, B, C, D
  <2>10. Mismatches(in) \subseteq {"orphans"}
    BY <2>8, <2>9
  <2> QED BY <2>10 DEF in
<1> QED BY <1>1, BooksInvariant, ReleaseInvariant, PTL
=============================================================================

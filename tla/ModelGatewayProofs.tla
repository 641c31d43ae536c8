------------------------- MODULE ModelGatewayProofs -------------------------
(***************************************************************************)
(* What ModelGateway promises for every set of steps, every budget and any  *)
(* number of attempts, retries and lost workers.                            *)
(*                                                                          *)
(* PaidOnce is not inductive.  It holds because an execution whose attempt  *)
(* is no longer open finds its call sealed (Fenced), so that only the one   *)
(* execution of the open attempt (OneGen) can complete a call, and that one *)
(* saw no completed call with its key before it started its own (Fresh).    *)
(*                                                                          *)
(* ReuseIsExact rests on it: while first requests are call 1, every repair  *)
(* asks about the one completed call 1 and has a later number               *)
(* (RepairsAgree), so that a call number tells first requests from repairs. *)
(***************************************************************************)
EXTENDS ModelGateway, FiniteSetTheorems, TLAPS

Unique == \A r, q \in rows : r.id = q.id => r = q

OneGen == \A g, h \in gens : g.step = h.step /\ g.no = h.no => g = h

OpenIsRunning == \A s \in Steps : step[s].open => step[s].status = "RUNNING"

\* An execution that waits for the provider holds its call only while its
\* attempt is open.
Fenced(g) ==
    g.at \in {"provider", "complete"} =>
        \A r \in rows : r.id = LastId(g) /\ r.status = "STARTED" => Holds(g)

\* No completed call has the key of the call that g will make or has made.
NoneWithKey(g, n) ==
    \A r \in rows : ~(r.id[1] = g.step /\ r.id[3] = n /\ r.status = "COMPLETED")

Fresh(g) ==
    Holds(g) =>
        /\ g.at = "start" => NoneWithKey(g, CallNo(g))
        /\ g.at \in {"provider", "complete"} => NoneWithKey(g, g.base + g.calls)

Sound(g) ==
    /\ g.no <= step[g.step].no
    /\ g.at = "takeOver" => g.found \in Completed
    /\ g.at \in {"parse", "returned"} => g.answer \in Completed

Good(g) == Fenced(g) /\ Fresh(g) /\ Sound(g)

AllGood == \A g \in gens : Good(g)

Counted ==
    /\ IsFiniteSet(Called) /\ IsFiniteSet(Completed)
    /\ usage.calls = Cardinality(Called)
    /\ usage.calls <= MaxLlmCalls
    /\ usage.tokens = Cardinality(Completed)

Table == Unique /\ PaidOnce /\ Counted

Inv == TypeOK /\ Table /\ OneGen /\ OpenIsRunning /\ AllGood

-----------------------------------------------------------------------------
(***************************************************************************)
(* Types.                                                                   *)
(***************************************************************************)
\* What TypeOK says of the state, one record at a time.
LEMMA Fields ==
    ASSUME TypeOK
    PROVE  /\ \A g \in gens : g \in Gen
           /\ \A r \in rows : r \in Row
           /\ \A s \in Steps : step[s] \in Step
  BY DEF TypeOK

\* The parts of an execution and the calls it names.
LEMMA Numbers ==
    ASSUME NEW g \in Gen
    PROVE  /\ g.step \in Steps /\ g.no \in Nat /\ g.base \in Nat
           /\ g.calls \in Nat /\ g.try \in Nat
           /\ CallNo(g) \in Nat /\ NextId(g) \in CallId /\ LastId(g) \in CallId
           /\ g.request \in Answer /\ g.found \in Answer /\ g.answer \in Answer
  BY DEF Gen, CallNo, NextId, LastId, CallId

\* The state after a step is typed if its parts are.
LEMMA NowIsTyped ==
    ASSUME TypeOK, NEW g \in gens, NEW h \in Gen, Now(g, h)
    PROVE  gens' \subseteq Gen
  BY Fields DEF Now

\* The edits of an execution.
LEMMA GenEdits ==
    ASSUME NEW g \in Gen
    PROVE  /\ \A p \in Point : [g EXCEPT !.at = p] \in Gen
           /\ \A i \in Answer : [g EXCEPT !.at = "takeOver", !.found = i] \in Gen
           /\ \A i \in Answer : [g EXCEPT !.at = "parse", !.answer = i] \in Gen
           /\ [g EXCEPT !.at = "provider", !.calls = @ + 1] \in Gen
           /\ \A b \in BOOLEAN : [g EXCEPT !.at = "fail", !.again = b] \in Gen
           /\ [g EXCEPT !.at = "reuse", !.try = @ + 1] \in Gen
           /\ \A i \in Answer, n \in Nat :
                [g EXCEPT !.at = "reuse", !.request = i, !.base = n,
                          !.calls = 0, !.try = 0] \in Gen
<1>1. {"takeOver", "parse", "provider", "fail", "reuse"} \subseteq Point
  BY DEF Point
<1>2. \A p \in Point : [g EXCEPT !.at = p] \in Gen
  BY DEF Gen
<1>3. \A i \in Answer : [g EXCEPT !.at = "takeOver", !.found = i] \in Gen
  BY <1>1 DEF Gen
<1>4. \A i \in Answer : [g EXCEPT !.at = "parse", !.answer = i] \in Gen
  BY <1>1 DEF Gen
<1>5. [g EXCEPT !.at = "provider", !.calls = @ + 1] \in Gen
  <2>1. \A n \in Nat : [g EXCEPT !.at = "provider", !.calls = n] \in Gen
    BY <1>1 DEF Gen
  <2>2. g.calls + 1 \in Nat
    BY DEF Gen
  <2> QED BY <2>1, <2>2
<1>6. \A b \in BOOLEAN : [g EXCEPT !.at = "fail", !.again = b] \in Gen
  BY <1>1 DEF Gen
<1>7. [g EXCEPT !.at = "reuse", !.try = @ + 1] \in Gen
  <2>1. \A n \in Nat : [g EXCEPT !.at = "reuse", !.try = n] \in Gen
    BY <1>1 DEF Gen
  <2>2. g.try + 1 \in Nat
    BY DEF Gen
  <2> QED BY <2>1, <2>2
<1>8. \A i \in Answer, n \in Nat :
        [g EXCEPT !.at = "reuse", !.request = i, !.base = n,
                  !.calls = 0, !.try = 0] \in Gen
  BY <1>1 DEF Gen
<1> QED BY <1>2, <1>3, <1>4, <1>5, <1>6, <1>7, <1>8

\* A sealed or completed call is a row.
LEMMA RowEdits ==
    ASSUME NEW r \in Row
    PROVE  /\ \A t \in InvocationStatus : [r EXCEPT !.status = t] \in Row
           /\ \A b \in BOOLEAN :
                [r EXCEPT !.status = "COMPLETED", !.parses = b] \in Row
  BY DEF Row, InvocationStatus

\* The edits of a step: claim, release, finalisation and the clock.
LEMMA StepEdits ==
    ASSUME NEW v \in Step
    PROVE  /\ [v EXCEPT !.status = "RUNNING", !.no = @ + 1, !.open = TRUE,
                        !.expired = FALSE] \in Step
           /\ \A t \in {"READY", "CLOSED"} :
                [v EXCEPT !.status = t, !.open = FALSE] \in Step
           /\ \A b \in BOOLEAN : [v EXCEPT !.expired = b] \in Step
           /\ [v EXCEPT !.late = TRUE, !.expired = TRUE] \in Step
<1>1. [v EXCEPT !.status = "RUNNING", !.no = @ + 1, !.open = TRUE,
                !.expired = FALSE] \in Step
  <2>1. \A n \in Nat : [v EXCEPT !.status = "RUNNING", !.no = n, !.open = TRUE,
                                  !.expired = FALSE] \in Step
    BY DEF Step
  <2>2. v.no + 1 \in Nat
    BY DEF Step
  <2> QED BY <2>1, <2>2
<1>2. \A t \in {"READY", "CLOSED"} :
        [v EXCEPT !.status = t, !.open = FALSE] \in Step
  BY DEF Step
<1>3. \A b \in BOOLEAN : [v EXCEPT !.expired = b] \in Step
  BY DEF Step
<1>4. [v EXCEPT !.late = TRUE, !.expired = TRUE] \in Step
  BY DEF Step
<1> QED BY <1>1, <1>2, <1>3, <1>4

\* Every step of the gateway, the step store and the reconciler keeps the shape of
\* the records.
THEOREM TypesAreKept == ASSUME TypeOK, [Next]_vars PROVE TypeOK'
<1> USE GatewayAssumption, Fields
<1>1. CASE UNCHANGED vars
  BY <1>1 DEF TypeOK, vars
<1>2. ASSUME NEW g \in gens, GenStep(g) PROVE TypeOK'
  <2>1. g \in Gen
    OBVIOUS
  <2>2. {"reuse", "takeOver", "start", "provider", "complete", "fail", "parse",
         "returned", "raised"} \subseteq Point
    BY DEF Point
  <2>3. ASSUME Raise(g) PROVE gens' \subseteq Gen
    <3>1. [g EXCEPT !.at = "raised"] \in Gen
      BY <2>1, <2>2, GenEdits
    <3> QED BY <2>3, <3>1 DEF Raise, Now
  <2>4. CASE OutOfTime(g)
    BY <2>3, <2>4 DEF OutOfTime, TypeOK
  <2>5. CASE FindSource(g)
    <3>1. \A r \in rows : r.id \in Answer
      BY DEF Row, Answer
    <3>2. gens' \subseteq Gen
      <4>1. \A r \in rows : [g EXCEPT !.at = "takeOver", !.found = r.id] \in Gen
        BY <2>1, <3>1, GenEdits
      <4>2. [g EXCEPT !.at = "start"] \in Gen
        BY <2>1, <2>2, GenEdits
      <4>3. \E h \in Gen : Now(g, h)
        BY <2>5, <4>1, <4>2 DEF FindSource, Sources
      <4> QED BY <4>3, NowIsTyped
    <3> QED BY <2>5, <3>2 DEF FindSource, TypeOK
  <2>6. CASE TakeOver(g)
    <3>1. g.found \in Answer /\ g.request \in Answer /\ NextId(g) \in CallId
      BY <2>1, Numbers
    <3>2. gens' \subseteq Gen
      BY <2>1, <2>6, <3>1, GenEdits DEF TakeOver, TypeOK, Now
    <3>3. [id |-> NextId(g), status |-> "REUSED", request |-> g.request,
           parses |-> FALSE, source |-> g.found] \in Row
      BY <3>1 DEF Row, InvocationStatus
    <3>4. rows' \subseteq Row
      BY <2>6, <3>3 DEF TakeOver, TypeOK
    <3> QED BY <2>6, <3>2, <3>4 DEF TakeOver, TypeOK
  <2>7. CASE Start(g)
    <3>1. g.request \in Answer /\ NextId(g) \in CallId /\ None \in Answer
      BY <2>1, Numbers DEF Answer
    <3>2. gens' \subseteq Gen
      BY <2>1, <2>7, GenEdits DEF Start, TypeOK, Now
    <3>3. [id |-> NextId(g), status |-> "STARTED", request |-> g.request,
           parses |-> FALSE, source |-> None] \in Row
      BY <3>1 DEF Row, InvocationStatus
    <3>4. rows' \subseteq Row
      BY <2>7, <3>3 DEF Start, TypeOK
    <3>5. usage' \in [calls : Nat, tokens : Nat]
      BY <2>7 DEF Start, TypeOK
    <3> QED BY <2>7, <3>2, <3>4, <3>5 DEF Start, TypeOK
  <2>8. CASE Refused(g)
    BY <2>3, <2>8 DEF Refused, TypeOK
  <2>9. CASE ProviderAnswers(g)
    BY <2>1, <2>2, <2>9, GenEdits DEF ProviderAnswers, TypeOK, Now
  <2>10. CASE ProviderFails(g)
    <3>1. (g.try < MaxRetries) \in BOOLEAN
      OBVIOUS
    <3>2. gens' \subseteq Gen
      BY <2>1, <2>10, <3>1, GenEdits DEF ProviderFails, TypeOK, Now
    <3> QED BY <2>10, <3>2 DEF ProviderFails, TypeOK
  <2>11. CASE Fail(g)
    <3>1. gens' \subseteq Gen
      <4>1. [g EXCEPT !.at = "reuse", !.try = @ + 1] \in Gen
        BY <2>1, GenEdits
      <4> QED BY <2>3, <2>11, <4>1 DEF Fail, Now
    <3>2. \A r \in rows : [r EXCEPT !.status = "FAILED"] \in Row
      BY RowEdits DEF InvocationStatus
    <3>3. rows' \subseteq Row
      BY <2>11, <3>2 DEF Fail, Seal, TypeOK
    <3> QED BY <2>11, <3>1, <3>3 DEF Fail, TypeOK
  <2>12. CASE Complete(g)
    <3>1. LastId(g) \in Answer
      BY <2>1, Numbers DEF Answer
    <3>2. gens' \subseteq Gen
      BY <2>1, <2>12, <3>1, GenEdits DEF Complete, TypeOK, Now
    <3>3. rows' \subseteq Row
      BY <2>12, RowEdits DEF Complete, TypeOK
    <3>4. usage' \in [calls : Nat, tokens : Nat]
      BY <2>12 DEF Complete, TypeOK
    <3> QED BY <2>12, <3>2, <3>3, <3>4 DEF Complete, TypeOK
  <2>13. CASE CompleteRefused(g)
    BY <2>3, <2>13 DEF CompleteRefused, TypeOK
  <2>14. CASE Parse(g)
    <3>1. RepairStart(g) \in Nat /\ g.answer \in Answer
      BY <2>1, Numbers DEF RepairStart
    <3>2. gens' \subseteq Gen
      <4>1. [g EXCEPT !.at = "reuse", !.request = g.answer,
                      !.base = RepairStart(g), !.calls = 0, !.try = 0] \in Gen
        BY <2>1, <3>1, GenEdits
      <4>2. [g EXCEPT !.at = "returned"] \in Gen
        BY <2>1, <2>2, GenEdits
      <4>3. Raise(g) \/ \E h \in Gen : Now(g, h)
        BY <2>14, <4>1, <4>2 DEF Parse
      <4> QED BY <2>3, <4>3, NowIsTyped
    <3> QED BY <2>14, <3>2 DEF Parse, TypeOK
  <2>15. CASE Finalise(g)
    <3>1. step' \in [Steps -> Step]
      <4>1. g.step \in Steps /\ step[g.step] \in Step
        BY <2>1, Numbers
      <4>2. CASE UNCHANGED step
        BY <4>2 DEF TypeOK
      <4>3. CASE \E t \in {"READY", "CLOSED"} :
                step' = [step EXCEPT ![g.step].status = t, ![g.step].open = FALSE]
        <5>1. PICK t \in {"READY", "CLOSED"} :
                step' = [step EXCEPT ![g.step] =
                            [step[g.step] EXCEPT !.status = t, !.open = FALSE]]
          BY <4>1, <4>3 DEF TypeOK
        <5> QED BY <4>1, <5>1, StepEdits DEF TypeOK
      <4> QED BY <2>15, <4>2, <4>3 DEF Finalise
    <3> QED BY <2>15, <3>1 DEF Finalise, TypeOK
  <2>16. CASE OperationCancelled(g)
    BY <2>3, <2>16 DEF OperationCancelled, TypeOK
  <2> QED BY <1>2, <2>4, <2>5, <2>6, <2>7, <2>8, <2>9, <2>10, <2>11, <2>12,
             <2>13, <2>14, <2>15, <2>16 DEF GenStep
<1>3. ASSUME NEW g \in gens, Renew(g) PROVE TypeOK'
  <2>1. g.step \in Steps /\ step[g.step] \in Step
    BY Numbers
  <2>2. step' = [step EXCEPT ![g.step] = [step[g.step] EXCEPT !.expired = FALSE]]
    BY <1>3, <2>1 DEF Renew, TypeOK
  <2>3. step' \in [Steps -> Step]
    BY <2>1, <2>2, StepEdits DEF TypeOK
  <2> QED BY <1>3, <2>3 DEF Renew, TypeOK
<1>4. ASSUME NEW g \in gens, WorkerLost(g) PROVE TypeOK'
  BY <1>4 DEF WorkerLost, TypeOK
<1>5. ASSUME NEW s \in Steps, Claim(s) PROVE TypeOK'
  <2>1. step' = [step EXCEPT ![s] = [step[s] EXCEPT !.status = "RUNNING",
                    !.no = @ + 1, !.open = TRUE, !.expired = FALSE]]
    BY <1>5 DEF Claim, TypeOK
  <2>2. step' \in [Steps -> Step]
    BY <2>1, StepEdits DEF TypeOK
  <2>3. step[s].no + 1 \in Nat
    BY DEF Step
  <2>4. [step |-> s, no |-> step[s].no + 1, at |-> "reuse",
         request |-> None, base |-> 0, calls |-> 0, try |-> 0,
         found |-> None, answer |-> None, again |-> FALSE] \in Gen
    BY <2>3 DEF Gen, Point, Answer
  <2>5. gens' \subseteq Gen
    BY <1>5, <2>4 DEF Claim, TypeOK
  <2> QED BY <1>5, <2>2, <2>5 DEF Claim, TypeOK
<1>6. ASSUME NEW s \in Steps, MakeReady(s) PROVE TypeOK'
  <2>1. step' = [step EXCEPT ![s] = [step[s] EXCEPT !.status = "READY",
                                                    !.open = FALSE]]
    BY <1>6 DEF MakeReady, TypeOK
  <2>2. step' \in [Steps -> Step]
    BY <2>1, StepEdits DEF TypeOK
  <2>3. \A r \in rows : Abandoned(r) \in Row
    BY RowEdits DEF Abandoned, InvocationStatus
  <2>4. rows' \subseteq Row
    BY <1>6, <2>3 DEF MakeReady
  <2> QED BY <1>6, <2>2, <2>4 DEF MakeReady, TypeOK
<1>7. ASSUME NEW s \in Steps, LeaseExpires(s) \/ DeadlinePasses(s) PROVE TypeOK'
  <2>1. \/ step' = [step EXCEPT ![s] = [step[s] EXCEPT !.expired = TRUE]]
        \/ step' = [step EXCEPT ![s] = [step[s] EXCEPT !.late = TRUE,
                                                       !.expired = TRUE]]
    BY <1>7 DEF LeaseExpires, DeadlinePasses, TypeOK
  <2>2. step' \in [Steps -> Step]
    BY <2>1, StepEdits DEF TypeOK
  <2> QED BY <1>7, <2>2 DEF LeaseExpires, DeadlinePasses, TypeOK
<1>8. ASSUME NEW r \in rows, SealOrphaned(r) PROVE TypeOK'
  <2>1. Abandoned(r) \in Row
    BY RowEdits DEF Abandoned, InvocationStatus
  <2> QED BY <1>8, <2>1 DEF SealOrphaned, TypeOK
<1>9. CASE RunEnds
  BY <1>9 DEF RunEnds, TypeOK
<1> QED BY <1>1, <1>2, <1>3, <1>4, <1>5, <1>6, <1>7, <1>8, <1>9 DEF Next

-----------------------------------------------------------------------------
(***************************************************************************)
(* What a change of the table leaves true of the executions.                *)
(***************************************************************************)
\* No call is opened, and no call is completed or forgotten.
Settles ==
    /\ \A r \in rows' : r.status = "STARTED" => r \in rows
    /\ \A r \in rows' : r.status = "COMPLETED" => r \in rows
    /\ Completed' = Completed

\* An execution that stays where it is stays good if the table only settles.
LEMMA GoodIsKept ==
    ASSUME NEW g, Good(g), Settles, UNCHANGED step
    PROVE  Good(g)'
<1>1. Holds(g)' <=> Holds(g)
  BY DEF Holds
<1>2. Fenced(g)'
  BY <1>1 DEF Good, Fenced, Settles, LastId
<1>3. \A n : NoneWithKey(g, n) => NoneWithKey(g, n)'
  BY DEF NoneWithKey, Settles
<1>4. Fresh(g)'
  BY <1>1, <1>3 DEF Good, Fresh, CallNo
<1>5. Sound(g)'
  BY DEF Good, Sound, Settles
<1> QED BY <1>2, <1>4, <1>5 DEF Good

\* An execution goes on while the others stay where they are.
LEMMA GenGoesOn ==
    ASSUME Inv, NEW g \in gens, NEW h \in Gen, Now(g, h),
           h.step = g.step, h.no = g.no, Good(h), Settles, Table',
           UNCHANGED step, TypeOK'
    PROVE  Inv'
<1>1. OneGen'
  BY DEF Inv, OneGen, Now
<1>2. OpenIsRunning'
  BY DEF Inv, OpenIsRunning
<1>3. ASSUME NEW x \in gens' PROVE Good(x)'
  <2>1. Good(x)
    BY DEF Inv, AllGood, Now
  <2> QED BY <2>1, GoodIsKept
<1>4. AllGood'
  BY <1>3 DEF AllGood
<1> QED BY <1>1, <1>2, <1>4 DEF Inv

\* The table stays in order if its rows and counters stay.
LEMMA TableIsKept ==
    ASSUME Inv, UNCHANGED <<rows, usage>>
    PROVE  Table' /\ Settles
<1>1. Called' = Called /\ Completed' = Completed
  BY DEF Called, Completed
<1>2. Counted'
  BY <1>1 DEF Inv, Table, Counted
<1> QED BY <1>1, <1>2 DEF Inv, Table, Unique, PaidOnce, Settles

\* Some open calls are sealed.
Sealing(S, t) ==
    rows' = {IF r \in S THEN [r EXCEPT !.status = t] ELSE r : r \in rows}

\* Sealing STARTED calls keeps the table in order.
LEMMA SealingSettles ==
    ASSUME Inv, NEW S, NEW t \in {"FAILED", "ABANDONED"},
           \A r \in rows : r \in S => r.status = "STARTED",
           Sealing(S, t), UNCHANGED usage
    PROVE  Table' /\ Settles
<1> DEFINE f(r) == IF r \in S THEN [r EXCEPT !.status = t] ELSE r
<1>1. \A r \in rows : r \in Row
  BY Fields DEF Inv
<1>2. \A r \in rows : f(r).id = r.id
  BY <1>1 DEF Row
<1>3. \A r \in rows :
        f(r) = r \/ (/\ r.status = "STARTED"
                     /\ f(r).status \notin {"STARTED", "COMPLETED", "REUSED"})
  <2>1. t \notin {"STARTED", "COMPLETED", "REUSED"}
    OBVIOUS
  <2> QED BY <1>1, <2>1 DEF Row
<1>4. rows' = {f(r) : r \in rows}
  BY DEF Sealing
<1> HIDE DEF f
<1>5. Unique'
  BY <1>2, <1>4 DEF Inv, Table, Unique
<1>6. \A r \in rows' : r.status \in {"STARTED", "COMPLETED"} => r \in rows
  BY <1>3, <1>4
<1>7. \A r \in rows : r.status = "COMPLETED" => r \in rows'
  BY <1>3, <1>4
<1>8. Completed' = Completed
  BY <1>6, <1>7 DEF Completed
<1>9. Called' = Called
  <2>1. \A r \in rows : f(r).status # "REUSED" <=> r.status # "REUSED"
    BY <1>3
  <2>2. ASSUME NEW i \in Called' PROVE i \in Called
    BY <1>2, <1>4, <2>1 DEF Called
  <2>3. ASSUME NEW i \in Called PROVE i \in Called'
    BY <1>2, <1>4, <2>1 DEF Called
  <2> QED BY <2>2, <2>3
<1>10. Counted'
  BY <1>8, <1>9 DEF Inv, Table, Counted
<1>11. PaidOnce'
  BY <1>6 DEF Inv, Table, PaidOnce
<1> QED BY <1>5, <1>6, <1>8, <1>10, <1>11 DEF Table, Settles

\* Sealing one call.
LEMMA SealOne ==
    ASSUME Inv, NEW r \in rows, r.status = "STARTED",
           NEW t \in {"FAILED", "ABANDONED"},
           rows' = (rows \ {r}) \cup {[r EXCEPT !.status = t]}, UNCHANGED usage
    PROVE  Table' /\ Settles
<1>1. Sealing({r}, t)
  BY DEF Sealing
<1> QED BY <1>1, SealingSettles

-----------------------------------------------------------------------------
(***************************************************************************)
(* The invariant is inductive.                                              *)
(***************************************************************************)
\* A step of generate that leaves the table alone.
LEMMA QuietStep ==
    ASSUME Inv, NEW g \in gens, NEW h \in Gen, Now(g, h),
           h.step = g.step, h.no = g.no, Good(h),
           UNCHANGED <<rows, usage, step>>, TypeOK'
    PROVE  Inv'
  BY TableIsKept, GenGoesOn

\* An execution that no longer deals with a call.
LEMMA RaisedIsGood ==
    ASSUME NEW g \in Gen, Good(g),
           NEW h, h.step = g.step, h.no = g.no,
           h.at \in {"raised", "reuse", "fail"}
    PROVE  Good(h)
  BY DEF Good, Fenced, Fresh, Sound

\* An exception that leaves generate keeps the invariant.
LEMMA RaiseIsQuiet ==
    ASSUME Inv, NEW g \in gens, Raise(g), UNCHANGED <<rows, usage, step>>, TypeOK'
    PROVE  Inv'
<1> DEFINE h == [g EXCEPT !.at = "raised"]
<1>1. g \in Gen /\ h \in Gen
  BY Fields, GenEdits DEF Inv, Point
<1>2. h.step = g.step /\ h.no = g.no /\ h.at = "raised"
  BY <1>1 DEF Gen
<1>3. Now(g, h)
  BY DEF Raise
<1> HIDE DEF h
<1>4. Good(h)
  BY <1>1, <1>2, RaisedIsGood DEF Inv, AllGood
<1> QED BY <1>1, <1>2, <1>3, <1>4, QuietStep

\* Looking for a call to reuse keeps the invariant.
LEMMA FindSourceStep ==
    ASSUME Inv, NEW g \in gens, FindSource(g), TypeOK'
    PROVE  Inv'
<1>1. g \in Gen /\ Good(g)
  BY Fields DEF Inv, AllGood
<1>2. CASE Sources(g) = {} /\ Now(g, [g EXCEPT !.at = "start"])
  <2> DEFINE h == [g EXCEPT !.at = "start"]
  <2>1. h \in Gen
    BY <1>1, GenEdits DEF Point
  <2>2. h.step = g.step /\ h.no = g.no /\ h.at = "start" /\ CallNo(h) = CallNo(g)
    BY <1>1 DEF Gen, CallNo
  <2>3. Now(g, h)
    BY <1>2
  <2> HIDE DEF h
  <2>4. NoneWithKey(h, CallNo(h))
    BY <1>2, <2>2 DEF NoneWithKey, Sources
  <2>5. Good(h)
    BY <1>1, <2>2, <2>4 DEF Good, Fenced, Fresh, Sound
  <2> QED BY <2>1, <2>2, <2>3, <2>5, QuietStep DEF FindSource
<1>3. ASSUME NEW r \in Sources(g),
             Now(g, [g EXCEPT !.at = "takeOver", !.found = r.id])
      PROVE  Inv'
  <2> DEFINE h == [g EXCEPT !.at = "takeOver", !.found = r.id]
  <2>1. r \in rows /\ r.id \in Completed /\ r.id \in Answer
    BY Fields DEF Inv, Sources, Completed, Row, Answer
  <2>2. h \in Gen
    BY <1>1, <2>1, GenEdits
  <2>3. h.step = g.step /\ h.no = g.no /\ h.at = "takeOver" /\ h.found = r.id
    BY <1>1 DEF Gen
  <2>4. Now(g, h)
    BY <1>3
  <2> HIDE DEF h
  <2>5. Good(h)
    BY <1>1, <2>1, <2>3 DEF Good, Fenced, Fresh, Sound
  <2> QED BY <2>2, <2>3, <2>4, <2>5, QuietStep DEF FindSource
<1> QED BY <1>2, <1>3 DEF FindSource

\* So do the steps of generate that only move on.
LEMMA QuietSteps ==
    ASSUME Inv, NEW g \in gens, TypeOK',
           \/ OutOfTime(g) \/ Refused(g) \/ CompleteRefused(g)
           \/ OperationCancelled(g) \/ ProviderAnswers(g) \/ ProviderFails(g)
           \/ Parse(g)
    PROVE  Inv'
<1>1. g \in Gen /\ Good(g)
  BY Fields DEF Inv, AllGood
<1>2. CASE OutOfTime(g) \/ Refused(g) \/ CompleteRefused(g) \/ OperationCancelled(g)
  BY <1>2, RaiseIsQuiet
     DEF OutOfTime, Refused, CompleteRefused, OperationCancelled
<1>3. CASE ProviderAnswers(g)
  <2> DEFINE h == [g EXCEPT !.at = "complete"]
  <2>1. h \in Gen
    BY <1>1, GenEdits DEF Point
  <2>2. /\ h.step = g.step /\ h.no = g.no /\ h.at = "complete"
        /\ h.base + h.calls = g.base + g.calls /\ LastId(h) = LastId(g)
    BY <1>1 DEF Gen, LastId
  <2>3. Now(g, h) /\ g.at = "provider"
    BY <1>3 DEF ProviderAnswers
  <2> HIDE DEF h
  <2>4. Holds(h) <=> Holds(g)
    BY <2>2 DEF Holds
  <2>5. Good(h)
    BY <1>1, <2>2, <2>3, <2>4 DEF Good, Fenced, Fresh, Sound, NoneWithKey
  <2> QED BY <1>3, <2>1, <2>2, <2>3, <2>5, QuietStep DEF ProviderAnswers
<1>4. CASE ProviderFails(g)
  <2>1. PICK again \in BOOLEAN : Now(g, [g EXCEPT !.at = "fail", !.again = again])
    <3>1. {FALSE, g.try < MaxRetries} \subseteq BOOLEAN
      OBVIOUS
    <3> QED BY <1>4, <3>1, Zenon DEF ProviderFails
  <2> DEFINE h == [g EXCEPT !.at = "fail", !.again = again]
  <2>2. h \in Gen
    BY <1>1, GenEdits
  <2>3. h.step = g.step /\ h.no = g.no /\ h.at = "fail"
    BY <1>1 DEF Gen
  <2>4. Now(g, h)
    BY <2>1
  <2> HIDE DEF h
  <2>5. Good(h)
    BY <1>1, <2>3, RaisedIsGood
  <2> QED BY <1>4, <2>2, <2>3, <2>4, <2>5, QuietStep DEF ProviderFails
<1>5. CASE Parse(g)
  <2>1. CASE Now(g, [g EXCEPT !.at = "returned"])
    <3> DEFINE h == [g EXCEPT !.at = "returned"]
    <3>1. h \in Gen
      BY <1>1, GenEdits DEF Point
    <3>2. h.step = g.step /\ h.no = g.no /\ h.at = "returned" /\ h.answer = g.answer
      BY <1>1 DEF Gen
    <3>3. Now(g, h) /\ g.at = "parse"
      BY <1>5, <2>1 DEF Parse
    <3> HIDE DEF h
    <3>4. Good(h)
      BY <1>1, <3>2, <3>3 DEF Good, Fenced, Fresh, Sound
    <3> QED BY <1>5, <3>1, <3>2, <3>3, <3>4, QuietStep DEF Parse
  <2>2. CASE Raise(g)
    BY <1>5, <2>2, RaiseIsQuiet DEF Parse
  <2>3. CASE Now(g, [g EXCEPT !.at = "reuse", !.request = g.answer,
                              !.base = RepairStart(g), !.calls = 0, !.try = 0])
    <3> DEFINE h == [g EXCEPT !.at = "reuse", !.request = g.answer,
                              !.base = RepairStart(g), !.calls = 0, !.try = 0]
    <3>1. RepairStart(g) \in Nat /\ g.answer \in Answer
      BY <1>1, Numbers DEF RepairStart
    <3>2. h \in Gen
      BY <1>1, <3>1, GenEdits
    <3>3. h.step = g.step /\ h.no = g.no /\ h.at = "reuse"
      BY <1>1 DEF Gen
    <3>4. Now(g, h)
      BY <2>3
    <3> HIDE DEF h
    <3>5. Good(h)
      BY <1>1, <3>3, RaisedIsGood
    <3> QED BY <1>5, <3>2, <3>3, <3>4, <3>5, QuietStep DEF Parse
  <2> QED BY <1>5, <2>1, <2>2, <2>3 DEF Parse
<1> QED BY <1>2, <1>3, <1>4, <1>5

\* Recording a failed call keeps the invariant.
LEMMA FailStep ==
    ASSUME Inv, NEW g \in gens, Fail(g), TypeOK'
    PROVE  Inv'
<1>1. g \in Gen /\ Good(g)
  BY Fields DEF Inv, AllGood
<1>2. Table' /\ Settles
  <2>1. PICK r \in rows :
            rows' = IF r.status = "STARTED" THEN Seal(r, "FAILED") ELSE rows
    BY DEF Fail
  <2>2. CASE r.status = "STARTED"
    <3>1. rows' = (rows \ {r}) \cup {[r EXCEPT !.status = "FAILED"]}
      BY <2>1, <2>2 DEF Seal
    <3> QED BY <2>2, <3>1, SealOne DEF Fail
  <2>3. CASE r.status # "STARTED"
    BY <2>1, <2>3, TableIsKept DEF Fail
  <2> QED BY <2>2, <2>3
<1>3. \E h \in Gen : Now(g, h) /\ h.step = g.step /\ h.no = g.no /\ Good(h)
  <2>1. \E h \in Gen : /\ Now(g, h) /\ h.step = g.step /\ h.no = g.no
                       /\ h.at \in {"raised", "reuse"}
    <3>1. [g EXCEPT !.at = "raised"] \in Gen
      BY <1>1, GenEdits DEF Point
    <3>2. [g EXCEPT !.at = "reuse", !.try = @ + 1] \in Gen
      BY <1>1, GenEdits
    <3>3. CASE g.again
      <4> DEFINE h == [g EXCEPT !.at = "reuse", !.try = @ + 1]
      <4>1. h.step = g.step /\ h.no = g.no /\ h.at = "reuse"
        BY <1>1 DEF Gen
      <4>2. Now(g, h)
        BY <3>3 DEF Fail
      <4> QED BY <3>2, <4>1, <4>2
    <3>4. CASE ~g.again
      <4> DEFINE h == [g EXCEPT !.at = "raised"]
      <4>1. h.step = g.step /\ h.no = g.no /\ h.at = "raised"
        BY <1>1 DEF Gen
      <4>2. Now(g, h)
        BY <3>4 DEF Fail, Raise
      <4> QED BY <3>1, <4>1, <4>2
    <3> QED BY <3>3, <3>4
  <2> QED BY <1>1, <2>1, RaisedIsGood
<1> QED BY <1>2, <1>3, GenGoesOn DEF Fail

\* Taking over the answer of an earlier attempt keeps the invariant.
LEMMA TakeOverStep ==
    ASSUME Inv, NEW g \in gens, TakeOver(g), TypeOK'
    PROVE  Inv'
<1> DEFINE h == [g EXCEPT !.at = "parse", !.answer = g.found]
           new == [id |-> NextId(g), status |-> "REUSED", request |-> g.request,
                   parses |-> FALSE, source |-> g.found]
<1>1. g \in Gen /\ Good(g)
  BY Fields DEF Inv, AllGood
<1>2. h \in Gen
  BY <1>1, Numbers, GenEdits
<1>3. h.step = g.step /\ h.no = g.no /\ h.at = "parse" /\ h.answer = g.found
  BY <1>1 DEF Gen
<1>4. Now(g, h) /\ g.at = "takeOver" /\ UNCHANGED <<step, usage>>
  BY DEF TakeOver
<1>5. Table' /\ Settles
  <2>1. CASE UNCHANGED rows
    BY <1>4, <2>1, TableIsKept
  <2>2. CASE ~Taken(NextId(g)) /\ rows' = rows \cup {new}
    <3>1. new.id = NextId(g) /\ new.status = "REUSED"
      OBVIOUS
    <3> HIDE DEF new
    <3>2. Unique'
      BY <2>2, <3>1 DEF Inv, Table, Unique, Taken
    <3>3. Called' = Called
      BY <2>2, <3>1 DEF Called
    <3>4. Completed' = Completed
      BY <2>2, <3>1 DEF Completed
    <3>5. PaidOnce'
      BY <2>2, <3>1 DEF Inv, Table, PaidOnce
    <3>6. Counted'
      BY <1>4, <3>3, <3>4 DEF Inv, Table, Counted
    <3> QED BY <2>2, <3>1, <3>2, <3>4, <3>5, <3>6 DEF Table, Settles
  <2> QED BY <2>1, <2>2 DEF TakeOver
<1> HIDE DEF h
<1>6. Good(h)
  BY <1>1, <1>3, <1>4 DEF Good, Fenced, Fresh, Sound
<1> QED BY <1>2, <1>3, <1>4, <1>5, <1>6, GenGoesOn

\* Two executions of the open attempt of a step are one.
LEMMA HolderIsUnique ==
    ASSUME Inv, NEW g \in gens, NEW x \in gens, Holds(g), Holds(x),
           x.step = g.step
    PROVE  x = g
  BY DEF Inv, OneGen, Holds

\* Reserving a call under the lock of the run keeps the invariant.
LEMMA StartStep ==
    ASSUME Inv, NEW g \in gens, Start(g), TypeOK'
    PROVE  Inv'
<1> DEFINE h == [g EXCEPT !.at = "provider", !.calls = @ + 1]
           new == [id |-> NextId(g), status |-> "STARTED", request |-> g.request,
                   parses |-> FALSE, source |-> None]
<1>1. g \in Gen /\ Good(g)
  BY Fields DEF Inv, AllGood
<1>2. h \in Gen
  BY <1>1, GenEdits
<1>3. /\ h.step = g.step /\ h.no = g.no /\ h.at = "provider"
      /\ h.base + h.calls = CallNo(g) /\ LastId(h) = NextId(g)
  BY <1>1 DEF Gen, CallNo, LastId, NextId
<1>4. /\ Now(g, h) /\ g.at = "start" /\ UNCHANGED step
      /\ rows' = rows \cup {new} /\ ~Taken(NextId(g)) /\ Holds(g)
      /\ usage' = [usage EXCEPT !.calls = @ + 1]
      /\ usage.calls + 1 <= MaxLlmCalls
  BY DEF Start, LockCurrent
<1>5. new.id = NextId(g) /\ new.status = "STARTED"
  OBVIOUS
<1> HIDE DEF h, new
<1>6. Called' = Called \cup {NextId(g)} /\ NextId(g) \notin Called
  BY <1>4, <1>5 DEF Called, Taken
<1>7. Completed' = Completed
  BY <1>4, <1>5 DEF Completed
<1>8. Table'
  <2>1. Unique'
    BY <1>4, <1>5 DEF Inv, Table, Unique, Taken
  <2>2. PaidOnce'
    BY <1>4, <1>5 DEF Inv, Table, PaidOnce
  <2>3. /\ IsFiniteSet(Called') /\ IsFiniteSet(Completed')
        /\ Cardinality(Called') = Cardinality(Called) + 1
    BY <1>6, <1>7, FS_AddElement DEF Inv, Table, Counted
  <2>4. /\ usage'.calls = usage.calls + 1 /\ usage'.tokens = usage.tokens
    BY <1>4 DEF Inv, TypeOK
  <2>5. Counted'
    BY <1>4, <1>7, <2>3, <2>4 DEF Inv, Table, Counted
  <2> QED BY <2>1, <2>2, <2>5 DEF Table
<1>9. \A y : Holds(y)' <=> Holds(y)
  BY <1>4 DEF Holds
<1>10. ASSUME NEW x \in gens \ {g} PROVE Good(x)'
  <2>1. Good(x)
    BY DEF Inv, AllGood
  <2>2. LastId(x) # NextId(g)
    BY DEF Inv, OneGen, LastId, NextId
  <2>3. Fenced(x)'
    BY <1>4, <1>5, <1>9, <2>1, <2>2 DEF Good, Fenced, LastId
  <2>4. \A n : NoneWithKey(x, n) => NoneWithKey(x, n)'
    BY <1>4, <1>5 DEF NoneWithKey
  <2>5. Fresh(x)'
    BY <1>9, <2>1, <2>4 DEF Good, Fresh, CallNo
  <2>6. Sound(x)'
    BY <1>4, <1>7, <2>1 DEF Good, Sound
  <2> QED BY <2>3, <2>5, <2>6 DEF Good
<1>11. Good(h)'
  <2>1. Holds(h)'
    BY <1>3, <1>4, <1>9 DEF Holds
  <2>2. NoneWithKey(h, CallNo(g))'
    BY <1>1, <1>3, <1>4, <1>5 DEF Good, Fresh, NoneWithKey
  <2> QED BY <1>1, <1>3, <1>4, <2>1, <2>2 DEF Good, Fenced, Fresh, Sound
<1>12. AllGood'
  BY <1>4, <1>10, <1>11 DEF AllGood, Now
<1>13. OneGen'
  BY <1>3, <1>4 DEF Inv, OneGen, Now
<1>14. OpenIsRunning'
  BY <1>4 DEF Inv, OpenIsRunning
<1> QED BY <1>8, <1>12, <1>13, <1>14 DEF Inv

\* Recording an answer keeps the invariant.
LEMMA CompleteStep ==
    ASSUME Inv, NEW g \in gens, Complete(g), TypeOK'
    PROVE  Inv'
<1>1. g \in Gen /\ Good(g)
  BY Fields DEF Inv, AllGood
<1>2. PICK r \in rows, ok \in BOOLEAN :
        /\ r.id = LastId(g) /\ r.status = "STARTED"
        /\ rows' = (rows \ {r}) \cup
                {[r EXCEPT !.status = "COMPLETED", !.parses = ok]}
  BY DEF Complete
<1> DEFINE h == [g EXCEPT !.at = "parse", !.answer = LastId(g)]
           done == [r EXCEPT !.status = "COMPLETED", !.parses = ok]
<1>3. h \in Gen
  BY <1>1, Numbers, GenEdits DEF Answer
<1>4. h.step = g.step /\ h.no = g.no /\ h.at = "parse" /\ h.answer = LastId(g)
  BY <1>1 DEF Gen
<1>5. /\ Now(g, h) /\ g.at = "complete" /\ UNCHANGED step
      /\ usage' = [usage EXCEPT !.tokens = @ + 1]
  BY DEF Complete
<1>6. done.id = LastId(g) /\ done.status = "COMPLETED"
  BY <1>2, Fields DEF Inv, Row
<1>7. rows' = (rows \ {r}) \cup {done}
  BY <1>2
<1> HIDE DEF h, done
<1>8. Holds(g)
  BY <1>1, <1>2, <1>5 DEF Good, Fenced
<1>9. \A q \in rows : q.id = LastId(g) => q = r
  BY <1>2 DEF Inv, Table, Unique
<1>10. Completed' = Completed \cup {LastId(g)} /\ LastId(g) \notin Completed
  BY <1>2, <1>6, <1>7, <1>9 DEF Completed
<1>11. Called' = Called
  BY <1>2, <1>6, <1>7 DEF Called
<1>12. LastId(g)[1] = g.step /\ LastId(g)[3] = g.base + g.calls
  BY DEF LastId
<1>13. NoneWithKey(g, g.base + g.calls)
  BY <1>1, <1>5, <1>8 DEF Good, Fresh
<1>14. Table'
  <2>1. Unique'
    BY <1>6, <1>7, <1>9 DEF Inv, Table, Unique
  <2>2. PaidOnce'
    <3>1. \A q \in rows \ {r} : q.status = "COMPLETED" =>
            ~(q.id[1] = done.id[1] /\ q.id[3] = done.id[3])
      BY <1>6, <1>12, <1>13 DEF NoneWithKey
    <3> QED BY <1>7, <3>1 DEF Inv, Table, PaidOnce
  <2>3. /\ IsFiniteSet(Called') /\ IsFiniteSet(Completed')
        /\ Cardinality(Completed') = Cardinality(Completed) + 1
    BY <1>10, <1>11, FS_AddElement DEF Inv, Table, Counted
  <2>4. /\ usage'.calls = usage.calls /\ usage'.tokens = usage.tokens + 1
    BY <1>5 DEF Inv, TypeOK
  <2>5. Counted'
    BY <1>11, <2>3, <2>4 DEF Inv, Table, Counted
  <2> QED BY <2>1, <2>2, <2>5 DEF Table
<1>15. \A y : Holds(y)' <=> Holds(y)
  BY <1>5 DEF Holds
<1>16. ASSUME NEW x \in gens \ {g} PROVE Good(x)'
  <2>1. Good(x)
    BY DEF Inv, AllGood
  <2>2. Fenced(x)'
    BY <1>6, <1>7, <1>15, <2>1 DEF Good, Fenced, LastId
  <2>3. Fresh(x)'
    <3>1. SUFFICES ASSUME Holds(x)
                   PROVE \A n : NoneWithKey(x, n) => NoneWithKey(x, n)'
      BY <1>15, <2>1 DEF Good, Fresh, CallNo
    <3>2. x.step # g.step
      BY <1>8, <3>1, HolderIsUnique
    <3> QED BY <1>6, <1>7, <1>12, <3>2 DEF NoneWithKey
  <2>4. Sound(x)'
    BY <1>5, <1>10, <2>1 DEF Good, Sound
  <2> QED BY <2>2, <2>3, <2>4 DEF Good
<1>17. Good(h)'
  BY <1>1, <1>4, <1>5, <1>10 DEF Good, Fenced, Fresh, Sound
<1>18. AllGood'
  BY <1>5, <1>16, <1>17 DEF AllGood, Now
<1>19. OneGen'
  BY <1>4, <1>5 DEF Inv, OneGen, Now
<1>20. OpenIsRunning'
  BY <1>5 DEF Inv, OpenIsRunning
<1> QED BY <1>14, <1>18, <1>19, <1>20 DEF Inv

\* The calls and their counters stay, the leases and attempts move.
LEMMA StepMoves ==
    ASSUME Inv, NEW s \in Steps, TypeOK', UNCHANGED <<rows, usage>>,
           \A t \in Steps \ {s} : step'[t] = step[t],
           step'[s].no = step[s].no,
           step'[s].open => step[s].open /\ step'[s].status = step[s].status,
           gens' \subseteq gens,
           \A x \in gens' : x.step = s /\ Holds(x) => step'[s].open
    PROVE  Inv'
<1>1. Table' /\ Settles
  BY TableIsKept
<1>2. \A x \in gens' : x.step \in Steps
  BY Fields, Numbers DEF Inv
<1>3. OneGen'
  BY DEF Inv, OneGen
<1>4. OpenIsRunning'
  BY DEF Inv, OpenIsRunning
<1>5. ASSUME NEW x \in gens' PROVE Good(x)'
  <2>1. Good(x)
    BY DEF Inv, AllGood
  <2>2. Holds(x)' <=> Holds(x)
    BY <1>2 DEF Holds
  <2>3. Fenced(x)'
    BY <2>1, <2>2 DEF Good, Fenced, LastId
  <2>4. Fresh(x)'
    BY <2>1, <2>2 DEF Good, Fresh, NoneWithKey, CallNo
  <2>5. Sound(x)'
    BY <1>1, <1>2, <2>1 DEF Good, Sound, Settles
  <2> QED BY <2>3, <2>4, <2>5 DEF Good
<1> QED BY <1>1, <1>3, <1>4, <1>5 DEF Inv, AllGood

\* Finalising an attempt keeps the invariant.
LEMMA FinaliseStep ==
    ASSUME Inv, NEW g \in gens, Finalise(g), TypeOK'
    PROVE  Inv'
<1>1. g.step \in Steps /\ step[g.step] \in Step /\ step \in [Steps -> Step]
  BY Fields, Numbers DEF Inv, TypeOK
<1>2. gens' = gens \ {g} /\ UNCHANGED <<rows, usage>>
  BY DEF Finalise
<1>3. CASE UNCHANGED step
  BY <1>1, <1>2, <1>3, StepMoves DEF Holds
<1>4. ASSUME Holds(g), NEW t,
             step' = [step EXCEPT ![g.step].status = t, ![g.step].open = FALSE]
      PROVE  Inv'
  <2>1. step' = [step EXCEPT ![g.step] =
                    [step[g.step] EXCEPT !.status = t, !.open = FALSE]]
    BY <1>1, <1>4
  <2>2. step'[g.step].no = step[g.step].no /\ step'[g.step].open = FALSE
    BY <1>1, <2>1 DEF Step
  <2>3. \A x \in gens' : x.step = g.step => ~Holds(x)
    BY <1>2, <1>4, HolderIsUnique
  <2> QED BY <1>1, <1>2, <2>1, <2>2, <2>3, StepMoves
<1> QED BY <1>3, <1>4 DEF Finalise

\* The clock and a renewal keep the invariant.
LEMMA ClockStep ==
    ASSUME Inv, NEW s \in Steps, TypeOK',
           LeaseExpires(s) \/ DeadlinePasses(s)
           \/ \E g \in gens : g.step = s /\ Renew(g)
    PROVE  Inv'
<1>1. step[s] \in Step /\ step \in [Steps -> Step]
  BY Fields DEF Inv, TypeOK
<1>2. UNCHANGED <<rows, usage, gens>>
  BY DEF LeaseExpires, DeadlinePasses, Renew
<1>3. \/ step' = [step EXCEPT ![s] = [step[s] EXCEPT !.expired = TRUE]]
      \/ step' = [step EXCEPT ![s] = [step[s] EXCEPT !.expired = FALSE]]
      \/ step' = [step EXCEPT ![s] = [step[s] EXCEPT !.late = TRUE, !.expired = TRUE]]
  BY <1>1 DEF LeaseExpires, DeadlinePasses, Renew
<1>4. /\ step'[s].no = step[s].no /\ step'[s].open = step[s].open
      /\ step'[s].status = step[s].status
      /\ \A t \in Steps \ {s} : step'[t] = step[t]
  <2>1. \A b \in BOOLEAN :
            /\ [step[s] EXCEPT !.expired = b].no = step[s].no
            /\ [step[s] EXCEPT !.expired = b].open = step[s].open
            /\ [step[s] EXCEPT !.expired = b].status = step[s].status
    BY <1>1 DEF Step
  <2>2. /\ [step[s] EXCEPT !.late = TRUE, !.expired = TRUE].no = step[s].no
        /\ [step[s] EXCEPT !.late = TRUE, !.expired = TRUE].open = step[s].open
        /\ [step[s] EXCEPT !.late = TRUE, !.expired = TRUE].status = step[s].status
    BY <1>1 DEF Step
  <2>3. /\ \E z : step' = [step EXCEPT ![s] = z]
        /\ \/ step'[s] = [step[s] EXCEPT !.expired = TRUE]
           \/ step'[s] = [step[s] EXCEPT !.expired = FALSE]
           \/ step'[s] = [step[s] EXCEPT !.late = TRUE, !.expired = TRUE]
    BY <1>1, <1>3
  <2>4. \A t \in Steps \ {s} : step'[t] = step[t]
    BY <1>1, <2>3
  <2> QED BY <2>1, <2>2, <2>3, <2>4
<1> QED BY <1>2, <1>4, StepMoves DEF Holds

\* Claiming a step keeps the invariant.
LEMMA ClaimStep ==
    ASSUME Inv, NEW s \in Steps, Claim(s), TypeOK'
    PROVE  Inv'
<1>1. step[s] \in Step /\ step \in [Steps -> Step] /\ step[s].no \in Nat
  BY Fields DEF Inv, TypeOK, Step
<1>2. UNCHANGED <<rows, usage>>
  BY DEF Claim
<1>3. /\ step'[s].no = step[s].no + 1 /\ step'[s].status = "RUNNING"
      /\ \A t \in Steps \ {s} : step'[t] = step[t]
  BY <1>1 DEF Claim, Step
<1>4. PICK new : /\ gens' = gens \cup {new}
                 /\ new.step = s /\ new.no = step[s].no + 1 /\ new.at = "reuse"
  <2> DEFINE n == [step |-> s, no |-> step[s].no + 1, at |-> "reuse",
                   request |-> None, base |-> 0, calls |-> 0, try |-> 0,
                   found |-> None, answer |-> None, again |-> FALSE]
  <2>1. gens' = gens \cup {n}
    BY DEF Claim
  <2>2. n.step = s /\ n.no = step[s].no + 1 /\ n.at = "reuse"
    OBVIOUS
  <2> QED BY <2>1, <2>2
<1>5. Table' /\ Settles
  BY <1>2, TableIsKept
<1>6. ~step[s].open
  BY DEF Claim, Inv, OpenIsRunning
<1>7. \A x \in gens : x.step \in Steps /\ x.no \in Nat /\ x.no <= step[x.step].no
  BY Fields, Numbers DEF Inv, AllGood, Good, Sound
<1>8. OneGen'
  BY <1>1, <1>4, <1>7 DEF Inv, OneGen
<1>9. OpenIsRunning'
  BY <1>3 DEF Inv, OpenIsRunning
<1>10. ASSUME NEW x \in gens PROVE Good(x)'
  <2>1. Good(x)
    BY DEF Inv, AllGood
  <2>2. Holds(x)' <=> Holds(x)
    BY <1>1, <1>3, <1>6, <1>7 DEF Holds
  <2>3. Fenced(x)'
    BY <1>2, <2>1, <2>2 DEF Good, Fenced, LastId
  <2>4. Fresh(x)'
    BY <1>2, <2>1, <2>2 DEF Good, Fresh, NoneWithKey, CallNo
  <2>5. x.no <= step'[x.step].no
    BY <1>1, <1>3, <1>7
  <2>6. Sound(x)'
    BY <1>5, <2>1, <2>5 DEF Good, Sound, Settles
  <2> QED BY <2>3, <2>4, <2>6 DEF Good
<1>11. Good(new)'
  BY <1>1, <1>3, <1>4 DEF Good, Fenced, Fresh, Sound
<1> QED BY <1>4, <1>5, <1>8, <1>9, <1>10, <1>11 DEF Inv, AllGood

\* Releasing an expired attempt, with its calls, keeps the invariant.
LEMMA MakeReadyStep ==
    ASSUME Inv, NEW s \in Steps, MakeReady(s), TypeOK'
    PROVE  Inv'
<1> DEFINE S == {r \in rows : r.id[1] = s /\ r.id[2] = step[s].no
                              /\ r.status = "STARTED"}
<1>1. step[s] \in Step /\ step \in [Steps -> Step]
  BY Fields DEF Inv, TypeOK
<1>2. UNCHANGED <<usage, gens>>
  BY DEF MakeReady
<1>3. /\ step'[s].no = step[s].no /\ step'[s].open = FALSE
      /\ \A t \in Steps \ {s} : step'[t] = step[t]
  BY <1>1 DEF MakeReady, Step
<1>4. Sealing(S, "ABANDONED")
  BY DEF MakeReady, Sealing, Abandoned
<1>5. Table' /\ Settles
  BY <1>2, <1>4, SealingSettles
<1>6. \A r \in rows' : r.status = "STARTED" => r \in rows /\ r \notin S
  <2>1. \A r \in S : [r EXCEPT !.status = "ABANDONED"].status = "ABANDONED"
    BY Fields DEF Inv, Row
  <2> QED BY <1>4, <2>1 DEF Sealing
<1>7. OneGen'
  BY <1>2 DEF Inv, OneGen
<1>8. OpenIsRunning'
  BY <1>3 DEF Inv, OpenIsRunning
<1>9. ASSUME NEW x \in gens PROVE Good(x)'
  <2>1. Good(x) /\ x.step \in Steps
    BY Fields, Numbers DEF Inv, AllGood
  <2>2. Holds(x)' <=> Holds(x) /\ x.step # s
    BY <1>3, <2>1 DEF Holds
  <2>3. Fenced(x)'
    <3>1. SUFFICES ASSUME x.at \in {"provider", "complete"}, NEW r \in rows',
                          r.id = LastId(x), r.status = "STARTED"
                   PROVE  Holds(x)'
      BY DEF Fenced, LastId
    <3>2. r \in rows /\ r \notin S
      BY <1>6, <3>1
    <3>3. Holds(x)
      BY <2>1, <3>1, <3>2 DEF Good, Fenced
    <3>4. r.id[1] = x.step /\ r.id[2] = x.no
      BY <3>1 DEF LastId
    <3>5. x.step # s
      BY <3>1, <3>2, <3>3, <3>4 DEF Holds
    <3> QED BY <2>2, <3>3, <3>5
  <2>4. \A n : NoneWithKey(x, n) => NoneWithKey(x, n)'
    BY <1>5 DEF NoneWithKey, Settles
  <2>5. Fresh(x)'
    BY <2>1, <2>2, <2>4 DEF Good, Fresh, CallNo
  <2>6. Sound(x)'
    BY <1>3, <1>5, <2>1 DEF Good, Sound, Settles
  <2> QED BY <2>3, <2>5, <2>6 DEF Good
<1> QED BY <1>2, <1>5, <1>7, <1>8, <1>9 DEF Inv, AllGood

\* Sealing an orphaned call keeps the invariant.
LEMMA SealOrphanedStep ==
    ASSUME Inv, NEW r \in rows, SealOrphaned(r), TypeOK'
    PROVE  Inv'
<1>1. UNCHANGED <<usage, gens, step>> /\ r.status = "STARTED"
  BY DEF SealOrphaned, Orphaned
<1>2. rows' = (rows \ {r}) \cup {[r EXCEPT !.status = "ABANDONED"]}
  BY DEF SealOrphaned, Abandoned
<1>3. Table' /\ Settles
  BY <1>1, <1>2, SealOne
<1>4. AllGood'
  BY <1>1, <1>3, GoodIsKept DEF Inv, AllGood
<1> QED BY <1>1, <1>3, <1>4 DEF Inv, OneGen, OpenIsRunning

\* Every step keeps the invariant.
LEMMA Inductive ==
    ASSUME Inv, [Next]_vars
    PROVE  Inv'
<1>1. TypeOK'
  BY TypesAreKept DEF Inv
<1>2. ASSUME NEW g \in gens, GenStep(g) PROVE Inv'
  BY <1>1, <1>2, FindSourceStep, QuietSteps, FailStep, TakeOverStep, StartStep,
     CompleteStep, FinaliseStep DEF GenStep
<1>3. ASSUME NEW g \in gens, Renew(g) PROVE Inv'
  <2>1. g.step \in Steps
    BY Fields, Numbers DEF Inv
  <2> QED BY <1>1, <1>3, <2>1, ClockStep
<1>4. ASSUME UNCHANGED <<rows, usage, step>>, gens' \subseteq gens PROVE Inv'
  <2>1. Table' /\ Settles
    BY <1>4, TableIsKept
  <2>2. AllGood'
    BY <1>4, <2>1, GoodIsKept DEF Inv, AllGood
  <2> QED BY <1>1, <1>4, <2>1, <2>2 DEF Inv, OneGen, OpenIsRunning
<1>5. ASSUME NEW g \in gens, WorkerLost(g) PROVE Inv'
  BY <1>4, <1>5 DEF WorkerLost
<1>6. ASSUME NEW s \in Steps,
             Claim(s) \/ MakeReady(s) \/ LeaseExpires(s) \/ DeadlinePasses(s)
      PROVE  Inv'
  BY <1>1, <1>6, ClaimStep, MakeReadyStep, ClockStep
<1>7. ASSUME NEW r \in rows, SealOrphaned(r) PROVE Inv'
  BY <1>1, <1>7, SealOrphanedStep
<1>8. CASE RunEnds
  BY <1>4, <1>8 DEF RunEnds
<1>9. CASE UNCHANGED vars
  BY <1>4, <1>9 DEF vars
<1> QED BY <1>2, <1>3, <1>5, <1>6, <1>7, <1>8, <1>9 DEF Next

\* The invariant holds before the first claim.
LEMMA Initially == ASSUME Init PROVE Inv
<1>1. TypeOK
  <2>1. [status |-> "READY", no |-> 0, open |-> FALSE, expired |-> FALSE,
         late |-> FALSE] \in Step
    BY DEF Step
  <2>2. step \in [Steps -> Step]
    BY <2>1 DEF Init
  <2>3. usage \in [calls : Nat, tokens : Nat] /\ faults \in 0..MaxFaults
    BY GatewayAssumption DEF Init
  <2> QED BY <2>2, <2>3 DEF Init, TypeOK
<1>2. Called = {} /\ Completed = {}
  BY DEF Init, Called, Completed
<1>3. Counted
  BY <1>2, FS_EmptySet, GatewayAssumption DEF Init, Counted
<1>4. Unique /\ PaidOnce /\ OneGen /\ OpenIsRunning /\ AllGood
  BY DEF Init, Unique, PaidOnce, OneGen, OpenIsRunning, AllGood
<1> QED BY <1>1, <1>3, <1>4 DEF Inv, Table

\* The invariant holds in every behaviour of gateway, step store and reconciler.
THEOREM Invariance == Spec => []Inv
  BY Initially, Inductive, PTL DEF Spec

-----------------------------------------------------------------------------
(***************************************************************************)
(* What is reused was asked for.                                            *)
(***************************************************************************)
\* The calls that were made or taken over, with what they asked for.
Made == {[id |-> r.id, request |-> r.request] : r \in rows}

\* No attempt of the step had to try its first request twice.
Plain(s) == \A m \in Made : m.id[1] = s /\ m.request = None => m.id[3] = 1

\* The answer to the step's first request.
First(s, i) == i \in Completed /\ i[1] = s /\ i[3] = 1

\* All repairs of a plain step ask about the same answer, and are numbered
\* after its call.
RepairsAgree ==
    \A m \in Made : m.request # None /\ Plain(m.id[1]) =>
        m.id[3] >= 2 /\ First(m.id[1], m.request)

PastAttempts == \A m \in Made : m.id[2] <= step[m.id[1]].no

\* An execution that is in the middle of its call, or before it.
Calling == {"provider", "complete", "fail"}
Asking  == Calling \cup {"reuse", "takeOver", "start"}

\* Its call is on record with its request; its request is the step's or a
\* repair of the first answer; what it found or was answered has its call
\* number; and no call of its attempt is ahead of it.
Exact(g) ==
    /\ g.at \in Calling => g.calls > 0
    /\ g.calls > 0 => [id |-> LastId(g), request |-> g.request] \in Made
    /\ g.request = None => g.base = 0
    /\ g.request # None => g.base >= 1 /\ (Plain(g.step) => First(g.step, g.request))
    /\ g.at = "takeOver" => g.found[1] = g.step /\ g.found[3] = CallNo(g)
    /\ g.at = "parse" =>
        /\ g.answer[1] = g.step
        /\ Plain(g.step) => [id |-> g.answer, request |-> g.request] \in Made
    /\ g.at \in Asking /\ g.request = None =>
        \A m \in Made : m.id[1] = g.step /\ m.id[2] = g.no => m.id[3] <= g.calls

Reuse == RepairsAgree /\ PastAttempts /\ \A g \in gens : Exact(g)

\* No id of a call stands for no answer.
LEMMA NoneIsNoCall == None \notin CallId
<1>1. ASSUME NEW i \in CallId PROVE i # <<>>
  <2>1. PICK a \in Steps, b \in Nat, c \in Nat : i = <<a, b, c>>
    BY DEF CallId
  <2> QED BY <2>1
<1> QED BY <1>1 DEF None

\* Calls that are only sealed stay what they are.
LEMMA SameCalls ==
    ASSUME \A r \in rows : \E q \in rows' :
                /\ q.id = r.id /\ q.request = r.request
                /\ r.status = "COMPLETED" => q.status = "COMPLETED",
           \A q \in rows' : \E r \in rows : r.id = q.id /\ r.request = q.request
    PROVE  Made' = Made /\ Completed \subseteq Completed'
<1>1. ASSUME NEW m \in Made PROVE m \in Made'
  BY DEF Made
<1>2. ASSUME NEW m \in Made' PROVE m \in Made
  BY DEF Made
<1>3. ASSUME NEW i \in Completed PROVE i \in Completed'
  BY DEF Completed
<1> QED BY <1>1, <1>2, <1>3

\* The state of the calls is all that an execution's exactness rests on.
LEMMA ExactIsKept ==
    ASSUME NEW g, Exact(g), Made' = Made, Completed \subseteq Completed'
    PROVE  Exact(g)'
<1>1. \A s : Plain(s)' <=> Plain(s)
  BY DEF Plain
<1>2. \A s, i : First(s, i) => First(s, i)'
  BY DEF First
<1>3. CallNo(g)' = CallNo(g) /\ LastId(g)' = LastId(g)
  BY DEF CallNo, LastId
<1> QED BY <1>1, <1>2, <1>3 DEF Exact

\* An execution that moves on without asking for anything new.
LEMMA ExactMoves ==
    ASSUME NEW g, Exact(g), NEW h,
           h.step = g.step, h.no = g.no, h.request = g.request,
           h.base = g.base, h.calls = g.calls,
           h.at \in Calling => g.at \in Calling,
           h.at \in Asking => g.at \in Asking,
           h.at \notin {"takeOver", "parse"}
    PROVE  Exact(h)
<1>1. CallNo(h) = CallNo(g) /\ LastId(h) = LastId(g)
  BY DEF CallNo, LastId
<1> QED BY <1>1 DEF Exact

\* No call is made; executions move on or are gone.
LEMMA NoNewCall ==
    ASSUME Reuse, Made' = Made, Completed \subseteq Completed', TypeOK, TypeOK',
           \A s \in Steps : step[s].no <= step'[s].no,
           \A x \in gens' : x \in gens \/ Exact(x)
    PROVE  Reuse'
<1>1. \A s : Plain(s)' <=> Plain(s)
  BY DEF Plain
<1>2. \A s, i : First(s, i) => First(s, i)'
  BY DEF First
<1>3. RepairsAgree'
  BY <1>1, <1>2 DEF Reuse, RepairsAgree
<1>4. PastAttempts'
  <2> SUFFICES ASSUME NEW m \in Made PROVE m.id[2] <= step'[m.id[1]].no
    BY DEF PastAttempts
  <2>1. m.id[1] \in Steps /\ m.id[2] \in Nat
    BY DEF Made, TypeOK, Row, CallId
  <2>2. step[m.id[1]].no \in Nat /\ step'[m.id[1]].no \in Nat
    BY <2>1 DEF TypeOK, Step
  <2>3. m.id[2] <= step[m.id[1]].no /\ step[m.id[1]].no <= step'[m.id[1]].no
    BY <2>1 DEF Reuse, PastAttempts
  <2> QED BY <2>1, <2>2, <2>3
<1>5. \A x \in gens' : Exact(x)'
  BY ExactIsKept DEF Reuse
<1> QED BY <1>3, <1>4, <1>5 DEF Reuse

\* An execution moves on, the calls and their rows stay.
LEMMA OnlyMoves ==
    ASSUME Inv, Reuse, NEW g \in gens, NEW h, Now(g, h), Exact(h), TypeOK',
           UNCHANGED <<rows, step>>
    PROVE  Reuse'
<1>1. Made' = Made /\ Completed' = Completed
  BY DEF Made, Completed
<1>2. \A s \in Steps : step[s].no <= step'[s].no
  BY DEF Inv, TypeOK, Step
<1>3. \A x \in gens' : x \in gens \/ Exact(x)
  BY DEF Now
<1> QED BY <1>1, <1>2, <1>3, NoNewCall DEF Inv

\* Executions may go, and steps move.
LEMMA OnlySteps ==
    ASSUME Inv, Reuse, gens' \subseteq gens, TypeOK', UNCHANGED rows,
           \A s \in Steps : step[s].no <= step'[s].no
    PROVE  Reuse'
<1>1. Made' = Made /\ Completed' = Completed
  BY DEF Made, Completed
<1> QED BY <1>1, NoNewCall DEF Inv

\* The steps of generate that change no call.
LEMMA QuietReuse ==
    ASSUME Inv, Reuse, NEW g \in gens, TypeOK',
           \/ OutOfTime(g) \/ Refused(g) \/ CompleteRefused(g)
           \/ OperationCancelled(g) \/ ProviderAnswers(g) \/ ProviderFails(g)
           \/ FindSource(g) \/ Parse(g)
    PROVE  Reuse'
<1>1. g \in Gen /\ Exact(g) /\ Sound(g)
  BY Fields DEF Inv, Reuse, AllGood, Good
<1>2. UNCHANGED <<rows, step>>
  BY DEF OutOfTime, Refused, CompleteRefused, OperationCancelled, ProviderAnswers,
         ProviderFails, FindSource, Parse
<1>3. ASSUME NEW p \in Point, NEW b, Now(g, [g EXCEPT !.at = p, !.again = b]),
             p \in Calling => g.at \in Calling, p \in Asking => g.at \in Asking,
             p \notin {"takeOver", "parse"}
      PROVE  Reuse'
  <2> DEFINE h == [g EXCEPT !.at = p, !.again = b]
  <2>1. /\ h.step = g.step /\ h.no = g.no /\ h.request = g.request
        /\ h.base = g.base /\ h.calls = g.calls /\ h.at = p
    BY <1>1 DEF Gen
  <2>2. Now(g, h)
    BY <1>3
  <2> HIDE DEF h
  <2>3. Exact(h)
    BY <1>1, <1>3, <2>1, ExactMoves
  <2> QED BY <1>2, <2>2, <2>3, OnlyMoves
<1>4. \A p \in Point : [g EXCEPT !.at = p] = [g EXCEPT !.at = p, !.again = g.again]
  BY <1>1 DEF Gen
<1>5. ASSUME NEW p \in Point, Now(g, [g EXCEPT !.at = p]),
             p \in Calling => g.at \in Calling, p \in Asking => g.at \in Asking,
             p \notin {"takeOver", "parse"}
      PROVE  Reuse'
  BY <1>3, <1>4, <1>5
<1>6. CASE Raise(g)
  BY <1>5, <1>6 DEF Raise, Point, Calling, Asking
<1>7. CASE ProviderAnswers(g)
  BY <1>5, <1>7 DEF ProviderAnswers, Point, Calling, Asking
<1>8. CASE ProviderFails(g)
  <2>1. g.at = "provider" /\ \E b : Now(g, [g EXCEPT !.at = "fail", !.again = b])
    BY <1>8 DEF ProviderFails
  <2> QED BY <1>3, <2>1 DEF Point, Calling, Asking
<1>9. CASE FindSource(g)
  <2>1. CASE Now(g, [g EXCEPT !.at = "start"])
    BY <1>5, <1>9, <2>1 DEF FindSource, Point, Calling, Asking
  <2>2. ASSUME NEW r \in Sources(g), Now(g, [g EXCEPT !.at = "takeOver", !.found = r.id])
        PROVE  Reuse'
    <3> DEFINE h == [g EXCEPT !.at = "takeOver", !.found = r.id]
    <3>1. /\ h.step = g.step /\ h.no = g.no /\ h.request = g.request
          /\ h.base = g.base /\ h.calls = g.calls /\ h.at = "takeOver" /\ h.found = r.id
      BY <1>1 DEF Gen
    <3>2. Now(g, h)
      BY <2>2
    <3> HIDE DEF h
    <3>3. CallNo(h) = CallNo(g) /\ LastId(h) = LastId(g)
      BY <3>1 DEF CallNo, LastId
    <3>4. r.id[1] = g.step /\ r.id[3] = CallNo(g) /\ g.at = "reuse"
      BY <1>9 DEF Sources, FindSource
    <3>5. Exact(h)
      BY <1>1, <3>1, <3>3, <3>4 DEF Exact, Calling, Asking
    <3> QED BY <1>2, <3>2, <3>5, OnlyMoves
  <2> QED BY <1>9, <2>1, <2>2 DEF FindSource
<1>10. CASE Parse(g)
  <2>1. CASE Now(g, [g EXCEPT !.at = "returned"])
    BY <1>5, <2>1 DEF Point, Calling, Asking
  <2>2. CASE /\ g.request = None
             /\ Now(g, [g EXCEPT !.at = "reuse", !.request = g.answer,
                                 !.base = RepairStart(g), !.calls = 0, !.try = 0])
    <3> DEFINE h == [g EXCEPT !.at = "reuse", !.request = g.answer,
                              !.base = RepairStart(g), !.calls = 0, !.try = 0]
    <3>1. /\ h.step = g.step /\ h.no = g.no /\ h.request = g.answer
          /\ h.base = RepairStart(g) /\ h.calls = 0 /\ h.at = "reuse"
      BY <1>1 DEF Gen
    <3>2. Now(g, h)
      BY <2>2
    <3> HIDE DEF h
    <3>3. RepairStart(g) >= 1
      BY <1>1, Numbers DEF RepairStart
    <3>4. g.at = "parse" /\ g.answer \in Completed
      BY <1>1, <1>10 DEF Parse, Sound
    <3>5. g.answer # None
      BY <3>4, NoneIsNoCall, Fields DEF Completed, Row, Inv
    <3>6. Plain(g.step) => First(g.step, g.answer)
      BY <1>1, <2>2, <3>4 DEF Exact, Plain, First
    <3>7. Exact(h)
      BY <3>1, <3>3, <3>5, <3>6 DEF Exact, Calling
    <3> QED BY <1>2, <3>2, <3>7, OnlyMoves
  <2> QED BY <1>6, <1>10, <2>1, <2>2 DEF Parse
<1> QED BY <1>6, <1>7, <1>8, <1>9, <1>10
        DEF OutOfTime, Refused, CompleteRefused, OperationCancelled

\* A failed call keeps its request.
LEMMA FailReuse ==
    ASSUME Inv, Reuse, NEW g \in gens, TypeOK', Fail(g)
    PROVE  Reuse'
<1>1. g \in Gen /\ Exact(g)
  BY Fields DEF Inv, Reuse
<1>2. PICK r \in rows :
        rows' = IF r.status = "STARTED"
                THEN (rows \ {r}) \cup {[r EXCEPT !.status = "FAILED"]} ELSE rows
  BY DEF Fail, Seal
<1>3. Made' = Made /\ Completed \subseteq Completed'
  <2> DEFINE q == [r EXCEPT !.status = "FAILED"]
  <2>1. q.id = r.id /\ q.request = r.request
    BY Fields DEF Inv, Row
  <2> HIDE DEF q
  <2>2. CASE r.status = "STARTED" /\ rows' = (rows \ {r}) \cup {q}
    BY <2>1, <2>2, SameCalls
  <2>3. CASE rows' = rows
    BY <2>3 DEF Made, Completed
  <2> QED BY <1>2, <2>2, <2>3 DEF q
<1>4. PICK h : Now(g, h) /\ Exact(h)
  <2>1. ASSUME NEW h, h.step = g.step, h.no = g.no, h.request = g.request,
               h.base = g.base, h.calls = g.calls, h.at \in {"reuse", "raised"}
        PROVE  Exact(h)
    BY <1>1, <2>1, ExactMoves DEF Fail, Calling, Asking
  <2>2. CASE g.again
    <3> DEFINE h == [g EXCEPT !.at = "reuse", !.try = @ + 1]
    <3>1. /\ h.step = g.step /\ h.no = g.no /\ h.request = g.request
          /\ h.base = g.base /\ h.calls = g.calls /\ h.at = "reuse"
      BY <1>1 DEF Gen
    <3>2. Now(g, h)
      BY <2>2 DEF Fail
    <3> HIDE DEF h
    <3> QED BY <2>1, <3>1, <3>2
  <2>3. CASE ~g.again
    <3> DEFINE h == [g EXCEPT !.at = "raised"]
    <3>1. /\ h.step = g.step /\ h.no = g.no /\ h.request = g.request
          /\ h.base = g.base /\ h.calls = g.calls /\ h.at = "raised"
      BY <1>1 DEF Gen
    <3>2. Now(g, h)
      BY <2>3 DEF Fail, Raise
    <3> HIDE DEF h
    <3> QED BY <2>1, <3>1, <3>2
  <2> QED BY <2>2, <2>3
<1>5. \A s \in Steps : step[s].no <= step'[s].no
  BY DEF Fail, Inv, TypeOK, Step
<1> QED BY <1>3, <1>4, <1>5, NoNewCall DEF Inv, Now

\* A completed call is answered with its own request.
LEMMA CompleteReuse ==
    ASSUME Inv, Reuse, NEW g \in gens, TypeOK', Complete(g)
    PROVE  Reuse'
<1>1. g \in Gen /\ Exact(g)
  BY Fields DEF Inv, Reuse
<1>2. PICK r \in rows, ok \in BOOLEAN :
        /\ r.status = "STARTED"
        /\ rows' = (rows \ {r}) \cup {[r EXCEPT !.status = "COMPLETED", !.parses = ok]}
  BY DEF Complete
<1>3. Made' = Made /\ Completed \subseteq Completed'
  <2> DEFINE q == [r EXCEPT !.status = "COMPLETED", !.parses = ok]
  <2>1. q.id = r.id /\ q.request = r.request
    BY Fields DEF Inv, Row
  <2>2. rows' = (rows \ {r}) \cup {q}
    BY <1>2
  <2> HIDE DEF q
  <2> QED BY <1>2, <2>1, <2>2, SameCalls
<1> DEFINE h == [g EXCEPT !.at = "parse", !.answer = LastId(g)]
<1>4. /\ h.step = g.step /\ h.no = g.no /\ h.request = g.request
      /\ h.base = g.base /\ h.calls = g.calls /\ h.at = "parse" /\ h.answer = LastId(g)
  BY <1>1 DEF Gen
<1>5. Now(g, h) /\ g.at = "complete"
  BY DEF Complete
<1> HIDE DEF h
<1>6. CallNo(h) = CallNo(g) /\ LastId(h) = LastId(g) /\ LastId(g)[1] = g.step
  BY <1>4 DEF CallNo, LastId
<1>7. Exact(h)
  BY <1>1, <1>4, <1>5, <1>6 DEF Exact, Calling, Asking
<1>8. \A s \in Steps : step[s].no <= step'[s].no
  BY DEF Complete, Inv, TypeOK, Step
<1> QED BY <1>3, <1>5, <1>7, <1>8, NoNewCall DEF Inv, Now

\* A new call of an execution is the next of its attempt.
LEMMA NewCall ==
    ASSUME Inv, Reuse, NEW g \in gens, NEW m, NEW h, TypeOK',
           m.id = NextId(g), m.request = g.request, Holds(g),
           Made' = Made \cup {m}, Completed' = Completed, UNCHANGED step,
           Now(g, h), Exact(h)'
    PROVE  Reuse'
<1>1. g \in Gen /\ Exact(g)
  BY Fields DEF Inv, Reuse
<1>2. m.id[1] = g.step /\ m.id[2] = g.no /\ m.id[3] = CallNo(g)
  BY DEF NextId
<1>3. \A s : Plain(s)' => Plain(s)
  BY DEF Plain
<1>4. \A s, i : First(s, i)' <=> First(s, i)
  BY DEF First
<1>5. RepairsAgree'
  <2>1. m.request # None /\ Plain(g.step)' => CallNo(g) >= 2 /\ First(g.step, m.request)
    BY <1>1, <1>3, Numbers DEF Exact, CallNo
  <2>2. \A n \in Made : n.request # None /\ Plain(n.id[1])' =>
            n.id[3] >= 2 /\ First(n.id[1], n.request)'
    BY <1>3, <1>4 DEF Reuse, RepairsAgree
  <2> QED BY <1>2, <1>4, <2>1, <2>2 DEF RepairsAgree
<1>6. PastAttempts'
  <2>1. g.no <= step[g.step].no
    BY DEF Inv, AllGood, Good, Sound
  <2> QED BY <1>2, <2>1 DEF Reuse, PastAttempts
<1>7. ASSUME NEW x \in gens \ {g} PROVE Exact(x)'
  <2>1. Exact(x)
    BY DEF Reuse
  <2>2. CallNo(x)' = CallNo(x) /\ LastId(x)' = LastId(x)
    BY DEF CallNo, LastId
  <2>3. ~(m.id[1] = x.step /\ m.id[2] = x.no)
    BY <1>2 DEF Inv, OneGen
  <2> QED BY <1>3, <1>4, <2>1, <2>2, <2>3 DEF Exact
<1> QED BY <1>5, <1>6, <1>7 DEF Reuse, Now

\* A new call goes out with the request of its execution.
LEMMA StartReuse ==
    ASSUME Inv, Reuse, NEW g \in gens, TypeOK', Start(g)
    PROVE  Reuse'
<1> DEFINE h == [g EXCEPT !.at = "provider", !.calls = @ + 1]
           new == [id |-> NextId(g), status |-> "STARTED", request |-> g.request,
                   parses |-> FALSE, source |-> None]
           m == [id |-> NextId(g), request |-> g.request]
<1>1. g \in Gen /\ Exact(g) /\ g.calls \in Nat /\ g.base \in Nat
  BY Fields, Numbers DEF Inv, Reuse
<1>2. /\ h.step = g.step /\ h.no = g.no /\ h.request = g.request
      /\ h.base = g.base /\ h.calls = g.calls + 1 /\ h.at = "provider"
  BY <1>1 DEF Gen
<1>3. /\ Now(g, h) /\ g.at = "start" /\ UNCHANGED step
      /\ rows' = rows \cup {new} /\ Holds(g)
  BY DEF Start, LockCurrent
<1>4. new.id = NextId(g) /\ new.status = "STARTED" /\ new.request = g.request
  OBVIOUS
<1>5. m.id = NextId(g) /\ m.request = g.request /\ m = [id |-> new.id, request |-> new.request]
  OBVIOUS
<1>6. LastId(h) = NextId(g) /\ [id |-> LastId(h), request |-> h.request] = m
  BY <1>1, <1>2 DEF LastId, NextId, CallNo
<1> HIDE DEF h, new, m
<1>7. Made' = Made \cup {m}
  BY <1>3, <1>5 DEF Made
<1>8. Completed' = Completed
  BY <1>3, <1>4 DEF Completed
<1>9. m.id[1] = g.step /\ m.id[2] = g.no /\ m.id[3] = CallNo(g)
  BY <1>5 DEF NextId
<1>10. \A s : Plain(s)' => Plain(s)
  BY <1>7 DEF Plain
<1>11. \A s, i : First(s, i)' <=> First(s, i)
  BY <1>8 DEF First
<1>12. Exact(h)'
  <2>1. [id |-> LastId(h), request |-> h.request] \in Made'
    BY <1>6, <1>7
  <2>2. g.request = None => \A n \in Made' :
            n.id[1] = g.step /\ n.id[2] = g.no => n.id[3] <= g.calls + 1
    <3> SUFFICES ASSUME g.request = None, NEW n \in Made',
                        n.id[1] = g.step, n.id[2] = g.no
                 PROVE  n.id[3] <= g.calls + 1
      OBVIOUS
    <3>1. CASE n = m
      BY <1>1, <1>9, <3>1 DEF CallNo, Exact
    <3>2. CASE n \in Made
      <4>1. n.id[3] \in Nat
        BY <3>2 DEF Made, Inv, TypeOK, Row, CallId
      <4>2. n.id[3] <= g.calls
        BY <1>1, <1>3, <3>2 DEF Exact, Asking
      <4> QED BY <1>1, <4>1, <4>2
    <3> QED BY <1>7, <3>1, <3>2
  <2>3. h.calls > 0
    BY <1>1, <1>2
  <2>4. LastId(h)' = LastId(h) /\ CallNo(h)' = CallNo(h)
    BY DEF LastId, CallNo
  <2> QED BY <1>1, <1>2, <1>10, <1>11, <2>1, <2>2, <2>3, <2>4 DEF Exact, Calling
<1> QED BY <1>3, <1>5, <1>7, <1>8, <1>12, NewCall

\* What an execution finds for its call was asked for by the same request.
LEMMA FoundIsExact ==
    ASSUME Inv, Reuse, NEW g \in gens, g.at = "takeOver", Plain(g.step),
           g.request = None => CallNo(g) = 1
    PROVE  [id |-> g.found, request |-> g.request] \in Made
<1>1. g \in Gen /\ Exact(g) /\ Sound(g) /\ g.calls \in Nat /\ g.base \in Nat
  BY Fields, Numbers DEF Inv, Reuse, AllGood, Good
<1>2. PICK r \in rows : r.id = g.found /\ r.status = "COMPLETED"
  BY <1>1 DEF Sound, Completed
<1>3. r.id[1] = g.step /\ r.id[3] = CallNo(g)
  BY <1>1, <1>2 DEF Exact
<1> DEFINE f == [id |-> r.id, request |-> r.request]
<1>4. f \in Made /\ f.id = r.id /\ f.request = r.request
  BY DEF Made
<1> HIDE DEF f
<1>5. r.request # None => CallNo(g) >= 2 /\ First(g.step, r.request)
  BY <1>3, <1>4 DEF Reuse, RepairsAgree
<1>6. r.request = g.request
  <2>1. CASE g.request = None
    <3>1. ~(CallNo(g) >= 2)
      BY <2>1
    <3> QED BY <1>5, <2>1, <3>1
  <2>2. CASE g.request # None
    <3>1. First(g.step, g.request) /\ g.base >= 1
      BY <1>1, <2>2 DEF Exact
    <3>2. CallNo(g) # 1
      BY <1>1, <3>1 DEF CallNo
    <3>3. r.request # None
      BY <1>3, <1>4, <3>2 DEF Plain
    <3>4. PICK p \in rows : p.id = g.request /\ p.status = "COMPLETED"
      BY <3>1 DEF First, Completed
    <3>5. PICK q \in rows : q.id = r.request /\ q.status = "COMPLETED"
      BY <1>5, <3>3 DEF First, Completed
    <3>6. p.id[1] = q.id[1] /\ p.id[3] = q.id[3]
      BY <1>5, <3>1, <3>3, <3>4, <3>5 DEF First
    <3>7. p = q
      BY <3>4, <3>5, <3>6 DEF Inv, Table, PaidOnce
    <3> QED BY <3>4, <3>5, <3>7
  <2> QED BY <2>1, <2>2
<1> QED BY <1>2, <1>6 DEF Made

\* An answer that is taken over was given to the request it is taken for.
LEMMA TakeOverReuse ==
    ASSUME Inv, Reuse, NEW g \in gens, TypeOK', TakeOver(g)
    PROVE  Reuse'
<1> DEFINE h == [g EXCEPT !.at = "parse", !.answer = g.found]
           new == [id |-> NextId(g), status |-> "REUSED", request |-> g.request,
                   parses |-> FALSE, source |-> g.found]
           m == [id |-> NextId(g), request |-> g.request]
<1>1. g \in Gen /\ Exact(g) /\ g.calls \in Nat /\ g.base \in Nat
  BY Fields, Numbers DEF Inv, Reuse
<1>2. /\ h.step = g.step /\ h.no = g.no /\ h.request = g.request
      /\ h.base = g.base /\ h.calls = g.calls /\ h.at = "parse" /\ h.answer = g.found
  BY <1>1 DEF Gen
<1>3. Now(g, h) /\ g.at = "takeOver" /\ UNCHANGED step /\ Holds(g)
  BY DEF TakeOver, LockCurrent
<1>4. new.id = NextId(g) /\ new.status = "REUSED" /\ new.request = g.request
  OBVIOUS
<1>5. m.id = NextId(g) /\ m.request = g.request /\ m = [id |-> new.id, request |-> new.request]
  OBVIOUS
<1> HIDE DEF h
<1>6. CallNo(h) = CallNo(g) /\ LastId(h) = LastId(g) /\ g.found[1] = g.step
  BY <1>1, <1>2, <1>3 DEF CallNo, LastId, Exact
<1>7. ASSUME ~Taken(NextId(g)), rows' = rows \cup {new} PROVE Reuse'
  <2> HIDE DEF new, m
  <2>1. Made' = Made \cup {m}
    BY <1>5, <1>7 DEF Made
  <2>2. Completed' = Completed
    BY <1>4, <1>7 DEF Completed
  <2>3. m.id[1] = g.step /\ m.id[3] = CallNo(g)
    BY <1>5 DEF NextId
  <2>4. \A s : Plain(s)' => Plain(s)
    BY <2>1 DEF Plain
  <2>5. \A s, i : First(s, i)' <=> First(s, i)
    BY <2>2 DEF First
  <2>6. Plain(g.step)' /\ g.request = None => CallNo(g) = 1
    BY <1>5, <2>1, <2>3 DEF Plain
  <2>7. Plain(g.step)' => [id |-> g.found, request |-> g.request] \in Made'
    BY <1>3, <2>1, <2>4, <2>6, FoundIsExact
  <2>8. CallNo(h)' = CallNo(h) /\ LastId(h)' = LastId(h)
    BY DEF CallNo, LastId
  <2>9. Exact(h)'
    BY <1>1, <1>2, <1>6, <2>1, <2>4, <2>5, <2>7, <2>8 DEF Exact, Calling, Asking
  <2> QED BY <1>3, <1>5, <2>1, <2>2, <2>9, NewCall
<1>8. ASSUME Taken(NextId(g)), UNCHANGED rows PROVE Reuse'
  <2>1. g.request # None
    <3> SUFFICES ASSUME g.request = None PROVE FALSE
      OBVIOUS
    <3>1. PICK r \in rows : r.id = NextId(g)
      BY <1>8 DEF Taken
    <3>2. PICK n \in Made : n.id = NextId(g)
      <4> DEFINE n == [id |-> r.id, request |-> r.request]
      <4>1. n \in Made /\ n.id = r.id
        BY DEF Made
      <4> QED BY <3>1, <4>1
    <3>3. n.id[3] <= g.calls
      BY <1>1, <1>3, <3>2 DEF Exact, Asking, NextId
    <3>4. n.id[3] = g.calls + 1
      BY <1>1, <3>2 DEF Exact, NextId, CallNo
    <3> QED BY <1>1, <3>3, <3>4
  <2>2. Plain(g.step) => [id |-> g.found, request |-> g.request] \in Made
    BY <1>3, <2>1, FoundIsExact
  <2>3. Exact(h)
    BY <1>1, <1>2, <1>6, <2>2 DEF Exact, Calling, Asking
  <2> QED BY <1>3, <1>8, <2>3, OnlyMoves
<1> QED BY <1>7, <1>8 DEF TakeOver

\* The reconciler seals calls; it makes none.
LEMMA SealReuse ==
    ASSUME Inv, Reuse, TypeOK',
           \/ \E s \in Steps : MakeReady(s)
           \/ \E r \in rows : SealOrphaned(r)
    PROVE  Reuse'
<1>1. \A r \in rows : Abandoned(r).id = r.id /\ Abandoned(r).request = r.request
  BY Fields DEF Inv, Row, Abandoned
<1>2. gens' = gens
  BY DEF MakeReady, SealOrphaned
<1>3. ASSUME NEW s \in Steps, MakeReady(s) PROVE Reuse'
  <2>1. rows' = {IF r.id[1] = s /\ r.id[2] = step[s].no /\ r.status = "STARTED"
                 THEN Abandoned(r) ELSE r : r \in rows}
    BY <1>3 DEF MakeReady
  <2>2. Made' = Made /\ Completed \subseteq Completed'
    BY <1>1, <2>1, SameCalls
  <2>3. \A t \in Steps : step'[t].no = step[t].no /\ step[t].no \in Nat
    BY <1>3 DEF MakeReady, Inv, TypeOK, Step
  <2> QED BY <1>2, <2>2, <2>3, NoNewCall DEF Inv
<1>4. ASSUME NEW r \in rows, SealOrphaned(r) PROVE Reuse'
  <2>1. rows' = (rows \ {r}) \cup {Abandoned(r)} /\ r.status = "STARTED"
    BY <1>4 DEF SealOrphaned, Orphaned
  <2>2. Made' = Made /\ Completed \subseteq Completed'
    BY <1>1, <2>1, SameCalls
  <2>3. \A t \in Steps : step'[t].no = step[t].no /\ step[t].no \in Nat
    BY <1>4 DEF SealOrphaned, Inv, TypeOK, Step
  <2> QED BY <1>2, <2>2, <2>3, NoNewCall DEF Inv
<1> QED BY <1>3, <1>4

\* A new attempt begins with the request of the step.
LEMMA ClaimReuse ==
    ASSUME Inv, Reuse, TypeOK', NEW s \in Steps, Claim(s)
    PROVE  Reuse'
<1> DEFINE new == [step |-> s, no |-> step[s].no + 1, at |-> "reuse",
                   request |-> None, base |-> 0, calls |-> 0, try |-> 0,
                   found |-> None, answer |-> None, again |-> FALSE]
<1>1. /\ new.step = s /\ new.no = step[s].no + 1 /\ new.at = "reuse"
      /\ new.request = None /\ new.base = 0 /\ new.calls = 0
  OBVIOUS
<1>2. gens' = gens \cup {new} /\ UNCHANGED rows
  BY DEF Claim
<1> HIDE DEF new
<1>3. step[s].no \in Nat
  BY DEF Inv, TypeOK, Step
<1>4. \A n \in Made : n.id[1] = s => n.id[2] # new.no
  <2> SUFFICES ASSUME NEW n \in Made, n.id[1] = s PROVE n.id[2] # new.no
    OBVIOUS
  <2>1. n.id[2] \in Nat
    BY DEF Made, Inv, TypeOK, Row, CallId
  <2>2. n.id[2] <= step[s].no
    BY DEF Reuse, PastAttempts
  <2> QED BY <1>1, <1>3, <2>1, <2>2
<1>5. Exact(new)
  BY <1>1, <1>4 DEF Exact, Calling
<1>6. Made' = Made /\ Completed' = Completed
  BY <1>2 DEF Made, Completed
<1>7. \A t \in Steps : step[t].no <= step'[t].no
  BY DEF Claim, Inv, TypeOK, Step
<1> QED BY <1>2, <1>5, <1>6, <1>7, NoNewCall DEF Inv

\* Every step keeps the calls and requests in agreement.
LEMMA ReuseStep ==
    ASSUME Inv, Reuse, [Next]_vars
    PROVE  Reuse'
<1>1. TypeOK'
  BY TypesAreKept DEF Inv
<1>2. ASSUME NEW g \in gens, Finalise(g) \/ Renew(g) PROVE Reuse'
  <2>1. g.step \in Steps
    BY Fields, Numbers DEF Inv
  <2>2. gens' \subseteq gens /\ UNCHANGED rows
    BY <1>2 DEF Finalise, Renew
  <2>3. \A s \in Steps : step[s].no <= step'[s].no
    <3>1. step \in [Steps -> Step] /\ \A s \in Steps : step[s].no \in Nat
      BY DEF Inv, TypeOK, Step
    <3>2. \/ step' = step
          \/ \E t : step' = [step EXCEPT ![g.step].status = t, ![g.step].open = FALSE]
          \/ step' = [step EXCEPT ![g.step].expired = FALSE]
      BY <1>2 DEF Finalise, Renew
    <3>3. \A s \in Steps : step'[s].no = step[s].no
      <4>1. CASE step' = step
        BY <4>1
      <4>2. ASSUME NEW t, step' = [step EXCEPT ![g.step].status = t, ![g.step].open = FALSE]
            PROVE  \A s \in Steps : step'[s].no = step[s].no
        BY <2>1, <3>1, <4>2 DEF Step
      <4>3. CASE step' = [step EXCEPT ![g.step].expired = FALSE]
        BY <2>1, <3>1, <4>3 DEF Step
      <4> QED BY <3>2, <4>1, <4>2, <4>3
    <3> QED BY <3>1, <3>3
  <2> QED BY <1>1, <2>2, <2>3, OnlySteps
<1>3. ASSUME NEW g \in gens, GenStep(g) PROVE Reuse'
  BY <1>1, <1>2, <1>3, QuietReuse, FailReuse, CompleteReuse, StartReuse, TakeOverReuse
     DEF GenStep
<1>4. ASSUME NEW s \in Steps, LeaseExpires(s) \/ DeadlinePasses(s) PROVE Reuse'
  <2>1. gens' \subseteq gens /\ UNCHANGED rows
    BY <1>4 DEF LeaseExpires, DeadlinePasses
  <2>2. \A t \in Steps : step[t].no <= step'[t].no
    BY <1>4 DEF LeaseExpires, DeadlinePasses, Inv, TypeOK, Step
  <2> QED BY <1>1, <2>1, <2>2, OnlySteps
<1>5. ASSUME UNCHANGED <<rows, step>>, gens' \subseteq gens PROVE Reuse'
  <2>1. \A s \in Steps : step[s].no <= step'[s].no
    BY <1>5 DEF Inv, TypeOK, Step
  <2> QED BY <1>1, <1>5, <2>1, OnlySteps
<1>6. ASSUME NEW g \in gens, WorkerLost(g) PROVE Reuse'
  BY <1>5, <1>6 DEF WorkerLost
<1>7. CASE RunEnds \/ UNCHANGED vars
  BY <1>5, <1>7 DEF RunEnds, vars
<1> QED BY <1>1, <1>2, <1>3, <1>4, <1>6, <1>7, ClaimReuse, SealReuse DEF Next

LEMMA ReuseInitially == ASSUME Init PROVE Reuse
<1>1. Made = {} /\ gens = {}
  BY DEF Init, Made
<1> QED BY <1>1 DEF Reuse, RepairsAgree, PastAttempts

-----------------------------------------------------------------------------
(***************************************************************************)
(* The theorems.                                                            *)
(***************************************************************************)
\* Every record of the gateway keeps its shape.
THEOREM GatewayTypes == Spec => []TypeOK
<1>1. Inv => TypeOK
  BY DEF Inv
<1> QED BY <1>1, Invariance, PTL

\* A run never makes more provider calls than max_llm_calls, and its counter
\* is the number of calls made, for any number of concurrent steps and
\* attempts.
THEOREM CallBudget == Spec => []BudgetHolds
<1>1. Inv => BudgetHolds
  BY DEF Inv, Table, Counted, BudgetHolds
<1> QED BY <1>1, Invariance, PTL

\* However many attempts make a logical call, at most one is completed.
THEOREM OneAnswerPerCall == Spec => []PaidOnce
<1>1. Inv => PaidOnce
  BY DEF Inv, Table
<1> QED BY <1>1, Invariance, PTL

\* generate never works with an answer that the audit has not completed.
THEOREM AnswersComeFromTheAudit == Spec => []AnswersAreAudited
<1>1. Inv => AnswersAreAudited
  BY DEF Inv, AllGood, Good, Sound, Completed, AnswersAreAudited
<1> QED BY <1>1, Invariance, PTL

\* A sealed call is never changed, by whatever step.
THEOREM SealsAreFinal == Spec => SealedForGood
<1>1. ASSUME [Next]_vars, NEW r \in rows, r.status # "STARTED"
      PROVE  r \in rows'
  <2>1. CASE UNCHANGED rows
    BY <1>1, <2>1
  <2>2. ASSUME NEW q, q.status = "STARTED", NEW p,
               rows' = (rows \ {q}) \cup {p}
        PROVE  r \in rows'
    BY <1>1, <2>2
  <2>3. ASSUME NEW p, rows' = rows \cup {p} PROVE r \in rows'
    BY <2>3
  <2>4. ASSUME NEW g \in gens, GenStep(g) PROVE r \in rows'
    <3>1. CASE TakeOver(g) \/ Start(g)
      BY <2>1, <2>3, <3>1 DEF TakeOver, Start
    <3>2. CASE Fail(g)
      BY <2>1, <2>2, <3>2 DEF Fail, Seal
    <3>3. CASE Complete(g)
      BY <2>2, <3>3 DEF Complete
    <3>4. CASE ~(TakeOver(g) \/ Start(g) \/ Fail(g) \/ Complete(g))
      BY <2>1, <2>4, <3>4 DEF GenStep, OutOfTime, FindSource, Refused,
         ProviderAnswers, ProviderFails, CompleteRefused, Parse, Finalise,
         OperationCancelled
    <3> QED BY <3>1, <3>2, <3>3, <3>4
  <2>5. ASSUME NEW s \in Steps, MakeReady(s) PROVE r \in rows'
    BY <1>1, <2>5 DEF MakeReady
  <2>6. ASSUME NEW q \in rows, SealOrphaned(q) PROVE r \in rows'
    BY <2>2, <2>6 DEF SealOrphaned, Orphaned
  <2> QED BY <1>1, <2>1, <2>4, <2>5, <2>6 DEF Next, Renew, WorkerLost, Claim,
             LeaseExpires, DeadlinePasses, RunEnds, vars
<1>2. [Next]_vars => [\A r \in rows : r.status # "STARTED" => r \in rows']_vars
  BY <1>1
<1> QED BY <1>2, PTL DEF Spec, SealedForGood

\* An answer that a later attempt reuses was given to the same request, for any
\* number of attempts and repairs, unless a first request had to be retried.
THEOREM ReusedAnswersFit == Spec => []ReuseIsExact
<1>1. Reuse => ReuseIsExact
  <2> SUFFICES ASSUME Reuse, NEW g \in gens, g.at = "parse",
                      \A r \in rows : r.id[1] = g.step /\ r.request = None => r.id[3] = 1
               PROVE  \E r \in rows : r.id = g.answer /\ r.request = g.request
    BY DEF ReuseIsExact
  <2>1. Plain(g.step)
    BY DEF Plain, Made
  <2>2. [id |-> g.answer, request |-> g.request] \in Made
    BY <2>1 DEF Reuse, Exact
  <2>3. PICK r \in rows :
          [id |-> g.answer, request |-> g.request] = [id |-> r.id, request |-> r.request]
    BY <2>2 DEF Made
  <2> QED BY <2>3
<1>2. Reuse /\ Inv /\ [Next]_vars => Reuse'
  BY ReuseStep
<1>3. Init => Reuse
  BY ReuseInitially
<1> QED BY <1>1, <1>2, <1>3, Invariance, PTL DEF Spec
=============================================================================

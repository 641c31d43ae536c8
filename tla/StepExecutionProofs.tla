------------------------ MODULE StepExecutionProofs ------------------------
(***************************************************************************)
(* Proofs about StepExecution for every set of queries, sources and        *)
(* workers and every setting of leases, deadlines, retries and bounds.     *)
(***************************************************************************)
EXTENDS StepExecution, TLAPS

\* The steps of the graph: their types and what they have in common.
LEMMA StepsFacts ==
    /\ Route \in Steps /\ Plan \in Steps /\ Select \in Steps
    /\ Verify \in Steps /\ Synthesize \in Steps
    /\ \A q \in Queries : Discovery(q) \in Steps
    /\ \A x \in Sources : Fetch(x) \in Steps /\ Extract(x) \in Steps
    /\ \A s \in Steps : s.type \in StepType
<1>1. /\ Route \in Steps /\ Plan \in Steps /\ Select \in Steps
      /\ Verify \in Steps /\ Synthesize \in Steps
  BY DEF Steps
<1>2. \A q \in Queries : Discovery(q) \in Discoveries
  BY DEF Discovery, Discoveries
<1>3. \A x \in Sources : Fetch(x) \in Fetches /\ Extract(x) \in Extracts
  BY DEF Fetch, Extract, Fetches, Extracts
<1>4. \A s \in Discoveries \cup Fetches \cup Extracts : s.type \in StepType
  BY DEF Discoveries, Fetches, Extracts, StepType
<1>5. \A s \in {Route, Plan, Select, Verify, Synthesize} : s.type \in StepType
  BY DEF Route, Plan, Select, Verify, Synthesize, StepType
<1> QED BY <1>1, <1>2, <1>3, <1>4, <1>5 DEF Steps

\* The source a FETCH step works on.
LEMMA FetchId == \A s \in Steps : s.type = "FETCH" => s.id \in Sources
<1>1. \A s \in Discoveries \cup Fetches \cup Extracts :
        s.type = "FETCH" => s.id \in Sources
  BY DEF Discoveries, Fetches, Extracts
<1>2. \A s \in {Route, Plan, Select, Verify, Synthesize} : s.type # "FETCH"
  BY DEF Route, Plan, Select, Verify, Synthesize
<1> QED BY <1>1, <1>2 DEF Steps

\* Whatever the hook asks for is a step of the graph.
LEMMA WantedAreSteps ==
    ASSUME NEW st, NEW s \in Steps, NEW fanout \in Fanout(s),
           selectInput \subseteq Queries
    PROVE  /\ AfterSuccess(st, s, fanout) \subseteq Steps
           /\ AfterFailure(st, s) \subseteq Steps
<1>1. /\ MaybeSelect(st) \subseteq Steps
      /\ MaybeSynthesize(st) \subseteq Steps
      /\ MaybeVerify(st) \subseteq Steps
  BY StepsFacts DEF MaybeSelect, MaybeSynthesize, MaybeVerify
<1>2. AfterFailure(st, s) \subseteq Steps
  BY <1>1, StepsFacts DEF AfterFailure
<1>3. s.type = "PLAN" => fanout \subseteq Queries
  BY DEF Fanout
<1>4. s.type = "SELECT" => fanout \subseteq Sources
  BY WorkflowAssumption DEF Fanout
<1>5. AfterSuccess(st, s, fanout) \subseteq Steps
  BY <1>1, <1>3, <1>4, StepsFacts, FetchId DEF AfterSuccess, StepType
<1> QED BY <1>2, <1>5

\* The numbers of the model are numbers.
LEMMA TimeFacts ==
    /\ \A s \in Steps : DeadlineFor(s) \in Int /\ DeadlineFor(s) <= HardDeadline
    /\ \A s \in Steps : AttemptLimit(s) \in 1..MaxAttempts
    /\ \A a, b \in Int : Least(a, b) \in Int /\ Least(a, b) <= a /\ Least(a, b) <= b
    /\ \A a, b \in Int : Least(a, b) = a \/ Least(a, b) = b
BY TimeAssumption, RetryAssumption DEF DeadlineFor, AttemptLimit, Least

\* The completion hook keeps the types of what it writes.
LEMMA AddStepsType ==
    ASSUME TypeOK,
           NEW st \in [Steps -> StepStatus], NEW current \in Steps,
           NEW wanted \in SUBSET Steps, AddSteps(st, current, wanted)
    PROVE  /\ stepStatus' \in [Steps -> StepStatus]
           /\ stamp' \in [Steps -> Nat]
           /\ outbox' \subseteq Steps
           /\ selectInput' \subseteq Queries
           /\ verifyInput' \subseteq Sources
           /\ synthInput' \in [verified : BOOLEAN,
                 degraded : SUBSET (StepType \X {"FAILED", "CANCELLED"})]
<1> DEFINE new == Missing(st, wanted)
<1>1. new \subseteq Steps
  BY DEF Missing
<1>2. stepStatus' \in [Steps -> StepStatus]
  BY DEF AddSteps, StepStatus
<1>3. stamp' \in [Steps -> Nat]
  BY DEF AddSteps, TypeOK
<1>4. outbox' \subseteq Steps
  BY <1>1 DEF AddSteps, TypeOK
<1>5. selectInput' \subseteq Queries /\ verifyInput' \subseteq Sources
  BY DEF AddSteps, TypeOK, DiscoveredQueries, ExtractedSources
<1>6. Degradations(st) \subseteq StepType \X {"FAILED", "CANCELLED"}
  BY StepsFacts DEF Degradations
<1>7. (st[Verify] = "SUCCEEDED") \in BOOLEAN
  OBVIOUS
<1>8. synthInput' \in [verified : BOOLEAN,
                 degraded : SUBSET (StepType \X {"FAILED", "CANCELLED"})]
  BY <1>6, <1>7 DEF AddSteps, TypeOK
<1> QED BY <1>2, <1>3, <1>4, <1>5, <1>8

\* Every transaction, message and failure keeps the type invariant.
LEMMA TypeStep == TypeOK /\ [Next]_vars => TypeOK'
<1> SUFFICES ASSUME TypeOK, [Next]_vars PROVE TypeOK'
  OBVIOUS
<1> USE TimeAssumption, RetryAssumption, BoundAssumption, StepsFacts
<1>1. ASSUME NEW w \in Workers, NEW s \in Steps, Receive(w, s)
      PROVE  queue' \subseteq Steps /\ faults' \in 0..MaxFaults
  BY <1>1 DEF Receive, Consume, Fault, TypeOK
<1>2. ASSUME NEW w \in Workers, NEW s \in Steps, ClaimIgnored(w, s)
      PROVE  TypeOK'
  BY <1>1, <1>2 DEF ClaimIgnored, TypeOK, runVars, stepVars, tryVars, inputVars
<1>3. ASSUME NEW w \in Workers, NEW s \in Steps, ClaimOfTerminalRun(w, s)
      PROVE  TypeOK'
  BY <1>1, <1>3 DEF ClaimOfTerminalRun, SetStep, TypeOK, runVars, tryVars,
                    inputVars, StepStatus
<1>4. ASSUME NEW w \in Workers, NEW s \in Steps, ClaimPastHardDeadline(w, s)
      PROVE  TypeOK'
  BY <1>1, <1>4 DEF ClaimPastHardDeadline, SetStep, TypeOK, tryVars, inputVars,
                    StepStatus, RunStatus
<1>5. ASSUME NEW s \in Steps, NEW status \in StepStatus, NEW started \in RunStatus,
             OnFailure([stepStatus EXCEPT ![s] = status], s, started)
      PROVE  /\ runStatus' \in RunStatus
             /\ response' \in {"QUEUED", "SUCCEEDED", "FAILED"}
             /\ stepStatus' \in [Steps -> StepStatus]
             /\ stamp' \in [Steps -> Nat]
             /\ outbox' \subseteq Steps
             /\ selectInput' \subseteq Queries
             /\ verifyInput' \subseteq Sources
             /\ synthInput' \in [verified : BOOLEAN,
                   degraded : SUBSET (StepType \X {"FAILED", "CANCELLED"})]
  <2> DEFINE st == [stepStatus EXCEPT ![s] = status]
  <2>1. st \in [Steps -> StepStatus]
    BY DEF TypeOK
  <2>2. AfterFailure(st, s) \in SUBSET Steps
    <3>1. PICK f : f \in Fanout(s)
      BY DEF Fanout
    <3> QED BY <3>1, WantedAreSteps DEF TypeOK
  <2>3. AddSteps(st, s, AfterFailure(st, s))
    BY <1>5 DEF OnFailure
  <2>4. runStatus' \in RunStatus /\ response' \in {"QUEUED", "SUCCEEDED", "FAILED"}
    BY <1>5 DEF OnFailure, TypeOK, RunStatus
  <2> HIDE DEF st
  <2> QED BY <2>1, <2>2, <2>3, <2>4, AddStepsType
<1>6. ASSUME NEW w \in Workers, NEW s \in Steps, ClaimPastPhaseDeadline(w, s)
      PROVE  TypeOK'
  <2>1. StartedRun \in RunStatus /\ "FAILED" \in StepStatus
    BY DEF StartedRun, TypeOK, RunStatus, StepStatus
  <2>2. OnFailure([stepStatus EXCEPT ![s] = "FAILED"], s, StartedRun)
    BY <1>6 DEF ClaimPastPhaseDeadline
  <2> QED BY <1>1, <1>5, <1>6, <2>1, <2>2
          DEF ClaimPastPhaseDeadline, TypeOK, tryVars
<1>7. ASSUME NEW w \in Workers, NEW s \in Steps, Claim(w, s)
      PROVE  TypeOK'
  <2>1. StartedRun \in RunStatus /\ "RUNNING" \in StepStatus
    BY DEF StartedRun, TypeOK, RunStatus, StepStatus
  <2>2. Least(DeadlineFor(s), now + LeaseSeconds) \in Nat
    <3>1. DeadlineFor(s) \in Nat /\ now + LeaseSeconds \in Nat
      BY <1>7, TimeFacts DEF Claim, LeaseUntil, TypeOK
    <3> QED BY <3>1 DEF Least
  <2>3. attempts' \subseteq AttemptRow /\ claims' \subseteq Claimed
    BY <1>7, <2>2 DEF Claim, LeaseUntil, TypeOK, AttemptRow, Claimed
  <2> QED BY <1>1, <1>7, <2>1, <2>3 DEF Claim, LeaseUntil, SetStep, TypeOK, inputVars
<1>8. ASSUME NEW c \in claims, Renew(c)
      PROVE  TypeOK'
  <2>1. PICK a \in RowOf(c) :
            attempts' = (attempts \ {a}) \cup
              {[a EXCEPT !.lease = Least(DeadlineFor(c.step), now + LeaseSeconds)]}
            /\ Least(DeadlineFor(c.step), now + LeaseSeconds) > a.lease
    BY <1>8 DEF Renew, LeaseUntil
  <2>2. a \in AttemptRow /\ c.step \in Steps
    BY DEF RowOf, TypeOK, Claimed
  <2>3. Least(DeadlineFor(c.step), now + LeaseSeconds) \in Nat
    BY <2>1, <2>2, TimeFacts DEF TypeOK, AttemptRow
  <2>4. attempts' \subseteq AttemptRow
    BY <2>1, <2>2, <2>3 DEF TypeOK, AttemptRow
  <2> QED BY <1>8, <2>4 DEF Renew, LeaseUntil, TypeOK, runVars, stepVars, inputVars
<1>9. ASSUME NEW c \in claims, FinaliseStale(c)
      PROVE  TypeOK'
  BY <1>9 DEF FinaliseStale, TypeOK, runVars, stepVars, tryVars, inputVars
<1>10. ASSUME NEW c \in claims, FinaliseOfTerminalRun(c)
       PROVE  TypeOK'
  BY <1>10 DEF FinaliseOfTerminalRun, Finalise, SetStep, TypeOK, runVars,
               inputVars, StepStatus, Claimed
<1>11. ASSUME NEW c \in claims, Succeed(c)
       PROVE  TypeOK'
  <2>1. c.step \in Steps
    BY DEF TypeOK, Claimed
  <2> DEFINE st == [stepStatus EXCEPT ![c.step] = "SUCCEEDED"]
  <2>2. PICK f \in Fanout(c.step) :
            AddSteps(st, c.step, AfterSuccess(st, c.step, f))
    BY <1>11 DEF Succeed
  <2>3. st \in [Steps -> StepStatus]
    BY DEF TypeOK, StepStatus
  <2>4. runStatus' \in RunStatus /\ response' \in {"QUEUED", "SUCCEEDED", "FAILED"}
    BY <1>11 DEF Succeed, PersistAnswer, TypeOK, RunStatus, runVars
  <2> HIDE DEF st
  <2>5. AfterSuccess(st, c.step, f) \in SUBSET Steps
    BY <2>1, WantedAreSteps DEF TypeOK
  <2> QED BY <1>11, <2>1, <2>2, <2>3, <2>4, <2>5, AddStepsType
          DEF Succeed, Finalise, TypeOK
<1>12. ASSUME NEW c \in claims, FailForRetry(c)
       PROVE  TypeOK'
  <2>1. c.step \in Steps /\ c.no \in Nat \ {0}
    BY DEF TypeOK, Claimed
  <2>2. now + RetryDelay(c.no) \in Nat
    <3>1. c.no \in 1..MaxAttempts
      <4>1. AttemptLimit(c.step) \in 1..MaxAttempts
        BY <2>1, TimeFacts
      <4> QED BY <1>12, <2>1, <4>1 DEF FailForRetry
    <3> QED BY <3>1 DEF TypeOK
  <2> QED BY <1>12, <2>1, <2>2 DEF FailForRetry, Finalise, SetStep, TypeOK,
               runVars, inputVars, StepStatus
<1>13. ASSUME NEW c \in claims, FailForGood(c) \/ FailAsCancelled(c)
       PROVE  TypeOK'
  <2>1. c.step \in Steps
    BY DEF TypeOK, Claimed
  <2>2. PICK status \in StepStatus :
            OnFailure([stepStatus EXCEPT ![c.step] = status], c.step, runStatus)
    BY <1>13 DEF FailForGood, FailAsCancelled, StepStatus
  <2> QED BY <1>5, <1>13, <2>1, <2>2
          DEF FailForGood, FailAsCancelled, Finalise, TypeOK
<1>14. ASSUME NEW c \in claims, Crash(c)
       PROVE  TypeOK'
  BY <1>14 DEF Crash, Fault, TypeOK, runVars, stepVars, tryVars, inputVars, Claimed
<1>15. ASSUME NEW s \in Steps,
              DispatchOutbox(s) \/ DispatchWithoutMark(s) \/ LoseMessage(s)
       PROVE  TypeOK'
  BY <1>15 DEF DispatchOutbox, DispatchWithoutMark, LoseMessage, Fault, TypeOK,
               runVars, stepVars, tryVars, inputVars
<1>16. ASSUME NEW s \in Steps, Scan(s)
       PROVE  TypeOK'
  BY <1>16 DEF Scan, Reconcilable, TypeOK, Candidate, Open, runVars, stepVars,
               tryVars, inputVars
<1>17. ASSUME NEW d \in candidates, NEW status \in StepStatus, NEW at \in Nat,
              Redispatch(d, status, at)
       PROVE  /\ stepStatus' \in [Steps -> StepStatus]
              /\ stamp' \in [Steps -> Nat]
              /\ queue' \subseteq Steps
              /\ faults' \in 0..MaxFaults
  BY <1>17 DEF Redispatch, SetStep, Fault, TypeOK, Candidate
<1>18. ASSUME NEW d \in candidates, DispatchReady(d)
       PROVE  TypeOK'
  <2>1. stepStatus[d.step] \in StepStatus /\ stamp[d.step] \in Nat
    BY DEF TypeOK, Candidate
  <2> QED BY <1>17, <1>18, <2>1 DEF DispatchReady, TypeOK, runVars, tryVars, inputVars
<1>19. ASSUME NEW d \in candidates, ReleaseRetry(d) \/ ReleaseExpiredLease(d)
       PROVE  TypeOK'
  <2>1. "READY" \in StepStatus /\ now \in Nat
    BY DEF TypeOK, StepStatus
  <2>2. Redispatch(d, "READY", now)
    BY <1>19 DEF ReleaseRetry, ReleaseExpiredLease
  <2>3. attempts' \subseteq AttemptRow
    BY <1>19 DEF ReleaseRetry, ReleaseExpiredLease, TypeOK, tryVars
  <2> QED BY <1>17, <1>19, <2>1, <2>2, <2>3
          DEF ReleaseRetry, ReleaseExpiredLease, TypeOK, runVars, tryVars, inputVars
<1>20. ASSUME NEW d \in candidates, DropCandidate(d)
       PROVE  TypeOK'
  BY <1>20 DEF DropCandidate, TypeOK, runVars, stepVars, tryVars, inputVars
<1>21. CASE CancelRun
  BY <1>21 DEF CancelRun, TypeOK, RunStatus, stepVars, tryVars, inputVars
<1>22. CASE Tick
  BY <1>22 DEF Tick, TypeOK, runVars, stepVars, tryVars, inputVars
<1>23. CASE UNCHANGED vars
  BY <1>23 DEF vars, TypeOK
<1> QED
  BY <1>2, <1>3, <1>4, <1>6, <1>7, <1>8, <1>9, <1>10, <1>11, <1>12, <1>13,
     <1>14, <1>15, <1>16, <1>18, <1>19, <1>20, <1>21, <1>22, <1>23
  DEF Next, Deliver, Finish, Handle

\* Type correctness of the run, step, attempt and outbox tables, the broker
\* and the control process.
THEOREM TypeCorrect == Spec => []TypeOK
<1>1. Init => TypeOK
  BY StepsFacts, TimeAssumption, BoundAssumption
  DEF Init, TypeOK, RunStatus, StepStatus
<1>2. TypeOK /\ [Next]_vars => TypeOK'
  BY TypeStep
<1> QED BY <1>1, <1>2, PTL DEF Spec
-----------------------------------------------------------------------------
\* The completion hook starts nothing: what it changes in the step table,
\* besides the current step, is ABSENT steps becoming READY.
LEMMA AddStepsEffect ==
    ASSUME TypeOK, NEW current \in Steps, NEW status \in Terminal,
           stepStatus[current] # "ABSENT", NEW wanted,
           AddSteps([stepStatus EXCEPT ![current] = status], current, wanted)
    PROVE  /\ stepStatus'[current] = status
           /\ \A s \in Steps \ {current} :
                \/ stepStatus'[s] = stepStatus[s] /\ stamp'[s] = stamp[s]
                \/ stepStatus[s] = "ABSENT" /\ stepStatus'[s] = "READY"
BY DEF AddSteps, Missing, TypeOK, Terminal

\* The six ways a worker's report is applied all end the claimed attempt and
\* move the step out of RUNNING.
LEMMA FinishEffect ==
    ASSUME TypeOK, NEW c \in claims, Finish(c), ~FinaliseStale(c)
    PROVE  /\ Finalise(c)
           /\ c.step \in Steps
           /\ stepStatus[c.step] = "RUNNING"
           /\ stepStatus'[c.step] \in Terminal \cup {"RETRY_WAIT"}
           /\ stepStatus'[c.step] = "RETRY_WAIT" =>
                stamp'[c.step] \in Nat /\ stamp'[c.step] >= now + 1
           /\ \A s \in Steps \ {c.step} :
                \/ stepStatus'[s] = stepStatus[s] /\ stamp'[s] = stamp[s]
                \/ stepStatus[s] = "ABSENT" /\ stepStatus'[s] = "READY"
<1>1. c.step \in Steps /\ c.no \in Nat \ {0}
  BY DEF TypeOK, Claimed
<1>2. Finalise(c)
  BY DEF Finish, FinaliseOfTerminalRun, Succeed, FailForRetry, FailForGood,
         FailAsCancelled
<1>3. stepStatus[c.step] = "RUNNING"
  BY <1>2 DEF Finalise, Current
<1>4. CASE FinaliseOfTerminalRun(c)
  BY <1>1, <1>2, <1>3, <1>4 DEF FinaliseOfTerminalRun, SetStep, TypeOK, Terminal
<1>5. CASE FailForRetry(c)
  <2>1. AttemptLimit(c.step) \in 1..MaxAttempts
    BY <1>1, TimeFacts
  <2>2. c.no \in 1..MaxAttempts
    BY <1>1, <1>5, <2>1, RetryAssumption DEF FailForRetry
  <2>3. RetryDelay(c.no) \in Nat \ {0}
    BY <2>2, RetryAssumption
  <2> QED BY <1>1, <1>2, <1>3, <1>5, <2>3 DEF FailForRetry, SetStep, TypeOK
<1>6. CASE Succeed(c) \/ FailForGood(c) \/ FailAsCancelled(c)
  <2>1. PICK status \in Terminal :
            \E wanted : AddSteps([stepStatus EXCEPT ![c.step] = status], c.step, wanted)
    BY <1>6 DEF Succeed, FailForGood, FailAsCancelled, OnFailure, Terminal
  <2> QED BY <1>1, <1>2, <1>3, <2>1, AddStepsEffect DEF Terminal
<1> QED BY <1>4, <1>5, <1>6 DEF Finish

\* The other transactions change the status of at most one step.
LEMMA SingleStepEffect ==
    ASSUME TypeOK, NEW s \in Steps, NEW status, NEW at, SetStep(s, status, at)
    PROVE  /\ stepStatus'[s] = status /\ stamp'[s] = at
           /\ \A x \in Steps \ {s} : stepStatus'[x] = stepStatus[x]
                                  /\ stamp'[x] = stamp[x]
BY DEF SetStep, TypeOK

\* Every action keeps lease fencing.
LEMMA ExclusiveStep ==
    TypeOK /\ ExclusiveAttempt /\ [Next]_vars => ExclusiveAttempt'
<1> SUFFICES ASSUME TypeOK, ExclusiveAttempt, [Next]_vars PROVE ExclusiveAttempt'
  OBVIOUS
<1>1. ASSUME UNCHANGED <<attempts, attemptNo>>,
             \A s \in Steps :
                (stepStatus'[s] = "RUNNING") <=> (stepStatus[s] = "RUNNING")
      PROVE  ExclusiveAttempt'
  BY <1>1 DEF ExclusiveAttempt
<1>2. ASSUME NEW w \in Workers, NEW s \in Steps,
             ClaimIgnored(w, s) \/ ClaimOfTerminalRun(w, s)
               \/ ClaimPastHardDeadline(w, s)
      PROVE  ExclusiveAttempt'
  BY <1>1, <1>2, SingleStepEffect
  DEF ClaimIgnored, ClaimOfTerminalRun, ClaimPastHardDeadline, stepVars, tryVars
<1>3. ASSUME NEW w \in Workers, NEW s \in Steps, ClaimPastPhaseDeadline(w, s)
      PROVE  ExclusiveAttempt'
  <2>1. PICK wanted :
            AddSteps([stepStatus EXCEPT ![s] = "FAILED"], s, wanted)
    BY <1>3 DEF ClaimPastPhaseDeadline, OnFailure
  <2>2. stepStatus[s] = "READY" /\ UNCHANGED tryVars
    BY <1>3 DEF ClaimPastPhaseDeadline
  <2> QED BY <1>1, <2>1, <2>2, AddStepsEffect DEF Terminal, tryVars
<1>4. ASSUME NEW w \in Workers, NEW s \in Steps, Claim(w, s)
      PROVE  ExclusiveAttempt'
  <2> DEFINE a == [step |-> s, no |-> attemptNo[s] + 1, owner |-> w,
                   lease |-> Least(DeadlineFor(s), now + LeaseSeconds)]
  <2>1. /\ a.step = s /\ a.no = attemptNo[s] + 1
        /\ attempts' = attempts \cup {a}
        /\ attemptNo' = [attemptNo EXCEPT ![s] = attemptNo[s] + 1]
    BY <1>4 DEF Claim, LeaseUntil
  <2> HIDE DEF a
  <2>2. \A b \in attempts : b.step # s /\ b.step \in Steps
    BY <1>4 DEF Claim, LeaseUntil, ExclusiveAttempt, TypeOK, AttemptRow
  <2>3. \A b \in attempts' : b.no = attemptNo'[b.step]
    BY <2>1, <2>2 DEF ExclusiveAttempt, TypeOK
  <2>4. \A x \in Steps :
            (stepStatus'[x] = "RUNNING") <=> (\E b \in attempts' : b.step = x)
    <3>1. SetStep(s, "RUNNING", 0)
      BY <1>4 DEF Claim, LeaseUntil
    <3> QED BY <2>1, <2>2, <3>1, SingleStepEffect DEF ExclusiveAttempt
  <2>5. \A b, e \in attempts' : b.step = e.step => b = e
    BY <2>1, <2>2 DEF ExclusiveAttempt
  <2> QED BY <2>3, <2>4, <2>5 DEF ExclusiveAttempt
<1>5. ASSUME NEW c \in claims, Renew(c)
      PROVE  ExclusiveAttempt'
  <2>1. PICK a, until :
            /\ a \in RowOf(c)
            /\ attempts' = (attempts \ {a}) \cup {[a EXCEPT !.lease = until]}
    BY <1>5 DEF Renew, LeaseUntil
  <2>2. a \in attempts /\ a \in AttemptRow
    BY <2>1 DEF RowOf, TypeOK
  <2> DEFINE b == [a EXCEPT !.lease = until]
  <2>3. b.step = a.step /\ b.no = a.no
    BY <2>2 DEF AttemptRow
  <2>4. UNCHANGED <<stepStatus, attemptNo>>
    BY <1>5 DEF Renew, LeaseUntil, stepVars
  <2>5. attempts' = (attempts \ {a}) \cup {b}
    BY <2>1
  <2> HIDE DEF b
  <2>6. \A e \in attempts : e.step = a.step => e = a
    BY <2>2 DEF ExclusiveAttempt
  <2>7. \A e, f \in attempts' : e.step = f.step => e = f
    BY <2>3, <2>5, <2>6 DEF ExclusiveAttempt
  <2>8. \A e \in attempts' : e.no = attemptNo'[e.step]
    BY <2>2, <2>3, <2>4, <2>5 DEF ExclusiveAttempt
  <2>9. \A x \in Steps :
            (\E e \in attempts' : e.step = x) <=> (\E e \in attempts : e.step = x)
    BY <2>2, <2>3, <2>5
  <2> QED BY <2>4, <2>7, <2>8, <2>9 DEF ExclusiveAttempt
<1>6. ASSUME NEW c \in claims, FinaliseStale(c) \/ Crash(c)
      PROVE  ExclusiveAttempt'
  BY <1>1, <1>6 DEF FinaliseStale, Crash, stepVars, tryVars
<1>7. ASSUME NEW c \in claims, Finish(c), ~FinaliseStale(c)
      PROVE  ExclusiveAttempt'
  <2>1. /\ Finalise(c) /\ c.step \in Steps
        /\ stepStatus'[c.step] # "RUNNING"
        /\ \A s \in Steps \ {c.step} :
             (stepStatus'[s] = "RUNNING") <=> (stepStatus[s] = "RUNNING")
    BY <1>7, FinishEffect DEF Terminal
  <2>2. attempts' = attempts \ RowOf(c) /\ UNCHANGED attemptNo /\ RowOf(c) # {}
    BY <2>1 DEF Finalise, Current
  <2>3. \A a \in attempts : a \in attempts' <=> a.step # c.step
    BY <2>2 DEF RowOf, ExclusiveAttempt
  <2> QED BY <2>1, <2>2, <2>3 DEF ExclusiveAttempt
<1>8. ASSUME NEW s \in Steps,
             DispatchOutbox(s) \/ DispatchWithoutMark(s) \/ LoseMessage(s) \/ Scan(s)
      PROVE  ExclusiveAttempt'
  BY <1>1, <1>8
  DEF DispatchOutbox, DispatchWithoutMark, LoseMessage, Scan, stepVars, tryVars
<1>9. ASSUME NEW d \in candidates, NEW status, NEW at, Redispatch(d, status, at)
      PROVE  /\ d.step \in Steps
             /\ stepStatus'[d.step] = status
             /\ \A x \in Steps \ {d.step} : stepStatus'[x] = stepStatus[x]
  <2>1. d.step \in Steps
    BY DEF TypeOK, Candidate
  <2>2. PICK t : SetStep(d.step, status, t)
    BY <1>9 DEF Redispatch
  <2> QED BY <2>1, <2>2, SingleStepEffect
<1>10. ASSUME NEW d \in candidates, DispatchReady(d) \/ ReleaseRetry(d)
       PROVE  ExclusiveAttempt'
  BY <1>1, <1>9, <1>10 DEF DispatchReady, ReleaseRetry, ReleasableRetry, tryVars
<1>11. ASSUME NEW d \in candidates, ReleaseExpiredLease(d)
       PROVE  ExclusiveAttempt'
  <2>1. \A a \in attempts : a.step = d.step => a.lease <= d.at
    BY <1>11 DEF ReleaseExpiredLease, ReleasableLease, LeaseExpired
  <2>2. \A a : a \in attempts' <=> a \in attempts /\ a.step # d.step
    BY <1>11, <2>1 DEF ReleaseExpiredLease
  <2>3. /\ d.step \in Steps /\ stepStatus'[d.step] = "READY"
        /\ \A x \in Steps \ {d.step} : stepStatus'[x] = stepStatus[x]
        /\ UNCHANGED attemptNo
    BY <1>9, <1>11 DEF ReleaseExpiredLease
  <2> QED BY <2>2, <2>3 DEF ExclusiveAttempt
<1>12. ASSUME NEW d \in candidates, DropCandidate(d)
       PROVE  ExclusiveAttempt'
  BY <1>1, <1>12 DEF DropCandidate, stepVars, tryVars
<1>13. CASE CancelRun \/ Tick
  BY <1>1, <1>13 DEF CancelRun, Tick, stepVars, tryVars
<1>14. CASE UNCHANGED vars
  BY <1>1, <1>14 DEF vars
<1> QED
  BY <1>2, <1>3, <1>4, <1>5, <1>6, <1>7, <1>8, <1>10, <1>11, <1>12, <1>13, <1>14
  DEF Next, Deliver, Finish, Handle

\* Lease fencing holds in every reachable state: at any time at most one
\* attempt of a step, its newest, can be finalised, and there is one exactly
\* while the step is RUNNING.
THEOREM LeaseFencing == Spec => []ExclusiveAttempt
<1>1. Init => ExclusiveAttempt
  BY DEF Init, ExclusiveAttempt
<1>2. TypeOK /\ ExclusiveAttempt /\ [Next]_vars => ExclusiveAttempt'
  BY ExclusiveStep
<1> QED BY <1>1, <1>2, TypeCorrect, PTL DEF Spec
-----------------------------------------------------------------------------
\* Every action keeps Pacing.  The delicate ones are Claim, which spends the
\* slack of a READY step, and the two releases, which may act on an old scan.
LEMMA PacingStep ==
    TypeOK /\ ExclusiveAttempt /\ Pacing /\ [Next]_vars => Pacing'
<1> SUFFICES ASSUME TypeOK, ExclusiveAttempt, Pacing, [Next]_vars PROVE Pacing'
  OBVIOUS
<1> USE TimeAssumption
<1>n. /\ now \in Nat /\ attemptNo \in [Steps -> Nat] /\ stamp \in [Steps -> Nat]
      /\ \A a \in attempts : a.step \in Steps /\ a.lease \in Nat
      /\ \A d \in candidates : d.step \in Steps /\ d.at \in Nat
  BY DEF TypeOK, AttemptRow, Candidate
\* A step may wait, end, or come into being.
<1>1. ASSUME UNCHANGED <<attemptNo, now>>,
             attempts' \subseteq attempts, candidates' \subseteq candidates,
             \A s \in Steps :
                \/ stepStatus'[s] = stepStatus[s] /\ stamp'[s] = stamp[s]
                \/ stepStatus'[s] \in Terminal
                \/ stepStatus[s] \in {"ABSENT", "READY"} /\ stepStatus'[s] = "READY"
                \/ stepStatus'[s] = "READY" /\ attemptNo[s] <= now
                \/ /\ stepStatus'[s] = "RETRY_WAIT"
                   /\ stamp'[s] \in Nat /\ stamp'[s] >= now + 1
      PROVE  Pacing'
  <2>1. \A s \in Steps :
            /\ attemptNo'[s] <= now' + 1
            /\ stepStatus'[s] \in {"ABSENT", "READY"} => attemptNo'[s] <= now'
    BY <1>n, <1>1 DEF Pacing, AttemptsArePaced, Terminal
  <2>2. ASSUME NEW s \in Steps, stepStatus'[s] = "RETRY_WAIT"
        PROVE  attemptNo'[s] <= stamp'[s]
    BY <1>n, <1>1, <2>2 DEF Pacing, AttemptsArePaced, Terminal
  <2> QED BY <1>n, <1>1, <2>1, <2>2 DEF Pacing, AttemptsArePaced
<1>2. ASSUME NEW w \in Workers, NEW s \in Steps,
             ClaimIgnored(w, s) \/ ClaimOfTerminalRun(w, s)
               \/ ClaimPastHardDeadline(w, s)
      PROVE  Pacing'
  BY <1>1, <1>2, SingleStepEffect
  DEF ClaimIgnored, ClaimOfTerminalRun, ClaimPastHardDeadline, stepVars, tryVars,
      Terminal
<1>3. ASSUME NEW w \in Workers, NEW s \in Steps, ClaimPastPhaseDeadline(w, s)
      PROVE  Pacing'
  <2>1. PICK wanted :
            AddSteps([stepStatus EXCEPT ![s] = "FAILED"], s, wanted)
    BY <1>3 DEF ClaimPastPhaseDeadline, OnFailure
  <2>2. stepStatus[s] = "READY" /\ UNCHANGED <<tryVars, candidates, now>>
    BY <1>3 DEF ClaimPastPhaseDeadline
  <2> QED BY <1>1, <2>1, <2>2, AddStepsEffect DEF Terminal, tryVars
<1>4. ASSUME NEW w \in Workers, NEW s \in Steps, Claim(w, s)
      PROVE  Pacing'
  <2> DEFINE a == [step |-> s, no |-> attemptNo[s] + 1, owner |-> w,
                   lease |-> Least(DeadlineFor(s), now + LeaseSeconds)]
  <2>1. /\ a.step = s
        /\ attempts' = attempts \cup {a}
        /\ attemptNo' = [attemptNo EXCEPT ![s] = attemptNo[s] + 1]
        /\ UNCHANGED <<candidates, now>>
        /\ stepStatus[s] = "READY"
    BY <1>4 DEF Claim, LeaseUntil
  <2>2. a.lease \in Nat /\ a.lease >= now + 1
    <3>1. DeadlineFor(s) \in Nat /\ DeadlineFor(s) > now
      BY <1>4, <1>n, TimeFacts DEF Claim, LeaseUntil
    <3> QED BY <1>n, <3>1 DEF Least
  <2> HIDE DEF a
  <2>3. attemptNo[s] <= now
    BY <2>1 DEF Pacing
  <2>4. \A b \in attempts : b.step # s
    BY <2>1 DEF ExclusiveAttempt
  <2>5. \A b \in attempts' : attemptNo'[b.step] <= b.lease
    BY <1>n, <2>1, <2>2, <2>3, <2>4 DEF Pacing
  <2>6. \A x \in Steps :
            /\ attemptNo'[x] <= now' + 1
            /\ stepStatus'[x] \in {"ABSENT", "READY"} => attemptNo'[x] <= now'
            /\ stepStatus'[x] = "RETRY_WAIT" => attemptNo'[x] <= stamp'[x]
    <3>1. SetStep(s, "RUNNING", 0)
      BY <1>4 DEF Claim, LeaseUntil
    <3> QED BY <1>n, <2>1, <2>3, <3>1, SingleStepEffect DEF Pacing, AttemptsArePaced
  <2> QED BY <2>1, <2>5, <2>6 DEF Pacing, AttemptsArePaced
<1>5. ASSUME NEW c \in claims, Renew(c)
      PROVE  Pacing'
  <2>1. PICK a \in RowOf(c), until \in {Least(DeadlineFor(c.step), now + LeaseSeconds)} :
            /\ attempts' = (attempts \ {a}) \cup {[a EXCEPT !.lease = until]}
            /\ until > a.lease
    BY <1>5 DEF Renew, LeaseUntil
  <2>2. a \in attempts /\ a \in AttemptRow /\ c.step \in Steps
    BY DEF RowOf, TypeOK, Claimed
  <2>3. until \in Int
    BY <1>n, <2>2, TimeFacts
  <2> DEFINE b == [a EXCEPT !.lease = until]
  <2>4. b.step = a.step /\ b.lease = until
    BY <2>2 DEF AttemptRow
  <2>5. attempts' = (attempts \ {a}) \cup {b}
    BY <2>1
  <2>6. UNCHANGED <<stepStatus, stamp, attemptNo, candidates, now>>
    BY <1>5 DEF Renew, LeaseUntil, stepVars
  <2> HIDE DEF b
  <2>7. \A e \in attempts' : attemptNo'[e.step] <= e.lease
    BY <1>n, <2>1, <2>2, <2>3, <2>4, <2>5, <2>6 DEF Pacing
  <2> QED BY <2>6, <2>7 DEF Pacing, AttemptsArePaced
<1>6. ASSUME NEW c \in claims, FinaliseStale(c) \/ Crash(c)
      PROVE  Pacing'
  BY <1>1, <1>6 DEF FinaliseStale, Crash, stepVars, tryVars
<1>7. ASSUME NEW c \in claims, Finish(c), ~FinaliseStale(c)
      PROVE  Pacing'
  BY <1>1, <1>7, FinishEffect DEF Finalise
<1>8. ASSUME NEW s \in Steps,
             DispatchOutbox(s) \/ DispatchWithoutMark(s) \/ LoseMessage(s)
      PROVE  Pacing'
  BY <1>1, <1>8 DEF DispatchOutbox, DispatchWithoutMark, LoseMessage, stepVars,
                    tryVars
<1>9. ASSUME NEW s \in Steps, Scan(s)
      PROVE  Pacing'
  BY <1>n, <1>9 DEF Scan, Pacing, AttemptsArePaced, stepVars, tryVars
<1>10. ASSUME NEW d \in candidates, NEW status, NEW at, Redispatch(d, status, at)
       PROVE  /\ d.step \in Steps
              /\ stepStatus'[d.step] = status
              /\ status # "READY" => stamp'[d.step] = at
              /\ \A x \in Steps \ {d.step} :
                    stepStatus'[x] = stepStatus[x] /\ stamp'[x] = stamp[x]
  BY <1>n, <1>10, SingleStepEffect DEF Redispatch
<1>11. ASSUME NEW d \in candidates, DispatchReady(d)
       PROVE  Pacing'
  <2>1. Redispatch(d, stepStatus[d.step], stamp[d.step])
    BY <1>11 DEF DispatchReady
  <2>2. UNCHANGED <<attemptNo, attempts, now>> /\ candidates' \subseteq candidates
    BY <1>11 DEF DispatchReady, tryVars
  <2> QED BY <1>1, <1>10, <2>1, <2>2
<1>12. ASSUME NEW d \in candidates, ReleaseRetry(d)
       PROVE  Pacing'
  <2>1. attemptNo[d.step] <= now
    BY <1>n, <1>12 DEF ReleaseRetry, ReleasableRetry, Pacing
  <2>2. UNCHANGED <<attemptNo, attempts, now>> /\ candidates' \subseteq candidates
        /\ Redispatch(d, "READY", now)
    BY <1>12 DEF ReleaseRetry, tryVars
  <2> QED BY <1>1, <1>10, <2>1, <2>2
<1>13. ASSUME NEW d \in candidates, ReleaseExpiredLease(d)
       PROVE  Pacing'
  <2>1. PICK a \in attempts : a.step = d.step /\ a.lease <= d.at
    BY <1>13 DEF ReleaseExpiredLease, ReleasableLease, LeaseExpired
  <2>2. attemptNo[d.step] <= now
    BY <1>n, <2>1 DEF Pacing
  <2>3. UNCHANGED <<attemptNo, now>> /\ candidates' \subseteq candidates
        /\ attempts' \subseteq attempts /\ Redispatch(d, "READY", now)
    BY <1>13 DEF ReleaseExpiredLease
  <2> QED BY <1>1, <1>10, <2>2, <2>3
<1>14. ASSUME NEW d \in candidates, DropCandidate(d)
       PROVE  Pacing'
  BY <1>1, <1>14 DEF DropCandidate, stepVars, tryVars
<1>15. CASE CancelRun
  BY <1>1, <1>15 DEF CancelRun, stepVars, tryVars
<1>16. CASE Tick
  BY <1>n, <1>16 DEF Tick, Pacing, AttemptsArePaced, stepVars, tryVars
<1>17. CASE UNCHANGED vars
  BY <1>1, <1>17 DEF vars
<1> QED
  BY <1>2, <1>3, <1>4, <1>5, <1>6, <1>7, <1>8, <1>9, <1>11, <1>12, <1>13, <1>14,
     <1>15, <1>16, <1>17
  DEF Next, Deliver, Finish, Handle

\* However often messages are redelivered, workers crash and the reconciler
\* runs, the number of attempts of a step is bounded by the time that passed.
THEOREM NoRedeliveryStorm == Spec => []AttemptsArePaced
<1>1. Init => Pacing
  BY DEF Init, Pacing, AttemptsArePaced
<1>2. TypeOK /\ ExclusiveAttempt /\ Pacing /\ [Next]_vars => Pacing'
  BY PacingStep
<1>3. Pacing => AttemptsArePaced
  BY DEF Pacing
<1> QED BY <1>1, <1>2, <1>3, TypeCorrect, LeaseFencing, PTL DEF Spec
-----------------------------------------------------------------------------
\* What a superseded worker reports is ignored, whatever it reports.
THEOREM StaleReportsIgnored == Spec => StaleWorkerIsHarmless
<1>1. [Next]_vars =>
        \A c \in claims \ claims' :
            (~\E a \in attempts : a.step = c.step /\ a.no = c.no)
                => UNCHANGED <<runVars, stepVars, tryVars, outbox>>
  <2> SUFFICES ASSUME [Next]_vars,
                      NEW c \in claims \ claims',
                      ~\E a \in attempts : a.step = c.step /\ a.no = c.no
               PROVE  UNCHANGED <<runVars, stepVars, tryVars, outbox>>
    OBVIOUS
  <2>1. ~Current(c)
    BY DEF Current, RowOf
  <2>2. ASSUME NEW e \in claims, Finalise(e)
        PROVE  FALSE
    BY <2>1, <2>2 DEF Finalise
  <2>3. ASSUME NEW e \in claims, FinaliseStale(e) \/ Crash(e)
        PROVE  UNCHANGED <<runVars, stepVars, tryVars, outbox>>
    BY <2>3 DEF FinaliseStale, Crash
  <2>4. ASSUME claims \subseteq claims'
        PROVE  FALSE
    BY <2>4
  <2>5. ASSUME NEW e \in claims, Renew(e) \/ Finish(e) \/ Crash(e)
        PROVE  UNCHANGED <<runVars, stepVars, tryVars, outbox>>
    BY <2>2, <2>3, <2>4, <2>5
    DEF Renew, Finish, FinaliseOfTerminalRun, Succeed, FailForRetry, FailForGood,
        FailAsCancelled
  <2>6. ASSUME NEW s \in Steps, NEW w \in Workers, Deliver(w, s)
        PROVE  FALSE
    BY <2>4, <2>6 DEF Deliver, ClaimIgnored, ClaimOfTerminalRun,
        ClaimPastHardDeadline, ClaimPastPhaseDeadline, Claim
  <2>7. ASSUME NEW s \in Steps,
               DispatchOutbox(s) \/ DispatchWithoutMark(s) \/ LoseMessage(s)
                 \/ Scan(s)
        PROVE  FALSE
    BY <2>4, <2>7 DEF DispatchOutbox, DispatchWithoutMark, LoseMessage, Scan
  <2>8. ASSUME NEW d \in candidates, Handle(d)
        PROVE  FALSE
    BY <2>4, <2>8 DEF Handle, DispatchReady, ReleaseRetry, ReleaseExpiredLease,
        DropCandidate
  <2>9. ~CancelRun /\ ~Tick /\ ~UNCHANGED vars
    BY <2>4 DEF CancelRun, Tick, vars
  <2> QED BY <2>5, <2>6, <2>7, <2>8, <2>9 DEF Next
<1> QED BY <1>1, PTL DEF Spec, StaleWorkerIsHarmless

-----------------------------------------------------------------------------
(***************************************************************************)
(* StepExecution implements RunContract: whatever is lost, repeated, late  *)
(* or retried, those who look at the rows of a run see an exactly-once     *)
(* workflow.  And the transition tables of the domain never refuse a       *)
(* change that the step store makes.                                       *)
(***************************************************************************)
\* The ways the status of a step changes in one commit.
Changes(a, b) ==
    \/ a = b
    \/ a = "ABSENT" /\ b = "READY"
    \/ a = "READY" /\ b \in {"RUNNING", "FAILED", "CANCELLED"}
    \/ a = "RUNNING" /\ b \in Terminal \cup {"READY", "RETRY_WAIT"}
    \/ a = "RETRY_WAIT" /\ b = "READY"

\* The ways the statuses of run and response change in one commit.
RunChanges(a, b, r, t) ==
    \/ a = b /\ r = t
    \/ a = "QUEUED" /\ b = "RUNNING" /\ r = t
    \/ /\ a \in {"QUEUED", "RUNNING"} /\ b \in Terminal /\ t \in {r, b}
       /\ b = "SUCCEEDED" => \E s \in Steps : stepStatus[s] = "RUNNING"

\* A step is started by a claim, which starts the run as well.
Starts == \A s \in Steps : stepStatus'[s] = "RUNNING" =>
                stepStatus[s] = "RUNNING" \/ runStatus' # "QUEUED"

\* Every action changes statuses in these ways only.
LEMMA StatusStep ==
    TypeOK /\ [Next]_vars =>
        /\ \A s \in Steps : Changes(stepStatus[s], stepStatus'[s])
        /\ RunChanges(runStatus, runStatus', response, response')
        /\ Starts
<1> SUFFICES ASSUME TypeOK, [Next]_vars
             PROVE  /\ \A s \in Steps : Changes(stepStatus[s], stepStatus'[s])
                    /\ RunChanges(runStatus, runStatus', response, response')
                    /\ Starts
  OBVIOUS
<1>n. /\ runStatus \in RunStatus
      /\ \A c \in claims : c.step \in Steps
      /\ \A d \in candidates : d.step \in Steps
  BY DEF TypeOK, Claimed, Candidate
<1> DEFINE Fine == /\ \A s \in Steps : Changes(stepStatus[s], stepStatus'[s])
                   /\ RunChanges(runStatus, runStatus', response, response')
                   /\ Starts
<1>1. ASSUME UNCHANGED <<runStatus, response, stepStatus>>
      PROVE  Fine
  BY <1>1 DEF Changes, RunChanges, Starts
<1>2. ASSUME NEW s \in Steps, NEW status, NEW at, SetStep(s, status, at),
             Changes(stepStatus[s], status),
             status = "RUNNING" => stepStatus[s] = "RUNNING" \/ runStatus' # "QUEUED",
             RunChanges(runStatus, runStatus', response, response')
      PROVE  Fine
  BY <1>2, SingleStepEffect DEF Changes, Starts
<1>3. ASSUME NEW s \in Steps, NEW status \in Terminal, stepStatus[s] \in {"READY", "RUNNING"},
             stepStatus[s] = "READY" => status = "FAILED",
             NEW wanted,
             AddSteps([stepStatus EXCEPT ![s] = status], s, wanted),
             RunChanges(runStatus, runStatus', response, response')
      PROVE  Fine
  <2>1. stepStatus'[s] = status
        /\ \A x \in Steps \ {s} :
                \/ stepStatus'[x] = stepStatus[x]
                \/ stepStatus[x] = "ABSENT" /\ stepStatus'[x] = "READY"
    BY <1>3, AddStepsEffect
  <2> QED BY <1>3, <2>1 DEF Changes, Terminal, Starts
<1>4. RunTerminal \/ runStatus \in {"QUEUED", "RUNNING"}
  BY <1>n DEF RunStatus, RunTerminal, Terminal
<1>5. ASSUME NEW w \in Workers, NEW s \in Steps, Deliver(w, s)
      PROVE  Fine
  <2>1. CASE ClaimIgnored(w, s)
    BY <1>1, <2>1 DEF ClaimIgnored, runVars, stepVars
  <2>2. CASE ClaimOfTerminalRun(w, s)
    <3>1. SetStep(s, "CANCELLED", 0) /\ stepStatus[s] = "READY" /\ UNCHANGED runVars
      BY <2>2 DEF ClaimOfTerminalRun
    <3> QED BY <1>2, <3>1 DEF Changes, RunChanges, runVars
  <2>3. CASE ClaimPastHardDeadline(w, s)
    <3>1. /\ SetStep(s, "FAILED", 0) /\ stepStatus[s] = "READY"
          /\ runStatus' = "FAILED" /\ UNCHANGED response /\ ~RunTerminal
      BY <2>3 DEF ClaimPastHardDeadline
    <3>2. Changes(stepStatus[s], "FAILED")
      BY <3>1 DEF Changes
    <3>3. RunChanges(runStatus, runStatus', response, response')
      BY <1>4, <3>1 DEF RunChanges, Terminal
    <3> QED BY <1>2, <3>1, <3>2, <3>3
  <2>4. CASE ClaimPastPhaseDeadline(w, s)
    <3>1. /\ AddSteps([stepStatus EXCEPT ![s] = "FAILED"], s,
                      AfterFailure([stepStatus EXCEPT ![s] = "FAILED"], s))
          /\ stepStatus[s] = "READY" /\ ~RunTerminal
          /\ \/ runStatus' = "FAILED" /\ response' = "FAILED"
             \/ runStatus' = StartedRun /\ response' = response
      BY <2>4 DEF ClaimPastPhaseDeadline, OnFailure
    <3>2. RunChanges(runStatus, runStatus', response, response')
      BY <1>4, <3>1 DEF RunChanges, Terminal, StartedRun
    <3> QED BY <1>3, <3>1, <3>2 DEF Terminal
  <2>5. CASE Claim(w, s)
    <3>1. /\ SetStep(s, "RUNNING", 0) /\ stepStatus[s] = "READY"
          /\ runStatus' = StartedRun /\ UNCHANGED response /\ ~RunTerminal
      BY <2>5 DEF Claim
    <3>2. Changes(stepStatus[s], "RUNNING")
      BY <3>1 DEF Changes
    <3>3. RunChanges(runStatus, runStatus', response, response') /\ runStatus' # "QUEUED"
      BY <3>1 DEF RunChanges, StartedRun
    <3> QED BY <1>2, <3>1, <3>2, <3>3
  <2> QED BY <1>5, <2>1, <2>2, <2>3, <2>4, <2>5 DEF Deliver
<1>6. ASSUME NEW c \in claims, Renew(c) \/ FinaliseStale(c) \/ Crash(c)
      PROVE  Fine
  BY <1>1, <1>6 DEF Renew, FinaliseStale, Crash, runVars, stepVars
<1>7. ASSUME NEW c \in claims, Finish(c), ~FinaliseStale(c)
      PROVE  Fine
  <2>1. /\ stepStatus[c.step] = "RUNNING" /\ c.step \in Steps
        /\ stepStatus'[c.step] \in Terminal \cup {"RETRY_WAIT"}
        /\ \A s \in Steps \ {c.step} :
                \/ stepStatus'[s] = stepStatus[s]
                \/ stepStatus[s] = "ABSENT" /\ stepStatus'[s] = "READY"
    BY <1>7, FinishEffect
  <2>2. \A s \in Steps : Changes(stepStatus[s], stepStatus'[s])
    BY <2>1 DEF Changes
  <2>4. Starts
    BY <2>1 DEF Starts, Terminal
  <2>3. RunChanges(runStatus, runStatus', response, response')
    BY <1>4, <1>7, <2>1
    DEF Finish, FinaliseOfTerminalRun, Succeed, FailForRetry, FailForGood,
        FailAsCancelled, OnFailure, PersistAnswer, RunChanges, Terminal, runVars
  <2> QED BY <2>2, <2>3, <2>4
<1>8. ASSUME NEW s \in Steps,
             DispatchOutbox(s) \/ DispatchWithoutMark(s) \/ LoseMessage(s) \/ Scan(s)
      PROVE  Fine
  BY <1>1, <1>8 DEF DispatchOutbox, DispatchWithoutMark, LoseMessage, Scan,
                    runVars, stepVars
<1>9. ASSUME NEW d \in candidates, NEW status, NEW at, Redispatch(d, status, at),
             UNCHANGED runVars, Changes(stepStatus[d.step], status),
             status = "RUNNING" => stepStatus[d.step] = "RUNNING"
      PROVE  Fine
  <2>1. RunChanges(runStatus, runStatus', response, response')
    BY <1>9 DEF RunChanges, runVars
  <2>2. \E t : SetStep(d.step, status, t)
    BY <1>9 DEF Redispatch
  <2> QED BY <1>n, <1>2, <1>9, <2>1, <2>2
<1>10. ASSUME NEW d \in candidates, Handle(d)
       PROVE  Fine
  <2>1. CASE DispatchReady(d)
    <3>1. Redispatch(d, stepStatus[d.step], stamp[d.step]) /\ UNCHANGED runVars
      BY <2>1 DEF DispatchReady
    <3> QED BY <1>9, <3>1 DEF Changes
  <2>2. CASE ReleaseRetry(d)
    <3>1. Redispatch(d, "READY", now) /\ UNCHANGED runVars
          /\ stepStatus[d.step] = "RETRY_WAIT"
      BY <2>2 DEF ReleaseRetry, ReleasableRetry
    <3> QED BY <1>9, <3>1 DEF Changes
  <2>3. CASE ReleaseExpiredLease(d)
    <3>1. Redispatch(d, "READY", now) /\ UNCHANGED runVars
          /\ stepStatus[d.step] = "RUNNING"
      BY <2>3 DEF ReleaseExpiredLease, ReleasableLease
    <3> QED BY <1>9, <3>1 DEF Changes
  <2>4. CASE DropCandidate(d)
    BY <1>1, <2>4 DEF DropCandidate, runVars, stepVars
  <2> QED BY <1>10, <2>1, <2>2, <2>3, <2>4 DEF Handle
<1>11. CASE CancelRun
  BY <1>4, <1>11 DEF CancelRun, stepVars, Changes, RunChanges, Terminal, Starts
<1>12. CASE Tick
  BY <1>1, <1>12 DEF Tick, runVars, stepVars
<1>13. CASE UNCHANGED vars
  BY <1>1, <1>13 DEF vars
<1> QED BY <1>5, <1>6, <1>7, <1>8, <1>10, <1>11, <1>12, <1>13 DEF Next

-----------------------------------------------------------------------------
(***************************************************************************)
(* The transition tables.                                                  *)
(***************************************************************************)
\* A run that has not begun is not being executed, and a run whose response
\* is settled is over.
Bounds ==
    /\ runStatus = "QUEUED" => \A s \in Steps : stepStatus[s] # "RUNNING"
    /\ response # "QUEUED" => RunTerminal

\* Every action keeps these bounds.
LEMMA BoundsStep == TypeOK /\ Bounds /\ [Next]_vars => Bounds'
<1> SUFFICES ASSUME TypeOK, Bounds, [Next]_vars PROVE Bounds'
  OBVIOUS
<1>1. RunChanges(runStatus, runStatus', response, response') /\ Starts
  BY StatusStep
<1> QED BY <1>1 DEF RunChanges, Starts, Bounds, RunTerminal, Terminal

\* They hold throughout.
LEMMA AlwaysBounds == Spec => []Bounds
<1>1. Init => Bounds
  BY DEF Init, Bounds
<1> QED BY <1>1, BoundsStep, TypeCorrect, PTL DEF Spec

\* assert_transition never refuses a change that claim, succeed, fail, cancel
\* or the reconciler commits: run, response and steps move along the tables of
\* the domain only, and stay where they ended.
THEOREM TransitionsAreLegal == Spec => LegalTransitions
<1> DEFINE Legal ==
        /\ runStatus' # runStatus => runStatus' \in RunTransitions[runStatus]
        /\ response # "QUEUED" => response' = response
        /\ \A s \in Steps : stepStatus'[s] # stepStatus[s] =>
            \/ stepStatus'[s] \in StepTransitions[stepStatus[s]]
            \/ stepStatus[s] = "READY" /\ stepStatus'[s] = "FAILED"
<1>1. TypeOK /\ Bounds /\ [Next]_vars => Legal
  <2> SUFFICES ASSUME TypeOK, Bounds, [Next]_vars PROVE Legal
    OBVIOUS
  <2>1. /\ \A s \in Steps : Changes(stepStatus[s], stepStatus'[s])
        /\ RunChanges(runStatus, runStatus', response, response')
    BY StatusStep
  <2>2. runStatus' # runStatus => runStatus' \in RunTransitions[runStatus]
    BY <2>1 DEF RunChanges, RunTransitions, Terminal, Bounds
  <2>3. response # "QUEUED" => response' = response
    BY <2>1 DEF RunChanges, Bounds, RunTerminal, Terminal
  <2>4. ASSUME NEW s \in Steps, stepStatus'[s] # stepStatus[s]
        PROVE  \/ stepStatus'[s] \in StepTransitions[stepStatus[s]]
               \/ stepStatus[s] = "READY" /\ stepStatus'[s] = "FAILED"
    BY <2>1, <2>4 DEF Changes, StepTransitions, Terminal
  <2> QED BY <2>2, <2>3, <2>4
<1> QED BY <1>1, TypeCorrect, AlwaysBounds, PTL DEF Spec, LegalTransitions

-----------------------------------------------------------------------------
(***************************************************************************)
(* The refinement.                                                         *)
(***************************************************************************)
\* The step table as seen from outside.
View(st) == [s \in Steps |-> Outward(st[s])]

\* The names of the contract stand for the same steps.
LEMMA SameSteps ==
    /\ Contract!Steps = Steps
    /\ Contract!Route = Route /\ Contract!Plan = Plan /\ Contract!Select = Select
    /\ Contract!Verify = Verify /\ Contract!Synthesize = Synthesize
    /\ Contract!Discoveries = Discoveries /\ Contract!Fetches = Fetches
    /\ Contract!Extracts = Extracts /\ Contract!Terminal = Terminal
    /\ \A x : /\ Contract!Discovery(x) = Discovery(x)
              /\ Contract!Fetch(x) = Fetch(x)
              /\ Contract!Extract(x) = Extract(x)
              /\ Contract!FailsRun(x) <=> FailsRun(x)
BY DEF Contract!Steps, Contract!Route, Contract!Plan, Contract!Select,
       Contract!Verify, Contract!Synthesize, Contract!Discoveries,
       Contract!Fetches, Contract!Extracts, Contract!Terminal, Contract!Only,
       Contract!Discovery, Contract!Fetch, Contract!Extract, Contract!FailsRun,
       Steps, Route, Plan, Select, Verify, Synthesize, Discoveries, Fetches,
       Extracts, Terminal, Only, Discovery, Fetch, Extract, FailsRun

\* The rules of the contract are the rules of the coordinator.
LEMMA SameRules ==
    ASSUME NEW st, NEW s, NEW fanout
    PROVE  /\ Contract!AfterSuccess(st, s, fanout) = AfterSuccess(st, s, fanout)
           /\ Contract!AfterFailure(st, s) = AfterFailure(st, s)
           /\ Contract!Missing(st, fanout) = Missing(st, fanout)
           /\ Contract!DiscoveredQueries(st) = DiscoveredQueries(st)
<1>1. /\ Contract!Present(st) = Present(st)
      /\ \A S : Contract!AllTerminal(st, S) <=> AllTerminal(st, S)
      /\ Contract!DiscoveredQueries(st) = DiscoveredQueries(st)
      /\ Contract!ExtractedSources(st) = ExtractedSources(st)
      /\ Contract!Missing(st, fanout) = Missing(st, fanout)
  BY SameSteps
  DEF Contract!Present, Present, Contract!AllTerminal, AllTerminal,
      Contract!DiscoveredQueries, DiscoveredQueries,
      Contract!ExtractedSources, ExtractedSources, Contract!Missing, Missing
<1>2. /\ Contract!MaybeSelect(st) = MaybeSelect(st)
      /\ Contract!MaybeSynthesize(st) = MaybeSynthesize(st)
  BY <1>1, SameSteps
  DEF Contract!MaybeSelect, MaybeSelect, Contract!MaybeSynthesize, MaybeSynthesize
<1>3. \A S : Contract!CoveredEarly(S) <=> CoveredEarly(S)
  BY DEF Contract!CoveredEarly, CoveredEarly
<1>4. Contract!MaybeVerify(st) = MaybeVerify(st)
  BY <1>1, <1>2, <1>3, SameSteps DEF Contract!MaybeVerify, MaybeVerify
<1>5. /\ Contract!AfterSuccess(st, s, fanout) = AfterSuccess(st, s, fanout)
      /\ Contract!AfterFailure(st, s) = AfterFailure(st, s)
  BY <1>2, <1>4, SameSteps
  DEF Contract!AfterSuccess, AfterSuccess, Contract!AfterFailure, AfterFailure
<1> QED BY <1>1, <1>5

\* The rules do not tell READY, RUNNING and RETRY_WAIT apart.
LEMMA RulesOfView ==
    ASSUME NEW st \in [Steps -> StepStatus], NEW s \in Steps, NEW fanout
    PROVE  /\ AfterSuccess(View(st), s, fanout) = AfterSuccess(st, s, fanout)
           /\ AfterFailure(View(st), s) = AfterFailure(st, s)
           /\ DiscoveredQueries(View(st)) = DiscoveredQueries(st)
           /\ fanout \subseteq Steps => Missing(View(st), fanout) = Missing(st, fanout)
<1> DEFINE o == View(st)
<1>0. \A x \in Steps : /\ o[x] = "ABSENT" <=> st[x] = "ABSENT"
                       /\ o[x] = "SUCCEEDED" <=> st[x] = "SUCCEEDED"
                       /\ o[x] \in Terminal <=> st[x] \in Terminal
  BY DEF View, Outward, StepStatus, Open, Terminal
<1> HIDE DEF o
<1>1. Present(o) = Present(st) /\ Present(st) \subseteq Steps
  BY <1>0 DEF Present
<1>2. \A S \in SUBSET Steps : AllTerminal(o, S) <=> AllTerminal(st, S)
  BY <1>0 DEF AllTerminal
<1>3. /\ DiscoveredQueries(o) = DiscoveredQueries(st)
      /\ ExtractedSources(o) = ExtractedSources(st)
      /\ fanout \subseteq Steps => Missing(o, fanout) = Missing(st, fanout)
  BY <1>0, StepsFacts DEF DiscoveredQueries, ExtractedSources, Missing
<1>4. MaybeSelect(o) = MaybeSelect(st) /\ MaybeSynthesize(o) = MaybeSynthesize(st)
  BY <1>1, <1>2 DEF MaybeSelect, MaybeSynthesize
<1>5. MaybeVerify(o) = MaybeVerify(st)
  BY <1>0, <1>1, <1>2, <1>3, <1>4, StepsFacts DEF MaybeVerify
<1>6. /\ AfterSuccess(o, s, fanout) = AfterSuccess(st, s, fanout)
      /\ AfterFailure(o, s) = AfterFailure(st, s)
  BY <1>4, <1>5 DEF AfterSuccess, AfterFailure
<1> QED BY <1>3, <1>6 DEF o

\* The end of a step, seen from outside.
LEMMA EndOfView ==
    ASSUME TypeOK, NEW s \in Steps, NEW end \in Terminal
    PROVE  /\ View([stepStatus EXCEPT ![s] = end]) = [View(stepStatus) EXCEPT ![s] = end]
           /\ [stepStatus EXCEPT ![s] = end] \in [Steps -> StepStatus]
BY DEF TypeOK, View, Outward, Open, Terminal, StepStatus

\* What the hook adds, seen from outside.
LEMMA HookOfView ==
    ASSUME NEW st \in [Steps -> StepStatus], NEW current, NEW wanted \in SUBSET Steps,
           AddSteps(st, current, wanted)
    PROVE  View(stepStatus') =
                [s \in Steps |-> IF s \in Contract!Missing(View(st), wanted) THEN "OPEN"
                                 ELSE View(st)[s]]
<1>1. Contract!Missing(View(st), wanted) = Missing(st, wanted)
  BY RulesOfView, SameRules, StepsFacts
<1>2. stepStatus' = [s \in Steps |-> IF s \in Missing(st, wanted) THEN "READY" ELSE st[s]]
  BY DEF AddSteps
<1> QED BY <1>1, <1>2 DEF View, Outward, Open


\* The input of SELECT names discoveries that succeeded.
SelectsFromSuccess ==
    stepStatus[Select] # "ABSENT" => selectInput \subseteq DiscoveredQueries(stepStatus)

\* Only the hook writes that input, when it creates the step.
LEMMA SelectInputStep ==
    ASSUME TypeOK, [Next]_vars
    PROVE  \/ /\ selectInput' = selectInput
              /\ stepStatus'[Select] # "ABSENT" => stepStatus[Select] # "ABSENT"
           \/ selectInput' \subseteq DiscoveredQueries(stepStatus')
<1> DEFINE Fine == \/ /\ selectInput' = selectInput
                      /\ stepStatus'[Select] # "ABSENT" => stepStatus[Select] # "ABSENT"
                   \/ selectInput' \subseteq DiscoveredQueries(stepStatus')
<1>n. /\ \A c \in claims : c.step \in Steps
      /\ \A d \in candidates : d.step \in Steps
      /\ stepStatus \in [Steps -> StepStatus] /\ Select \in Steps
  BY StepsFacts DEF TypeOK, Claimed, Candidate
<1>1. ASSUME UNCHANGED <<selectInput, stepStatus>> PROVE Fine
  BY <1>1
<1>2. ASSUME NEW s \in Steps, NEW status, NEW at, SetStep(s, status, at),
             stepStatus[s] # "ABSENT", UNCHANGED selectInput
      PROVE  Fine
  BY <1>2, <1>n DEF SetStep
<1>3. ASSUME NEW st, NEW current, NEW wanted, AddSteps(st, current, wanted),
             st[Select] # "ABSENT" => stepStatus[Select] # "ABSENT"
      PROVE  Fine
  <2>1. CASE Select \in Missing(st, wanted)
    <3>1. selectInput' = DiscoveredQueries(st)
      BY <1>3, <2>1 DEF AddSteps
    <3>2. \A q \in DiscoveredQueries(st) : q \in Queries /\ stepStatus'[Discovery(q)] = "SUCCEEDED"
      BY <1>3, StepsFacts DEF AddSteps, DiscoveredQueries, Missing
    <3> QED BY <3>1, <3>2 DEF DiscoveredQueries
  <2>2. CASE Select \notin Missing(st, wanted)
    BY <1>3, <1>n, <2>2 DEF AddSteps
  <2> QED BY <2>1, <2>2
<1>4. ASSUME NEW s \in Steps, NEW end, NEW wanted, stepStatus[s] # "ABSENT",
             AddSteps([stepStatus EXCEPT ![s] = end], s, wanted)
      PROVE  Fine
  <2>1. [stepStatus EXCEPT ![s] = end][Select] # "ABSENT" => stepStatus[Select] # "ABSENT"
    BY <1>4, <1>n
  <2> QED BY <1>3, <1>4, <2>1
<1>5. ASSUME NEW w \in Workers, NEW s \in Steps, Deliver(w, s)
      PROVE  Fine
  <2>1. CASE ClaimIgnored(w, s)
    BY <1>1, <2>1 DEF ClaimIgnored, stepVars, inputVars
  <2>2. CASE ClaimOfTerminalRun(w, s)
    BY <1>2, <2>2 DEF ClaimOfTerminalRun, inputVars
  <2>3. CASE ClaimPastHardDeadline(w, s)
    BY <1>2, <2>3 DEF ClaimPastHardDeadline, inputVars
  <2>4. CASE ClaimPastPhaseDeadline(w, s)
    BY <1>4, <2>4 DEF ClaimPastPhaseDeadline, OnFailure
  <2>5. CASE Claim(w, s)
    BY <1>2, <2>5 DEF Claim, inputVars
  <2> QED BY <1>5, <2>1, <2>2, <2>3, <2>4, <2>5 DEF Deliver
<1>6. ASSUME NEW c \in claims, Renew(c) \/ FinaliseStale(c) \/ Crash(c)
      PROVE  Fine
  BY <1>1, <1>6 DEF Renew, FinaliseStale, Crash, inputVars, stepVars
<1>7. ASSUME NEW c \in claims, Finish(c), ~FinaliseStale(c)
      PROVE  Fine
  <2>1. stepStatus[c.step] # "ABSENT" /\ c.step \in Steps
    BY <1>7, FinishEffect
  <2>2. CASE FinaliseOfTerminalRun(c) \/ FailForRetry(c)
    BY <1>2, <2>1, <2>2 DEF FinaliseOfTerminalRun, FailForRetry, inputVars
  <2>3. CASE Succeed(c)
    BY <1>4, <2>1, <2>3 DEF Succeed
  <2>4. CASE FailForGood(c) \/ FailAsCancelled(c)
    BY <1>4, <2>1, <2>4 DEF FailForGood, FailAsCancelled, OnFailure
  <2> QED BY <1>7, <2>2, <2>3, <2>4 DEF Finish
<1>8. ASSUME NEW s \in Steps,
             DispatchOutbox(s) \/ DispatchWithoutMark(s) \/ LoseMessage(s) \/ Scan(s)
      PROVE  Fine
  BY <1>1, <1>8 DEF DispatchOutbox, DispatchWithoutMark, LoseMessage, Scan,
                    inputVars, stepVars
<1>9. ASSUME NEW d \in candidates, Handle(d)
      PROVE  Fine
  <2>1. ASSUME NEW status, NEW at, Redispatch(d, status, at), UNCHANGED selectInput,
               stepStatus[d.step] # "ABSENT" \/ status = stepStatus[d.step]
        PROVE  Fine
    <3>1. PICK t : SetStep(d.step, status, t)
      BY <2>1 DEF Redispatch
    <3>2. stepStatus'[Select] # "ABSENT" => stepStatus[Select] # "ABSENT"
      BY <1>n, <2>1, <3>1 DEF SetStep
    <3> QED BY <2>1, <3>2
  <2>2. CASE DispatchReady(d)
    BY <2>1, <2>2 DEF DispatchReady, inputVars
  <2>3. CASE ReleaseRetry(d)
    BY <2>1, <2>3 DEF ReleaseRetry, ReleasableRetry, inputVars
  <2>4. CASE ReleaseExpiredLease(d)
    BY <2>1, <2>4 DEF ReleaseExpiredLease, ReleasableLease, inputVars
  <2>5. CASE DropCandidate(d)
    BY <1>1, <2>5 DEF DropCandidate, inputVars, stepVars
  <2> QED BY <1>9, <2>2, <2>3, <2>4, <2>5 DEF Handle
<1>10. CASE CancelRun \/ Tick \/ UNCHANGED vars
  BY <1>1, <1>10 DEF CancelRun, Tick, vars, inputVars, stepVars
<1> QED BY <1>5, <1>6, <1>7, <1>8, <1>9, <1>10 DEF Next

\* A discovery that succeeded stays so.
LEMMA SelectsFromSuccessStep ==
    TypeOK /\ SelectsFromSuccess /\ [Next]_vars => SelectsFromSuccess'
<1> SUFFICES ASSUME TypeOK, SelectsFromSuccess, [Next]_vars PROVE SelectsFromSuccess'
  OBVIOUS
<1>1. \A s \in Steps : Changes(stepStatus[s], stepStatus'[s])
  BY StatusStep
<1>2. DiscoveredQueries(stepStatus) \subseteq DiscoveredQueries(stepStatus')
  BY <1>1, StepsFacts DEF DiscoveredQueries, Changes
<1>3. \/ /\ selectInput' = selectInput
         /\ stepStatus'[Select] # "ABSENT" => stepStatus[Select] # "ABSENT"
      \/ selectInput' \subseteq DiscoveredQueries(stepStatus')
  BY SelectInputStep
<1> QED BY <1>2, <1>3 DEF SelectsFromSuccess

\* It holds throughout.
LEMMA AlwaysSelectsFromSuccess == Spec => []SelectsFromSuccess
<1>1. Init => SelectsFromSuccess
  BY DEF Init, SelectsFromSuccess
<1> QED BY <1>1, SelectsFromSuccessStep, TypeCorrect, PTL DEF Spec


\* There is one SELECT step.
LEMMA SelectIsOne == \A s \in Steps : s.type = "SELECT" => s = Select
<1>1. \A s \in Discoveries \cup Fetches \cup Extracts : s.type # "SELECT"
  BY DEF Discoveries, Fetches, Extracts
<1>2. \A s \in {Route, Plan, Verify, Synthesize} : s.type # "SELECT"
  BY DEF Route, Plan, Verify, Synthesize
<1> QED BY <1>1, <1>2 DEF Steps

\* A step that is changed but stays open is not seen from outside.
LEMMA UnseenChange ==
    ASSUME TypeOK, NEW s \in Steps, NEW status, NEW at, SetStep(s, status, at),
           Outward(status) = Outward(stepStatus[s])
    PROVE  View(stepStatus') = View(stepStatus)
BY DEF SetStep, View, TypeOK

\* A step that ends and is not followed up.
LEMMA SeenEnd ==
    ASSUME TypeOK, NEW s \in Steps, NEW end \in Terminal, NEW at, SetStep(s, end, at)
    PROVE  View(stepStatus') = [View(stepStatus) EXCEPT ![s] = end]
<1>1. View(stepStatus') = View([stepStatus EXCEPT ![s] = end])
  BY DEF SetStep
<1> QED BY <1>1, EndOfView

\* on_failure is GiveUp.
LEMMA FailureIsGiveUp ==
    ASSUME TypeOK, NEW s \in Steps, NEW end \in {"FAILED", "CANCELLED"},
           stepStatus[s] \in Open, ~RunTerminal,
           OnFailure([stepStatus EXCEPT ![s] = end], s, "RUNNING")
    PROVE  Contract!GiveUp(s)
<1> DEFINE st == [stepStatus EXCEPT ![s] = end]
<1>0. end \in Terminal
  BY DEF Terminal
<1>1. st \in [Steps -> StepStatus] /\ View(st) = [View(stepStatus) EXCEPT ![s] = end]
  BY <1>0, EndOfView
<1>2. AddSteps(st, s, AfterFailure(st, s))
      /\ IF FailsRun(s) THEN runStatus' = "FAILED" /\ response' = "FAILED"
         ELSE runStatus' = "RUNNING" /\ UNCHANGED response
  BY DEF OnFailure
<1> HIDE DEF st
<1>3. AfterFailure(st, s) \in SUBSET Steps
  BY StepsFacts DEF AfterFailure, MaybeSelect, MaybeSynthesize, MaybeVerify
<1>4. AfterFailure(st, s) = Contract!AfterFailure(View(st), s)
  BY <1>1, RulesOfView, SameRules
<1>5. View(stepStatus') =
        [x \in Steps |-> IF x \in Contract!Missing(View(st), AfterFailure(st, s))
                         THEN "OPEN" ELSE View(st)[x]]
  <2> DEFINE wanted == AfterFailure(st, s)
  <2>1. st \in [Steps -> StepStatus] /\ wanted \in SUBSET Steps /\ AddSteps(st, s, wanted)
    BY <1>1, <1>2, <1>3
  <2> HIDE DEF wanted
  <2>2. View(stepStatus') =
          [x \in Steps |-> IF x \in Contract!Missing(View(st), wanted) THEN "OPEN"
                           ELSE View(st)[x]]
    BY ONLY <2>1, HookOfView
  <2> QED BY <2>2 DEF wanted
<1>6. View(stepStatus)[s] = "OPEN"
  BY DEF View, Outward
<1>7. LET o == [View(stepStatus) EXCEPT ![s] = end]
      IN  View(stepStatus') =
            [x \in Contract!Steps |->
                IF x \in Contract!Missing(o, Contract!AfterFailure(o, s)) THEN "OPEN"
                ELSE o[x]]
  BY <1>1, <1>4, <1>5, SameSteps
<1> QED BY <1>2, <1>6, <1>7, SameSteps
        DEF Contract!GiveUp, Contract!Over, Contract!Extend, View, RunTerminal

\* on_success is Complete.
LEMMA SuccessIsComplete ==
    ASSUME TypeOK, SelectsFromSuccess, NEW s \in Steps, NEW fanout \in Fanout(s),
           stepStatus[s] = "RUNNING", runStatus = "RUNNING",
           LET st == [stepStatus EXCEPT ![s] = "SUCCEEDED"]
           IN  AddSteps(st, s, AfterSuccess(st, s, fanout)),
           PersistAnswer(s)
    PROVE  Contract!Complete(s)
<1> DEFINE st == [stepStatus EXCEPT ![s] = "SUCCEEDED"]
<1>0. "SUCCEEDED" \in Terminal
  BY DEF Terminal
<1>1. st \in [Steps -> StepStatus]
      /\ View(st) = [View(stepStatus) EXCEPT ![s] = "SUCCEEDED"]
  BY <1>0, EndOfView
<1>2. AddSteps(st, s, AfterSuccess(st, s, fanout))
  OBVIOUS
<1> HIDE DEF st
<1>3. AfterSuccess(st, s, fanout) \in SUBSET Steps
  BY WantedAreSteps DEF TypeOK
<1>4. AfterSuccess(st, s, fanout) = Contract!AfterSuccess(View(st), s, fanout)
  <2>1. AfterSuccess(View(st), s, fanout) = AfterSuccess(st, s, fanout)
    BY <1>1, RulesOfView
  <2>2. Contract!AfterSuccess(View(st), s, fanout) = AfterSuccess(View(st), s, fanout)
    BY SameRules
  <2> QED BY <2>1, <2>2
<1>5. View(stepStatus') =
        [x \in Steps |-> IF x \in Contract!Missing(View(st), AfterSuccess(st, s, fanout))
                         THEN "OPEN" ELSE View(st)[x]]
  <2> DEFINE wanted == AfterSuccess(st, s, fanout)
  <2>1. st \in [Steps -> StepStatus] /\ wanted \in SUBSET Steps /\ AddSteps(st, s, wanted)
    BY <1>1, <1>2, <1>3
  <2> HIDE DEF wanted
  <2>2. View(stepStatus') =
          [x \in Steps |-> IF x \in Contract!Missing(View(st), wanted) THEN "OPEN"
                           ELSE View(st)[x]]
    BY ONLY <2>1, HookOfView
  <2> QED BY <2>2 DEF wanted
<1>6. View(stepStatus)[s] = "OPEN"
  BY DEF View, Outward, Open
<1>7. LET o == [View(stepStatus) EXCEPT ![s] = "SUCCEEDED"]
      IN  View(stepStatus') =
            [x \in Contract!Steps |->
                IF x \in Contract!Missing(o, Contract!AfterSuccess(o, s, fanout)) THEN "OPEN"
                ELSE o[x]]
  BY <1>1, <1>4, <1>5, SameSteps
<1>8. fanout \in Contract!Asked(s)
  <2>1. Contract!DiscoveredQueries(View(stepStatus)) = DiscoveredQueries(stepStatus)
    BY RulesOfView, SameRules DEF TypeOK
  <2>2. CASE s.type = "SELECT"
    <3>1. selectInput \subseteq DiscoveredQueries(stepStatus)
      BY <2>2, SelectIsOne DEF SelectsFromSuccess
    <3>2. fanout \in SUBSET UNION {HitsOf[q] : q \in selectInput}
      BY <2>2 DEF Fanout
    <3>3. fanout \in SUBSET UNION {HitsOf[q] : q \in Contract!DiscoveredQueries(View(stepStatus))}
      BY <2>1, <3>1, <3>2
    <3> QED BY <2>2, <3>3 DEF Contract!Asked, View
  <2>3. CASE s.type # "SELECT"
    BY <2>3 DEF Fanout, Contract!Asked
  <2> QED BY <2>2, <2>3
<1>9. IF s = Contract!Synthesize THEN runStatus' = "SUCCEEDED" /\ response' = "SUCCEEDED"
      ELSE UNCHANGED <<runStatus, response>>
  BY SameSteps DEF PersistAnswer, runVars
<1> QED BY <1>6, <1>7, <1>8, <1>9 DEF Contract!Complete, Contract!Extend, View

\* What the contract calls the step table.
LEMMA ContractSteps ==
    /\ Contract!contractVars = <<runStatus, response, View(stepStatus)>>
    /\ \A s \in Steps : stepStatus[s] \in Open => View(stepStatus)[s] = "OPEN"
BY DEF Contract!contractVars, View, Outward

\* Every step of the execution is a step of the contract, or is not seen.
LEMMA ContractStep ==
    TypeOK /\ Bounds /\ SelectsFromSuccess /\ [Next]_vars
        => [Contract!ContractNext]_(Contract!contractVars)
<1> SUFFICES ASSUME TypeOK, Bounds, SelectsFromSuccess, [Next]_vars
             PROVE  Contract!ContractNext \/ UNCHANGED Contract!contractVars
  OBVIOUS
<1>n. /\ \A c \in claims : c.step \in Steps
      /\ \A d \in candidates : d.step \in Steps
      /\ runStatus \in RunStatus
  BY DEF TypeOK, Claimed, Candidate
<1> DEFINE Fine == Contract!ContractNext \/ UNCHANGED Contract!contractVars
<1>0. ASSUME UNCHANGED <<runStatus, response>>, View(stepStatus') = View(stepStatus)
      PROVE  Fine
  BY <1>0 DEF Contract!contractVars, View
<1>1. ASSUME UNCHANGED <<runStatus, response, stepStatus>>
      PROVE  Fine
  BY <1>1 DEF Contract!contractVars
<1>2. ASSUME NEW s \in Steps, Contract!Complete(s) \/ Contract!GiveUp(s)
                \/ Contract!Expire(s) \/ Contract!Abandon(s)
      PROVE  Fine
  BY <1>2, SameSteps DEF Contract!ContractNext
<1>3. ASSUME NEW s \in Steps, NEW at, SetStep(s, "CANCELLED", at), RunTerminal,
             stepStatus[s] \in Open, UNCHANGED runVars
      PROVE  Fine
  <2>1. View(stepStatus') = [View(stepStatus) EXCEPT ![s] = "CANCELLED"]
    BY <1>3, SeenEnd DEF Terminal
  <2>2. View(stepStatus)[s] = "OPEN"
    BY <1>3, ContractSteps
  <2>3. Contract!Abandon(s)
    BY <1>3, <2>1, <2>2, SameSteps
    DEF Contract!Abandon, Contract!Over, View, runVars, RunTerminal
  <2> QED BY <1>2, <2>3
<1>4. ~RunTerminal => StartedRun = "RUNNING"
  BY <1>n DEF StartedRun, RunTerminal, RunStatus, Terminal
<1>5. ASSUME NEW w \in Workers, NEW s \in Steps, Deliver(w, s)
      PROVE  Fine
  <2>1. CASE ClaimIgnored(w, s)
    BY <1>1, <2>1 DEF ClaimIgnored, runVars, stepVars
  <2>2. CASE ClaimOfTerminalRun(w, s)
    <3>1. SetStep(s, "CANCELLED", 0) /\ stepStatus[s] \in Open /\ RunTerminal /\ UNCHANGED runVars
      BY <2>2 DEF ClaimOfTerminalRun, Open
    <3> QED BY <1>3, <3>1
  <2>3. CASE ClaimPastHardDeadline(w, s)
    <3>1. /\ SetStep(s, "FAILED", 0) /\ stepStatus[s] \in Open
          /\ runStatus' = "FAILED" /\ UNCHANGED response /\ ~RunTerminal
      BY <2>3 DEF ClaimPastHardDeadline, Open
    <3>2. View(stepStatus') = [View(stepStatus) EXCEPT ![s] = "FAILED"]
      BY <3>1, SeenEnd DEF Terminal
    <3>3. View(stepStatus)[s] = "OPEN"
      BY <3>1, ContractSteps
    <3>4. Contract!Expire(s)
      BY <3>1, <3>2, <3>3, SameSteps DEF Contract!Expire, Contract!Over, View, RunTerminal
    <3> QED BY <1>2, <3>4
  <2>4. CASE ClaimPastPhaseDeadline(w, s)
    <3>1. /\ OnFailure([stepStatus EXCEPT ![s] = "FAILED"], s, "RUNNING")
          /\ stepStatus[s] \in Open /\ ~RunTerminal
      BY <1>4, <2>4 DEF ClaimPastPhaseDeadline, Open
    <3> QED BY <1>2, <3>1, FailureIsGiveUp
  <2>5. CASE Claim(w, s)
    <3>1. /\ SetStep(s, "RUNNING", 0) /\ stepStatus[s] = "READY"
          /\ runStatus' = "RUNNING" /\ UNCHANGED response /\ ~RunTerminal
      BY <1>4, <2>5 DEF Claim
    <3>2. View(stepStatus') = View(stepStatus)
      BY <3>1, UnseenChange DEF Outward, Open
    <3>3. CASE runStatus = "QUEUED"
      BY <3>1, <3>2, <3>3 DEF Contract!ContractNext, Contract!Begin, View
    <3>4. CASE runStatus # "QUEUED"
      BY <1>0, <1>4, <3>1, <3>2, <3>4 DEF StartedRun
    <3> QED BY <3>3, <3>4
  <2> QED BY <1>5, <2>1, <2>2, <2>3, <2>4, <2>5 DEF Deliver
<1>6. ASSUME NEW c \in claims, Renew(c) \/ FinaliseStale(c) \/ Crash(c)
      PROVE  Fine
  BY <1>1, <1>6 DEF Renew, FinaliseStale, Crash, runVars, stepVars
<1>7. ASSUME NEW c \in claims, Finish(c), ~FinaliseStale(c)
      PROVE  Fine
  <2>0. PICK s \in Steps : s = c.step
    BY <1>n
  <2>1. stepStatus[s] = "RUNNING" /\ stepStatus[s] \in Open
    BY <1>7, <2>0, FinishEffect DEF Open
  <2>2. ~RunTerminal => runStatus = "RUNNING"
    BY <1>n, <2>1 DEF Bounds, RunTerminal, RunStatus, Terminal
  <2>3. CASE FinaliseOfTerminalRun(c)
    <3>1. SetStep(s, "CANCELLED", 0) /\ RunTerminal /\ UNCHANGED runVars
      BY <2>0, <2>3 DEF FinaliseOfTerminalRun
    <3> QED BY <1>3, <2>1, <3>1
  <2>4. CASE Succeed(c)
    <3>1. ~RunTerminal /\ PersistAnswer(s)
      BY <2>0, <2>4 DEF Succeed
    <3>2. PICK fanout \in Fanout(s) :
            LET st == [stepStatus EXCEPT ![s] = "SUCCEEDED"]
            IN  AddSteps(st, s, AfterSuccess(st, s, fanout))
      BY <2>0, <2>4 DEF Succeed
    <3>3. Contract!Complete(s)
      BY <2>1, <2>2, <3>1, <3>2, SuccessIsComplete
    <3> QED BY <1>2, <3>3
  <2>5. CASE FailForRetry(c)
    <3>1. PICK at : SetStep(s, "RETRY_WAIT", at)
      BY <2>0, <2>5 DEF FailForRetry
    <3>2. UNCHANGED runVars
      BY <2>5 DEF FailForRetry
    <3>3. View(stepStatus') = View(stepStatus)
      BY <2>1, <3>1, UnseenChange DEF Outward, Open
    <3> QED BY <1>0, <3>2, <3>3 DEF runVars
  <2>6. CASE FailForGood(c)
    <3>1. OnFailure([stepStatus EXCEPT ![s] = "FAILED"], s, "RUNNING") /\ ~RunTerminal
      BY <2>0, <2>2, <2>6 DEF FailForGood
    <3> QED BY <1>2, <2>1, <3>1, FailureIsGiveUp
  <2>7. CASE FailAsCancelled(c)
    <3>1. OnFailure([stepStatus EXCEPT ![s] = "CANCELLED"], s, "RUNNING") /\ ~RunTerminal
      BY <2>0, <2>2, <2>7 DEF FailAsCancelled
    <3> QED BY <1>2, <2>1, <3>1, FailureIsGiveUp
  <2> QED BY <1>7, <2>3, <2>4, <2>5, <2>6, <2>7 DEF Finish
<1>8. ASSUME NEW s \in Steps,
             DispatchOutbox(s) \/ DispatchWithoutMark(s) \/ LoseMessage(s) \/ Scan(s)
      PROVE  Fine
  BY <1>1, <1>8 DEF DispatchOutbox, DispatchWithoutMark, LoseMessage, Scan,
                    runVars, stepVars
<1>9. ASSUME NEW d \in candidates, Handle(d)
      PROVE  Fine
  <2>1. ASSUME NEW status, NEW at, Redispatch(d, status, at), UNCHANGED runVars,
               Outward(status) = Outward(stepStatus[d.step])
        PROVE  Fine
    <3>1. PICK t : SetStep(d.step, status, t)
      BY <2>1 DEF Redispatch
    <3>2. View(stepStatus') = View(stepStatus)
      BY <1>n, <2>1, <3>1, UnseenChange
    <3> QED BY <1>0, <2>1, <3>2 DEF runVars
  <2>2. CASE DispatchReady(d)
    BY <2>1, <2>2 DEF DispatchReady
  <2>3. CASE ReleaseRetry(d)
    BY <2>1, <2>3 DEF ReleaseRetry, ReleasableRetry, Outward, Open
  <2>4. CASE ReleaseExpiredLease(d)
    BY <2>1, <2>4 DEF ReleaseExpiredLease, ReleasableLease, Outward, Open
  <2>5. CASE DropCandidate(d)
    BY <1>1, <2>5 DEF DropCandidate, runVars, stepVars
  <2> QED BY <1>9, <2>2, <2>3, <2>4, <2>5 DEF Handle
<1>10. CASE CancelRun
  BY <1>10, SameSteps DEF CancelRun, stepVars, RunTerminal,
        Contract!ContractNext, Contract!Cancel, Contract!Over
<1>11. CASE Tick \/ UNCHANGED vars
  BY <1>1, <1>11 DEF Tick, vars, runVars, stepVars
<1> QED BY <1>5, <1>6, <1>7, <1>8, <1>9, <1>10, <1>11 DEF Next

\* Exactly once: the step store, with its leases, retries, redeliveries and
\* stale scans, implements the contract for every number of workers, queries
\* and sources, every deadline and every number of faults.
THEOREM ExactlyOnce == Spec => KeepsContract
<1>1. Init => Contract!ContractInit
  BY SameSteps, StepsFacts DEF Init, Contract!ContractInit, Outward, Open
<1> QED BY <1>1, ContractStep, TypeCorrect, AlwaysBounds, AlwaysSelectsFromSuccess, PTL
        DEF Spec, KeepsContract, Contract!ContractSpec
=============================================================================

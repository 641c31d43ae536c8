--------------------------- MODULE PipelineProofs ---------------------------
(***************************************************************************)
(* The completion hook, for any number of queries and sources: joins wait  *)
(* for all their branches, a run that is not over has a step that is not   *)
(* over, and the inputs of joins stay current.                             *)
(***************************************************************************)
EXTENDS StepExecutionProofs

Settled(s) == stepStatus[s] \in {"ABSENT"} \cup Terminal

\* Which steps exist when which have succeeded.
Stages ==
    /\ stepStatus[Plan] # "ABSENT" => stepStatus[Route] = "SUCCEEDED"
    /\ \A x \in Steps \ {Route, Plan} :
            stepStatus[x] # "ABSENT" => stepStatus[Plan] = "SUCCEEDED"
    /\ stepStatus[Select] # "ABSENT" => \A x \in Discoveries : Settled(x)
    /\ \A x \in Fetches : stepStatus[x] # "ABSENT" => stepStatus[Select] = "SUCCEEDED"
    /\ \A x \in Sources :
            stepStatus[Extract(x)] # "ABSENT" => stepStatus[Fetch(x)] = "SUCCEEDED"
    /\ stepStatus[Verify] # "ABSENT" => stepStatus[Select] = "SUCCEEDED"
    /\ stepStatus[Synthesize] # "ABSENT" =>
            \A x \in Steps \ {Synthesize} : Settled(x)

(***************************************************************************)
(* The three kinds of commits.                                             *)
(***************************************************************************)
StaysOpen(s) == stepStatus[s] \in Open /\ stepStatus'[s] \in Open

\* No step is added or ends.
Goes ==
    /\ \A s \in Steps : stepStatus'[s] = stepStatus[s] \/ StaysOpen(s)
    /\ UNCHANGED <<selectInput, verifyInput, synthInput>>

\* A step of a run that is over ends.
Drops(s) ==
    /\ stepStatus[s] \in Open
    /\ \E end \in Terminal : stepStatus' = [stepStatus EXCEPT ![s] = end]
    /\ RunTerminal'
    /\ UNCHANGED inputVars

\* What the end of a step asks for, and whether it ends the run.
Asks(s, end, wanted) ==
    LET st == [stepStatus EXCEPT ![s] = end]
    IN  \/ /\ end = "SUCCEEDED"
           /\ \E fanout \in Fanout(s) : wanted = AfterSuccess(st, s, fanout)
           /\ s = Synthesize => RunTerminal'
        \/ /\ wanted = AfterFailure(st, s)
           /\ end \in {"FAILED", "CANCELLED"}
           /\ FailsRun(s) => RunTerminal'

\* The inputs of the joins that are added are snapshots of the table st.
Snapshots(st, new) ==
    /\ selectInput' = IF Select \in new THEN DiscoveredQueries(st) ELSE selectInput
    /\ verifyInput' = IF Verify \in new THEN ExtractedSources(st) ELSE verifyInput
    /\ synthInput' = IF Synthesize \in new
                     THEN [verified |-> st[Verify] = "SUCCEEDED",
                           degraded |-> Degradations(st)]
                     ELSE synthInput

\* A step ends and is followed up.
Follows(s, end, wanted) ==
    /\ stepStatus[s] \in Open
    /\ Asks(s, end, wanted)
    /\ stepStatus' =
        LET st == [stepStatus EXCEPT ![s] = end]
        IN  [x \in Steps |-> IF x \in Missing(st, wanted) THEN "READY" ELSE st[x]]
    /\ LET st == [stepStatus EXCEPT ![s] = end]
       IN  Snapshots(st, Missing(st, wanted))

Kinds ==
    \/ Goes
    \/ \E s \in Steps : Drops(s)
    \/ \E s \in Steps : \E end \in Terminal : \E wanted : Follows(s, end, wanted)

\* on_failure follows a step up.
LEMMA FailureFollows ==
    ASSUME TypeOK, NEW s \in Steps, NEW end \in {"FAILED", "CANCELLED"}, NEW started,
           stepStatus[s] \in Open,
           OnFailure([stepStatus EXCEPT ![s] = end], s, started)
    PROVE  Kinds
<1> DEFINE wanted == AfterFailure([stepStatus EXCEPT ![s] = end], s)
<1>1. FailsRun(s) => RunTerminal'
  BY DEF OnFailure, RunTerminal, Terminal
<1>2. Asks(s, end, wanted)
  BY <1>1 DEF Asks
<1>3. stepStatus' =
        LET st == [stepStatus EXCEPT ![s] = end]
        IN  [x \in Steps |-> IF x \in Missing(st, wanted) THEN "READY" ELSE st[x]]
  BY DEF OnFailure, AddSteps
<1>6. LET st == [stepStatus EXCEPT ![s] = end]
      IN  Snapshots(st, Missing(st, wanted))
  BY DEF OnFailure, AddSteps, Snapshots
<1>4. end \in Terminal
  BY DEF Terminal
<1> HIDE DEF wanted
<1>5. Follows(s, end, wanted)
  BY <1>2, <1>3, <1>6 DEF Follows
<1> QED BY <1>4, <1>5 DEF Kinds

\* A step that is changed but stays open.
LEMMA OpenGoes ==
    ASSUME TypeOK, NEW s \in Steps, NEW status \in Open, NEW at, SetStep(s, status, at),
           stepStatus[s] \in Open, UNCHANGED inputVars
    PROVE  Kinds
<1>1. \A x \in Steps : stepStatus'[x] = stepStatus[x] \/ StaysOpen(x)
  BY SingleStepEffect DEF StaysOpen
<1>2. Goes
  BY <1>1 DEF Goes, inputVars
<1> QED BY <1>2 DEF Kinds

\* A step that ends without the hook.
LEMMA EndDrops ==
    ASSUME TypeOK, NEW s \in Steps, NEW status \in Terminal, NEW at, SetStep(s, status, at),
           stepStatus[s] \in Open, RunTerminal', UNCHANGED inputVars
    PROVE  Kinds
<1>1. Drops(s)
  BY DEF Drops, SetStep
<1> QED BY <1>1 DEF Kinds

\* Every action is of one of these kinds.
LEMMA KindOfStep == ASSUME TypeOK, [Next]_vars PROVE Kinds
<1>n. /\ \A c \in claims : c.step \in Steps
      /\ \A d \in candidates : d.step \in Steps
      /\ "CANCELLED" \in Terminal /\ "FAILED" \in Terminal /\ "SUCCEEDED" \in Terminal
      /\ "READY" \in Open /\ "RUNNING" \in Open /\ "RETRY_WAIT" \in Open
  BY DEF TypeOK, Claimed, Candidate, Terminal, Open
<1>1. ASSUME UNCHANGED <<stepStatus, inputVars>> PROVE Kinds
  BY <1>1 DEF Kinds, Goes, inputVars
<1>5. ASSUME NEW w \in Workers, NEW s \in Steps, Deliver(w, s)
      PROVE  Kinds
  <2>1. CASE ClaimIgnored(w, s)
    BY <1>1, <2>1 DEF ClaimIgnored, stepVars, inputVars
  <2>2. CASE ClaimOfTerminalRun(w, s)
    <3>1. SetStep(s, "CANCELLED", 0) /\ stepStatus[s] \in Open /\ RunTerminal'
          /\ UNCHANGED inputVars
      BY <1>n, <2>2 DEF ClaimOfTerminalRun, runVars, RunTerminal
    <3> QED BY <1>n, <3>1, EndDrops
  <2>3. CASE ClaimPastHardDeadline(w, s)
    <3>1. SetStep(s, "FAILED", 0) /\ stepStatus[s] \in Open /\ RunTerminal'
          /\ UNCHANGED inputVars
      BY <1>n, <2>3 DEF ClaimPastHardDeadline, RunTerminal
    <3> QED BY <1>n, <3>1, EndDrops
  <2>4. CASE ClaimPastPhaseDeadline(w, s)
    <3>1. OnFailure([stepStatus EXCEPT ![s] = "FAILED"], s, StartedRun)
          /\ stepStatus[s] \in Open
      BY <1>n, <2>4 DEF ClaimPastPhaseDeadline
    <3> QED BY <3>1, FailureFollows
  <2>5. CASE Claim(w, s)
    <3>1. SetStep(s, "RUNNING", 0) /\ stepStatus[s] \in Open /\ UNCHANGED inputVars
      BY <1>n, <2>5 DEF Claim
    <3> QED BY <1>n, <3>1, OpenGoes
  <2> QED BY <1>5, <2>1, <2>2, <2>3, <2>4, <2>5 DEF Deliver
<1>6. ASSUME NEW c \in claims, Renew(c) \/ FinaliseStale(c) \/ Crash(c)
      PROVE  Kinds
  BY <1>1, <1>6 DEF Renew, FinaliseStale, Crash, stepVars, inputVars
<1>7. ASSUME NEW c \in claims, Finish(c), ~FinaliseStale(c)
      PROVE  Kinds
  <2>0. PICK s \in Steps : s = c.step
    BY <1>n
  <2>1. stepStatus[s] \in Open
    BY <1>7, <1>n, <2>0, FinishEffect
  <2>3. CASE FinaliseOfTerminalRun(c)
    <3>1. SetStep(s, "CANCELLED", 0) /\ RunTerminal' /\ UNCHANGED inputVars
      BY <2>0, <2>3 DEF FinaliseOfTerminalRun, runVars, RunTerminal
    <3> QED BY <1>n, <2>1, <3>1, EndDrops
  <2>4. CASE Succeed(c)
    <3> DEFINE st == [stepStatus EXCEPT ![s] = "SUCCEEDED"]
    <3>1. PICK fanout \in Fanout(s) : AddSteps(st, s, AfterSuccess(st, s, fanout))
      BY <2>0, <2>4 DEF Succeed
    <3>2. s = Synthesize => RunTerminal'
      BY <2>0, <2>4, <1>n DEF Succeed, PersistAnswer, RunTerminal
    <3>3. PICK wanted : wanted = AfterSuccess(st, s, fanout)
      OBVIOUS
    <3>4. Asks(s, "SUCCEEDED", wanted)
      BY <3>2, <3>3 DEF Asks
    <3>5. stepStatus' = [x \in Steps |-> IF x \in Missing(st, wanted) THEN "READY" ELSE st[x]]
      BY <3>1, <3>3 DEF AddSteps
    <3>7. Snapshots(st, Missing(st, wanted))
      BY <3>1, <3>3 DEF AddSteps, Snapshots
    <3>6. Follows(s, "SUCCEEDED", wanted)
      BY <2>1, <3>4, <3>5, <3>7 DEF Follows
    <3> QED BY <1>n, <3>6 DEF Kinds
  <2>5. CASE FailForRetry(c)
    <3>1. PICK at : SetStep(s, "RETRY_WAIT", at)
      BY <2>0, <2>5 DEF FailForRetry
    <3>2. UNCHANGED inputVars
      BY <2>5 DEF FailForRetry
    <3> QED BY <1>n, <2>1, <3>1, <3>2, OpenGoes
  <2>6. CASE FailForGood(c)
    <3>1. OnFailure([stepStatus EXCEPT ![s] = "FAILED"], s, runStatus)
      BY <2>0, <2>6 DEF FailForGood
    <3> QED BY <2>1, <3>1, FailureFollows
  <2>7. CASE FailAsCancelled(c)
    <3>1. OnFailure([stepStatus EXCEPT ![s] = "CANCELLED"], s, runStatus)
      BY <2>0, <2>7 DEF FailAsCancelled
    <3> QED BY <2>1, <3>1, FailureFollows
  <2> QED BY <1>7, <2>3, <2>4, <2>5, <2>6, <2>7 DEF Finish
<1>8. ASSUME NEW s \in Steps,
             DispatchOutbox(s) \/ DispatchWithoutMark(s) \/ LoseMessage(s) \/ Scan(s)
      PROVE  Kinds
  BY <1>1, <1>8 DEF DispatchOutbox, DispatchWithoutMark, LoseMessage, Scan, stepVars,
                    inputVars
<1>9. ASSUME NEW d \in candidates, Handle(d)
      PROVE  Kinds
  <2>1. ASSUME NEW status, NEW at, Redispatch(d, status, at), UNCHANGED inputVars,
               (stepStatus[d.step] \in Open /\ status \in Open) \/ status = stepStatus[d.step]
        PROVE  Kinds
    <3>1. PICK t : SetStep(d.step, status, t)
      BY <2>1 DEF Redispatch
    <3>3. \A x \in Steps : stepStatus'[x] = stepStatus[x] \/ StaysOpen(x)
      BY <1>n, <2>1, <3>1, SingleStepEffect DEF StaysOpen
    <3>2. Goes
      BY <2>1, <3>3 DEF Goes, inputVars
    <3> QED BY <3>2 DEF Kinds
  <2>2. CASE DispatchReady(d)
    BY <2>1, <2>2 DEF DispatchReady
  <2>3. CASE ReleaseRetry(d)
    BY <1>n, <2>1, <2>3 DEF ReleaseRetry, ReleasableRetry
  <2>4. CASE ReleaseExpiredLease(d)
    BY <1>n, <2>1, <2>4 DEF ReleaseExpiredLease, ReleasableLease
  <2>5. CASE DropCandidate(d)
    BY <1>1, <2>5 DEF DropCandidate, stepVars, inputVars
  <2> QED BY <1>9, <2>2, <2>3, <2>4, <2>5 DEF Handle
<1>10. CASE CancelRun \/ Tick \/ UNCHANGED vars
  BY <1>1, <1>10 DEF CancelRun, Tick, vars, stepVars, inputVars
<1> QED BY <1>5, <1>6, <1>7, <1>8, <1>9, <1>10 DEF Next

-----------------------------------------------------------------------------
(***************************************************************************)
(* What the hook may ask for.                                              *)
(***************************************************************************)
\* A step is known by its type.
LEMMA StepByType ==
    /\ \A s \in Steps :
        /\ s.type = "ROUTE" => s = Route
        /\ s.type = "PLAN" => s = Plan
        /\ s.type = "SELECT" => s = Select
        /\ s.type = "VERIFY" => s = Verify
        /\ s.type = "SYNTHESIZE" => s = Synthesize
        /\ s.type = "DISCOVERY" => s \in Discoveries
        /\ s.type = "FETCH" => s \in Fetches /\ s.id \in Sources /\ s = Fetch(s.id)
        /\ s.type = "EXTRACT" => s \in Extracts
        /\ s.type \in StepType
    /\ \A s \in Discoveries : s.type = "DISCOVERY" /\ s \in Steps
    /\ \A s \in Fetches : s.type = "FETCH" /\ s \in Steps
    /\ \A s \in Extracts : s.type = "EXTRACT" /\ s \in Steps
    /\ \A q \in Queries : Discovery(q) \in Discoveries
    /\ \A x \in Sources : Fetch(x) \in Fetches /\ Extract(x) \in Extracts
    /\ Route.type = "ROUTE" /\ Plan.type = "PLAN" /\ Select.type = "SELECT"
    /\ Verify.type = "VERIFY" /\ Synthesize.type = "SYNTHESIZE"
    /\ \A x, y : Extract(x) = Extract(y) => x = y
<1>1. /\ \A s \in Discoveries : s.type = "DISCOVERY"
      /\ \A s \in Fetches : s.type = "FETCH" /\ s.id \in Sources /\ s = Fetch(s.id)
      /\ \A s \in Extracts : s.type = "EXTRACT"
  BY DEF Discoveries, Fetches, Extracts, Fetch
<1>2. /\ Route.type = "ROUTE" /\ Plan.type = "PLAN" /\ Select.type = "SELECT"
      /\ Verify.type = "VERIFY" /\ Synthesize.type = "SYNTHESIZE"
  BY DEF Route, Plan, Select, Verify, Synthesize
<1>3. /\ \A q \in Queries : Discovery(q) \in Discoveries
      /\ \A x \in Sources : Fetch(x) \in Fetches /\ Extract(x) \in Extracts
  BY DEF Discovery, Discoveries, Fetch, Fetches, Extract, Extracts
<1>4. \A x, y : Extract(x) = Extract(y) => x = y
  BY DEF Extract
<1>5. \A s \in Steps : \/ s \in {Route, Plan, Select, Verify, Synthesize}
                       \/ s \in Discoveries \/ s \in Fetches \/ s \in Extracts
  BY DEF Steps
<1>6. \A s \in Discoveries \cup Fetches \cup Extracts : s \in Steps
  BY DEF Steps
<1> QED BY <1>1, <1>2, <1>3, <1>4, <1>5, <1>6 DEF StepType

\* The ways the hook follows up the end of a step, in the order of the stages.
Wants(st, s, end, wanted) ==
    \/ s = Route /\ end = "SUCCEEDED" /\ wanted = {Plan}
    \/ /\ s = Plan /\ end = "SUCCEEDED"
       /\ wanted \subseteq Discoveries /\ wanted # {}
    \/ /\ s \in Discoveries /\ wanted = {Select}
       /\ AllTerminal(st, Present(st) \cap Discoveries)
    \/ s = Select /\ end = "SUCCEEDED" /\ wanted \subseteq Fetches /\ wanted # {}
    \/ /\ s \in Fetches /\ end = "SUCCEEDED" /\ s.id \in Sources
       /\ s = Fetch(s.id) /\ wanted = {Extract(s.id)}
    \/ /\ s \in Fetches \cup Extracts /\ wanted = {Verify} /\ st[Verify] = "ABSENT"
       /\ ExtractedSources(st) # {}
       /\ \/ AllTerminal(st, Present(st) \cap (Fetches \cup Extracts))
          \/ CoveredEarly(ExtractedSources(st))
    \/ /\ s # Route /\ s # Synthesize /\ (s = Plan => end = "SUCCEEDED")
       /\ wanted = {Synthesize}
       /\ AllTerminal(st, Present(st) \ {Synthesize})
    \/ /\ wanted = {}
       /\ \/ RunTerminal'
          \/ \E x \in Steps : st[x] \notin Terminal \cup {"ABSENT"}

\* _maybe_synthesize asks for synthesis or finds a step that goes on.
LEMMA SynthesisWanted ==
    ASSUME NEW st, NEW s \in Steps, NEW end, s # Route, s # Synthesize,
           s = Plan => end = "SUCCEEDED"
    PROVE  Wants(st, s, end, MaybeSynthesize(st))
BY DEF Wants, MaybeSynthesize, AllTerminal, Present

\* _maybe_select asks for selection or finds a discovery that goes on.
LEMMA SelectionWanted ==
    ASSUME NEW st, NEW s \in Discoveries, NEW end, st[s] # "ABSENT"
    PROVE  Wants(st, s, end, MaybeSelect(st))
<1>1. s \in Present(st) \cap Discoveries
  BY StepByType DEF Present
<1>2. CASE AllTerminal(st, Present(st) \cap Discoveries)
  BY <1>1, <1>2 DEF Wants, MaybeSelect
<1>3. CASE ~AllTerminal(st, Present(st) \cap Discoveries)
  BY <1>1, <1>3 DEF Wants, MaybeSelect, AllTerminal, Present
<1> QED BY <1>2, <1>3

\* _maybe_verify asks for verification or synthesis, or finds a step that goes on.
LEMMA VerificationWanted ==
    ASSUME NEW st, NEW s \in Fetches \cup Extracts, NEW end
    PROVE  Wants(st, s, end, MaybeVerify(st))
<1> DEFINE joined == AllTerminal(st, Present(st) \cap (Fetches \cup Extracts))
<1>0. s \in Steps /\ s # Route /\ s # Synthesize /\ s # Plan /\ Verify \in Steps
  BY StepByType, StepsFacts
<1>1. Wants(st, s, end, MaybeSynthesize(st))
  BY <1>0, SynthesisWanted
<1>2. ~joined => Wants(st, s, end, {})
  BY DEF Wants, AllTerminal, Present
<1>3. ASSUME st[Verify] = "ABSENT", ExtractedSources(st) # {},
             joined \/ CoveredEarly(ExtractedSources(st))
      PROVE  Wants(st, s, end, {Verify})
  BY <1>3 DEF Wants
<1>4. st[Verify] \notin Terminal \cup {"ABSENT"} => Wants(st, s, end, {})
  BY <1>0 DEF Wants
<1> QED BY <1>1, <1>2, <1>3, <1>4 DEF MaybeVerify

\* on_success and on_failure follow a step up in one of these ways.
LEMMA HookWants ==
    ASSUME TypeOK, NEW s \in Steps, NEW end \in Terminal, NEW wanted, Asks(s, end, wanted)
    PROVE  Wants([stepStatus EXCEPT ![s] = end], s, end, wanted)
<1> DEFINE st == [stepStatus EXCEPT ![s] = end]
<1>0. st[s] # "ABSENT"
  BY DEF TypeOK, Terminal
<1>a. \/ /\ end = "SUCCEEDED"
         /\ \E fanout \in Fanout(s) : wanted = AfterSuccess(st, s, fanout)
         /\ s = Synthesize => RunTerminal'
      \/ /\ wanted = AfterFailure(st, s)
         /\ end \in {"FAILED", "CANCELLED"}
         /\ FailsRun(s) => RunTerminal'
  BY DEF Asks
<1> HIDE DEF st
<1>t. s.type \in StepType
  BY StepByType
<1>1. ASSUME wanted = AfterFailure(st, s), FailsRun(s) => RunTerminal'
      PROVE  Wants(st, s, end, wanted)
  <2>1. CASE FailsRun(s)
    <3>1. wanted = {} /\ RunTerminal'
      BY <1>1, <2>1 DEF AfterFailure, FailsRun
    <3> QED BY <3>1 DEF Wants
  <2>2. CASE s.type = "DISCOVERY"
    <3>1. wanted = MaybeSelect(st) /\ s \in Discoveries
      BY <1>1, <2>2, StepByType DEF AfterFailure
    <3> QED BY <1>0, <3>1, SelectionWanted
  <2>3. CASE s.type \in {"FETCH", "EXTRACT"}
    <3>1. wanted = MaybeVerify(st) /\ s \in Fetches \cup Extracts
      BY <1>1, <2>3, StepByType DEF AfterFailure
    <3> QED BY <3>1, VerificationWanted
  <2>4. CASE s.type \in {"SELECT", "VERIFY"}
    <3>1. wanted = MaybeSynthesize(st) /\ s # Route /\ s # Plan /\ s # Synthesize
      BY <1>1, <2>4, StepByType DEF AfterFailure
    <3> QED BY <3>1, SynthesisWanted
  <2> QED BY <1>t, <2>1, <2>2, <2>3, <2>4 DEF StepType, FailsRun
<1>2. ASSUME end = "SUCCEEDED", NEW fanout \in Fanout(s),
             wanted = AfterSuccess(st, s, fanout), s = Synthesize => RunTerminal'
      PROVE  Wants(st, s, end, wanted)
  <2>1. CASE s.type = "ROUTE"
    <3>1. wanted = {Plan} /\ s = Route
      BY <1>2, <2>1, StepByType DEF AfterSuccess
    <3> QED BY <1>2, <3>1 DEF Wants
  <2>2. CASE s.type = "PLAN"
    <3>1. s = Plan /\ fanout \in SUBSET Queries /\ s # Route /\ s # Synthesize
      BY <2>2, StepByType DEF Fanout
    <3>2. CASE fanout = {}
      <4>1. wanted = MaybeSynthesize(st)
        BY <1>2, <2>2, <3>2 DEF AfterSuccess
      <4> QED BY <1>2, <3>1, <4>1, SynthesisWanted
    <3>3. CASE fanout # {}
      <4>1. wanted = {Discovery(q) : q \in fanout}
        BY <1>2, <2>2, <3>3 DEF AfterSuccess
      <4>2. wanted \subseteq Discoveries /\ wanted # {}
        BY <3>1, <3>3, <4>1, StepByType
      <4> QED BY <1>2, <3>1, <4>2 DEF Wants
    <3> QED BY <3>2, <3>3
  <2>3. CASE s.type = "DISCOVERY"
    <3>1. wanted = MaybeSelect(st) /\ s \in Discoveries
      BY <1>2, <2>3, StepByType DEF AfterSuccess
    <3> QED BY <1>0, <3>1, SelectionWanted
  <2>4. CASE s.type = "SELECT"
    <3>1. s = Select /\ s # Route /\ s # Plan /\ s # Synthesize
      BY <2>4, StepByType
    <3>0. fanout \in SUBSET Sources
      BY <2>4, WorkflowAssumption DEF Fanout, TypeOK
    <3>2. CASE fanout = {}
      <4>1. wanted = MaybeSynthesize(st)
        BY <1>2, <2>4, <3>2 DEF AfterSuccess
      <4> QED BY <3>1, <4>1, SynthesisWanted
    <3>3. CASE fanout # {}
      <4>1. wanted = {Fetch(x) : x \in fanout}
        BY <1>2, <2>4, <3>3 DEF AfterSuccess
      <4>2. wanted \subseteq Fetches /\ wanted # {}
        BY <3>0, <3>3, <4>1, StepByType
      <4> QED BY <1>2, <3>1, <4>2 DEF Wants
    <3> QED BY <3>2, <3>3
  <2>5. CASE s.type = "FETCH"
    <3>1. /\ wanted = {Extract(s.id)} /\ s \in Fetches
          /\ s.id \in Sources /\ s = Fetch(s.id)
      BY <1>2, <2>5, StepByType DEF AfterSuccess
    <3> QED BY <1>2, <3>1 DEF Wants
  <2>6. CASE s.type = "EXTRACT"
    <3>1. wanted = MaybeVerify(st) /\ s \in Fetches \cup Extracts
      BY <1>2, <2>6, StepByType DEF AfterSuccess
    <3> QED BY <3>1, VerificationWanted
  <2>7. CASE s.type = "VERIFY"
    <3>1. wanted = MaybeSynthesize(st) /\ s # Route /\ s # Plan /\ s # Synthesize
      BY <1>2, <2>7, StepByType DEF AfterSuccess
    <3> QED BY <3>1, SynthesisWanted
  <2>8. CASE s.type = "SYNTHESIZE"
    <3>1. wanted = {} /\ RunTerminal'
      BY <1>2, <2>8, StepByType DEF AfterSuccess
    <3> QED BY <3>1 DEF Wants
  <2> QED BY <1>t, <2>1, <2>2, <2>3, <2>4, <2>5, <2>6, <2>7, <2>8 DEF StepType
<1>3. Wants(st, s, end, wanted)
  BY <1>a, <1>1, <1>2
<1> QED BY <1>3 DEF st

-----------------------------------------------------------------------------
(***************************************************************************)
(* The stages are kept.                                                    *)
(***************************************************************************)
\* A step that was just added has what its stage needs.
Fits(x) ==
    /\ x = Plan => stepStatus'[Route] = "SUCCEEDED"
    /\ x \notin {Route, Plan} => stepStatus'[Plan] = "SUCCEEDED"
    /\ x = Select => \A y \in Discoveries : Settled(y)'
    /\ x \in Discoveries => stepStatus'[Select] = "ABSENT"
    /\ x \in Fetches => /\ stepStatus'[Select] = "SUCCEEDED"
                       /\ stepStatus'[Verify] = "ABSENT"
    /\ x \in Extracts => \E y \in Fetches : stepStatus[y] \in Open
    /\ x = Verify => stepStatus'[Select] = "SUCCEEDED"
    /\ \A y \in Sources : x = Extract(y) => stepStatus'[Fetch(y)] = "SUCCEEDED"
    /\ x = Synthesize => \A y \in Steps \ {Synthesize} : Settled(y)'
    /\ x # Synthesize => stepStatus'[Synthesize] = "ABSENT"

\* Stages survive every commit that adds only steps that fit.
LEMMA FittingKeepsStages ==
    ASSUME Stages,
           \A x \in Steps : Changes(stepStatus[x], stepStatus'[x]),
           \A x \in Steps :
                stepStatus[x] = "ABSENT" /\ stepStatus'[x] # "ABSENT" => Fits(x)
    PROVE  Stages'
<1>1. /\ \A x \in Steps : stepStatus[x] # "ABSENT" => stepStatus'[x] # "ABSENT"
      /\ \A x \in Steps : stepStatus[x] = "SUCCEEDED" => stepStatus'[x] = "SUCCEEDED"
      /\ \A x \in Steps : stepStatus[x] # "ABSENT" /\ Settled(x) => Settled(x)'
  BY DEF Changes, Settled, Terminal
<1>2. (stepStatus[Plan] # "ABSENT" => stepStatus[Route] = "SUCCEEDED")'
  BY <1>1, StepsFacts DEF Stages, Fits
<1>3. (\A x \in Steps \ {Route, Plan} :
            stepStatus[x] # "ABSENT" => stepStatus[Plan] = "SUCCEEDED")'
  BY <1>1, StepsFacts DEF Stages, Fits
<1>4. (stepStatus[Select] # "ABSENT" => \A x \in Discoveries : Settled(x))'
  <2> SUFFICES ASSUME stepStatus'[Select] # "ABSENT", NEW x \in Discoveries
               PROVE  Settled(x)'
    OBVIOUS
  <2>0. x \in Steps /\ Select \in Steps
    BY StepByType, StepsFacts
  <2>1. CASE stepStatus[Select] = "ABSENT"
    BY <2>0, <2>1 DEF Fits
  <2>2. CASE stepStatus[x] = "ABSENT"
    BY <2>0, <2>2 DEF Fits, Settled
  <2>3. CASE stepStatus[Select] # "ABSENT" /\ stepStatus[x] # "ABSENT"
    BY <1>1, <2>0, <2>3 DEF Stages
  <2> QED BY <2>1, <2>2, <2>3
<1>5. (\A x \in Fetches : stepStatus[x] # "ABSENT" => stepStatus[Select] = "SUCCEEDED")'
  BY <1>1, StepsFacts, StepByType DEF Stages, Fits
<1>6. (\A x \in Sources :
            stepStatus[Extract(x)] # "ABSENT" => stepStatus[Fetch(x)] = "SUCCEEDED")'
  BY <1>1, StepsFacts, StepByType DEF Stages, Fits
<1>7. (stepStatus[Synthesize] # "ABSENT" =>
            \A x \in Steps \ {Synthesize} : Settled(x))'
  <2> SUFFICES ASSUME stepStatus'[Synthesize] # "ABSENT",
                      NEW x \in Steps \ {Synthesize}
               PROVE  Settled(x)'
    OBVIOUS
  <2>1. CASE stepStatus[Synthesize] = "ABSENT"
    BY <2>1, StepsFacts DEF Fits
  <2>2. CASE stepStatus[x] = "ABSENT"
    BY <2>2, StepsFacts DEF Fits, Settled
  <2>3. CASE stepStatus[Synthesize] # "ABSENT" /\ stepStatus[x] # "ABSENT"
    BY <1>1, <2>3 DEF Stages
  <2> QED BY <2>1, <2>2, <2>3
<1>8. (stepStatus[Verify] # "ABSENT" => stepStatus[Select] = "SUCCEEDED")'
  BY <1>1, StepsFacts DEF Stages, Fits
<1> QED BY <1>2, <1>3, <1>4, <1>5, <1>6, <1>7, <1>8 DEF Stages

\* What the end of a step does to the step table.
LEMMA FollowEffect ==
    ASSUME TypeOK, NEW s \in Steps, NEW end \in Terminal, NEW wanted, Follows(s, end, wanted)
    PROVE  /\ stepStatus'[s] = end
           /\ \A x \in Steps \ {s} :
                \/ stepStatus'[x] = stepStatus[x]
                \/ x \in wanted /\ stepStatus[x] = "ABSENT" /\ stepStatus'[x] = "READY"
           /\ \A x \in Steps : x \in wanted /\ stepStatus[x] = "ABSENT"
                                => stepStatus'[x] = "READY"
           /\ \A x \in Steps : [stepStatus EXCEPT ![s] = end][x] =
                                IF x = s THEN end ELSE stepStatus[x]
BY DEF TypeOK, Follows, Missing, Terminal, Open

\* While a step other than synthesis is open there is no synthesis.
LEMMA NoSynthesisYet ==
    ASSUME Stages, NEW s \in Steps, s # Synthesize, stepStatus[s] \in Open
    PROVE  stepStatus[Synthesize] = "ABSENT"
BY DEF Stages, Settled, Open, Terminal

\* The steps that the hook adds fit.
LEMMA AddedFit ==
    ASSUME TypeOK, Stages, NEW s \in Steps, NEW end \in Terminal, NEW wanted,
           Follows(s, end, wanted), NEW x \in Steps,
           stepStatus[x] = "ABSENT", stepStatus'[x] # "ABSENT"
    PROVE  Fits(x)
<1> DEFINE st == [stepStatus EXCEPT ![s] = end]
<1>1. stepStatus[s] \in Open /\ stepStatus[s] # "ABSENT" /\ stepStatus[s] # "SUCCEEDED"
  BY DEF Follows, Open
<1>2. x \in wanted /\ x # s
  BY <1>1, FollowEffect
<1>3. /\ stepStatus'[s] = end
      /\ \A y \in Steps \ {s} :
            \/ stepStatus'[y] = stepStatus[y]
            \/ y \in wanted /\ stepStatus[y] = "ABSENT"
      /\ \A y \in Steps : st[y] = IF y = s THEN end ELSE stepStatus[y]
  BY FollowEffect
<1>4. Wants(st, s, end, wanted)
  BY HookWants DEF Follows
<1> HIDE DEF st
<1>5. \A y \in Steps : stepStatus[y] = "SUCCEEDED" => stepStatus'[y] = "SUCCEEDED"
  BY <1>1, <1>3
<1>6. s \notin {Route, Plan} => stepStatus'[Plan] = "SUCCEEDED"
  BY <1>1, <1>5, StepsFacts DEF Stages
<1>7. s # Synthesize /\ Synthesize \notin wanted => stepStatus'[Synthesize] = "ABSENT"
  BY <1>1, <1>3, NoSynthesisYet, StepsFacts
<1> USE StepsFacts, StepByType
<1>a. CASE s = Route /\ end = "SUCCEEDED" /\ wanted = {Plan}
  <2>1. x = Plan
    BY <1>2, <1>a
  <2>2. x # Select /\ x \notin Discoveries /\ x # Synthesize /\ x \notin Fetches
        /\ x # Verify /\ x \notin Extracts /\ \A y \in Sources : x # Extract(y)
    BY <2>1
  <2> QED BY <1>3, <1>7, <1>a, <2>1, <2>2 DEF Fits
<1>b. CASE s = Plan /\ end = "SUCCEEDED" /\ wanted \subseteq Discoveries /\ wanted # {}
  <2>1. stepStatus[Select] = "ABSENT" /\ Select \notin wanted
    BY <1>1, <1>b DEF Stages
  <2>2. stepStatus'[Select] = "ABSENT" /\ x \in Discoveries
    BY <1>2, <1>3, <1>b, <2>1
  <2>3. x # Plan /\ x # Select /\ x \notin Fetches /\ x # Synthesize
        /\ x # Verify /\ x \notin Extracts /\ \A y \in Sources : x # Extract(y)
    BY <2>2
  <2> QED BY <1>3, <1>7, <1>b, <2>2, <2>3 DEF Fits
<1>c. CASE /\ s \in Discoveries /\ wanted = {Select}
           /\ AllTerminal(st, Present(st) \cap Discoveries)
  <2>1. x = Select /\ s \notin {Route, Plan}
    BY <1>2, <1>c
  <2>2. \A y \in Discoveries : stepStatus'[y] = st[y]
    BY <1>3, <1>c
  <2>3. \A y \in Discoveries : Settled(y)'
    BY <1>c, <2>2 DEF AllTerminal, Present, Settled
  <2>4. x # Plan /\ x \notin Discoveries /\ x \notin Fetches /\ x # Synthesize
        /\ x # Verify /\ x \notin Extracts /\ \A y \in Sources : x # Extract(y)
    BY <2>1
  <2> QED BY <1>6, <1>7, <1>c, <2>1, <2>3, <2>4 DEF Fits
<1>d. CASE s = Select /\ end = "SUCCEEDED" /\ wanted \subseteq Fetches /\ wanted # {}
  <2>1. x \in Fetches /\ s \notin {Route, Plan} /\ s # Synthesize /\ Synthesize \notin wanted
    BY <1>2, <1>d
  <2>2. x # Plan /\ x # Select /\ x \notin Discoveries /\ x # Synthesize
        /\ x # Verify /\ x \notin Extracts /\ \A y \in Sources : x # Extract(y)
    BY <2>1
  <2>3. stepStatus[Verify] = "ABSENT" /\ Verify \notin wanted /\ Verify # s
    BY <1>1, <1>d DEF Stages
  <2>4. stepStatus'[Verify] = "ABSENT"
    BY <1>3, <2>3
  <2> QED BY <1>3, <1>6, <1>7, <1>d, <2>1, <2>2, <2>4 DEF Fits
<1>e. CASE /\ s \in Fetches /\ end = "SUCCEEDED" /\ s.id \in Sources
           /\ s = Fetch(s.id) /\ wanted = {Extract(s.id)}
  <2>1. x = Extract(s.id) /\ s \notin {Route, Plan} /\ s # Synthesize
    BY <1>2, <1>e
  <2>0. x \in Extracts
    BY <1>e, <2>1
  <2>2. x # Plan /\ x # Select /\ x \notin Discoveries /\ x # Synthesize /\ x \notin Fetches
        /\ x # Verify
    BY <2>0
  <2>3. \A y \in Sources : x = Extract(y) => stepStatus'[Fetch(y)] = "SUCCEEDED"
    <3>1. \A y \in Sources : x = Extract(y) => y = s.id
      BY <2>1
    <3>2. stepStatus'[Fetch(s.id)] = "SUCCEEDED"
      BY <1>3, <1>e
    <3> QED BY <3>1, <3>2
  <2> QED BY <1>1, <1>2, <1>6, <1>7, <1>e, <2>1, <2>2, <2>3 DEF Fits
<1>f. CASE /\ s \in Fetches \cup Extracts /\ wanted = {Verify} /\ st[Verify] = "ABSENT"
           /\ ExtractedSources(st) # {}
           /\ \/ AllTerminal(st, Present(st) \cap (Fetches \cup Extracts))
              \/ CoveredEarly(ExtractedSources(st))
  <2>1. x = Verify /\ s \notin {Route, Plan} /\ s # Synthesize
    BY <1>2, <1>f
  <2>2. x # Plan /\ x # Select /\ x \notin Discoveries /\ x # Synthesize /\ x \notin Fetches
        /\ x \notin Extracts /\ \A y \in Sources : x # Extract(y)
    BY <2>1
  <2>3. stepStatus[Select] = "SUCCEEDED"
    <3>1. CASE s \in Fetches
      BY <1>1, <3>1 DEF Stages
    <3>2. CASE s \in Extracts
      <4>1. PICK y \in Sources : s = Extract(y)
        BY <3>2 DEF Extracts, Extract
      <4>2. stepStatus[Fetch(y)] # "ABSENT" /\ Fetch(y) \in Fetches
        BY <1>1, <4>1 DEF Stages
      <4> QED BY <4>2 DEF Stages
    <3> QED BY <1>f, <3>1, <3>2
  <2> QED BY <1>2, <1>5, <1>6, <1>7, <1>f, <2>1, <2>2, <2>3 DEF Fits
<1>g. CASE /\ s # Route /\ s # Synthesize /\ (s = Plan => end = "SUCCEEDED")
           /\ wanted = {Synthesize}
           /\ AllTerminal(st, Present(st) \ {Synthesize})
  <2>1. x = Synthesize
    BY <1>2, <1>g
  <2>2. \A y \in Steps \ {Synthesize} : stepStatus'[y] = st[y]
    BY <1>3, <1>g
  <2>3. \A y \in Steps \ {Synthesize} : Settled(y)'
    BY <1>g, <2>2 DEF AllTerminal, Present, Settled
  <2>4. stepStatus'[Plan] = "SUCCEEDED"
    BY <1>3, <1>6, <1>g
  <2>5. x # Plan /\ x # Select /\ x \notin Discoveries /\ x \notin Fetches
        /\ x # Verify /\ x \notin Extracts /\ \A y \in Sources : x # Extract(y)
    BY <2>1
  <2> QED BY <2>1, <2>3, <2>4, <2>5 DEF Fits
<1> QED BY <1>2, <1>4, <1>a, <1>b, <1>c, <1>d, <1>e, <1>f, <1>g DEF Wants

\* Whatever a commit adds fits.
LEMMA FitStep ==
    ASSUME TypeOK, Stages, [Next]_vars
    PROVE  \A x \in Steps :
                stepStatus[x] = "ABSENT" /\ stepStatus'[x] # "ABSENT" => Fits(x)
<1> SUFFICES ASSUME NEW x \in Steps, stepStatus[x] = "ABSENT", stepStatus'[x] # "ABSENT"
             PROVE  Fits(x)
  OBVIOUS
<1>1. ~Goes
  BY DEF Goes, StaysOpen, Open
<1>2. \A s \in Steps : ~Drops(s)
  BY DEF Drops, Open, TypeOK
<1> QED BY <1>1, <1>2, KindOfStep, AddedFit DEF Kinds

\* Every action keeps the stages.
LEMMA StagesStep == TypeOK /\ Stages /\ [Next]_vars => Stages'
BY StatusStep, FitStep, FittingKeepsStages

\* The stages hold throughout.
LEMMA AlwaysStages == Spec => []Stages
<1>1. Init => Stages
  BY StepsFacts, StepByType DEF Init, Stages, Settled
<1> QED BY <1>1, StagesStep, TypeCorrect, PTL DEF Spec

\* The joins wait for all their branches and find a plan that succeeded.
THEOREM JoinsWait == Spec => []JoinsAreComplete
<1>1. Stages => JoinsAreComplete
  BY StepsFacts, StepByType DEF Stages, JoinsAreComplete, AllTerminal, Present, Settled
<1> QED BY <1>1, AlwaysStages, PTL

-----------------------------------------------------------------------------
(***************************************************************************)
(* A run that is not over has a step that is not over.                     *)
(***************************************************************************)
\* The hook adds a step, leaves one open, or ends the run.
LEMMA HookGoesOn ==
    ASSUME TypeOK, Stages, NEW s \in Steps, NEW end \in Terminal, NEW wanted,
           Follows(s, end, wanted), ~RunTerminal'
    PROVE  \E x \in Steps : stepStatus'[x] \in Open
<1> DEFINE st == [stepStatus EXCEPT ![s] = end]
<1>1. stepStatus[s] \in Open /\ stepStatus[s] # "ABSENT" /\ stepStatus[s] # "SUCCEEDED"
      /\ ~Settled(s)
  BY DEF Follows, Open, Settled, Terminal
<1>2. /\ stepStatus'[s] = end
      /\ \A y \in Steps \ {s} :
            \/ stepStatus'[y] = stepStatus[y]
            \/ y \in wanted /\ stepStatus[y] = "ABSENT" /\ stepStatus'[y] = "READY"
      /\ \A y \in Steps : st[y] = IF y = s THEN end ELSE stepStatus[y]
      /\ \A y \in Steps : y \in wanted /\ stepStatus[y] = "ABSENT"
                                => stepStatus'[y] = "READY"
  BY FollowEffect
<1>3. Wants(st, s, end, wanted)
  BY HookWants DEF Follows
<1>4. SUFFICES ASSUME \A y \in Steps : ~(y \in wanted /\ stepStatus[y] = "ABSENT")
               PROVE  \E x \in Steps : stepStatus'[x] \in Open
  BY <1>2 DEF Open
<1> HIDE DEF st
<1> USE StepsFacts, StepByType
<1>a. CASE s = Route /\ end = "SUCCEEDED" /\ wanted = {Plan}
  BY <1>1, <1>4, <1>a DEF Stages
<1>b. CASE s = Plan /\ end = "SUCCEEDED" /\ wanted \subseteq Discoveries /\ wanted # {}
  <2>1. PICK y \in wanted : y \in Steps \ {Route, Plan}
    BY <1>b
  <2> QED BY <1>1, <1>4, <1>b, <2>1 DEF Stages
<1>c. CASE /\ s \in Discoveries /\ wanted = {Select}
           /\ AllTerminal(st, Present(st) \cap Discoveries)
  BY <1>1, <1>4, <1>c DEF Stages
<1>d. CASE s = Select /\ end = "SUCCEEDED" /\ wanted \subseteq Fetches /\ wanted # {}
  BY <1>1, <1>4, <1>d DEF Stages
<1>e. CASE /\ s \in Fetches /\ end = "SUCCEEDED" /\ s.id \in Sources
           /\ s = Fetch(s.id) /\ wanted = {Extract(s.id)}
  BY <1>1, <1>4, <1>e DEF Stages
<1>f. CASE /\ s \in Fetches \cup Extracts /\ wanted = {Verify} /\ st[Verify] = "ABSENT"
           /\ ExtractedSources(st) # {}
           /\ \/ AllTerminal(st, Present(st) \cap (Fetches \cup Extracts))
              \/ CoveredEarly(ExtractedSources(st))
  BY <1>2, <1>4, <1>f
<1>g. CASE /\ s # Route /\ s # Synthesize /\ (s = Plan => end = "SUCCEEDED")
           /\ wanted = {Synthesize}
           /\ AllTerminal(st, Present(st) \ {Synthesize})
  BY <1>1, <1>4, <1>g, NoSynthesisYet
<1>h. CASE \E x \in Steps : st[x] \notin Terminal \cup {"ABSENT"}
  <2>1. PICK x \in Steps : st[x] \notin Terminal \cup {"ABSENT"}
    BY <1>h
  <2>2. x # s /\ stepStatus'[x] = stepStatus[x] /\ stepStatus[x] = st[x]
    BY <1>2, <1>4, <2>1
  <2>3. stepStatus[x] \in Open
    BY <2>1, <2>2 DEF TypeOK, StepStatus, Open, Terminal
  <2> QED BY <2>2, <2>3
<1> QED BY <1>3, <1>a, <1>b, <1>c, <1>d, <1>e, <1>f, <1>g, <1>h DEF Wants

\* No action strands a run.
LEMMA StrandedStep ==
    TypeOK /\ Stages /\ NoStrandedRun /\ [Next]_vars => NoStrandedRun'
<1> SUFFICES ASSUME TypeOK, Stages, NoStrandedRun, [Next]_vars, ~RunTerminal'
             PROVE  \E x \in Steps : stepStatus'[x] \in Open
  BY DEF NoStrandedRun
<1>1. ~RunTerminal
  <2>1. RunChanges(runStatus, runStatus', response, response')
    BY StatusStep
  <2> QED BY <2>1 DEF RunChanges, RunTerminal, Terminal
<1>2. PICK x \in Steps : stepStatus[x] \in Open
  BY <1>1 DEF NoStrandedRun
<1>3. CASE Goes
  BY <1>2, <1>3 DEF Goes, StaysOpen
<1>4. ASSUME NEW s \in Steps, Drops(s) PROVE FALSE
  BY <1>4 DEF Drops
<1>5. ASSUME NEW s \in Steps, NEW end \in Terminal, NEW wanted, Follows(s, end, wanted)
      PROVE  \E y \in Steps : stepStatus'[y] \in Open
  BY <1>5, HookGoesOn
<1> QED BY <1>3, <1>4, <1>5, KindOfStep DEF Kinds

\* No combination of branches that fail, are cancelled, retried or lost leaves
\* a run without a step to execute, for any number of queries and sources.
THEOREM RunsAreNotStranded == Spec => []NoStrandedRun
<1>1. Init => NoStrandedRun
  BY StepsFacts DEF Init, NoStrandedRun, Open
<1> QED BY <1>1, StrandedStep, AlwaysStages, TypeCorrect, PTL DEF Spec

-----------------------------------------------------------------------------
(***************************************************************************)
(* The inputs of the joins stay current.                                   *)
(***************************************************************************)
\* The inductive form of InputsAreCurrent: verification is early and covers
\* what is required, or nothing is being fetched or extracted any more.
Snapshot ==
    /\ stepStatus[Select] # "ABSENT" => selectInput = DiscoveredQueries(stepStatus)
    /\ stepStatus[Verify] # "ABSENT" =>
        /\ verifyInput # {}
        /\ verifyInput \subseteq ExtractedSources(stepStatus)
        /\ \/ CoveredEarly(verifyInput)
           \/ /\ verifyInput = ExtractedSources(stepStatus)
              /\ \A x \in Fetches \cup Extracts : Settled(x)
    /\ stepStatus[Synthesize] # "ABSENT" =>
        /\ synthInput.verified = (stepStatus[Verify] = "SUCCEEDED")
        /\ synthInput.degraded = Degradations(stepStatus)

\* Tables that agree on the steps before synthesis degrade it alike.
LEMMA SameDegradations ==
    ASSUME NEW st, NEW su, \A x \in Steps \ {Synthesize} : st[x] = su[x]
    PROVE  Degradations(st) = Degradations(su)
<1>1. {x \in Steps \ {Synthesize} : st[x] \in {"FAILED", "CANCELLED"}}
        = {x \in Steps \ {Synthesize} : su[x] \in {"FAILED", "CANCELLED"}}
  OBVIOUS
<1>2. \A x \in {x \in Steps \ {Synthesize} : su[x] \in {"FAILED", "CANCELLED"}} :
        <<x.type, st[x]>> = <<x.type, su[x]>>
  OBVIOUS
<1> QED BY <1>1, <1>2 DEF Degradations

\* A join that existed keeps its input, and what it was made from stays.
LEMMA SnapshotKept ==
    ASSUME TypeOK, Stages, Snapshot,
           \A x \in Steps : Changes(stepStatus[x], stepStatus'[x]),
           \A x \in Steps :
                stepStatus[x] = "ABSENT" /\ stepStatus'[x] # "ABSENT" => Fits(x)
    PROVE  /\ stepStatus[Select] # "ABSENT" /\ selectInput' = selectInput
                => selectInput' = DiscoveredQueries(stepStatus')
           /\ stepStatus[Verify] # "ABSENT" /\ verifyInput' = verifyInput =>
                /\ verifyInput' # {}
                /\ verifyInput' \subseteq ExtractedSources(stepStatus')
                /\ \/ CoveredEarly(verifyInput')
                   \/ /\ verifyInput' = ExtractedSources(stepStatus')
                      /\ \A x \in Fetches \cup Extracts : Settled(x)'
           /\ stepStatus[Synthesize] # "ABSENT" /\ synthInput' = synthInput =>
                /\ synthInput'.verified = (stepStatus'[Verify] = "SUCCEEDED")
                /\ synthInput'.degraded = Degradations(stepStatus')
<1> USE StepsFacts, StepByType
<1>1. /\ \A x \in Steps : stepStatus[x] # "ABSENT" => stepStatus'[x] # "ABSENT"
      /\ \A x \in Steps : stepStatus[x] # "ABSENT" /\ Settled(x)
                            => stepStatus'[x] = stepStatus[x]
      /\ \A x \in Steps : stepStatus[x] = "SUCCEEDED" => stepStatus'[x] = "SUCCEEDED"
  BY DEF Changes, Settled, Terminal
<1>2. ASSUME stepStatus[Select] # "ABSENT", selectInput' = selectInput
      PROVE  selectInput' = DiscoveredQueries(stepStatus')
  <2>1. ASSUME NEW x \in Discoveries PROVE stepStatus'[x] = stepStatus[x]
    <3>1. CASE stepStatus[x] = "ABSENT"
      BY <1>1, <1>2, <2>1, <3>1 DEF Fits
    <3>2. CASE stepStatus[x] # "ABSENT"
      BY <1>1, <1>2, <2>1, <3>2 DEF Stages
    <3> QED BY <3>1, <3>2
  <2>2. DiscoveredQueries(stepStatus') = DiscoveredQueries(stepStatus)
    BY <2>1 DEF DiscoveredQueries
  <2> QED BY <1>2, <2>2 DEF Snapshot
<1>3. ASSUME stepStatus[Verify] # "ABSENT", verifyInput' = verifyInput
      PROVE  /\ verifyInput' # {}
             /\ verifyInput' \subseteq ExtractedSources(stepStatus')
             /\ \/ CoveredEarly(verifyInput')
                \/ /\ verifyInput' = ExtractedSources(stepStatus')
                   /\ \A x \in Fetches \cup Extracts : Settled(x)'
  <2>1. ExtractedSources(stepStatus) \subseteq ExtractedSources(stepStatus')
    BY <1>1 DEF ExtractedSources
  <2>2. verifyInput' # {} /\ verifyInput' \subseteq ExtractedSources(stepStatus')
    BY <1>3, <2>1 DEF Snapshot
  <2>3. CASE CoveredEarly(verifyInput)
    BY <1>3, <2>2, <2>3
  <2>4. CASE /\ verifyInput = ExtractedSources(stepStatus)
             /\ \A x \in Fetches \cup Extracts : Settled(x)
    <3>1. ASSUME NEW x \in Fetches \cup Extracts PROVE stepStatus'[x] = stepStatus[x]
      <4>1. CASE stepStatus[x] # "ABSENT"
        BY <1>1, <2>4, <3>1, <4>1
      <4>2. CASE stepStatus[x] = "ABSENT" /\ x \in Fetches
        BY <1>1, <1>3, <3>1, <4>2 DEF Fits
      <4>3. CASE stepStatus[x] = "ABSENT" /\ x \in Extracts
        <5>1. \A y \in Fetches : stepStatus[y] \notin Open
          BY <2>4 DEF Settled, Open, Terminal
        <5> QED BY <3>1, <4>3, <5>1 DEF Fits
      <4> QED BY <3>1, <4>1, <4>2, <4>3
    <3>2. ExtractedSources(stepStatus') = ExtractedSources(stepStatus)
      BY <3>1 DEF ExtractedSources
    <3>3. \A x \in Fetches \cup Extracts : Settled(x)'
      BY <2>4, <3>1 DEF Settled
    <3> QED BY <1>3, <2>2, <2>4, <3>2, <3>3
  <2> QED BY <1>3, <2>3, <2>4 DEF Snapshot
<1>4. ASSUME stepStatus[Synthesize] # "ABSENT", synthInput' = synthInput
      PROVE  /\ synthInput'.verified = (stepStatus'[Verify] = "SUCCEEDED")
             /\ synthInput'.degraded = Degradations(stepStatus')
  <2>1. ASSUME NEW x \in Steps \ {Synthesize} PROVE stepStatus'[x] = stepStatus[x]
    <3>1. CASE stepStatus[x] = "ABSENT"
      BY <1>1, <1>4, <2>1, <3>1 DEF Fits
    <3>2. CASE stepStatus[x] # "ABSENT"
      BY <1>1, <1>4, <2>1, <3>2 DEF Stages
    <3> QED BY <3>1, <3>2
  <2>2. Degradations(stepStatus') = Degradations(stepStatus)
    BY <2>1, SameDegradations
  <2>3. stepStatus'[Verify] = stepStatus[Verify]
    BY <2>1
  <2> QED BY <1>4, <2>2, <2>3 DEF Snapshot
<1> QED BY <1>2, <1>3, <1>4

\* A join that is added gets the input that belongs to the step table.
LEMMA SnapshotTaken ==
    ASSUME TypeOK, Stages, NEW s \in Steps, NEW end \in Terminal, NEW wanted,
           Follows(s, end, wanted)
    PROVE  /\ stepStatus[Select] = "ABSENT" /\ stepStatus'[Select] # "ABSENT"
                => selectInput' = DiscoveredQueries(stepStatus')
           /\ stepStatus[Verify] = "ABSENT" /\ stepStatus'[Verify] # "ABSENT" =>
                /\ verifyInput' # {}
                /\ verifyInput' \subseteq ExtractedSources(stepStatus')
                /\ \/ CoveredEarly(verifyInput')
                   \/ /\ verifyInput' = ExtractedSources(stepStatus')
                      /\ \A x \in Fetches \cup Extracts : Settled(x)'
           /\ stepStatus[Synthesize] = "ABSENT" /\ stepStatus'[Synthesize] # "ABSENT" =>
                /\ synthInput'.verified = (stepStatus'[Verify] = "SUCCEEDED")
                /\ synthInput'.degraded = Degradations(stepStatus')
           /\ stepStatus[Select] # "ABSENT" => selectInput' = selectInput
           /\ stepStatus[Verify] # "ABSENT" => verifyInput' = verifyInput
           /\ stepStatus[Synthesize] # "ABSENT" => synthInput' = synthInput
<1> USE StepsFacts, StepByType
<1>0. PICK st : st = [stepStatus EXCEPT ![s] = end]
  OBVIOUS
<1>1. stepStatus[s] # "ABSENT" /\ end # "ABSENT"
  BY DEF Follows, Open, Terminal
<1>2. /\ \A x \in Steps : st[x] = IF x = s THEN end ELSE stepStatus[x]
      /\ \A x \in Steps : stepStatus'[x] = IF x \in Missing(st, wanted) THEN "READY" ELSE st[x]
  BY <1>0 DEF Follows, TypeOK
<1>3. Snapshots(st, Missing(st, wanted))
  BY <1>0 DEF Follows
<1>4. Wants(st, s, end, wanted)
  BY <1>0, HookWants DEF Follows
<1>5. \A x \in Steps : x \in Missing(st, wanted) <=> x \in wanted /\ stepStatus[x] = "ABSENT"
  BY <1>1, <1>2 DEF Missing
<1>6. \A x \in Steps : stepStatus[x] = "ABSENT" /\ stepStatus'[x] # "ABSENT"
                        => x \in Missing(st, wanted)
  BY <1>1, <1>2
<1>7. ASSUME Select \in Missing(st, wanted)
      PROVE  selectInput' = DiscoveredQueries(stepStatus')
  <2>1. wanted = {Select}
    BY <1>4, <1>5, <1>7 DEF Wants
  <2>2. \A x \in Discoveries : stepStatus'[x] = st[x]
    BY <1>2, <1>5, <2>1
  <2>3. DiscoveredQueries(stepStatus') = DiscoveredQueries(st)
    BY <2>2 DEF DiscoveredQueries
  <2> QED BY <1>3, <1>7, <2>3 DEF Snapshots
<1>8. ASSUME Verify \in Missing(st, wanted)
      PROVE  /\ verifyInput' # {}
             /\ verifyInput' \subseteq ExtractedSources(stepStatus')
             /\ \/ CoveredEarly(verifyInput')
                \/ /\ verifyInput' = ExtractedSources(stepStatus')
                   /\ \A x \in Fetches \cup Extracts : Settled(x)'
  <2>1. /\ wanted = {Verify} /\ ExtractedSources(st) # {}
        /\ \/ AllTerminal(st, Present(st) \cap (Fetches \cup Extracts))
           \/ CoveredEarly(ExtractedSources(st))
    BY <1>4, <1>5, <1>8 DEF Wants
  <2>2. \A x \in Fetches \cup Extracts : stepStatus'[x] = st[x]
    BY <1>2, <1>5, <2>1
  <2>3. ExtractedSources(stepStatus') = ExtractedSources(st)
    BY <2>2 DEF ExtractedSources
  <2>4. verifyInput' = ExtractedSources(st)
    BY <1>3, <1>8 DEF Snapshots
  <2>5. AllTerminal(st, Present(st) \cap (Fetches \cup Extracts))
            => \A x \in Fetches \cup Extracts : Settled(x)'
    BY <2>2 DEF AllTerminal, Present, Settled
  <2> QED BY <2>1, <2>3, <2>4, <2>5
<1>9. ASSUME Synthesize \in Missing(st, wanted)
      PROVE  /\ synthInput'.verified = (stepStatus'[Verify] = "SUCCEEDED")
             /\ synthInput'.degraded = Degradations(stepStatus')
  <2>1. wanted = {Synthesize}
    BY <1>4, <1>5, <1>9 DEF Wants
  <2>2. \A x \in Steps \ {Synthesize} : stepStatus'[x] = st[x]
    BY <1>2, <1>5, <2>1
  <2>3. Degradations(stepStatus') = Degradations(st)
    BY <2>2, SameDegradations
  <2>4. synthInput' = [verified |-> st[Verify] = "SUCCEEDED", degraded |-> Degradations(st)]
    BY <1>3, <1>9 DEF Snapshots
  <2>5. stepStatus'[Verify] = st[Verify]
    BY <2>2
  <2> QED BY <2>3, <2>4, <2>5
<1>10. /\ stepStatus[Select] # "ABSENT" => selectInput' = selectInput
       /\ stepStatus[Verify] # "ABSENT" => verifyInput' = verifyInput
       /\ stepStatus[Synthesize] # "ABSENT" => synthInput' = synthInput
  BY <1>3, <1>5 DEF Snapshots
<1> QED BY <1>6, <1>7, <1>8, <1>9, <1>10

\* Every action keeps the snapshots.
LEMMA SnapshotStep == TypeOK /\ Stages /\ Snapshot /\ [Next]_vars => Snapshot'
<1> SUFFICES ASSUME TypeOK, Stages, Snapshot, [Next]_vars PROVE Snapshot'
  OBVIOUS
<1>1. /\ \A x \in Steps : Changes(stepStatus[x], stepStatus'[x])
      /\ \A x \in Steps :
            stepStatus[x] = "ABSENT" /\ stepStatus'[x] # "ABSENT" => Fits(x)
  BY StatusStep, FitStep
<1>2. ASSUME UNCHANGED inputVars,
             \A x \in Steps : stepStatus'[x] # "ABSENT" => stepStatus[x] # "ABSENT"
      PROVE  Snapshot'
  BY <1>1, <1>2, SnapshotKept, StepsFacts DEF Snapshot, inputVars
<1>3. CASE Goes
  <2>1. \A x \in Steps : stepStatus'[x] # "ABSENT" => stepStatus[x] # "ABSENT"
    BY <1>3 DEF Goes, StaysOpen, Open
  <2>2. UNCHANGED inputVars
    BY <1>3 DEF Goes, inputVars
  <2> QED BY <1>2, <2>1, <2>2
<1>4. ASSUME NEW s \in Steps, Drops(s) PROVE Snapshot'
  <2>1. \A x \in Steps : stepStatus'[x] # "ABSENT" => stepStatus[x] # "ABSENT"
    BY <1>4 DEF Drops, Open, TypeOK
  <2> QED BY <1>2, <1>4, <2>1 DEF Drops
<1>5. ASSUME NEW s \in Steps, NEW end \in Terminal, NEW wanted, Follows(s, end, wanted)
      PROVE  Snapshot'
  BY <1>1, <1>5, SnapshotKept, SnapshotTaken DEF Snapshot
<1> QED BY <1>3, <1>4, <1>5, KindOfStep DEF Kinds

\* The input written when a join was created is right until the run ends, for
\* every order in which branches end.
THEOREM InputsStayCurrent == Spec => []InputsAreCurrent
<1>1. Init => Snapshot
  BY StepsFacts, StepByType DEF Init, Snapshot
<1>2. Snapshot => InputsAreCurrent
  BY DEF Snapshot, InputsAreCurrent
<1> QED BY <1>1, <1>2, SnapshotStep, AlwaysStages, TypeCorrect, PTL DEF Spec
=============================================================================

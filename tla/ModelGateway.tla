---------------------------- MODULE ModelGateway ----------------------------
(***************************************************************************)
(* The calls to the model provider that the steps of one run make: the      *)
(* table model_invocations with the call counter of the run, the method     *)
(* ModelGateway.generate as the workers execute it, and what the reconciler *)
(* does to the calls of workers that are gone.                              *)
(*                                                                          *)
(* Every action is one transaction of the audit sink, one answer of the     *)
(* provider, or one event of the step's life.  The life of a step is kept   *)
(* to what the audit looks at (StepExecution has all of it): READY stands   *)
(* for READY and RETRY_WAIT, CLOSED for the terminal statuses, and leases   *)
(* and deadlines are passed or not.                                         *)
(*                                                                          *)
(* The logical call key of a call is its step and its call number: the      *)
(* other parts of the key are the same for all calls of a step.  The        *)
(* messages of a request are not part of it.  They are modelled by `request',*)
(* which is <<>> for the messages of the step and the id of an answer for   *)
(* the request to repair that answer.                                       *)
(***************************************************************************)
EXTENDS Integers, FiniteSets

CONSTANTS
    Steps,          \* the steps of the run that call a model
    MaxLlmCalls,    \* max_llm_calls of the run's budget
    MaxRetries,     \* of the role's configuration
    MaxAttempts,    \* bound: attempts of a step
    MaxFaults       \* bound: workers lost

ASSUME GatewayAssumption ==
    /\ MaxLlmCalls \in Nat /\ MaxRetries \in Nat
    /\ MaxAttempts \in Nat /\ MaxFaults \in Nat

VARIABLES
    ended,      \* the run is terminal
    usage,      \* usage_snapshot: llm_call_count, tokens of completed calls
    step,       \* status, latest attempt, its completed_at, lease, deadline
    rows,       \* model_invocations
    gens,       \* executions of generate
    faults

vars == <<ended, usage, step, rows, gens, faults>>

InvocationStatus == {"STARTED", "COMPLETED", "FAILED", "ABANDONED", "REUSED"}
None     == <<>>
CallId   == Steps \X Nat \X Nat     \* step, attempt number, call number
Answer   == CallId \cup {None}

Step == [status : {"READY", "RUNNING", "CLOSED"}, no : Nat, open : BOOLEAN,
         expired : BOOLEAN, late : BOOLEAN]

\* parses: the response, if there is one, is accepted by the parser;
\* source: reused_from_id.
Row == [id : CallId, status : InvocationStatus, request : Answer,
        parses : BOOLEAN, source : Answer]

\* base: call_no_start; calls: calls made by this _invoke; try: its loop
\* variable; found: the source that reuse has read; answer: the response that
\* _invoke returned; again: a failed call is followed by another try.
Point == {"reuse", "takeOver", "start", "provider", "complete", "fail",
          "parse", "returned", "raised"}
Gen == [step : Steps, no : Nat, at : Point, request : Answer, base : Nat,
        calls : Nat, try : Nat, found : Answer, answer : Answer,
        again : BOOLEAN]

TypeOK ==
    /\ ended \in BOOLEAN
    /\ usage \in [calls : Nat, tokens : Nat]
    /\ step \in [Steps -> Step]
    /\ rows \subseteq Row
    /\ gens \subseteq Gen
    /\ faults \in 0..MaxFaults

Init ==
    /\ ended = FALSE
    /\ usage = [calls |-> 0, tokens |-> 0]
    /\ step = [s \in Steps |-> [status |-> "READY", no |-> 0, open |-> FALSE,
                                expired |-> FALSE, late |-> FALSE]]
    /\ rows = {}
    /\ gens = {}
    /\ faults = 0

-----------------------------------------------------------------------------
(***************************************************************************)
(* Pieces of the audit sink.                                                *)
(***************************************************************************)
Now(g, h)   == gens' = (gens \ {g}) \cup {h}
Raise(g)    == Now(g, [g EXCEPT !.at = "raised"])
CallNo(g)   == g.base + g.calls + 1
NextId(g)   == <<g.step, g.no, CallNo(g)>>    \* of the call to be made
LastId(g)   == <<g.step, g.no, g.base + g.calls>>   \* of the call just made
Taken(i)    == \E r \in rows : r.id = i
Seal(r, status) == (rows \ {r}) \cup {[r EXCEPT !.status = status]}
Called      == {r.id : r \in {q \in rows : q.status # "REUSED"}}
Completed   == {r.id : r \in {q \in rows : q.status = "COMPLETED"}}

\* The attempt is the latest of its step and open.
Holds(g) == step[g.step].no = g.no /\ step[g.step].open

\* _lock_current.
LockCurrent(g) ==
    /\ ~step[g.step].late
    /\ ~ended
    /\ step[g.step].status = "RUNNING"
    /\ Holds(g)

\* The completed calls with the logical key of g's next call.
Sources(g) == {r \in rows : /\ r.status = "COMPLETED"
                            /\ r.id[1] = g.step /\ r.id[3] = CallNo(g)}

-----------------------------------------------------------------------------
(***************************************************************************)
(* _invoke: one turn of its loop.                                           *)
(***************************************************************************)
\* The time that is left is looked at before the audit is.
OutOfTime(g) ==
    /\ g.at = "reuse" /\ step[g.step].late
    /\ Raise(g)
    /\ UNCHANGED <<ended, usage, step, rows, faults>>

\* reuse: first transaction.
FindSource(g) ==
    /\ g.at = "reuse" /\ ~step[g.step].late
    /\ \/ /\ Sources(g) = {}
          /\ Now(g, [g EXCEPT !.at = "start"])
       \/ \E r \in Sources(g) :
            Now(g, [g EXCEPT !.at = "takeOver", !.found = r.id])
    /\ UNCHANGED <<ended, usage, step, rows, faults>>

\* reuse: second transaction, after the artifact was read.
TakeOver(g) ==
    /\ g.at = "takeOver" /\ LockCurrent(g)
    /\ IF Taken(NextId(g))
       THEN /\ \E r \in rows : /\ r.id = NextId(g) /\ r.status = "REUSED"
                               /\ r.source = g.found
            /\ UNCHANGED rows
       ELSE rows' = rows \cup
                {[id |-> NextId(g), status |-> "REUSED", request |-> g.request,
                  parses |-> FALSE, source |-> g.found]}
    /\ Now(g, [g EXCEPT !.at = "parse", !.answer = g.found])
    /\ UNCHANGED <<ended, usage, step, faults>>

\* Mutant: the counter is read without the lock on the run, as it was before
\* other calls were counted.
StartUnlocked(g) ==
    /\ g.at = "start" /\ LockCurrent(g) /\ ~Taken(NextId(g))
    /\ \E n \in {usage.calls - 1, usage.calls} \cap Nat :
        /\ n + 1 <= MaxLlmCalls
        /\ usage' = [usage EXCEPT !.calls = n + 1]
    /\ rows' = rows \cup
            {[id |-> NextId(g), status |-> "STARTED", request |-> g.request,
              parses |-> FALSE, source |-> None]}
    /\ Now(g, [g EXCEPT !.at = "provider", !.calls = @ + 1])
    /\ UNCHANGED <<ended, step, faults>>

\* start: the call is counted before it goes out.
Start(g) ==
    /\ g.at = "start" /\ LockCurrent(g) /\ ~Taken(NextId(g))
    /\ usage.calls + 1 <= MaxLlmCalls
    /\ usage' = [usage EXCEPT !.calls = @ + 1]
    /\ rows' = rows \cup
            {[id |-> NextId(g), status |-> "STARTED", request |-> g.request,
              parses |-> FALSE, source |-> None]}
    /\ Now(g, [g EXCEPT !.at = "provider", !.calls = @ + 1])
    /\ UNCHANGED <<ended, step, faults>>

\* The context is stale, the artifact does not validate, the call number is
\* taken, or the budget is used up.
Refused(g) ==
    /\ \/ g.at = "takeOver"
       \/ /\ g.at = "start"
          /\ \/ ~LockCurrent(g) \/ Taken(NextId(g))
             \/ usage.calls + 1 > MaxLlmCalls
    /\ Raise(g)
    /\ UNCHANGED <<ended, usage, step, rows, faults>>

\* The provider answers, or fails: in a way that allows a retry (timeouts do),
\* or for good (an error, no time left, the operation is cancelled).
ProviderAnswers(g) ==
    /\ g.at = "provider" /\ ~step[g.step].late
    /\ Now(g, [g EXCEPT !.at = "complete"])
    /\ UNCHANGED <<ended, usage, step, rows, faults>>

ProviderFails(g) ==
    /\ g.at = "provider"
    /\ \E again \in {FALSE, g.try < MaxRetries} :
        Now(g, [g EXCEPT !.at = "fail", !.again = again])
    /\ UNCHANGED <<ended, usage, step, rows, faults>>

\* fail: a call that was sealed meanwhile stays as it is.
Fail(g) ==
    /\ g.at = "fail"
    /\ \E r \in rows :
        /\ r.id = LastId(g)
        /\ rows' = IF r.status = "STARTED" THEN Seal(r, "FAILED") ELSE rows
    /\ IF g.again THEN Now(g, [g EXCEPT !.at = "reuse", !.try = @ + 1])
       ELSE Raise(g)
    /\ UNCHANGED <<ended, usage, step, faults>>

\* complete.  The attempt need not be current any more.
Complete(g) ==
    /\ g.at = "complete"
    /\ \E r \in rows, ok \in BOOLEAN :
        /\ r.id = LastId(g) /\ r.status = "STARTED"
        /\ rows' = (rows \ {r}) \cup
                {[r EXCEPT !.status = "COMPLETED", !.parses = ok]}
    /\ usage' = [usage EXCEPT !.tokens = @ + 1]
    /\ Now(g, [g EXCEPT !.at = "parse", !.answer = LastId(g)])
    /\ UNCHANGED <<ended, step, faults>>

\* The response of a sealed call is dropped.
CompleteRefused(g) ==
    /\ g.at = "complete"
    /\ \E r \in rows : r.id = LastId(g) /\ r.status # "STARTED"
    /\ Raise(g)
    /\ UNCHANGED <<ended, usage, step, rows, faults>>

-----------------------------------------------------------------------------
(***************************************************************************)
(* generate: a response that does not parse is repaired once.               *)
(***************************************************************************)
\* Mutant: the repair is numbered after the calls of this attempt.
RepairStartByCalls(g) == g.calls

\* The call number after which the repair is numbered: a reused first answer
\* counts as call 1.
RepairStart(g) == IF g.calls > 1 THEN g.calls ELSE 1

Parse(g) ==
    /\ g.at = "parse"
    /\ \E r \in rows :
        /\ r.id = g.answer
        /\ \/ r.parses /\ Now(g, [g EXCEPT !.at = "returned"])
           \/ ~r.parses /\ g.request # None /\ Raise(g)
           \/ /\ ~r.parses /\ g.request = None
              /\ Now(g, [g EXCEPT !.at = "reuse", !.request = g.answer,
                                  !.base = RepairStart(g), !.calls = 0,
                                  !.try = 0])
    /\ UNCHANGED <<ended, usage, step, rows, faults>>

-----------------------------------------------------------------------------
(***************************************************************************)
(* The step around it: what StepExecution has in detail.                    *)
(***************************************************************************)
Claim(s) ==
    /\ step[s].status = "READY" /\ ~ended /\ ~step[s].late
    /\ step[s].no < MaxAttempts
    /\ step' = [step EXCEPT ![s].status = "RUNNING", ![s].no = @ + 1,
                            ![s].open = TRUE, ![s].expired = FALSE]
    /\ gens' = gens \cup
            {[step |-> s, no |-> step[s].no + 1, at |-> "reuse",
              request |-> None, base |-> 0, calls |-> 0, try |-> 0,
              found |-> None, answer |-> None, again |-> FALSE]}
    /\ UNCHANGED <<ended, usage, rows, faults>>

\* succeed and fail: only the current attempt closes the step, or leaves it
\* to be tried again.
Finalise(g) ==
    /\ g.at \in {"returned", "raised"}
    /\ gens' = gens \ {g}
    /\ IF Holds(g) /\ step[g.step].status = "RUNNING"
       THEN \E status \in {"CLOSED"} \cup
                          (IF g.at = "raised" /\ ~ended THEN {"READY"} ELSE {}) :
            step' = [step EXCEPT ![g.step].status = status,
                                 ![g.step].open = FALSE]
       ELSE UNCHANGED step
    /\ UNCHANGED <<ended, usage, rows, faults>>

\* A heartbeat was refused and the operation is cancelled outside of a call:
\* the transaction it was in is rolled back.
OperationCancelled(g) ==
    /\ ~Holds(g) \/ step[g.step].late
    /\ g.at \in {"reuse", "takeOver", "start", "complete", "fail", "parse"}
    /\ Raise(g)
    /\ UNCHANGED <<ended, usage, step, rows, faults>>

\* The heartbeat renews the lease, also one that has run out.
Renew(g) ==
    /\ Holds(g) /\ step[g.step].expired /\ ~step[g.step].late
    /\ step' = [step EXCEPT ![g.step].expired = FALSE]
    /\ UNCHANGED <<ended, usage, rows, gens, faults>>

WorkerLost(g) ==
    /\ faults < MaxFaults /\ faults' = faults + 1
    /\ gens' = gens \ {g}
    /\ UNCHANGED <<ended, usage, step, rows>>

LeaseExpires(s) ==
    /\ step[s].open /\ ~step[s].expired
    /\ step' = [step EXCEPT ![s].expired = TRUE]
    /\ UNCHANGED <<ended, usage, rows, gens, faults>>

\* No lease is longer than the deadline.
DeadlinePasses(s) ==
    /\ ~step[s].late
    /\ step' = [step EXCEPT ![s].late = TRUE, ![s].expired = TRUE]
    /\ UNCHANGED <<ended, usage, rows, gens, faults>>

\* The owner cancels the run, or another step ends it.
RunEnds ==
    /\ ~ended
    /\ ended' = TRUE
    /\ UNCHANGED <<usage, step, rows, gens, faults>>

-----------------------------------------------------------------------------
(***************************************************************************)
(* The reconciler.                                                          *)
(***************************************************************************)
Abandoned(r) == [r EXCEPT !.status = "ABANDONED"]

\* Mutant: the calls are left to seal_orphaned_model_invocations.
MakeReadyOnly(s) ==
    /\ step[s].status = "RUNNING" /\ step[s].open /\ step[s].expired
    /\ step' = [step EXCEPT ![s].status = "READY", ![s].open = FALSE]
    /\ UNCHANGED <<ended, usage, rows, gens, faults>>

\* make_ready of a step whose lease has run out: its calls are abandoned in
\* the same transaction.
MakeReady(s) ==
    /\ step[s].status = "RUNNING" /\ step[s].open /\ step[s].expired
    /\ step' = [step EXCEPT ![s].status = "READY", ![s].open = FALSE]
    /\ rows' = {IF r.id[1] = s /\ r.id[2] = step[s].no /\ r.status = "STARTED"
                THEN Abandoned(r) ELSE r : r \in rows}
    /\ UNCHANGED <<ended, usage, gens, faults>>

\* Mutant: calls of completed attempts are overlooked.
OrphanedByLease(r) ==
    LET s == step[r.id[1]]
    IN  r.status = "STARTED" /\ r.id[2] = s.no /\ s.open /\ s.expired

\* The attempt of a started call is completed or past its lease or deadline.
Orphaned(r) ==
    LET s == step[r.id[1]]
    IN  r.status = "STARTED" /\ (r.id[2] # s.no \/ ~s.open \/ s.expired)

SealOrphaned(r) ==
    /\ Orphaned(r)
    /\ rows' = (rows \ {r}) \cup {Abandoned(r)}
    /\ UNCHANGED <<ended, usage, step, gens, faults>>

-----------------------------------------------------------------------------
GenStep(g) ==
    \/ OutOfTime(g) \/ FindSource(g) \/ TakeOver(g) \/ Start(g) \/ Refused(g)
    \/ ProviderAnswers(g) \/ ProviderFails(g) \/ Fail(g) \/ Complete(g)
    \/ CompleteRefused(g) \/ Parse(g) \/ Finalise(g) \/ OperationCancelled(g)

Next ==
    \/ \E g \in gens : GenStep(g) \/ Renew(g) \/ WorkerLost(g)
    \/ \E s \in Steps : \/ Claim(s) \/ MakeReady(s)
                        \/ LeaseExpires(s) \/ DeadlinePasses(s)
    \/ \E r \in rows : SealOrphaned(r)
    \/ RunEnds

Spec == Init /\ [][Next]_vars

\* Workers go on (every call of the provider has a timeout), the clock does,
\* and so does the reconciler.
Fairness ==
    /\ \A s \in Steps :
        /\ \A n \in 1..MaxAttempts :
            WF_vars(\E g \in gens : g.step = s /\ g.no = n /\ GenStep(g))
        /\ WF_vars(DeadlinePasses(s))
        /\ WF_vars(\E r \in rows : r.id[1] = s /\ SealOrphaned(r))

FairSpec == Spec /\ Fairness

-----------------------------------------------------------------------------
\* No run makes more calls than its budget has, whichever steps, attempts,
\* retries and repairs they come from: llm_call_count is the number of calls
\* that were (or may have been) made, and tokens are counted once per answer.
BudgetHolds ==
    /\ usage.calls = Cardinality(Called)
    /\ usage.calls <= MaxLlmCalls
    /\ usage.tokens = Cardinality(Completed)

\* One logical call is completed at most once, although several attempts make
\* it: the answer of a call that a later attempt repeats is refused.
PaidOnce ==
    \A r, q \in rows :
        /\ r.status = "COMPLETED" /\ q.status = "COMPLETED"
        /\ r.id[1] = q.id[1] /\ r.id[3] = q.id[3]
        => r = q

\* What generate works with is an answer that the audit has as completed.
AnswersAreAudited ==
    \A g \in gens : g.at \in {"parse", "returned"} =>
        \E r \in rows : r.id = g.answer /\ r.status = "COMPLETED"

\* A reused answer was given to the same request, as long as no attempt had
\* to try its first request twice: the numbers of calls after a crash meet
\* those before it.
ReuseIsExact ==
    \A g \in gens :
        /\ g.at = "parse"
        /\ \A r \in rows : r.id[1] = g.step /\ r.request = None => r.id[3] = 1
        => \E r \in rows : r.id = g.answer /\ r.request = g.request

\* A call that is sealed stays as it is, whatever its worker, the reconciler
\* and later attempts do.
SealedForGood ==
    [][\A r \in rows : r.status # "STARTED" => r \in rows']_vars

\* Every call that was started is sealed in the end, also if its worker is
\* lost, its transaction rolled back or its run cancelled.
Ids == {<<s, n, c>> : s \in Steps, n \in 1..MaxAttempts, c \in 1..MaxLlmCalls}
CallsAreSealed ==
    \A i \in Ids :
        (\E r \in rows : r.id = i /\ r.status = "STARTED")
            ~> (\E r \in rows : r.id = i /\ r.status # "STARTED")
=============================================================================

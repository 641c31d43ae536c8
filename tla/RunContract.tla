---------------------------- MODULE RunContract ----------------------------
(***************************************************************************)
(* What the platform promises of a search run to those who look at its     *)
(* rows from outside: an exactly-once workflow.  Each step of the graph is *)
(* added once, in the order of the workflow rules, is open for a while and *)
(* ends once; its end, the steps that follow it and the end of the run     *)
(* become visible together; and what was answered or reported never        *)
(* changes.  Messages, attempts, leases, retries, the clock, workers and   *)
(* the reconciler do not occur: StepExecution has them all, and is shown   *)
(* to implement this module.                                               *)
(***************************************************************************)
EXTENDS Workflow

VARIABLES
    run,        \* search_runs.status
    answer,     \* response_runs.status
    steps       \* what became of every step: ABSENT, OPEN or its end

contractVars == <<run, answer, steps>>

Over == run \in Terminal

ContractInit ==
    /\ run = "QUEUED"
    /\ answer = "QUEUED"
    /\ steps = [s \in Steps |-> IF s = Route THEN "OPEN" ELSE "ABSENT"]

\* The first claim of a step starts the run.
Begin ==
    /\ run = "QUEUED"
    /\ run' = "RUNNING"
    /\ UNCHANGED <<answer, steps>>

\* The table st, in which a step has just ended, with the steps that follow.
Extend(st, wanted) ==
    steps' = [s \in Steps |-> IF s \in Missing(st, wanted) THEN "OPEN" ELSE st[s]]

\* What the output of a step may ask for: queries, and the sources that the
\* successful discoveries found.
Asked(s) ==
    CASE s.type = "PLAN"   -> SUBSET Queries
      [] s.type = "SELECT" -> SUBSET UNION {HitsOf[q] : q \in DiscoveredQueries(steps)}
      [] OTHER             -> {{}}

\* on_success: the step ends and is followed up; synthesis ends the run.
Complete(s) ==
    /\ steps[s] = "OPEN" /\ run = "RUNNING"
    /\ \E asked \in Asked(s) :
        LET st == [steps EXCEPT ![s] = "SUCCEEDED"]
        IN  Extend(st, AfterSuccess(st, s, asked))
    /\ IF s = Synthesize THEN run' = "SUCCEEDED" /\ answer' = "SUCCEEDED"
       ELSE UNCHANGED <<run, answer>>

\* on_failure: the run goes on without the step, or fails and says so.
GiveUp(s) ==
    /\ steps[s] = "OPEN" /\ ~Over
    /\ \E end \in {"FAILED", "CANCELLED"} :
        LET st == [steps EXCEPT ![s] = end]
        IN  Extend(st, AfterFailure(st, s))
    /\ IF FailsRun(s) THEN run' = "FAILED" /\ answer' = "FAILED"
       ELSE run' = "RUNNING" /\ UNCHANGED answer

\* The hard deadline: the run fails with the step, and nothing is reported.
Expire(s) ==
    /\ steps[s] = "OPEN" /\ ~Over
    /\ steps' = [steps EXCEPT ![s] = "FAILED"]
    /\ run' = "FAILED"
    /\ UNCHANGED answer

Cancel ==
    /\ ~Over
    /\ run' = "CANCELLED"
    /\ UNCHANGED <<answer, steps>>

\* A step that was open when the run ended.
Abandon(s) ==
    /\ steps[s] = "OPEN" /\ Over
    /\ steps' = [steps EXCEPT ![s] = "CANCELLED"]
    /\ UNCHANGED <<run, answer>>

ContractNext ==
    \/ Begin
    \/ \E s \in Steps : Complete(s) \/ GiveUp(s) \/ Expire(s) \/ Abandon(s)
    \/ Cancel

ContractSpec == ContractInit /\ [][ContractNext]_contractVars
=============================================================================

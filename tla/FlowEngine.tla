------------------------------ MODULE FlowEngine ------------------------------
(***************************************************************************)
(* Verification flows: spectrace_flows/engine.py run on the Django storage *)
(* of requirements/flows.  An execution reads a flow, creates a run row,   *)
(* executes the steps it read one by one, recording each, and completes    *)
(* the run.  There is no transaction around it: every database call is a   *)
(* step of its own, other executions and the synchronisation of flow       *)
(* definitions come in between, and the process may die at any point.      *)
(* Time is what the steps of one execution have used up; a database call   *)
(* takes none.                                                             *)
(***************************************************************************)
EXTENDS Naturals, Sequences, FiniteSets

CONSTANTS
    Flows,          \* names of flows
    Definitions,    \* step lists a flow may be synced with, metadata included
    Runs,           \* executions, each named after the run row it creates
    MainThread,     \* those of them that run in the main thread of a process
    Durations,      \* times a step may need
    StepTimeout,    \* 0 switches the alarm off
    FlowTimeout

StepType == {"handler", "api_call", "assertion", "wait", "unknown"}

\* _django_model_to_flow_def: the steps of a stored flow, metadata left out.
StepsOf(d) == SelectSeq(d, LAMBDA s : s # "metadata")

ASSUME FlowsAssumption ==
    /\ Definitions \subseteq Seq(StepType \cup {"metadata"})
    /\ \A d \in Definitions : StepsOf(d) \in Seq(StepType)
    /\ MainThread \subseteq Runs
    /\ Durations \subseteq Nat
    /\ StepTimeout \in Nat
    /\ FlowTimeout \in Nat

VARIABLES
    flow,     \* VerificationFlow rows: the step list of each
    run,      \* VerificationFlowRun rows; given: context["last_response"] is set
    steps,    \* VerificationFlowStep rows of each run
    exec      \* the local state of each execution

vars == <<flow, run, steps, exec>>

NoFlow == [stored |-> FALSE, def |-> <<>>]
Stored(d) == [stored |-> TRUE, def |-> d]

RunStatus == {"running", "passed", "failed"}
RunRow(f, s, g) == [flow |-> f, status |-> s, given |-> g, completed |-> FALSE]

NoRun == RunRow("none", "none", FALSE)

StepRow == [order : Nat, type : StepType, passed : BOOLEAN]

Idle == [at |-> "idle", flow |-> "none", todo |-> <<>>, i |-> 0,
         passed |-> TRUE, response |-> FALSE, elapsed |-> 0, result |-> "none"]

Exists(r) == run[r] # NoRun

Init ==
    /\ flow  \in [Flows -> {NoFlow} \cup {Stored(d) : d \in Definitions}]
    /\ run   = [r \in Runs |-> NoRun]
    /\ steps = [r \in Runs |-> {}]
    /\ exec  = [r \in Runs |-> Idle]

-----------------------------------------------------------------------------
\* What an execution does next; each step of it moves one exec[r].
Goto(r, at) == exec' = [exec EXCEPT ![r].at = at]

\* run_flow and verify_linear_connection look the flow up and hand it to
\* execute, which copies its steps.
LookUpFlow(r, f, given) ==
    /\ exec[r].at = "idle"
    /\ flow[f].stored
    /\ exec' = [exec EXCEPT ![r].at = "reading", ![r].flow = f,
                            ![r].todo = StepsOf(flow[f].def),
                            ![r].response = given]
    /\ UNCHANGED <<flow, run, steps>>

\* DjangoFlowStorage.create_run looks the flow up again, by name.
CreateRun(r) ==
    /\ exec[r].at = "reading"
    /\ flow[exec[r].flow].stored
    /\ run' = [run EXCEPT ![r] = RunRow(exec[r].flow, "running", exec[r].response)]
    /\ Goto(r, "looping")
    /\ UNCHANGED <<flow, steps>>

Pending(r) == exec[r].at = "looping" /\ exec[r].i < Len(exec[r].todo)

InTime(r) == exec[r].elapsed <= FlowTimeout

\* Off the main thread signal.signal raises, and the step fails unexecuted.
NoAlarm(r) == StepTimeout > 0 /\ r \notin MainThread

RingsBefore(d) == StepTimeout > 0 /\ d > StepTimeout

\* Faulty variant of Passes: a missing response is an empty one.
PassesWithoutResponse(type, response, ok) ==
    CASE type = "unknown" -> FALSE
      [] type = "wait"    -> TRUE
      [] OTHER            -> ok

\* execute_step: the check of a step that is neither interrupted nor off the
\* main thread.  ok is what the handler, the server or the comparison says.
Passes(type, response, ok) ==
    CASE type = "unknown"   -> FALSE
      [] type = "wait"      -> TRUE
      [] type = "assertion" -> response /\ ok
      [] OTHER              -> ok

\* Faulty variant of ExecuteStep: the alarm is set for the whole flow only.
ExecuteStepUnalarmed(r, ok, d) ==
    /\ Pending(r)
    /\ InTime(r)
    /\ LET type == exec[r].todo[exec[r].i + 1] IN
       exec' = [exec EXCEPT ![r].at = "checked", ![r].elapsed = @ + d,
                            ![r].passed = Passes(type, exec[r].response, ok),
                            ![r].response = @ \/ (type = "api_call" /\ ok)]
    /\ UNCHANGED <<flow, run, steps>>

\* One step under _step_timeout_context.  The alarm ends the step as failed
\* wherever it is caught: in the engine, in execute_handler_step, in the
\* handlers or in execute_wait_step.
ExecuteStep(r, ok, d) ==
    /\ Pending(r)
    /\ InTime(r)
    /\ LET type == exec[r].todo[exec[r].i + 1]
           done == ~NoAlarm(r) /\ ~RingsBefore(d)
           took == IF NoAlarm(r) THEN 0
                   ELSE IF RingsBefore(d) THEN StepTimeout ELSE d
       IN exec' = [exec EXCEPT
                     ![r].at = "checked", ![r].elapsed = @ + took,
                     ![r].passed = done /\ Passes(type, exec[r].response, ok),
                     ![r].response = @ \/ (type = "api_call" /\ done /\ ok)]
    /\ UNCHANGED <<flow, run, steps>>

\* The flow timeout is looked at before a step, which is then recorded as
\* failed without being executed.
FlowTimesOut(r) ==
    /\ Pending(r)
    /\ ~InTime(r)
    /\ exec' = [exec EXCEPT ![r].at = "checked", ![r].passed = FALSE]
    /\ UNCHANGED <<flow, run, steps>>

Recorded(r) == [order |-> exec[r].i, type |-> exec[r].todo[exec[r].i + 1],
                passed |-> exec[r].passed]

\* Faulty variant of RecordStep: a failed step does not end the loop.
RecordStepAndGoOn(r) ==
    /\ exec[r].at = "checked"
    /\ Exists(r)
    /\ steps' = [steps EXCEPT ![r] = @ \cup {Recorded(r)}]
    /\ exec' = [exec EXCEPT ![r].at = "looping", ![r].i = @ + 1]
    /\ UNCHANGED <<flow, run>>

\* Faulty variant of RecordStep: a failed step ends execute at once.
RecordStepAndReturn(r) ==
    /\ exec[r].at = "checked"
    /\ Exists(r)
    /\ steps' = [steps EXCEPT ![r] = @ \cup {Recorded(r)}]
    /\ exec' = [exec EXCEPT ![r].at = IF exec[r].passed THEN "looping" ELSE "reloading",
                            ![r].i = @ + 1]
    /\ UNCHANGED <<flow, run>>

\* create_step, context.update and the early exit.
RecordStep(r) ==
    /\ exec[r].at = "checked"
    /\ Exists(r)
    /\ steps' = [steps EXCEPT ![r] = @ \cup {Recorded(r)}]
    /\ exec' = [exec EXCEPT ![r].i = @ + 1,
                            ![r].at = IF exec[r].passed THEN "looping" ELSE "failing"]
    /\ UNCHANGED <<flow, run>>

Verdict(r) == IF exec[r].at = "failing" THEN "failed" ELSE "passed"

\* Faulty variant of CompleteRun: no return after complete_run(FAILED).
CompleteRunWithoutReturn(r) ==
    /\ exec[r].at = "failing" \/ (exec[r].at = "looping" /\ ~Pending(r))
    /\ run' = IF Exists(r)
              THEN [run EXCEPT ![r].status = Verdict(r), ![r].completed = TRUE]
              ELSE run
    /\ Goto(r, IF exec[r].at = "failing" THEN "looping" ELSE "reloading")
    /\ UNCHANGED <<flow, steps>>

\* complete_run is one UPDATE; on a deleted run it updates no row.
CompleteRun(r) ==
    /\ exec[r].at = "failing" \/ (exec[r].at = "looping" /\ ~Pending(r))
    /\ run' = IF Exists(r)
              THEN [run EXCEPT ![r].status = Verdict(r), ![r].completed = TRUE]
              ELSE run
    /\ Goto(r, "reloading")
    /\ UNCHANGED <<flow, steps>>

\* execute returns the row read back from the database.
ReturnRun(r) ==
    /\ exec[r].at = "reloading"
    /\ Exists(r)
    /\ exec' = [exec EXCEPT ![r].at = "returned", ![r].result = run[r].status]
    /\ UNCHANGED <<flow, run, steps>>

\* The calls that find their row gone: create_run (DoesNotExist), create_step
\* (foreign key) and the final read (DoesNotExist) raise out of execute.
RowIsGone(r) ==
    /\ \/ exec[r].at = "reading" /\ ~flow[exec[r].flow].stored
       \/ exec[r].at \in {"checked", "reloading"} /\ ~Exists(r)
    /\ Goto(r, "raised")
    /\ UNCHANGED <<flow, run, steps>>

Executing(r) == exec[r].at \notin {"idle", "returned", "raised"}

\* The process is killed, or a database call raises.
Crash(r) ==
    /\ Executing(r)
    /\ Goto(r, "raised")
    /\ UNCHANGED <<flow, run, steps>>

Step(r) ==
    \/ CreateRun(r)
    \/ \E ok \in BOOLEAN, d \in Durations : ExecuteStep(r, ok, d)
    \/ FlowTimesOut(r)
    \/ RecordStep(r)
    \/ CompleteRun(r)
    \/ ReturnRun(r)
    \/ RowIsGone(r)

-----------------------------------------------------------------------------
\* sync_flows_to_db at startup, sync_yaml_flows_to_db, the admin form:
\* update_or_create of one flow.
SyncFlow(f, d) ==
    /\ flow' = [flow EXCEPT ![f] = Stored(d)]
    /\ UNCHANGED <<run, steps, exec>>

\* clear_existing and the admin: the flows go, their runs and the steps of
\* these go with them (on_delete=CASCADE).
ClearFlows(F) ==
    /\ flow'  = [f \in Flows |-> IF f \in F THEN NoFlow ELSE flow[f]]
    /\ run'   = [r \in Runs |-> IF run[r].flow \in F THEN NoRun ELSE run[r]]
    /\ steps' = [r \in Runs |-> IF run[r].flow \in F THEN {} ELSE steps[r]]
    /\ UNCHANGED exec

Synchronisation ==
    \/ \E f \in Flows, d \in Definitions : SyncFlow(f, d)
    \/ \E F \in SUBSET Flows : ClearFlows(F)

Next ==
    \/ \E r \in Runs, f \in Flows, g \in BOOLEAN : LookUpFlow(r, f, g)
    \/ \E r \in Runs : Step(r)
    \/ \E r \in Runs : Crash(r)
    \/ Synchronisation

Spec == Init /\ [][Next]_vars

\* A process that runs an execution keeps running it: execute waits for
\* nothing but the step at hand, which takes one of the Durations.
FairSpec == Spec /\ \A r \in Runs : WF_vars(Step(r))

-----------------------------------------------------------------------------
ExecState == {"idle", "reading", "looping", "checked", "failing", "reloading",
              "returned", "raised"}

ExecType == [at : ExecState, flow : Flows \cup {"none"}, todo : Seq(StepType),
             i : Nat, passed : BOOLEAN, response : BOOLEAN, elapsed : Nat,
             result : RunStatus \cup {"none"}]

\* The types of the rows and of the executions.
TypeOK ==
    /\ flow \in [Flows -> {NoFlow} \cup {Stored(d) : d \in Definitions}]
    /\ run \in [Runs -> {NoRun} \cup [flow : Flows, status : RunStatus,
                                      given : BOOLEAN, completed : BOOLEAN]]
    /\ steps \in [Runs -> SUBSET StepRow]
    /\ exec \in [Runs -> ExecType]

\* A run is recorded as passed only if every step of the flow as it was read
\* passed, each with its row, and INV-F: it then has its completion time.
PassedRunsPassedEveryStep ==
    \A r \in Runs : run[r].status = "passed" =>
        /\ run[r].completed
        /\ {s.order : s \in steps[r]} = 0 .. Len(exec[r].todo) - 1
        /\ \A s \in steps[r] : s.passed

\* A run is recorded as failed only if the last step recorded is the one
\* that failed, and INV-F: it then has its completion time.
FailedRunsEndInFailure ==
    \A r \in Runs : run[r].status = "failed" =>
        /\ run[r].completed
        /\ \E last \in steps[r] :
              /\ ~last.passed
              /\ \A s \in steps[r] \ {last} : s.passed /\ s.order < last.order

\* INV-F and the verdict: what a run is recorded as is what its step rows say.
RunsEndAsTheirSteps == PassedRunsPassedEveryStep /\ FailedRunsEndInFailure

\* Whatever becomes of a run, also of one whose process died: its rows are
\* those of the first steps of the flow, in order, without a gap, each step
\* once, and nothing comes after a failed step.
RowsAreAPrefix ==
    \A r \in Runs : \A s \in steps[r] :
        /\ s.order < Len(exec[r].todo)
        /\ s.type = exec[r].todo[s.order + 1]
        /\ \A n \in 0 .. s.order - 1 : \E p \in steps[r] : p.order = n /\ p.passed
        /\ \A p \in steps[r] : p.order = s.order => p = s

\* Steps of a deleted run are deleted and stay so: an execution that goes on
\* after its flow was cleared writes no row.
NoStepsWithoutRun == \A r \in Runs : ~Exists(r) => steps[r] = {}

\* An assertion passes only on a response: one the caller gave, or that of an
\* api_call that passed earlier in the same run.
AssertionsFollowResponses ==
    \A r \in Runs : \A s \in steps[r] : s.type = "assertion" /\ s.passed =>
        \/ run[r].given
        \/ \E p \in steps[r] : p.type = "api_call" /\ p.passed /\ p.order < s.order

\* The step rows of a run follow the flow as it was read, and each has what
\* it needs.
RowsFollowTheFlow == RowsAreAPrefix /\ AssertionsFollowResponses

\* execute never returns a run that is still running.
ReturnedRunsAreJudged ==
    \A r \in Runs : exec[r].at = "returned" => exec[r].result \in {"passed", "failed"}

\* With the alarm on, the steps of a run take at most the flow timeout and
\* one step timeout together.
RunTimeBounded ==
    StepTimeout > 0 => \A r \in Runs : exec[r].elapsed <= FlowTimeout + StepTimeout

\* What a run and its steps say does not change once the run is completed,
\* unless its flow is deleted.
CompletedRunsAreFrozen ==
    [][\A r \in Runs : run[r].completed =>
         ~Exists(r)' \/ <<run[r], steps[r]>>' = <<run[r], steps[r]>>]_<<run, steps>>

\* A run that has begun is judged or deleted, unless its process dies.
BegunRunsAreJudged ==
    \A r \in Runs : run[r].status = "running" ~>
                        (run[r].status # "running" \/ exec[r].at = "raised")
=============================================================================

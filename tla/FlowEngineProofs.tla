--------------------------- MODULE FlowEngineProofs ---------------------------
(***************************************************************************)
(* Proofs about FlowEngine, FlowStatus and Scenarios: for any flows,       *)
(* definitions, executions, durations and timeouts; and for any fixtures   *)
(* and assertions of a scenario.                                           *)
(***************************************************************************)
EXTENDS FlowStatus, Scenarios, SequenceTheorems, FiniteSetTheorems, TLAPS

USE FlowsAssumption

AllPassed(r) == \A s \in steps[r] : s.passed

LastFailed(r) ==
    /\ exec[r].i > 0
    /\ \A s \in steps[r] : s.order + 1 = exec[r].i => ~s.passed

\* The rows of a run are those of the first i steps, and all but the last of
\* them passed.
Prefix(r) ==
    /\ exec[r].i <= Len(exec[r].todo)
    /\ \A n \in Nat : n < exec[r].i => \E s \in steps[r] : s.order = n
    /\ \A s \in steps[r] : s.order < exec[r].i /\ s.type = exec[r].todo[s.order + 1]
    /\ \A s, p \in steps[r] : s.order = p.order => s = p
    /\ \A s \in steps[r] : s.order + 1 < exec[r].i => s.passed

\* Where an execution stands, against what the run row says.
Verdicts(r) ==
    /\ exec[r].at = "checked" => exec[r].i < Len(exec[r].todo)
    /\ exec[r].at \in {"looping", "checked", "failing"} => run[r].status = "running"
    /\ exec[r].at = "reloading" => run[r].status # "running"
    /\ exec[r].at \in {"looping", "checked"} => AllPassed(r)
    /\ exec[r].at = "failing" => LastFailed(r)
    /\ run[r].status = "running" => ~run[r].completed
    /\ run[r].status = "passed" =>
         run[r].completed /\ AllPassed(r) /\ exec[r].i = Len(exec[r].todo)
    /\ run[r].status = "failed" => run[r].completed /\ LastFailed(r)

HasResponse(r) ==
    run[r].given \/ \E p \in steps[r] : p.type = "api_call" /\ p.passed

\* A response in the context came from the caller or from an api_call.
Responses(r) ==
    /\ exec[r].at \in {"looping", "failing"} /\ exec[r].response => HasResponse(r)
    /\ exec[r].at = "checked" /\ exec[r].response =>
         HasResponse(r) \/ (exec[r].passed /\ exec[r].todo[exec[r].i + 1] = "api_call")
    /\ exec[r].at = "checked" /\ exec[r].passed
         /\ exec[r].todo[exec[r].i + 1] = "assertion" => HasResponse(r)
    /\ \A s \in steps[r] : s.type = "assertion" /\ s.passed =>
         \/ run[r].given
         \/ \E p \in steps[r] : p.type = "api_call" /\ p.passed /\ p.order < s.order

RunInv(r) ==
    /\ exec[r].at \in {"idle", "reading"} => ~Exists(r)
    /\ ~Exists(r) => steps[r] = {}
    /\ Exists(r) => Prefix(r) /\ Verdicts(r) /\ Responses(r)
    /\ exec[r].at \in {"idle", "reading"} => exec[r].i = 0
    /\ exec[r].at = "reading" => exec[r].flow \in Flows
    /\ exec[r].at = "returned" => exec[r].result \in {"passed", "failed"}
    /\ StepTimeout > 0 => exec[r].elapsed <= FlowTimeout + StepTimeout

\* The inductive invariant.
IInv == TypeOK /\ \A r \in Runs : RunInv(r)

-----------------------------------------------------------------------------
(* Initially nothing is stored and every worker is idle, so the invariant holds. *)
LEMMA InitIInv == Init => IInv
<1> SUFFICES ASSUME Init PROVE IInv
  OBVIOUS
<1>1. Idle \in ExecType
  BY DEF Idle, ExecType, ExecState
<1>2. TypeOK
  BY <1>1 DEF Init, TypeOK, StepRow
<1>3. ASSUME NEW r \in Runs PROVE RunInv(r)
  BY DEF Init, RunInv, Exists, Idle
<1>4. QED
  BY <1>2, <1>3 DEF IInv

\* A run whose own rows and execution a step leaves alone keeps RunInv.
LEMMA Untouched ==
    ASSUME NEW r \in Runs, RunInv(r), run'[r] = run[r], steps'[r] = steps[r],
           exec'[r] = exec[r]
    PROVE  RunInv(r)'
BY DEF RunInv, Exists, Prefix, Verdicts, Responses, HasResponse, AllPassed, LastFailed

\* What is known of one execution and its rows.
LEMMA Types ==
    ASSUME TypeOK, NEW r \in Runs
    PROVE  /\ exec[r] \in ExecType
           /\ run[r] = NoRun \/ (run[r].status \in RunStatus /\ run[r].given \in BOOLEAN
                                  /\ run[r].completed \in BOOLEAN)
           /\ \A s \in steps[r] : s.order \in Nat /\ s.type \in StepType
                                    /\ s.passed \in BOOLEAN
           /\ Len(exec[r].todo) \in Nat
BY DEF TypeOK, ExecType, StepRow

\* A step of execution r alone needs a proof for r alone.
LEMMA OneRun ==
    ASSUME IInv, NEW r \in Runs, TypeOK', RunInv(r)',
           \A q \in Runs \ {r} : /\ run'[q] = run[q]
                                 /\ steps'[q] = steps[q]
                                 /\ exec'[q] = exec[q]
    PROVE  IInv'
<1>1. ASSUME NEW q \in Runs PROVE RunInv(q)'
  BY <1>1, Untouched DEF IInv
<1>2. QED
  BY <1>1 DEF IInv

\* A step that only moves one execution, to a well-typed state, keeps the types.
LEMMA MovedTypes ==
    ASSUME TypeOK, NEW r \in Runs, NEW e \in ExecType,
           exec' = [exec EXCEPT ![r] = e], UNCHANGED <<flow, run, steps>>
    PROVE  TypeOK'
BY DEF TypeOK

\* Moving an execution on changes nothing but where it stands.
LEMMA MovedOn ==
    ASSUME TypeOK, NEW r \in Runs, NEW a \in ExecState
    PROVE  [exec[r] EXCEPT !.at = a] \in ExecType
BY Types DEF ExecType

\* A step that only moves an execution to its end.
LEMMA Stops ==
    ASSUME IInv, NEW r \in Runs, NEW a \in {"raised"}, Goto(r, a),
           UNCHANGED <<flow, run, steps>>
    PROVE  IInv'
<1>a. exec' = [exec EXCEPT ![r] = [exec[r] EXCEPT !.at = a]]
  BY DEF Goto, IInv, TypeOK
<1>1. TypeOK'
  <2>1. [exec[r] EXCEPT !.at = a] \in ExecType
    BY MovedOn DEF IInv, ExecState
  <2>2. QED
    BY <1>a, <2>1, MovedTypes DEF IInv
<1>2. /\ exec'[r].at = "raised" /\ exec'[r].i = exec[r].i
      /\ exec'[r].todo = exec[r].todo /\ exec'[r].elapsed = exec[r].elapsed
  BY DEF IInv, TypeOK, Goto
<1>3. RunInv(r)'
  BY <1>2 DEF IInv, RunInv, Exists, Prefix, Verdicts, Responses, HasResponse,
              AllPassed, LastFailed
<1>4. QED
  BY <1>1, <1>3, OneRun DEF Goto, IInv, TypeOK

(* _lookup_flow only remembers the stored definition: no run is touched. *)
LEMMA LookUpFlowStep ==
    ASSUME IInv, NEW r \in Runs, NEW f \in Flows, NEW g \in BOOLEAN, LookUpFlow(r, f, g)
    PROVE  IInv'
<1>1. StepsOf(flow[f].def) \in Seq(StepType)
  BY DEF IInv, TypeOK, LookUpFlow, Stored, NoFlow
<1>2. exec' = [exec EXCEPT ![r] = [exec[r] EXCEPT !.at = "reading", !.flow = f,
                                     !.todo = StepsOf(flow[f].def), !.response = g]]
  BY DEF LookUpFlow, IInv, TypeOK
<1>3. TypeOK'
  <2>1. [exec[r] EXCEPT !.at = "reading", !.flow = f,
                        !.todo = StepsOf(flow[f].def), !.response = g] \in ExecType
    BY <1>1, Types DEF ExecType, ExecState, IInv
  <2>2. QED
    BY <1>2, <2>1 DEF IInv, TypeOK, LookUpFlow
<1>4. /\ exec'[r].at = "reading" /\ exec'[r].flow = f
      /\ exec'[r].i = exec[r].i /\ exec'[r].elapsed = exec[r].elapsed
  BY <1>2 DEF IInv, TypeOK
<1>5. RunInv(r)'
  BY <1>4 DEF IInv, RunInv, Exists, LookUpFlow
<1>6. QED
  BY <1>2, <1>3, <1>5, OneRun DEF LookUpFlow, IInv, TypeOK

(* create_run adds a RUNNING row without steps, for the flow that was read. *)
LEMMA CreateRunStep ==
    ASSUME IInv, NEW r \in Runs, CreateRun(r)
    PROVE  IInv'
<1>1. exec[r].flow \in Flows
  BY DEF IInv, RunInv, CreateRun
<1>2. TypeOK'
  <2>1. [exec[r] EXCEPT !.at = "looping"] \in ExecType
    BY MovedOn DEF IInv, ExecState
  <2>2. exec' \in [Runs -> ExecType]
    BY <2>1 DEF IInv, TypeOK, CreateRun, Goto
  <2>3. exec[r].response \in BOOLEAN
    BY Types DEF IInv, ExecType
  <2>4. RunRow(exec[r].flow, "running", exec[r].response)
          \in [flow : Flows, status : RunStatus, given : BOOLEAN, completed : BOOLEAN]
    BY <1>1, <2>3 DEF RunRow, RunStatus
  <2>5. run' \in [Runs -> {NoRun} \cup [flow : Flows, status : RunStatus,
                                        given : BOOLEAN, completed : BOOLEAN]]
    BY <2>4 DEF IInv, TypeOK, CreateRun
  <2>6. QED
    BY <2>2, <2>5 DEF IInv, TypeOK, CreateRun
<1>3. /\ exec'[r].at = "looping" /\ exec'[r].i = 0 /\ exec'[r].todo = exec[r].todo
      /\ exec'[r].response = exec[r].response /\ exec'[r].elapsed = exec[r].elapsed
  BY DEF IInv, RunInv, TypeOK, CreateRun, Goto
<1>4. /\ run'[r].status = "running" /\ ~run'[r].completed
      /\ run'[r].given = exec[r].response
  BY DEF IInv, TypeOK, CreateRun, RunRow
<1>5. steps'[r] = {}
  BY DEF IInv, RunInv, CreateRun
<1>6. Prefix(r)' /\ Verdicts(r)' /\ Responses(r)'
  BY <1>3, <1>4, <1>5, Types, LenProperties
     DEF IInv, Prefix, Verdicts, Responses, HasResponse, AllPassed, LastFailed, ExecType
<1>7. RunInv(r)'
  BY <1>3, <1>4, <1>5, <1>6 DEF IInv, RunInv, Exists, NoRun, RunRow
<1>8. QED
  BY <1>2, <1>7, OneRun DEF CreateRun, Goto, IInv, TypeOK

(* execute_step spends time and leaves a verdict on one step; no row changes. *)
LEMMA ExecuteStepStep ==
    ASSUME IInv, NEW r \in Runs, NEW ok \in BOOLEAN, NEW d \in Durations,
           ExecuteStep(r, ok, d)
    PROVE  IInv'
<1> DEFINE type == exec[r].todo[exec[r].i + 1]
           done == ~NoAlarm(r) /\ ~RingsBefore(d)
           took == IF NoAlarm(r) THEN 0
                   ELSE IF RingsBefore(d) THEN StepTimeout ELSE d
           new  == [exec[r] EXCEPT !.at = "checked", !.elapsed = exec[r].elapsed + took,
                      !.passed = done /\ Passes(type, exec[r].response, ok),
                      !.response = exec[r].response \/ (type = "api_call" /\ done /\ ok)]
<1>1. exec' = [exec EXCEPT ![r] = new] /\ UNCHANGED <<flow, run, steps>>
  BY DEF ExecuteStep, IInv, TypeOK
<1>2. took \in Nat /\ (StepTimeout > 0 => took <= StepTimeout)
  BY DEF NoAlarm, RingsBefore
<1>3. Passes(type, exec[r].response, ok) \in BOOLEAN
  BY Types DEF Passes, IInv, ExecType
<1>4. /\ exec'[r].at = "checked" /\ exec'[r].i = exec[r].i /\ exec'[r].todo = exec[r].todo
      /\ exec'[r].elapsed = exec[r].elapsed + took
      /\ exec'[r].passed = (done /\ Passes(type, exec[r].response, ok))
      /\ exec'[r].response = (exec[r].response \/ (type = "api_call" /\ done /\ ok))
  BY <1>1 DEF IInv, TypeOK
<1> HIDE DEF took, done
<1>5. TypeOK'
  <2> DEFINE passed == done /\ Passes(type, exec[r].response, ok)
             response == exec[r].response \/ (type = "api_call" /\ done /\ ok)
  <2>a. passed \in BOOLEAN /\ response \in BOOLEAN
    BY Zenon
  <2>b. exec[r].elapsed + took \in Nat
    BY <1>2, Types DEF ExecType, IInv
  <2> HIDE DEF passed, response
  <2>1. [exec[r] EXCEPT !.at = "checked", !.elapsed = exec[r].elapsed + took,
                        !.passed = passed, !.response = response] \in ExecType
    BY <2>a, <2>b, Types DEF ExecType, ExecState, IInv
  <2>2. new \in ExecType
    BY <2>1 DEF passed, response
  <2>3. QED
    BY <1>1, <2>2, MovedTypes DEF IInv
<1>6. Exists(r) => Responses(r)'
  BY <1>1, <1>4, Types
     DEF IInv, RunInv, Responses, HasResponse, Passes, ExecuteStep, Pending, ExecType
<1>7. Exists(r) => Prefix(r)' /\ Verdicts(r)'
  <2>1. Exists(r) => Prefix(r)'
    BY <1>1, <1>4 DEF IInv, RunInv, Prefix
  <2>2. Exists(r) => Verdicts(r)'
    BY <1>1, <1>4 DEF IInv, RunInv, Verdicts, AllPassed, LastFailed,
                      ExecuteStep, Pending
  <2>3. QED
    BY <2>1, <2>2
<1>8. StepTimeout > 0 => exec'[r].elapsed <= FlowTimeout + StepTimeout
  BY <1>2, <1>4, Types DEF ExecuteStep, InTime, ExecType, IInv
<1>9. RunInv(r)'
  BY <1>1, <1>4, <1>6, <1>7, <1>8 DEF IInv, RunInv, Exists, ExecuteStep, Pending
<1>10. QED
  BY <1>1, <1>5, <1>9, OneRun DEF IInv, TypeOK

(* The flow timeout records the pending step as failed, the last of its run. *)
LEMMA FlowTimesOutStep ==
    ASSUME IInv, NEW r \in Runs, FlowTimesOut(r)
    PROVE  IInv'
<1>1. /\ exec' = [exec EXCEPT ![r] = [exec[r] EXCEPT !.at = "checked", !.passed = FALSE]]
      /\ UNCHANGED <<flow, run, steps>>
  BY DEF FlowTimesOut, IInv, TypeOK
<1>2. TypeOK'
  <2>1. [exec[r] EXCEPT !.at = "checked", !.passed = FALSE] \in ExecType
    BY Types DEF IInv, ExecType, ExecState
  <2>2. QED
    BY <1>1, <2>1, MovedTypes DEF IInv
<1>3. /\ exec'[r].at = "checked" /\ exec'[r].i = exec[r].i /\ exec'[r].todo = exec[r].todo
      /\ exec'[r].elapsed = exec[r].elapsed /\ ~exec'[r].passed
      /\ exec'[r].response = exec[r].response
  BY <1>1 DEF IInv, TypeOK
<1>4. Exists(r) => Prefix(r)'
  BY <1>1, <1>3 DEF IInv, RunInv, Prefix
<1>5. Exists(r) => Verdicts(r)'
  BY <1>1, <1>3 DEF IInv, RunInv, Verdicts, AllPassed, LastFailed, FlowTimesOut, Pending
<1>6. Exists(r) => Responses(r)'
  BY <1>1, <1>3 DEF IInv, RunInv, Responses, HasResponse, FlowTimesOut, Pending
<1>7. RunInv(r)'
  BY <1>1, <1>3, <1>4, <1>5, <1>6 DEF IInv, RunInv, Exists, FlowTimesOut, Pending
<1>8. QED
  BY <1>1, <1>2, <1>7, OneRun DEF IInv, TypeOK

\* The heart of the proof: the row of step i extends the prefix, and only an
\* execution that goes on has all rows passed.
LEMMA RecordStepStep ==
    ASSUME IInv, NEW r \in Runs, RecordStep(r)
    PROVE  IInv'
<1> DEFINE row == [order |-> exec[r].i, type |-> exec[r].todo[exec[r].i + 1],
                   passed |-> exec[r].passed]
           at  == IF exec[r].passed THEN "looping" ELSE "failing"
<1>1. /\ exec' = [exec EXCEPT ![r] = [exec[r] EXCEPT !.i = exec[r].i + 1, !.at = at]]
      /\ steps' = [steps EXCEPT ![r] = steps[r] \cup {row}]
      /\ UNCHANGED <<flow, run>>
  BY DEF RecordStep, IInv, TypeOK, Recorded
<1>2. exec[r].i < Len(exec[r].todo) /\ Prefix(r) /\ Verdicts(r) /\ Responses(r) /\ Exists(r)
  BY DEF IInv, RunInv, Verdicts, RecordStep
<1>3. row \in StepRow
  BY <1>2, Types, ElementOfSeq DEF IInv, ExecType, StepRow
<1>4. exec[r].i \in Nat /\ Len(exec[r].todo) \in Nat /\ \A s \in steps[r] : s.order \in Nat
  BY Types DEF IInv, ExecType
<1>5. TypeOK'
  <2>a. at \in ExecState /\ exec[r].i + 1 \in Nat /\ exec[r] \in ExecType
    BY <1>4, Types DEF IInv, ExecState
  <2> HIDE DEF at
  <2>1. [exec[r] EXCEPT !.i = exec[r].i + 1, !.at = at] \in ExecType
    BY <2>a DEF ExecType
  <2>2. steps' \in [Runs -> SUBSET StepRow]
    BY <1>1, <1>3 DEF IInv, TypeOK
  <2>3. exec' \in [Runs -> ExecType]
    BY <1>1, <2>1 DEF IInv, TypeOK
  <2>4. QED
    BY <1>1, <2>2, <2>3 DEF IInv, TypeOK
<1>6. /\ exec'[r].at = at /\ exec'[r].i = exec[r].i + 1 /\ exec'[r].todo = exec[r].todo
      /\ exec'[r].elapsed = exec[r].elapsed /\ exec'[r].response = exec[r].response
      /\ steps'[r] = steps[r] \cup {row} /\ run'[r] = run[r]
  BY <1>1 DEF IInv, TypeOK
<1>7. row.order = exec[r].i /\ row.type = exec[r].todo[exec[r].i + 1] /\ row.passed = exec[r].passed
  OBVIOUS
<1>8. exec[r].at = "checked" /\ AllPassed(r)
  BY <1>2 DEF RecordStep, Verdicts
<1> HIDE DEF row
<1>9. Prefix(r)'
  BY <1>2, <1>6, <1>7, <1>4, <1>8 DEF Prefix, AllPassed
<1>10. Verdicts(r)'
  BY <1>2, <1>6, <1>7, <1>4, <1>8 DEF Verdicts, Prefix, AllPassed, LastFailed
<1>11. Responses(r)'
  BY <1>2, <1>6, <1>7, <1>4, <1>8 DEF Responses, HasResponse, Prefix
<1>12. RunInv(r)'
  BY <1>2, <1>6, <1>9, <1>10, <1>11 DEF RunInv, IInv, Exists
<1>13. QED
  BY <1>1, <1>5, <1>12, OneRun DEF IInv, TypeOK

(* complete_run writes the verdict of the recorded steps, which is the moment that
   the claims about PASSED and FAILED runs begin to bind. *)
LEMMA CompleteRunStep ==
    ASSUME IInv, NEW r \in Runs, CompleteRun(r)
    PROVE  IInv'
<1>1. /\ exec' = [exec EXCEPT ![r] = [exec[r] EXCEPT !.at = "reloading"]]
      /\ UNCHANGED <<flow, steps>>
  BY DEF CompleteRun, Goto, IInv, TypeOK
<1>2. /\ exec'[r].at = "reloading" /\ exec'[r].i = exec[r].i /\ exec'[r].todo = exec[r].todo
      /\ exec'[r].elapsed = exec[r].elapsed /\ exec'[r].response = exec[r].response
  BY <1>1 DEF IInv, TypeOK
<1>3. Verdict(r) \in {"passed", "failed"}
  BY DEF Verdict
<1>4. CASE Exists(r)
  <2>1. run' = [run EXCEPT ![r] = [run[r] EXCEPT !.status = Verdict(r), !.completed = TRUE]]
    BY <1>4 DEF CompleteRun, IInv, TypeOK
  <2>2. run[r] \in [flow : Flows, status : RunStatus, given : BOOLEAN, completed : BOOLEAN]
    BY <1>4 DEF IInv, TypeOK, Exists
  <2>3. /\ run'[r].status = Verdict(r) /\ run'[r].completed
        /\ run'[r].given = run[r].given
    BY <2>1, <2>2 DEF IInv, TypeOK
  <2>4. TypeOK'
    <3>1. run' \in [Runs -> {NoRun} \cup [flow : Flows, status : RunStatus,
                                          given : BOOLEAN, completed : BOOLEAN]]
      <4>1. [run[r] EXCEPT !.status = Verdict(r), !.completed = TRUE]
              \in [flow : Flows, status : RunStatus, given : BOOLEAN, completed : BOOLEAN]
        BY <1>3, <2>2 DEF RunStatus
      <4>2. QED
        BY <2>1, <4>1 DEF IInv, TypeOK
    <3>2. exec' \in [Runs -> ExecType]
      <4>1. [exec[r] EXCEPT !.at = "reloading"] \in ExecType
        BY MovedOn DEF IInv, ExecState
      <4>2. QED
        BY <1>1, <4>1 DEF IInv, TypeOK
    <3>3. QED
      BY <1>1, <3>1, <3>2 DEF IInv, TypeOK
  <2>5. Prefix(r) /\ Verdicts(r) /\ Responses(r)
    BY <1>4 DEF IInv, RunInv
  <2>6. Exists(r)'
    BY <1>3, <2>3 DEF Exists, NoRun, RunRow
  <2>7. Prefix(r)' /\ Responses(r)'
    BY <1>1, <1>2, <2>3, <2>5 DEF Prefix, Responses, HasResponse
  <2>8. Verdicts(r)'
    <3>1. CASE exec[r].at = "failing"
      <4>1. Verdict(r) = "failed" /\ LastFailed(r)
        BY <2>5, <3>1 DEF Verdict, Verdicts
      <4>2. QED
        BY <1>1, <1>2, <2>3, <4>1 DEF Verdicts, LastFailed
    <3>2. CASE exec[r].at = "looping" /\ ~Pending(r)
      <4>1. Verdict(r) = "passed" /\ AllPassed(r)
        BY <2>5, <3>2 DEF Verdict, Verdicts
      <4>2. exec[r].i = Len(exec[r].todo)
        BY <2>5, <3>2, Types DEF Prefix, Pending, IInv, ExecType
      <4>3. QED
        BY <1>1, <1>2, <2>3, <4>1, <4>2 DEF Verdicts, AllPassed
    <3>3. QED
      BY <3>1, <3>2 DEF CompleteRun
  <2>9. RunInv(r)'
    BY <1>2, <2>6, <2>7, <2>8 DEF RunInv, IInv
  <2>10. QED
    BY <1>1, <2>1, <2>4, <2>9, OneRun DEF IInv, TypeOK
<1>5. CASE ~Exists(r)
  <2>1. run' = run
    BY <1>5 DEF CompleteRun
  <2>2. TypeOK'
    <3>1. [exec[r] EXCEPT !.at = "reloading"] \in ExecType
      BY MovedOn DEF IInv, ExecState
    <3>2. QED
      BY <1>1, <2>1, <3>1, MovedTypes DEF IInv
  <2>3. RunInv(r)'
    BY <1>1, <1>2, <1>5, <2>1 DEF IInv, RunInv, Exists
  <2>4. QED
    BY <1>1, <2>1, <2>2, <2>3, OneRun DEF IInv, TypeOK
<1>6. QED
  BY <1>4, <1>5

(* Returning frees the worker; the row it returns is judged already. *)
LEMMA ReturnRunStep ==
    ASSUME IInv, NEW r \in Runs, ReturnRun(r)
    PROVE  IInv'
<1>1. /\ exec' = [exec EXCEPT ![r] = [exec[r] EXCEPT !.at = "returned", !.result = run[r].status]]
      /\ UNCHANGED <<flow, run, steps>>
  BY DEF ReturnRun, IInv, TypeOK
<1>2. Prefix(r) /\ Verdicts(r) /\ Responses(r)
  BY DEF IInv, RunInv, ReturnRun
<1>3. run[r].status \in {"passed", "failed"}
  BY <1>2, Types DEF Verdicts, ReturnRun, Exists, IInv, RunStatus
<1>4. TypeOK'
  <2>1. [exec[r] EXCEPT !.at = "returned", !.result = run[r].status] \in ExecType
    BY <1>3, Types DEF IInv, ExecType, ExecState, RunStatus
  <2>2. QED
    BY <1>1, <2>1, MovedTypes DEF IInv
<1>5. /\ exec'[r].at = "returned" /\ exec'[r].i = exec[r].i /\ exec'[r].todo = exec[r].todo
      /\ exec'[r].elapsed = exec[r].elapsed /\ exec'[r].result = run[r].status
  BY <1>1 DEF IInv, TypeOK
<1>6. Prefix(r)' /\ Verdicts(r)' /\ Responses(r)'
  BY <1>1, <1>2, <1>5 DEF Prefix, Verdicts, Responses, HasResponse, AllPassed, LastFailed
<1>7. RunInv(r)'
  BY <1>1, <1>3, <1>5, <1>6 DEF IInv, RunInv, Exists, ReturnRun
<1>8. QED
  BY <1>1, <1>4, <1>7, OneRun DEF IInv, TypeOK

(* Updating a definition touches no run, and clearing flows deletes each run
   together with its steps. *)
LEMMA SynchronisationStep ==
    ASSUME IInv, Synchronisation
    PROVE  IInv'
<1>1. ASSUME NEW f \in Flows, NEW d \in Definitions, SyncFlow(f, d)
      PROVE  IInv'
  <2>1. TypeOK'
    BY <1>1 DEF IInv, TypeOK, SyncFlow
  <2>2. ASSUME NEW r \in Runs PROVE RunInv(r)'
    BY <1>1, Untouched DEF IInv, SyncFlow
  <2>3. QED
    BY <2>1, <2>2 DEF IInv
<1>2. ASSUME NEW F \in SUBSET Flows, ClearFlows(F)
      PROVE  IInv'
  <2>1. TypeOK'
    BY <1>2 DEF IInv, TypeOK, ClearFlows
  <2>2. ASSUME NEW r \in Runs PROVE RunInv(r)'
    <3>1. CASE run[r].flow \in F
      <4>1. run'[r] = NoRun /\ steps'[r] = {} /\ exec'[r] = exec[r]
        BY <1>2, <3>1 DEF ClearFlows
      <4>2. QED
        BY <4>1 DEF IInv, RunInv, Exists
    <3>2. CASE run[r].flow \notin F
      BY <1>2, <3>2, Untouched DEF IInv, ClearFlows
    <3>3. QED
      BY <3>1, <3>2
  <2>3. QED
    BY <2>1, <2>2 DEF IInv
<1>3. QED
  BY <1>1, <1>2 DEF Synchronisation

-----------------------------------------------------------------------------
(* Every step keeps the invariant: one lemma for each action. *)
LEMMA NextIInv ==
    ASSUME IInv, [Next]_vars
    PROVE  IInv'
<1>1. CASE UNCHANGED vars
  <2>1. TypeOK'
    BY <1>1 DEF vars, IInv, TypeOK
  <2>2. ASSUME NEW r \in Runs PROVE RunInv(r)'
    BY <1>1, Untouched DEF vars, IInv
  <2>3. QED
    BY <2>1, <2>2 DEF IInv
<1>2. ASSUME NEW r \in Runs, Step(r)
      PROVE  IInv'
  BY <1>2, CreateRunStep, ExecuteStepStep, FlowTimesOutStep, RecordStepStep,
     CompleteRunStep, ReturnRunStep, Stops DEF Step, RowIsGone
<1>3. ASSUME NEW r \in Runs, Crash(r)
      PROVE  IInv'
  BY <1>3, Stops DEF Crash
<1>4. QED
  BY <1>1, <1>2, <1>3, LookUpFlowStep, SynchronisationStep DEF Next

\* The inductive invariant holds in every reachable state.
THEOREM Invariance == Spec => []IInv
BY InitIInv, NextIInv, PTL DEF Spec

\* The rows and the executions keep their types.
THEOREM TypeCorrect == Spec => []TypeOK
<1>1. IInv => TypeOK
  BY DEF IInv
<1>2. QED
  BY <1>1, Invariance, PTL

\* A run is recorded as passed only if every step it read passed.
THEOREM PassedIsEarned == Spec => []PassedRunsPassedEveryStep
<1>1. IInv => PassedRunsPassedEveryStep
  <2> SUFFICES ASSUME IInv, NEW r \in Runs, run[r].status = "passed"
               PROVE  /\ run[r].completed
                      /\ {s.order : s \in steps[r]} = 0 .. Len(exec[r].todo) - 1
                      /\ \A s \in steps[r] : s.passed
    BY DEF PassedRunsPassedEveryStep
  <2>1. Prefix(r) /\ Verdicts(r)
    BY DEF IInv, RunInv, Exists, NoRun, RunRow
  <2>2. QED
    BY <2>1, Types DEF Prefix, Verdicts, AllPassed, IInv, ExecType
<1>2. QED
  BY <1>1, Invariance, PTL

\* A run recorded as failed ends in the step that failed.
THEOREM FailureIsLast == Spec => []FailedRunsEndInFailure
<1>1. IInv => FailedRunsEndInFailure
  <2> SUFFICES ASSUME IInv, NEW r \in Runs, run[r].status = "failed"
               PROVE  /\ run[r].completed
                      /\ \E last \in steps[r] :
                            /\ ~last.passed
                            /\ \A s \in steps[r] \ {last} :
                                  s.passed /\ s.order < last.order
    BY DEF FailedRunsEndInFailure
  <2>1. Prefix(r) /\ Verdicts(r)
    BY DEF IInv, RunInv, Exists, NoRun, RunRow
  <2>2. run[r].completed /\ LastFailed(r) /\ exec[r].i \in Nat
    BY <2>1, Types DEF Verdicts, IInv, ExecType
  <2>3. PICK last \in steps[r] : last.order = exec[r].i - 1
    BY <2>1, <2>2 DEF Prefix, LastFailed
  <2>4. ~last.passed
    BY <2>2, <2>3 DEF LastFailed
  <2>5. ASSUME NEW s \in steps[r] \ {last} PROVE s.passed /\ s.order < last.order
    BY <2>1, <2>2, <2>3, Types DEF Prefix, IInv
  <2>6. QED
    BY <2>2, <2>4, <2>5
<1>2. QED
  BY <1>1, Invariance, PTL

\* The rows of a run are a prefix of its flow, whatever became of the run.
THEOREM PrefixRecorded == Spec => []RowsAreAPrefix
<1>1. IInv => RowsAreAPrefix
  <2> SUFFICES ASSUME IInv, NEW r \in Runs, NEW s \in steps[r]
               PROVE  /\ s.order < Len(exec[r].todo)
                      /\ s.type = exec[r].todo[s.order + 1]
                      /\ \A n \in 0 .. s.order - 1 :
                            \E p \in steps[r] : p.order = n /\ p.passed
                      /\ \A p \in steps[r] : p.order = s.order => p = s
    BY DEF RowsAreAPrefix
  <2>1. Prefix(r)
    BY DEF IInv, RunInv
  <2>2. exec[r].i \in Nat /\ Len(exec[r].todo) \in Nat /\ \A p \in steps[r] : p.order \in Nat
    BY Types DEF IInv, ExecType
  <2>3. ASSUME NEW n \in 0 .. s.order - 1
        PROVE  \E p \in steps[r] : p.order = n /\ p.passed
    <3>1. n \in Nat /\ n < exec[r].i /\ n + 1 < exec[r].i
      BY <2>1, <2>2 DEF Prefix
    <3>2. QED
      BY <3>1, <2>1 DEF Prefix
  <2>4. QED
    BY <2>1, <2>2, <2>3 DEF Prefix
<1>2. QED
  BY <1>1, Invariance, PTL

\* A run is recorded as passed or failed only as its step rows say.
THEOREM VerdictIsEarned == Spec => []RunsEndAsTheirSteps
  BY PassedIsEarned, FailureIsLast, PTL DEF RunsEndAsTheirSteps

\* No step row outlives its run.
THEOREM CascadeHolds == Spec => []NoStepsWithoutRun
<1>1. IInv => NoStepsWithoutRun
  BY DEF IInv, RunInv, NoStepsWithoutRun
<1>2. QED
  BY <1>1, Invariance, PTL

\* An assertion passes only on a response of its own run.
THEOREM AssertionsHaveResponses == Spec => []AssertionsFollowResponses
<1>1. IInv => AssertionsFollowResponses
  BY DEF IInv, RunInv, Responses, AssertionsFollowResponses
<1>2. QED
  BY <1>1, Invariance, PTL

\* The step rows are the executed prefix of the flow, each with what it needs.
THEOREM RowsAreThoseOfTheFlow == Spec => []RowsFollowTheFlow
  BY PrefixRecorded, AssertionsHaveResponses, PTL DEF RowsFollowTheFlow

\* execute returns passed or failed, never running.
THEOREM ReturnsVerdict == Spec => []ReturnedRunsAreJudged
<1>1. IInv => ReturnedRunsAreJudged
  BY DEF IInv, RunInv, ReturnedRunsAreJudged
<1>2. QED
  BY <1>1, Invariance, PTL

\* The steps of a run take at most the flow timeout and one step timeout.
THEOREM TimeIsBounded == Spec => []RunTimeBounded
<1>1. IInv => RunTimeBounded
  BY DEF IInv, RunInv, RunTimeBounded
<1>2. QED
  BY <1>1, Invariance, PTL

\* A completed run changes only by being deleted.
THEOREM CompletedIsFrozen == Spec => CompletedRunsAreFrozen
<1> DEFINE Frozen == \A r \in Runs : run[r].completed =>
                        ~Exists(r)' \/ <<run[r], steps[r]>>' = <<run[r], steps[r]>>
<1>1. ASSUME IInv, Next PROVE Frozen
  <2> SUFFICES ASSUME NEW r \in Runs, run[r].completed
               PROVE  ~Exists(r)' \/ <<run[r], steps[r]>>' = <<run[r], steps[r]>>
    OBVIOUS
  <2>1. exec[r].at \notin {"idle", "reading", "looping", "checked", "failing"} /\ Exists(r)
    BY <1>1 DEF IInv, RunInv, Verdicts, Exists, NoRun, RunRow
  <2>2. ASSUME NEW q \in Runs, Step(q) \/ Crash(q)
        PROVE  <<run[r], steps[r]>>' = <<run[r], steps[r]>>
    BY <1>1, <2>1, <2>2 DEF IInv, TypeOK, Step, Crash, CreateRun, ExecuteStep, FlowTimesOut,
       RecordStep, CompleteRun, ReturnRun, RowIsGone, Pending
  <2>3. CASE Synchronisation
    BY <2>3 DEF Synchronisation, SyncFlow, ClearFlows, Exists
  <2>4. CASE \E q \in Runs, f \in Flows, g \in BOOLEAN : LookUpFlow(q, f, g)
    BY <2>4 DEF LookUpFlow
  <2>5. QED
    BY <1>1, <2>2, <2>3, <2>4 DEF Next
<1>2. IInv /\ [Next]_vars => [Frozen]_<<run, steps>>
  BY <1>1 DEF vars
<1>3. QED
  BY <1>2, Invariance, PTL DEF Spec, CompletedRunsAreFrozen

-----------------------------------------------------------------------------
(***************************************************************************)
(* What is shown of the runs.  An execution that has returned stays so,    *)
(* with its run as it was judged, or none: so what was cached of it when   *)
(* it returned is still what its run and its steps say.                    *)
(***************************************************************************)
USE StatusAssumption

HealthIsSound ==
    /\ health.status = "healthy" => health.failed = 0
    /\ health.status = "degraded" => health.passed > 0
    /\ health.run # "none" =>
         /\ health.run \in Runs /\ exec[health.run].at = "returned"
         /\ Exists(health.run) =>
              /\ health.status = OverallStatus(run[health.run].status = "passed",
                                               PassedSteps(health.run))
              /\ health.passed = PassedSteps(health.run)
              /\ health.failed = FailedSteps(health.run)

StatusInv ==
    /\ IInv
    /\ \A r \in Runs : IsFiniteSet(steps[r])
    /\ \A r \in Runs : exec[r].at = "returned" /\ Exists(r) => exec[r].result = run[r].status
    /\ HealthIsSound

LEMMA ReturnedStays ==
    ASSUME IInv, [Next]_vars, NEW r \in Runs, exec[r].at = "returned"
    PROVE  /\ exec'[r] = exec[r]
           /\ ~Exists(r)' \/ (run'[r] = run[r] /\ steps'[r] = steps[r])
<1>1. ASSUME NEW q \in Runs, Step(q) \/ Crash(q)
      PROVE  exec'[r] = exec[r] /\ run'[r] = run[r] /\ steps'[r] = steps[r]
  BY <1>1 DEF IInv, TypeOK, Step, Crash, CreateRun, ExecuteStep, FlowTimesOut, RecordStep,
              CompleteRun, ReturnRun, RowIsGone, Pending, Goto, Executing
<1>2. CASE Synchronisation
  BY <1>2 DEF Synchronisation, SyncFlow, ClearFlows, Exists
<1>3. CASE \E q \in Runs, f \in Flows, g \in BOOLEAN : LookUpFlow(q, f, g)
  BY <1>3 DEF LookUpFlow, IInv, TypeOK
<1>4. CASE UNCHANGED vars
  BY <1>4 DEF vars
<1>5. QED
  BY <1>1, <1>2, <1>3, <1>4 DEF Next

\* Only ReturnRun ends an execution with a result.
LEMMA ReturnsResult ==
    ASSUME IInv, [Next]_vars, NEW r \in Runs, exec[r].at # "returned",
           exec'[r].at = "returned"
    PROVE  exec'[r].result = run'[r].status
<1>1. ASSUME NEW q \in Runs, Step(q) PROVE exec'[r].result = run'[r].status
  <2>1. q = r
    BY <1>1 DEF IInv, TypeOK, Step, CreateRun, ExecuteStep, FlowTimesOut, RecordStep,
                CompleteRun, ReturnRun, RowIsGone, Goto
  <2>2. exec[r] \in ExecType /\ exec \in [Runs -> ExecType]
    BY DEF IInv, TypeOK
  <2>3. ~CreateRun(r) /\ ~CompleteRun(r) /\ ~RowIsGone(r)
    BY <2>2 DEF CreateRun, CompleteRun, RowIsGone, Goto, ExecType
  <2>4. ~RecordStep(r) /\ ~FlowTimesOut(r)
    BY <2>2 DEF RecordStep, FlowTimesOut, ExecType
  <2>5. ASSUME NEW ok \in BOOLEAN, NEW d \in Durations, ExecuteStep(r, ok, d) PROVE FALSE
    BY <2>2, <2>5 DEF ExecuteStep, ExecType
  <2>6. ReturnRun(r)
    BY <1>1, <2>1, <2>3, <2>4, <2>5 DEF Step
  <2>7. QED
    BY <2>2, <2>6 DEF ReturnRun, ExecType
<1>2. ASSUME NEW q \in Runs, Crash(q) PROVE FALSE
  BY <1>2 DEF Crash, Goto, IInv, TypeOK, ExecType
<1>3. ASSUME Synchronisation PROVE FALSE
  BY <1>3 DEF Synchronisation, SyncFlow, ClearFlows
<1>4. ASSUME NEW q \in Runs, NEW f \in Flows, NEW g \in BOOLEAN, LookUpFlow(q, f, g)
      PROVE  FALSE
  BY <1>4 DEF LookUpFlow, IInv, TypeOK, ExecType
<1>5. ASSUME UNCHANGED vars PROVE FALSE
  BY <1>5 DEF vars
<1>6. QED
  BY <1>1, <1>2, <1>3, <1>4, <1>5 DEF Next

LEMMA StepsStayFinite ==
    ASSUME IInv, [Next]_vars, \A r \in Runs : IsFiniteSet(steps[r])
    PROVE  \A r \in Runs : IsFiniteSet(steps'[r])
<1>1. ASSUME NEW q \in Runs, RecordStep(q), NEW r \in Runs PROVE IsFiniteSet(steps'[r])
  <2>1. steps'[r] = IF r = q THEN steps[q] \cup {Recorded(q)} ELSE steps[r]
    BY <1>1 DEF RecordStep, IInv, TypeOK
  <2>2. IsFiniteSet(steps[q] \cup {Recorded(q)})
    BY FS_AddElement
  <2>3. QED
    BY <2>1, <2>2
<1>2. ASSUME NEW q \in Runs, Step(q), ~RecordStep(q) PROVE UNCHANGED steps
  BY <1>2 DEF Step, CreateRun, ExecuteStep, FlowTimesOut, CompleteRun, ReturnRun, RowIsGone
<1>3. ASSUME Synchronisation, NEW r \in Runs PROVE IsFiniteSet(steps'[r])
  <2>1. steps'[r] = {} \/ steps'[r] = steps[r]
    BY <1>3 DEF Synchronisation, SyncFlow, ClearFlows
  <2>2. QED
    BY <2>1, FS_EmptySet
<1>4. ASSUME \/ \E q \in Runs : Crash(q)
             \/ \E q \in Runs, f \in Flows, g \in BOOLEAN : LookUpFlow(q, f, g)
             \/ UNCHANGED vars
      PROVE  UNCHANGED steps
  BY <1>4 DEF Crash, LookUpFlow, vars
<1>5. QED
  BY <1>1, <1>2, <1>3, <1>4 DEF Next

\* The rows of a run that is there, as its verdict counts them.
LEMMA Counted ==
    ASSUME IInv, NEW r \in Runs, IsFiniteSet(steps[r])
    PROVE  /\ PassedSteps(r) \in Nat /\ FailedSteps(r) \in Nat
           /\ PassedSteps(r) = 0 <=> \A s \in steps[r] : ~s.passed
           /\ ~Exists(r) => PassedSteps(r) = 0 /\ FailedSteps(r) = 0
           /\ run[r].status = "passed" =>
                FailedSteps(r) = 0 /\ ~ \E s \in steps[r] : s.order = 0 /\ ~s.passed
           /\ run[r].status = "failed" =>
                /\ FailedSteps(r) = 1
                /\ PassedSteps(r) = 0 <=> \E s \in steps[r] : s.order = 0 /\ ~s.passed
<1> DEFINE good == {s \in steps[r] : s.passed}
           bad  == {s \in steps[r] : ~s.passed}
<1>1. IsFiniteSet(good) /\ IsFiniteSet(bad)
  BY FS_Subset
<1>2. PassedSteps(r) = Cardinality(good) /\ FailedSteps(r) = Cardinality(bad)
  BY DEF PassedSteps, FailedSteps
<1> HIDE DEF good, bad
<1>3. /\ Cardinality(good) \in Nat /\ Cardinality(bad) \in Nat
      /\ Cardinality(good) = 0 <=> good = {}
      /\ Cardinality(bad) = 0 <=> bad = {}
      /\ \A x : bad = {x} => Cardinality(bad) = 1
  BY <1>1, FS_CardinalityType, FS_EmptySet, FS_Singleton, Zenon
<1>4. ~Exists(r) => good = {} /\ bad = {}
  BY DEF IInv, RunInv, good, bad
<1>5. run[r].status = "passed" => bad = {}
  BY DEF IInv, RunInv, Exists, NoRun, RunRow, Verdicts, AllPassed, bad
<1>6. ASSUME run[r].status = "failed"
      PROVE  /\ \E x : bad = {x}
             /\ good = {} <=> \E s \in steps[r] : s.order = 0 /\ ~s.passed
  <2>1. /\ Prefix(r) /\ LastFailed(r) /\ exec[r].i \in Nat
        /\ \A s \in steps[r] : s.order \in Nat /\ s.passed \in BOOLEAN
    BY <1>6, Types DEF IInv, RunInv, Exists, NoRun, RunRow, Verdicts, ExecType
  <2>2. PICK last \in steps[r] : last.order = exec[r].i - 1
    <3>1. exec[r].i - 1 \in Nat /\ exec[r].i - 1 < exec[r].i
      BY <2>1 DEF LastFailed
    <3>2. QED
      BY <2>1, <3>1 DEF Prefix
  <2>3. ~last.passed
    BY <2>1, <2>2 DEF LastFailed
  <2>4. \A s \in steps[r] : s # last => s.passed /\ s.order < last.order
    BY <2>1, <2>2 DEF Prefix
  <2>5. bad = {last}
    BY <2>3, <2>4 DEF bad
  <2>6. good = {} <=> last.order = 0
    <3>1. ASSUME good = {} PROVE last.order = 0
      <4>1. \A s \in steps[r] : s = last
        BY <2>4, <3>1 DEF good
      <4>2. exec[r].i > 0
        BY <2>1 DEF LastFailed
      <4>3. \E s \in steps[r] : s.order = 0
        BY <2>1, <4>2 DEF Prefix
      <4>4. QED
        BY <4>1, <4>3
    <3>2. ASSUME last.order = 0 PROVE good = {}
      <4>1. \A s \in steps[r] : s = last
        BY <2>1, <2>4, <3>2
      <4>2. QED
        BY <2>3, <4>1 DEF good
    <3>3. QED
      BY <3>1, <3>2
  <2>7. (\E s \in steps[r] : s.order = 0 /\ ~s.passed) <=> last.order = 0
    BY <2>1, <2>3, <2>4
  <2>8. QED
    BY <2>5, <2>6, <2>7
<1>7. good = {} <=> \A s \in steps[r] : ~s.passed
  BY DEF good
<1>8. bad = {} => ~ \E s \in steps[r] : s.order = 0 /\ ~s.passed
  BY DEF bad
<1>9. QED
  BY <1>2, <1>3, <1>4, <1>5, <1>6, <1>7, <1>8

\* An execution, or the synchronisation, goes on, and what is cached stays true.
LEMMA ExecuteKeepsHealth ==
    ASSUME StatusInv, [Next]_vars, health' = health
    PROVE  StatusInv'
<1>1. IInv'
  BY NextIInv DEF StatusInv
<1>2. \A r \in Runs : IsFiniteSet(steps[r])'
  BY StepsStayFinite DEF StatusInv
<1>3. ASSUME NEW r \in Runs, exec'[r].at = "returned", Exists(r)'
      PROVE  exec'[r].result = run'[r].status
  <2>1. CASE exec[r].at = "returned"
    BY <1>3, <2>1, ReturnedStays DEF StatusInv, Exists
  <2>2. CASE exec[r].at # "returned"
    BY <1>3, <2>2, ReturnsResult DEF StatusInv
  <2>3. QED
    BY <2>1, <2>2
<1>4. HealthIsSound'
  <2>1. CASE health.run = "none"
    BY <2>1 DEF StatusInv, HealthIsSound
  <2>2. CASE health.run # "none"
    <3> DEFINE r == health.run
    <3>1. r \in Runs /\ exec[r].at = "returned"
      BY <2>2 DEF StatusInv, HealthIsSound
    <3>2. exec'[r] = exec[r] /\ (~Exists(r)' \/ (run'[r] = run[r] /\ steps'[r] = steps[r]))
      BY <3>1, ReturnedStays DEF StatusInv
    <3>3. CASE ~Exists(r)'
      BY <3>1, <3>2, <3>3 DEF StatusInv, HealthIsSound
    <3>4. CASE run'[r] = run[r] /\ steps'[r] = steps[r]
      BY <3>1, <3>2, <3>4 DEF StatusInv, HealthIsSound, Exists, PassedSteps, FailedSteps
    <3>5. QED
      BY <3>2, <3>3, <3>4
  <2>3. QED
    BY <2>1, <2>2
<1>5. QED
  BY <1>1, <1>2, <1>3, <1>4 DEF StatusInv

\* An entry is put into the cache, and the runs are as they were.
LEMMA CacheKeepsStatus ==
    ASSUME StatusInv, UNCHANGED vars, HealthIsSound'
    PROVE  StatusInv'
<1>1. IInv'
  BY NextIInv DEF StatusInv
<1>2. QED
  BY <1>1 DEF StatusInv, vars, Exists

LEMMA CacheHealthKeeps ==
    ASSUME StatusInv, NEW r \in Runs, CacheHealth(r)
    PROVE  StatusInv'
<1> DEFINE passed == PassedSteps(r)
           failed == FailedSteps(r)
           status == OverallStatus(exec[r].result = "passed", passed)
<1>1. /\ UNCHANGED vars
      /\ health' = [status |-> status, run |-> r, passed |-> passed, failed |-> failed]
      /\ exec[r].at = "returned"
  BY DEF CacheHealth
<1>2. /\ passed' = passed /\ failed' = failed /\ Exists(r)' = Exists(r)
      /\ run' = run /\ exec' = exec
  BY <1>1 DEF vars, PassedSteps, FailedSteps, Exists
<1>3. Exists(r) => exec[r].result = run[r].status
  BY <1>1 DEF StatusInv
<1>4. /\ passed \in Nat /\ failed \in Nat
      /\ ~Exists(r) => failed = 0
      /\ run[r].status = "passed" => failed = 0
  BY Counted DEF StatusInv
<1> HIDE DEF passed, failed
<1>5. /\ status = "healthy" => exec[r].result = "passed"
      /\ status = "degraded" => passed > 0
  BY DEF OverallStatus
<1>6. Exists(r) => status = OverallStatus(run[r].status = "passed", passed)
  BY <1>3
<1> HIDE DEF status
<1>7. HealthIsSound'
  <2>1. /\ health'.status = status /\ health'.run = r
        /\ health'.passed = passed /\ health'.failed = failed
    BY <1>1
  <2>2. Exists(r) => status = OverallStatus(run'[r].status = "passed", PassedSteps(r)')
    BY <1>2, <1>6 DEF passed
  <2>3. passed = PassedSteps(r)' /\ failed = FailedSteps(r)'
    BY <1>2 DEF passed, failed
  <2>4. status = "healthy" => failed = 0
    BY <1>3, <1>4, <1>5
  <2>5. QED
    BY <1>1, <1>2, <1>5, <2>1, <2>2, <2>3, <2>4 DEF HealthIsSound
<1>8. QED
  BY <1>1, <1>7, CacheKeepsStatus

LEMMA DirectKeeps ==
    ASSUME StatusInv, NEW result \in DirectResults, CheckDirectly(result)
    PROVE  StatusInv'
<1> DEFINE status == OverallStatus(result[1] = 3, result[1])
<1>1. /\ UNCHANGED vars
      /\ health' = [status |-> status, run |-> "none", passed |-> result[1], failed |-> result[2]]
  BY DEF CheckDirectly
<1>2. result \in {<<0, 1>>, <<1, 0>>, <<1, 1>>, <<2, 1>>, <<3, 0>>}
  OBVIOUS
<1>3. (status = "healthy" => result[2] = 0) /\ (status = "degraded" => result[1] > 0)
  BY <1>2 DEF OverallStatus
<1> HIDE DEF status
<1>4. HealthIsSound'
  BY <1>1, <1>3 DEF HealthIsSound
<1>5. QED
  BY <1>1, <1>4, CacheKeepsStatus

LEMMA InitStatusInv == StatusInit => StatusInv
<1> SUFFICES ASSUME StatusInit PROVE StatusInv
  OBVIOUS
<1>1. IInv
  BY InitIInv DEF StatusInit
<1>2. \A r \in Runs : IsFiniteSet(steps[r]) /\ exec[r].at = "idle"
  BY FS_EmptySet DEF StatusInit, Init, Idle
<1>3. HealthIsSound
  BY DEF StatusInit, NoHealth, HealthIsSound
<1>4. QED
  BY <1>1, <1>2, <1>3 DEF StatusInv

LEMMA NextStatusInv == StatusInv /\ [StatusNext]_<<vars, statusVars>> => StatusInv'
<1> SUFFICES ASSUME StatusInv, [StatusNext]_<<vars, statusVars>> PROVE StatusInv'
  OBVIOUS
<1>1. CASE Execute
  BY <1>1, ExecuteKeepsHealth DEF Execute
<1>2. ASSUME NEW r \in Runs, CacheHealth(r) PROVE StatusInv'
  BY <1>2, CacheHealthKeeps
<1>3. ASSUME NEW result \in DirectResults, CheckDirectly(result) PROVE StatusInv'
  BY <1>3, DirectKeeps
<1>4. CASE HealthExpires
  <2>1. health' = NoHealth /\ UNCHANGED vars
    BY <1>4 DEF HealthExpires
  <2>2. HealthIsSound'
    BY <2>1 DEF HealthIsSound, NoHealth
  <2>3. QED
    BY <2>1, <2>2, CacheKeepsStatus
<1>5. CASE UNCHANGED <<vars, statusVars>>
  <2>1. UNCHANGED vars /\ health' = health
    BY <1>5 DEF statusVars
  <2>2. QED
    BY <2>1, ExecuteKeepsHealth
<1>6. QED
  BY <1>1, <1>2, <1>3, <1>4, <1>5 DEF StatusNext

\* The inductive invariant of what is shown holds.
THEOREM StatusInvariance == StatusSpec => []StatusInv
BY InitStatusInv, NextStatusInv, PTL DEF StatusSpec

\* Showing the runs and caching the health change nothing for the engine.
THEOREM StatusImplementsEngine == StatusSpec => Spec
<1>1. StatusInit => Init
  BY DEF StatusInit
<1>2. [StatusNext]_<<vars, statusVars>> => [Next]_vars
  <2>1. Execute => Next
    BY DEF Execute
  <2>2. ASSUME NEW r \in Runs, CacheHealth(r) PROVE UNCHANGED vars
    BY <2>2 DEF CacheHealth
  <2>3. ASSUME NEW result \in DirectResults, CheckDirectly(result) PROVE UNCHANGED vars
    BY <2>3 DEF CheckDirectly
  <2>4. HealthExpires => UNCHANGED vars
    BY DEF HealthExpires
  <2>5. UNCHANGED <<vars, statusVars>> => UNCHANGED vars
    OBVIOUS
  <2>6. QED
    BY <2>1, <2>2, <2>3, <2>4, <2>5 DEF StatusNext
<1>3. QED
  BY <1>1, <1>2, PTL DEF StatusSpec, Spec

\* A run is shown live or with the verdict that its step rows bear out, and
\* INV-F finds fault with none.
THEOREM VerdictsShown == StatusSpec => []VerdictsAreShown
<1>1. StatusInv => VerdictsAreShown
  <2> SUFFICES ASSUME StatusInv PROVE VerdictsAreShown
    OBVIOUS
  <2>1. ASSUME NEW r \in Runs, Exists(r)
        PROVE  /\ run[r].status = "running" <=> ~run[r].completed
               /\ run[r].status \in {"passed", "failed"} <=> run[r].completed
               /\ run[r].completed => FailedSteps(r) = IF run[r].status = "failed" THEN 1 ELSE 0
    <3>1. /\ Verdicts(r) /\ run[r].status \in {"running", "passed", "failed"}
          /\ IsFiniteSet(steps[r])
      BY <2>1, Types DEF StatusInv, IInv, RunInv, Exists, RunStatus
    <3>2. /\ run[r].status = "running" <=> ~run[r].completed
          /\ run[r].status \in {"passed", "failed"} <=> run[r].completed
      BY <3>1 DEF Verdicts
    <3>3. QED
      BY <3>1, <3>2, Counted DEF StatusInv
  <2>2. DOMAIN RunningFlowRuns = {r \in Runs : run[r].status = "running"}
    BY DEF RunningFlowRuns
  <2>3. Inconsistent = {}
    BY <2>1 DEF Inconsistent, Existing
  <2>4. QED
    BY <2>1, <2>2, <2>3 DEF VerdictsAreShown, Existing
<1>2. QED
  BY <1>1, StatusInvariance, PTL

\* The cached health of the Linear connection is that of one execution, however
\* many run at once, and whatever is deleted or expires.
THEOREM HealthOfOneRun == StatusSpec => []HealthIsOfOneRun
<1>1. StatusInv => HealthIsOfOneRun
  <2> SUFFICES ASSUME StatusInv PROVE HealthIsOfOneRun
    OBVIOUS
  <2>1. ASSUME health.run # "none", health.run \in Runs, Exists(health.run)
        PROVE  LET r == health.run IN
               /\ health.status = "healthy" <=> run[r].status = "passed"
               /\ health.status = "unhealthy" <=> \E s \in steps[r] : s.order = 0 /\ ~s.passed
               /\ health.passed = PassedSteps(r) /\ health.failed = FailedSteps(r)
    <3> DEFINE r == health.run
    <3>1. /\ r \in Runs /\ exec[r].at = "returned" /\ Exists(r) /\ IsFiniteSet(steps[r])
          /\ health.status = OverallStatus(run[r].status = "passed", PassedSteps(r))
          /\ health.passed = PassedSteps(r) /\ health.failed = FailedSteps(r)
      BY <2>1 DEF StatusInv, HealthIsSound
    <3>2. run[r].status \in {"passed", "failed"}
      BY <3>1 DEF StatusInv, IInv, RunInv
    <3> HIDE DEF r
    <3>3. /\ PassedSteps(r) \in Nat
          /\ run[r].status = "passed" => ~ \E s \in steps[r] : s.order = 0 /\ ~s.passed
          /\ run[r].status = "failed" =>
               (PassedSteps(r) = 0 <=> \E s \in steps[r] : s.order = 0 /\ ~s.passed)
      BY <3>1, Counted DEF StatusInv
    <3>4. /\ health.status = "healthy" <=> run[r].status = "passed"
          /\ health.status = "unhealthy" <=> \E s \in steps[r] : s.order = 0 /\ ~s.passed
      BY <3>1, <3>2, <3>3 DEF OverallStatus
    <3>5. QED
      BY <3>1, <3>4 DEF r
  <2>2. QED
    BY <2>1 DEF StatusInv, HealthIsSound, HealthIsOfOneRun, Existing
<1>2. QED
  BY <1>1, StatusInvariance, PTL

\* What is proved of the engine holds while its runs are shown.
THEOREM StatusKeepsVerdicts == StatusSpec => [](RunsEndAsTheirSteps /\ RowsFollowTheFlow)
BY StatusImplementsEngine, VerdictIsEarned, RowsAreThoseOfTheFlow, PTL

-----------------------------------------------------------------------------
(***************************************************************************)
(* The lists of runs.  The runs that are there are finitely many, each of  *)
(* a stored flow, and no two of them started at the same time: so the      *)
(* order by started_at is one list, which every view takes its part of.    *)
(***************************************************************************)
StartInv ==
    /\ IInv
    /\ started \in [Runs -> Nat]
    /\ IsFiniteSet(Existing)
    /\ \A q, r \in Existing : started[q] = started[r] => q = r
    /\ \A r \in Existing : run[r].flow \in Flows /\ flow[run[r].flow].stored
    /\ \E bound \in Nat : \A r \in Existing : started[r] <= bound

LEMMA InitStartInv == StatusInit => StartInv
<1> SUFFICES ASSUME StatusInit PROVE StartInv
  OBVIOUS
<1>1. IInv
  BY InitIInv DEF StatusInit
<1>2. Existing = {}
  BY DEF StatusInit, Init, Existing, Exists
<1>3. started \in [Runs -> Nat]
  BY DEF StatusInit
<1>4. QED
  BY <1>1, <1>2, <1>3, FS_EmptySet DEF StartInv

\* A step of the engine begins at most one run, of a flow that is stored, and
\* a run that stays is of the same flow, which stays too.
LEMMA OneBegins ==
    ASSUME StartInv, [Next]_vars
    PROVE  /\ \E r : Existing' \subseteq Existing \cup {r}
           /\ \A r \in Existing' : run'[r].flow \in Flows /\ flow'[run'[r].flow].stored
<1>1. /\ run \in [Runs -> {NoRun} \cup [flow : Flows, status : RunStatus,
                                        given : BOOLEAN, completed : BOOLEAN]]
      /\ exec \in [Runs -> ExecType]
      /\ flow \in [Flows -> {NoFlow} \cup {Stored(d) : d \in Definitions}]
      /\ run' \in [Runs -> {NoRun} \cup [flow : Flows, status : RunStatus,
                                        given : BOOLEAN, completed : BOOLEAN]]
  BY NextIInv DEF StartInv, IInv, TypeOK
<1>2. /\ \A r \in Existing : run[r].flow \in Flows /\ flow[run[r].flow].stored
      /\ \A r \in Runs : r \in Existing <=> run[r] # NoRun
  BY DEF StartInv, Existing, Exists
<1>3. Existing' = {r \in Runs : run'[r] # NoRun}
  BY DEF Existing, Exists
<1>4. ASSUME UNCHANGED flow, \A r \in Runs : run'[r] = run[r] \/ (run'[r].flow = run[r].flow /\ r \in Existing)
      PROVE  /\ Existing' \subseteq Existing
             /\ \A r \in Existing' : run'[r].flow \in Flows /\ flow'[run'[r].flow].stored
  BY <1>2, <1>3, <1>4
<1>5. ASSUME NEW q \in Runs, CreateRun(q)
      PROVE  /\ Existing' \subseteq Existing \cup {q}
             /\ \A r \in Existing' : run'[r].flow \in Flows /\ flow'[run'[r].flow].stored
  <2>1. /\ flow[exec[q].flow].stored /\ flow' = flow /\ run'[q].flow = exec[q].flow
        /\ \A r \in Runs : r # q => run'[r] = run[r]
    BY <1>1, <1>5 DEF CreateRun, RunRow
  <2>2. ASSUME NEW r \in Existing' PROVE run'[r].flow \in Flows
    BY <1>1, <1>3
  <2>3. QED
    BY <1>2, <1>3, <2>1, <2>2
<1>6. ASSUME NEW q \in Runs, CompleteRun(q)
      PROVE  UNCHANGED flow /\ \A r \in Runs : run'[r] = run[r] \/ (run'[r].flow = run[r].flow /\ r \in Existing)
  <2>1. CASE Exists(q)
    BY <1>1, <1>2, <1>6, <2>1 DEF CompleteRun, Exists, NoRun, RunRow
  <2>2. CASE ~Exists(q)
    BY <1>6, <2>2 DEF CompleteRun
  <2>3. QED
    BY <2>1, <2>2
<1>7. ASSUME NEW q \in Runs, Step(q), ~CreateRun(q), ~CompleteRun(q)
      PROVE  UNCHANGED <<flow, run>>
  BY <1>7 DEF Step, ExecuteStep, FlowTimesOut, RecordStep, ReturnRun, RowIsGone
<1>8. ASSUME NEW f \in Flows, NEW d \in Definitions, SyncFlow(f, d)
      PROVE  /\ Existing' \subseteq Existing
             /\ \A r \in Existing' : run'[r].flow \in Flows /\ flow'[run'[r].flow].stored
  BY <1>1, <1>2, <1>3, <1>8 DEF SyncFlow, Stored
<1>9. ASSUME NEW F \in SUBSET Flows, ClearFlows(F)
      PROVE  /\ Existing' \subseteq Existing
             /\ \A r \in Existing' : run'[r].flow \in Flows /\ flow'[run'[r].flow].stored
  <2>1. ASSUME NEW r \in Existing' PROVE run'[r] = run[r] /\ r \in Existing /\ run[r].flow \notin F
    BY <1>2, <1>3, <1>9 DEF ClearFlows
  <2>2. QED
    BY <1>2, <1>9, <2>1 DEF ClearFlows
<1>10. ASSUME \/ \E q \in Runs : Crash(q)
              \/ \E q \in Runs, f \in Flows, g \in BOOLEAN : LookUpFlow(q, f, g)
              \/ UNCHANGED vars
       PROVE  UNCHANGED <<flow, run>>
  BY <1>10 DEF Crash, LookUpFlow, vars
<1>11. QED
  BY <1>4, <1>5, <1>6, <1>7, <1>8, <1>9, <1>10 DEF Next, Synchronisation

LEMMA LessRelated ==
    ASSUME NEW i \in Nat, NEW j \in Nat, i < j
    PROVE  <<i, j>> \in OpToRel(<, Nat)
<1>1. i \in Nat /\ j \in Nat /\ i < j
  OBVIOUS
<1>2. QED
  BY ONLY <1>1 DEF OpToRel

\* A bounded set of numbers that is not empty has a greatest one.
LEMMA GreatestNumber ==
    ASSUME NEW bound \in Nat, NEW S \in SUBSET Nat, S # {}, \A n \in S : n <= bound
    PROVE  \E n \in S : \A m \in S : m <= n
<1> DEFINE distances == {k \in 0 .. bound : bound - k \in S}
<1>1. distances \in SUBSET Nat
  OBVIOUS
<1>2. \A n \in S : n \in Int /\ n <= bound /\ bound - n \in distances
  OBVIOUS
<1>3. distances # {}
  BY <1>2
<1> HIDE DEF distances
<1>4. PICK k \in distances : \A j \in distances : ~ (<<j, k>> \in OpToRel(<, Nat))
  BY ONLY <1>1, <1>3, NatLessThanWellFounded, WFMin, Zenon
<1>5. k \in Nat /\ bound - k \in S
  BY <1>1, <1>4 DEF distances
<1>6. ASSUME NEW n \in S PROVE n <= bound - k
  <2>1. bound - n \in distances /\ bound - n \in Nat /\ n \in Int
    BY <1>1, <1>2
  <2>2. ASSUME bound - n < k PROVE FALSE
    <3>1. <<bound - n, k>> \in OpToRel(<, Nat)
      BY ONLY <1>5, <2>1, <2>2, LessRelated, Zenon
    <3>2. QED
      BY ONLY <1>4, <2>1, <3>1, Zenon
  <2>3. QED
    BY <1>5, <2>1, <2>2
<1>7. QED
  BY <1>5, <1>6

\* A run that begins now starts after every one that is there.
LEMMA NowIsLatest ==
    ASSUME StartInv
    PROVE  Now \in Nat /\ Now > 0 /\ \A r \in Existing : started[r] < Now
<1> DEFINE times == {0} \cup {started[r] : r \in Existing}
<1>1. PICK bound \in Nat : \A r \in Existing : started[r] <= bound
  BY DEF StartInv
<1>2. Existing \subseteq Runs /\ \A r \in Runs : started[r] \in Nat
  BY DEF StartInv, Existing
<1>3. times \in SUBSET Nat /\ times # {} /\ \A n \in times : n <= bound
  BY <1>1, <1>2
<1>4. 0 \in times /\ \A r \in Existing : started[r] \in times
  OBVIOUS
<1>5. Now = Max(times) + 1
  BY DEF Now
<1> HIDE DEF times
<1>6. PICK n \in times : \A m \in times : m <= n
  BY <1>3, GreatestNumber
<1>7. \A m \in times : n >= m
  BY <1>3, <1>6
<1>8. Max(times) \in times /\ \A m \in times : Max(times) >= m
  BY <1>6, <1>7 DEF Max
<1>9. PICK top \in Nat : top = Max(times)
  BY <1>3, <1>8
<1>10. \A r \in Existing : started[r] \in Nat /\ started[r] <= top
  BY <1>2, <1>4, <1>8, <1>9
<1>11. QED
  BY <1>5, <1>9, <1>10

LEMMA NextStartInv == StartInv /\ [StatusNext]_<<vars, statusVars>> => StartInv'
<1> SUFFICES ASSUME StartInv, [StatusNext]_<<vars, statusVars>> PROVE StartInv'
  OBVIOUS
<1>1. CASE Execute
  <2>1. IInv' /\ [Next]_vars
    BY <1>1, NextIInv DEF Execute, StartInv
  <2>2. started' = [r \in Runs |-> IF r \notin Existing' THEN 0
                                  ELSE IF r \in Existing THEN started[r] ELSE Now]
    BY <1>1 DEF Execute
  <2>3. PICK new : Existing' \subseteq Existing \cup {new}
    BY <2>1, OneBegins
  <2>4. \A r \in Existing' : run'[r].flow \in Flows /\ flow'[run'[r].flow].stored
    BY <2>1, OneBegins
  <2>5. /\ Existing \subseteq Runs /\ \A r \in Runs : started[r] \in Nat
        /\ Existing' \subseteq Runs
        /\ \A q, r \in Existing : started[q] = started[r] => q = r
    BY DEF StartInv, Existing
  <2>6. Now \in Nat /\ Now > 0 /\ \A r \in Existing : started[r] < Now
    BY NowIsLatest
  <2>7. IsFiniteSet(Existing')
    <3>1. IsFiniteSet(Existing \cup {new})
      BY FS_AddElement DEF StartInv
    <3>2. QED
      BY <2>3, <3>1, FS_Subset
  <2>8. started' \in [Runs -> Nat] /\ \A r \in Existing' : started'[r] <= Now
    BY <2>2, <2>5, <2>6
  <2>9. ASSUME NEW q \in Existing', NEW r \in Existing', started'[q] = started'[r] PROVE q = r
    BY <2>2, <2>3, <2>5, <2>6, <2>9
  <2>10. QED
    BY <2>1, <2>4, <2>6, <2>7, <2>8, <2>9 DEF StartInv
<1>2. ASSUME UNCHANGED <<vars, started>> PROVE StartInv'
  <2>1. IInv'
    BY <1>2, NextIInv DEF StartInv
  <2>2. Existing' = Existing
    BY <1>2 DEF vars, Existing, Exists
  <2>3. QED
    BY <1>2, <2>1, <2>2 DEF StartInv, vars
<1>3. ASSUME NEW r \in Runs, CacheHealth(r) PROVE StartInv'
  BY <1>2, <1>3 DEF CacheHealth
<1>4. ASSUME NEW result \in DirectResults, CheckDirectly(result) PROVE StartInv'
  BY <1>2, <1>4 DEF CheckDirectly
<1>5. CASE HealthExpires
  BY <1>2, <1>5 DEF HealthExpires
<1>6. CASE UNCHANGED <<vars, statusVars>>
  BY <1>2, <1>6 DEF statusVars
<1>7. QED
  BY <1>1, <1>3, <1>4, <1>5, <1>6 DEF StatusNext

\* Things that are numbered, no two alike, can be listed by falling number.
LEMMA Ranked ==
    ASSUME NEW S, IsFiniteSet(S), NEW at \in [S -> Nat],
           \A q, r \in S : at[q] = at[r] => q = r
    PROVE  \E list \in [1 .. Cardinality(S) -> S] :
             \A m, n \in 1 .. Cardinality(S) : m < n => at[list[m]] > at[list[n]]
<1> DEFINE N       == Cardinality(S)
           from(r) == {q \in S : at[q] >= at[r]}
           rank    == [r \in S |-> Cardinality(from(r))]
<1>1. N \in Nat
  BY FS_CardinalityType
<1>2. ASSUME NEW r \in S PROVE rank[r] \in 1 .. N
  <2>1. IsFiniteSet(from(r)) /\ Cardinality(from(r)) <= N
    BY FS_Subset
  <2>2. from(r) # {}
    <3>1. r \in from(r)
      OBVIOUS
    <3>2. QED
      BY <3>1
  <2>3. Cardinality(from(r)) \in Nat /\ Cardinality(from(r)) # 0
    BY <2>1, <2>2, FS_CardinalityType, FS_EmptySet
  <2>4. QED
    BY <1>1, <2>1, <2>3
<1>3. ASSUME NEW q \in S, NEW r \in S, at[q] > at[r] PROVE rank[q] < rank[r]
  <2>1. from(q) \subseteq from(r) /\ r \in from(r) /\ r \notin from(q)
    BY <1>3
  <2>2. IsFiniteSet(from(r))
    BY FS_Subset
  <2>3. Cardinality(from(q)) <= Cardinality(from(r)) /\ Cardinality(from(q)) # Cardinality(from(r))
    BY <2>1, <2>2, FS_Subset
  <2>4. rank[q] = Cardinality(from(q)) /\ rank[r] = Cardinality(from(r))
    OBVIOUS
  <2>5. rank[q] \in Nat /\ rank[r] \in Nat
    BY <1>2
  <2> HIDE DEF from, rank
  <2>6. QED
    BY <2>3, <2>4, <2>5
<1>4. rank \in [S -> 1 .. N]
  <2>1. rank = [r \in S |-> rank[r]]
    OBVIOUS
  <2> HIDE DEF rank
  <2>2. QED
    BY <1>2, <2>1
<1> HIDE DEF rank
<1>5. ASSUME NEW q \in S, NEW r \in S, rank[q] = rank[r] PROVE q = r
  <2>1. at[q] \in Nat /\ at[r] \in Nat /\ rank[q] \in Nat /\ rank[r] \in Nat
    BY <1>4
  <2>2. ~ (at[q] > at[r]) /\ ~ (at[r] > at[q])
    BY <1>3, <1>5, <2>1
  <2>3. QED
    BY <2>1, <2>2
<1>6. \A n \in 1 .. N : \E r \in S : rank[r] = n
  <2>1. IsFiniteSet(1 .. N) /\ Cardinality(1 .. N) = N
    BY <1>1, FS_Interval
  <2>2. rank \in Injection(S, 1 .. N)
    BY <1>4, <1>5 DEF Injection, IsInjective
  <2>3. rank \in Surjection(S, 1 .. N)
    BY <2>1, <2>2, FS_Injection
  <2>4. QED
    BY <2>3 DEF Surjection
<1> DEFINE list == [n \in 1 .. N |-> CHOOSE r \in S : rank[r] = n]
<1>7. \A n \in 1 .. N : list[n] \in S /\ rank[list[n]] = n
  BY <1>6
<1>8. list \in [1 .. N -> S]
  BY <1>7
<1> HIDE DEF list
<1>9. ASSUME NEW m \in 1 .. N, NEW n \in 1 .. N, m < n PROVE at[list[m]] > at[list[n]]
  <2>1. /\ list[m] \in S /\ list[n] \in S
        /\ rank[list[m]] = m /\ rank[list[n]] = n
    BY <1>7
  <2>2. at[list[m]] \in Nat /\ at[list[n]] \in Nat
    BY <2>1
  <2>3. at[list[m]] # at[list[n]]
    BY <1>9, <2>1
  <2>4. ~ (at[list[n]] > at[list[m]])
    BY <1>1, <1>3, <1>9, <2>1
  <2>5. QED
    BY <2>2, <2>3, <2>4
<1>10. QED
  BY <1>8, <1>9

\* Runs that are there, newest first: each of them once, by falling started_at.
LEMMA NewestFirstIs ==
    ASSUME StartInv, NEW S \in SUBSET Existing
    PROVE  /\ IsFiniteSet(S) /\ Cardinality(S) \in Nat
           /\ NewestFirst(S) \in [1 .. Cardinality(S) -> S]
           /\ DOMAIN NewestFirst(S) = 1 .. Cardinality(S)
           /\ NewestFirst(S) \in Seq(S) /\ Len(NewestFirst(S)) = Cardinality(S)
           /\ \A m, n \in 1 .. Cardinality(S) :
                m < n => started[NewestFirst(S)[m]] > started[NewestFirst(S)[n]]
           /\ \A r \in S : \E n \in 1 .. Cardinality(S) : NewestFirst(S)[n] = r
<1> DEFINE N == Cardinality(S)
           at == [r \in S |-> started[r]]
<1>1. /\ S \subseteq Runs /\ \A r \in Runs : started[r] \in Nat
      /\ \A q, r \in S : started[q] = started[r] => q = r
  BY DEF StartInv, Existing
<1>2. IsFiniteSet(S) /\ N \in Nat
  BY FS_Subset, FS_CardinalityType DEF StartInv
<1>3. PICK list \in [1 .. N -> S] :
            \A m, n \in 1 .. N : m < n => started[list[m]] > started[list[n]]
  <2>1. at \in [S -> Nat] /\ (\A q, r \in S : at[q] = at[r] => q = r)
        /\ \A r \in S : at[r] = started[r]
    BY <1>1
  <2> HIDE DEF at
  <2>2. PICK list \in [1 .. N -> S] : \A m, n \in 1 .. N : m < n => at[list[m]] > at[list[n]]
    BY <1>2, <2>1, Ranked
  <2>3. QED
    BY <2>1, <2>2
<1> DEFINE newest == NewestFirst(S)
<1>4. DOMAIN list = 1 .. N /\ \A l \in [1 .. N -> S] : DOMAIN l = 1 .. N
  OBVIOUS
<1>5. \E l \in [1 .. N -> S] : \A m, n \in DOMAIN l : m < n => started[l[m]] > started[l[n]]
  BY <1>3, <1>4
<1>6. newest \in [1 .. N -> S] /\ \A m, n \in DOMAIN newest : m < n => started[newest[m]] > started[newest[n]]
  BY <1>5 DEF NewestFirst
<1> HIDE DEF newest
<1>7. DOMAIN newest = 1 .. N
  BY <1>6
<1>8. newest \in Seq(S)
  BY <1>2, <1>6, SeqDef
<1>9. Len(newest) = N
  BY <1>2, <1>7, <1>8, LenProperties
<1>10. \A r \in S : \E n \in 1 .. N : newest[n] = r
  <2>1. ASSUME NEW m \in 1 .. N, NEW n \in 1 .. N, newest[m] = newest[n] PROVE m = n
    <3>1. started[newest[m]] \in Nat
      BY <1>1, <1>6
    <3>2. ~ (m < n) /\ ~ (n < m)
      BY <1>6, <1>7, <2>1, <3>1
    <3>3. QED
      BY <1>2, <3>2
  <2>2. newest \in Injection(1 .. N, S)
    BY <1>6, <2>1 DEF Injection, IsInjective
  <2>3. Cardinality(1 .. N) = N
    BY <1>2, FS_Interval
  <2>4. newest \in Surjection(1 .. N, S)
    BY <1>2, <2>2, <2>3, FS_Injection
  <2>5. QED
    BY <2>4 DEF Surjection
<1>11. QED
  BY <1>2, <1>6, <1>7, <1>8, <1>9, <1>10 DEF newest

\* The first started last, the last first.
LEMMA EndsAre ==
    ASSUME StartInv, NEW S \in SUBSET Existing, S # {}
    PROVE  /\ NewestFirst(S)[1] \in S
           /\ \A q \in S : started[q] <= started[NewestFirst(S)[1]]
           /\ NewestFirst(S)[Cardinality(S)] \in S
           /\ \A q \in S : started[q] >= started[NewestFirst(S)[Cardinality(S)]]
<1> DEFINE N == Cardinality(S)
           list == NewestFirst(S)
<1>1. /\ N \in Nat /\ list \in [1 .. N -> S]
      /\ \A m, n \in 1 .. N : m < n => started[list[m]] > started[list[n]]
      /\ \A r \in S : \E n \in 1 .. N : list[n] = r
  BY NewestFirstIs
<1>2. \A r \in S : started[r] \in Nat
  BY DEF StartInv, Existing
<1>3. N > 0
  BY <1>1
<1> HIDE DEF N, list
<1>4. 1 \in 1 .. N /\ N \in 1 .. N
  BY <1>1, <1>3
<1>5. ASSUME NEW q \in S PROVE started[q] <= started[list[1]] /\ started[q] >= started[list[N]]
  <2>1. PICK n \in 1 .. N : list[n] = q
    BY <1>1
  <2>2. (n = 1 \/ 1 < n) /\ (n = N \/ n < N)
    BY <1>1
  <2>3. started[q] \in Nat /\ started[list[1]] \in Nat /\ started[list[N]] \in Nat
    BY <1>1, <1>2, <1>4
  <2>4. QED
    BY <1>1, <1>4, <2>1, <2>2, <2>3
<1>6. QED
  BY <1>1, <1>4, <1>5 DEF N, list

LEMMA OfStatusExist ==
    ASSUME NEW f, NEW status
    PROVE  OfStatus(f, status) \in SUBSET Existing
BY DEF OfStatus

\* Walking back from a run comes to the next one of the list, and forth to the
\* one before.
LEMMA NeighboursAre ==
    ASSUME StartInv, NEW f \in Flows, NEW n \in DOMAIN Listed(f)
    PROVE  /\ PreviousRun(Listed(f)[n]) = IF n = Len(Listed(f)) THEN "none" ELSE Listed(f)[n + 1]
           /\ NextRun(Listed(f)[n]) = IF n = 1 THEN "none" ELSE Listed(f)[n - 1]
<1> DEFINE S    == OfStatus(f, "any")
           list == NewestFirst(S)
           N    == Cardinality(S)
           r    == list[n]
<1>1. S \in SUBSET Existing /\ Listed(f) = list
  BY OfStatusExist DEF Listed, RunsOf
<1>2. /\ N \in Nat /\ list \in [1 .. N -> S] /\ Len(list) = N /\ DOMAIN list = 1 .. N
      /\ \A k, m \in 1 .. N : k < m => started[list[k]] > started[list[m]]
      /\ \A q \in S : \E m \in 1 .. N : list[m] = q
  BY <1>1, NewestFirstIs
<1>3. n \in 1 .. N
  BY <1>1, <1>2
<1>4. /\ \A q \in S : started[q] \in Nat
      /\ \A p, q \in S : started[p] = started[q] => p = q
  BY DEF StartInv, Existing, OfStatus
<1>5. r \in S /\ run[r].flow = f
  <2>1. r \in S
    BY <1>2, <1>3
  <2>2. QED
    BY <2>1 DEF OfStatus
<1>6. Earlier(r) = {q \in S : started[q] < started[r]} /\ Later(r) = {q \in S : started[q] > started[r]}
  BY <1>5 DEF Earlier, Later
<1> HIDE DEF S, list, N
<1>7. \A m \in 1 .. N : /\ started[list[m]] < started[r] <=> n < m
                        /\ started[list[m]] > started[r] <=> m < n
  <2> SUFFICES ASSUME NEW m \in 1 .. N
               PROVE  /\ started[list[m]] < started[r] <=> n < m
                      /\ started[list[m]] > started[r] <=> m < n
    OBVIOUS
  <2>1. started[list[m]] \in Nat /\ started[r] \in Nat
    BY <1>2, <1>4, <1>5
  <2>2. m < n \/ n < m \/ m = n
    BY <1>2, <1>3
  <2>3. QED
    BY <1>2, <1>3, <2>1, <2>2
<1>8. PreviousRun(r) = IF n = N THEN "none" ELSE list[n + 1]
  <2>1. CASE n = N
    <3>1. Earlier(r) = {}
      BY <1>2, <1>3, <1>6, <1>7, <2>1
    <3>2. QED
      BY <2>1, <3>1 DEF PreviousRun
  <2>2. CASE n # N
    <3> DEFINE e == NewestFirst(Earlier(r))[1]
    <3>1. n + 1 \in 1 .. N /\ n < n + 1
      BY <1>2, <1>3, <2>2
    <3>2. list[n + 1] \in Earlier(r)
      BY <1>2, <1>6, <1>7, <3>1
    <3>3. e \in Earlier(r) /\ \A q \in Earlier(r) : started[q] <= started[e]
      <4>1. Earlier(r) \in SUBSET Existing /\ Earlier(r) # {}
        BY <1>1, <1>6, <3>2
      <4>2. QED
        BY <4>1, EndsAre
    <3> HIDE DEF e
    <3>4. PICK m \in 1 .. N : list[m] = e
      BY <1>2, <1>6, <3>3
    <3>5. n < m
      BY <1>6, <1>7, <3>3, <3>4
    <3>6. started[list[n + 1]] \in Nat /\ started[e] \in Nat
      BY <1>4, <1>6, <3>2, <3>3
    <3>7. ~ (n + 1 < m)
      BY <1>2, <3>1, <3>2, <3>3, <3>4, <3>6
    <3>8. m = n + 1
      BY <1>2, <1>3, <3>5, <3>7
    <3>9. PreviousRun(r) = e
      BY <3>3 DEF PreviousRun, e
    <3>10. QED
      BY <2>2, <3>4, <3>8, <3>9
  <2>3. QED
    BY <2>1, <2>2
<1>9. NextRun(r) = IF n = 1 THEN "none" ELSE list[n - 1]
  <2>1. CASE n = 1
    <3>1. Later(r) = {}
      BY <1>2, <1>3, <1>6, <1>7, <2>1
    <3>2. QED
      BY <2>1, <3>1 DEF NextRun
  <2>2. CASE n # 1
    <3> DEFINE e == NewestFirst(Later(r))[Cardinality(Later(r))]
    <3>1. n - 1 \in 1 .. N /\ n - 1 < n
      BY <1>2, <1>3, <2>2
    <3>2. list[n - 1] \in Later(r)
      BY <1>2, <1>6, <1>7, <3>1
    <3>3. e \in Later(r) /\ \A q \in Later(r) : started[q] >= started[e]
      <4>1. Later(r) \in SUBSET Existing /\ Later(r) # {}
        BY <1>1, <1>6, <3>2
      <4>2. QED
        BY <4>1, EndsAre
    <3> HIDE DEF e
    <3>4. PICK m \in 1 .. N : list[m] = e
      BY <1>2, <1>6, <3>3
    <3>5. m < n
      BY <1>6, <1>7, <3>3, <3>4
    <3>6. started[list[n - 1]] \in Nat /\ started[e] \in Nat
      BY <1>4, <1>6, <3>2, <3>3
    <3>7. ~ (m < n - 1)
      BY <1>2, <3>1, <3>2, <3>3, <3>4, <3>6
    <3>8. m = n - 1
      BY <1>2, <1>3, <3>5, <3>7
    <3>9. NextRun(r) = e
      BY <3>3 DEF NextRun, e
    <3>10. QED
      BY <2>2, <3>4, <3>8, <3>9
  <2>3. QED
    BY <2>1, <2>2
<1>10. QED
  BY <1>1, <1>2, <1>8, <1>9

\* The size of sets without a common element.
LEMMA Apart ==
    ASSUME NEW A, NEW B, IsFiniteSet(A), IsFiniteSet(B), A \cap B = {}
    PROVE  /\ IsFiniteSet(A \cup B)
           /\ Cardinality(A \cup B) = Cardinality(A) + Cardinality(B)
<1>1. /\ IsFiniteSet(A \cup B)
      /\ Cardinality(A \cup B) = Cardinality(A) + Cardinality(B) - Cardinality(A \cap B)
  BY FS_Union
<1>2. Cardinality(A) \in Nat /\ Cardinality(B) \in Nat /\ Cardinality(A \cap B) = 0
  BY FS_CardinalityType, FS_EmptySet
<1>3. QED
  BY <1>1, <1>2

LEMMA ThreeParts ==
    ASSUME NEW S, IsFiniteSet(S), NEW A, NEW B, NEW C, S = A \cup B \cup C,
           A \cap B = {}, A \cap C = {}, B \cap C = {}
    PROVE  /\ IsFiniteSet(A) /\ IsFiniteSet(B) /\ IsFiniteSet(C)
           /\ Cardinality(A) \in Nat /\ Cardinality(B) \in Nat /\ Cardinality(C) \in Nat
           /\ Cardinality(A) + Cardinality(B) + Cardinality(C) = Cardinality(S)
<1>1. IsFiniteSet(A) /\ IsFiniteSet(B) /\ IsFiniteSet(C)
  BY FS_Subset
<1>2. Cardinality(A) \in Nat /\ Cardinality(B) \in Nat /\ Cardinality(C) \in Nat
      /\ Cardinality({}) = 0
  BY <1>1, FS_CardinalityType, FS_EmptySet
<1>3. IsFiniteSet(A \cup B) /\ Cardinality(A \cup B) = Cardinality(A) + Cardinality(B)
  BY <1>1, <1>2, Apart
<1>4. (A \cup B) \cap C = {}
  OBVIOUS
<1>5. Cardinality((A \cup B) \cup C) = Cardinality(A \cup B) + Cardinality(C)
  BY <1>1, <1>3, <1>4, Apart
<1>6. QED
  BY <1>1, <1>2, <1>3, <1>5

LEMMA FourParts ==
    ASSUME NEW S, IsFiniteSet(S), NEW A, NEW B, NEW C, NEW D, S = A \cup B \cup C \cup D,
           A \cap B = {}, A \cap C = {}, B \cap C = {}, (A \cup B \cup C) \cap D = {}
    PROVE  Cardinality(A) + Cardinality(B) + Cardinality(C) + Cardinality(D) = Cardinality(S)
<1> DEFINE T == A \cup B \cup C
<1>1. IsFiniteSet(A) /\ IsFiniteSet(B) /\ IsFiniteSet(C) /\ IsFiniteSet(D)
  BY FS_Subset
<1>2. Cardinality(A) \in Nat /\ Cardinality(B) \in Nat /\ Cardinality(C) \in Nat
      /\ Cardinality(D) \in Nat
  BY <1>1, FS_CardinalityType
<1>3. IsFiniteSet(A \cup B) /\ Cardinality(A \cup B) = Cardinality(A) + Cardinality(B)
  BY <1>1, Apart
<1>4. (A \cup B) \cap C = {} /\ T = (A \cup B) \cup C
  OBVIOUS
<1>5. IsFiniteSet(T) /\ Cardinality(T) = Cardinality(A \cup B) + Cardinality(C)
  BY <1>1, <1>3, <1>4, Apart
<1>6. S = T \cup D /\ T \cap D = {}
  OBVIOUS
<1> HIDE DEF T
<1>7. Cardinality(S) = Cardinality(T) + Cardinality(D)
  <2>1. Cardinality(T \cup D) = Cardinality(T) + Cardinality(D)
    BY ONLY <1>1, <1>5, <1>6, Apart
  <2>2. QED
    BY <1>6, <2>1
<1>8. QED
  BY <1>2, <1>3, <1>5, <1>7

\* The whole list of a flow, and what it holds.
LEMMA ListedIs ==
    ASSUME StartInv, NEW f \in Flows
    PROVE  /\ DOMAIN Listed(f) = 1 .. Len(Listed(f)) /\ Len(Listed(f)) \in Nat
           /\ Len(Listed(f)) = Cardinality(OfStatus(f, "any"))
           /\ Listed(f) \in Seq(OfStatus(f, "any"))
           /\ \A n \in DOMAIN Listed(f) : Listed(f)[n] \in OfStatus(f, "any")
           /\ \A r \in OfStatus(f, "any") : \E n \in DOMAIN Listed(f) : Listed(f)[n] = r
           /\ \A m, n \in DOMAIN Listed(f) : Listed(f)[m] = Listed(f)[n] => m = n
<1> DEFINE S    == OfStatus(f, "any")
           list == NewestFirst(S)
           N    == Cardinality(S)
<1>1. S \in SUBSET Existing /\ Listed(f) = list
  BY OfStatusExist DEF Listed, RunsOf
<1>2. /\ N \in Nat /\ list \in [1 .. N -> S] /\ Len(list) = N /\ DOMAIN list = 1 .. N
      /\ list \in Seq(S)
      /\ \A k, m \in 1 .. N : k < m => started[list[k]] > started[list[m]]
      /\ \A q \in S : \E m \in 1 .. N : list[m] = q
  BY <1>1, NewestFirstIs
<1>3. \A q \in S : started[q] \in Nat
  BY DEF StartInv, Existing, OfStatus
<1> HIDE DEF S, list, N
<1>4. ASSUME NEW m \in 1 .. N, NEW n \in 1 .. N, list[m] = list[n] PROVE m = n
  <2>1. started[list[m]] \in Nat
    BY <1>2, <1>3
  <2>2. ~ (m < n) /\ ~ (n < m)
    BY <1>2, <1>4, <2>1
  <2>3. QED
    BY <1>2, <2>2
<1>5. QED
  BY <1>1, <1>2, <1>4 DEF S, N

\* How many runs of each status there are.
LEMMA CountsAre ==
    ASSUME StartInv, NEW f \in Flows
    PROVE  /\ CountOf(f, "passed") \in Nat /\ CountOf(f, "passed") <= Len(Listed(f))
           /\ CountOf(f, "passed") + CountOf(f, "failed") + CountOf(f, "running") = Len(Listed(f))
           /\ Cardinality({n \in DOMAIN Listed(f) : run[Listed(f)[n]].status = "passed"})
                = CountOf(f, "passed")
<1> DEFINE S == OfStatus(f, "any")
           P == OfStatus(f, "passed")
           F == OfStatus(f, "failed")
           R == OfStatus(f, "running")
<1>1. S \in SUBSET Existing /\ P \in SUBSET Existing /\ F \in SUBSET Existing /\ R \in SUBSET Existing
  BY OfStatusExist
<1>2. /\ CountOf(f, "passed") = Cardinality(P) /\ CountOf(f, "failed") = Cardinality(F)
      /\ CountOf(f, "running") = Cardinality(R) /\ IsFiniteSet(S)
  BY <1>1, NewestFirstIs DEF CountOf, RunsOf
<1>3. \A r \in Existing : run[r].status \in RunStatus
  BY Types DEF StartInv, IInv, Existing, Exists
<1>4. S = P \cup F \cup R /\ P \cap F = {} /\ P \cap R = {} /\ F \cap R = {}
      /\ P = {r \in S : run[r].status = "passed"}
  BY <1>3 DEF OfStatus, RunStatus
<1>5. Len(Listed(f)) = Cardinality(S)
  BY ListedIs
<1> HIDE DEF S, P, F, R
<1>6. /\ Cardinality(P) \in Nat /\ Cardinality(F) \in Nat /\ Cardinality(R) \in Nat /\ IsFiniteSet(P)
      /\ Cardinality(P) + Cardinality(F) + Cardinality(R) = Cardinality(S)
  BY <1>2, <1>4, ThreeParts
<1>7. Cardinality({n \in DOMAIN Listed(f) : run[Listed(f)[n]].status = "passed"}) = Cardinality(P)
  <2> DEFINE list   == Listed(f)
             places == {n \in DOMAIN list : run[list[n]].status = "passed"}
             at     == [n \in places |-> list[n]]
  <2>1. /\ \A n \in DOMAIN list : list[n] \in S
        /\ \A r \in S : \E n \in DOMAIN list : list[n] = r
        /\ \A m, n \in DOMAIN list : list[m] = list[n] => m = n
    BY ListedIs DEF S
  <2> HIDE DEF list
  <2>2. at \in [places -> P]
    BY <1>4, <2>1
  <2>3. \A r \in P : \E n \in places : at[n] = r
    BY <1>4, <2>1
  <2>4. \A m, n \in places : at[m] = at[n] => m = n
    BY <2>1
  <2> HIDE DEF at, places
  <2>5. at \in Injection(places, P)
    BY <2>2, <2>4 DEF Injection, IsInjective
  <2>6. at \in Surjection(places, P)
    BY <2>2, <2>3 DEF Surjection
  <2>7. Cardinality(places) = Cardinality(P)
    BY <1>6, <2>5, <2>6, FS_Injection
  <2>8. QED
    BY <2>7 DEF places, list
<1>8. QED
  BY <1>2, <1>5, <1>6, <1>7

LEMMA Quotients ==
    ASSUME NEW n \in Nat, NEW size \in Nat \ {0}
    PROVE  /\ n \div size \in Nat
           /\ (n \div size) * size <= n
           /\ n < (n \div size) * size + size
OBVIOUS

LEMMA Times ==
    ASSUME NEW a \in Nat, NEW b \in Nat, NEW size \in Nat, a <= b
    PROVE  a * size <= b * size
OBVIOUS

\* A page ends where the next begins, the last one with the list.
LEMMA PageEnds ==
    ASSUME NEW N \in Nat, NEW size \in Nat \ {0}, NEW page \in 1 .. NumPages(N, size)
    PROVE  /\ NumPages(N, size) \in Nat /\ Page(page, N, size) = page
           /\ (page - 1) * size \in Nat /\ (page - 1) * size <= N
           /\ page * size = (page - 1) * size + size
           /\ IF page < NumPages(N, size) THEN page * size < N ELSE ~ (page * size < N)
<1> DEFINE pages == NumPages(N, size)
           whole == (N + size - 1) \div size
<1>1. N = 0 => pages = 1
  BY DEF NumPages
<1>2. N # 0 => pages = whole
  BY DEF NumPages
<1>3. whole \in Nat /\ whole * size <= N + size - 1 /\ N + size - 1 < whole * size + size
  <2>1. N + size - 1 \in Nat
    OBVIOUS
  <2>2. QED
    BY <2>1, Quotients
<1>4. pages \in Nat
  BY <1>1, <1>2, <1>3
<1>5. Page(page, N, size) = page
  BY DEF Page
<1>6. page \in Nat /\ page - 1 \in Nat /\ page <= pages /\ page > 0
  BY <1>4
<1>7. (page - 1) * size \in Nat /\ page * size = (page - 1) * size + size
  BY <1>6
<1>8. CASE N = 0
  <2>1. page = 1 /\ pages = 1
    BY <1>1, <1>6, <1>8
  <2>2. (page - 1) * size = 0
    BY <2>1
  <2>3. QED
    BY <1>4, <1>5, <1>7, <1>8, <2>1, <2>2
<1>9. CASE N # 0
  <2>1. page * size <= pages * size
    BY <1>4, <1>6, Times
  <2>2. pages * size <= N + size - 1 /\ N + size - 1 < pages * size + size /\ pages * size \in Nat
    BY <1>2, <1>3, <1>9
  <2>3. page * size \in Nat
    BY <1>6
  <2> HIDE DEF pages, whole
  <2>4. (page - 1) * size <= N
    BY <1>7, <2>1, <2>2, <2>3
  <2>5. CASE page < pages
    <3>1. (page + 1) * size <= pages * size /\ (page + 1) * size = page * size + size
      <4>1. page + 1 \in Nat /\ page + 1 <= pages /\ size \in Nat
        BY <1>4, <1>6, <2>5
      <4>2. (page + 1) * size <= pages * size
        BY ONLY <1>4, <4>1, Times
      <4>3. (page + 1) * size = page * size + size
        BY <1>6
      <4>4. QED
        BY <4>2, <4>3
    <3>2. page * size < N
      BY <2>2, <2>3, <3>1
    <3>3. QED
      BY <1>4, <1>5, <1>7, <2>4, <2>5, <3>2 DEF pages
  <2>6. CASE ~ (page < pages)
    <3>1. page = pages
      BY <1>4, <1>6, <2>6
    <3>2. ~ (page * size < N)
      BY <2>2, <2>3, <3>1
    <3>3. QED
      BY <1>4, <1>5, <1>7, <2>4, <2>6, <3>2 DEF pages
  <2>7. QED
    BY <2>5, <2>6
<1>10. QED
  BY <1>8, <1>9

\* Rounded to tenths of a percent, all have passed if one in 2000 has not.
LEMMA PassRateIs ==
    ASSUME NEW N \in Nat \ {0}, NEW passed \in Nat, passed <= N
    PROVE  (2000 * passed + N) \div (2 * N) = 1000 <=> 2000 * (N - passed) <= N
<1> DEFINE n    == 2000 * passed + N
           size == 2 * N
           q    == n \div size
<1>1. n \in Nat /\ size \in Nat \ {0}
  OBVIOUS
<1>2. size = 2 * N /\ n = 2000 * passed + N
  OBVIOUS
<1> HIDE DEF n, size
<1>3. q \in Nat /\ q * size <= n /\ n < q * size + size
  BY <1>1, Quotients
<1> HIDE DEF q
<1>4. q = 1000 => 2000 * (N - passed) <= N
  BY <1>2, <1>3
<1>5. ASSUME 2000 * (N - passed) <= N PROVE q = 1000
  <2>1. ~ (q <= 999)
    <3>1. ASSUME q <= 999 PROVE FALSE
      <4>1. q * size <= 999 * size
        BY <1>1, <1>3, <3>1, Times
      <4>2. q * size \in Nat
        BY <1>1, <1>3
      <4>3. QED
        BY <1>1, <1>2, <1>3, <1>5, <4>1, <4>2
    <3>2. QED
      BY <3>1
  <2>2. ~ (1001 <= q)
    <3>1. ASSUME 1001 <= q PROVE FALSE
      <4>1. 1001 * size <= q * size
        BY <1>1, <1>3, <3>1, Times
      <4>2. q * size \in Nat
        BY <1>1, <1>3
      <4>3. QED
        BY <1>1, <1>2, <1>3, <1>5, <4>1, <4>2
    <3>2. QED
      BY <3>1
  <2>3. QED
    BY <1>3, <2>1, <2>2
<1>6. QED
  BY <1>4, <1>5 DEF n, size, q

LEMMA PagesAre ==
    ASSUME StartInv, NEW f \in Flows, NEW size \in Nat \ {0},
           NEW page \in 1 .. NumPages(Len(Listed(f)), size),
           NEW shown, shown = FlowRuns(f, "any", page, size)
    PROVE  /\ shown.page = page
           /\ Len(shown.runs) = IF shown.has_next THEN size ELSE Len(Listed(f)) - (page - 1) * size
           /\ \A n \in DOMAIN shown.runs : shown.runs[n] = Listed(f)[(page - 1) * size + n]
           /\ shown.pass_rate = 1000 <=>
                Listed(f) # <<>> /\ 2000 * (Len(Listed(f)) - CountOf(f, "passed")) <= Len(Listed(f))
<1> DEFINE list   == RunsOf(f, "any")
           N      == Len(list)
           S      == OfStatus(f, "any")
           before == (page - 1) * size
           next   == page * size
           last   == IF next < N THEN next ELSE N
           passed == CountOf(f, "passed")
<1>1. N \in Nat /\ DOMAIN list = 1 .. N /\ list \in Seq(S) /\ \A n \in 1 .. N : list[n] \in S
  BY ListedIs DEF Listed
<1>2. /\ Page(page, N, size) = page /\ before \in Nat /\ before <= N /\ NumPages(N, size) \in Nat
      /\ next = before + size
      /\ IF page < NumPages(N, size) THEN next < N ELSE ~ (next < N)
  BY <1>1, PageEnds DEF Listed
<1>3. passed \in Nat /\ passed <= N
      /\ Cardinality({n \in DOMAIN list : run[list[n]].status = "passed"}) = passed
  BY CountsAre DEF Listed
<1>4. /\ shown.page = page /\ (shown.has_next <=> page < NumPages(N, size))
      /\ shown.runs = SubSeq(list, before + 1, last)
      /\ shown.pass_rate = IF list = <<>> THEN 0 ELSE (2000 * passed + N) \div (2 * N)
  <2> DEFINE current == Page(page, N, size)
             count   == Cardinality({n \in DOMAIN list : run[list[n]].status = "passed"})
  <2>1. shown = [runs |-> SubSeq(list, (current - 1) * size + 1,
                                 IF current * size < N THEN current * size ELSE N),
                 page |-> current, has_next |-> current < NumPages(N, size), total |-> N,
                 pass_rate |-> IF list = <<>> THEN 0 ELSE (2000 * count + N) \div (2 * N)]
    BY DEF FlowRuns
  <2>2. current = page /\ count = passed
    BY <1>2, <1>3
  <2> DEFINE more == page < NumPages(N, size)
             rate == IF list = <<>> THEN 0 ELSE (2000 * passed + N) \div (2 * N)
  <2> HIDE DEF list, N, current, count, passed
  <2>3. shown = [runs |-> SubSeq(list, before + 1, last), page |-> page,
                 has_next |-> more, total |-> N, pass_rate |-> rate]
    BY <2>1, <2>2
  <2> HIDE DEF before, next, last, more, rate
  <2>4. /\ shown.page = page /\ shown.runs = SubSeq(list, before + 1, last)
        /\ shown.has_next = more /\ shown.pass_rate = rate
    BY <2>3
  <2>5. QED
    BY <2>4 DEF more, rate
<1> HIDE DEF before, next, N, list, S, passed
<1>5. /\ last \in Nat /\ last <= N /\ before <= last
      /\ last - before = IF shown.has_next THEN size ELSE N - before
  <2>1. next \in Nat /\ (shown.has_next <=> next < N)
    BY <1>2, <1>4
  <2>2. QED
    BY <1>1, <1>2, <2>1
<1> HIDE DEF last
<1>6. Len(shown.runs) = last - before /\ \A n \in DOMAIN shown.runs : shown.runs[n] = list[before + n]
  <2>1. CASE before = last
    <3>1. before + 1 > last
      BY <1>2, <1>5, <2>1
    <3>2. SubSeq(list, before + 1, last) = <<>>
      BY <1>2, <1>5, <3>1, SubSeqEmpty
    <3>3. Len(<<>>) = 0 /\ DOMAIN <<>> = {}
      BY ONLY EmptySeq
    <3>4. shown.runs = <<>>
      BY ONLY <1>4, <3>2
    <3>5. last - before = 0
      BY <1>2, <1>5, <2>1
    <3>6. QED
      BY <3>3, <3>4, <3>5
  <2>2. CASE before # last
    <3> DEFINE from == before + 1
               part == SubSeq(list, from, last)
    <3>1. from \in Nat /\ from <= last
      BY <1>2, <1>5, <2>2
    <3>2. \A i \in from .. last : list[i] \in S
      BY <1>1, <1>2, <1>5
    <3> HIDE DEF from
    <3>3. /\ part \in Seq(S) /\ Len(part) = last - from + 1
          /\ DOMAIN part = 1 .. last - from + 1 /\ \A i \in DOMAIN part : part[i] = list[from + i - 1]
      BY <1>5, <3>1, <3>2, SubSeqProperties
    <3> HIDE DEF part
    <3>4. ASSUME NEW n \in DOMAIN part PROVE part[n] = list[before + n]
      <4>1. from + n - 1 = before + n
        BY <1>2, <1>5, <3>1, <3>3 DEF from
      <4>2. QED
        BY <3>3, <4>1
    <3>5. shown.runs = part
      BY <1>4 DEF part, from
    <3>6. last - from + 1 = last - before
      BY <1>2, <1>5 DEF from
    <3>7. QED
      BY <3>3, <3>4, <3>5, <3>6
  <2>3. QED
    BY <2>1, <2>2
<1>7. shown.pass_rate = 1000 <=> list # <<>> /\ 2000 * (N - passed) <= N
  <2>1. list = <<>> <=> N = 0
    BY <1>1, EmptySeq DEF N
  <2>2. CASE N = 0
    BY <1>4, <2>1, <2>2
  <2>3. CASE N # 0
    <3>1. (2000 * passed + N) \div (2 * N) = 1000 <=> 2000 * (N - passed) <= N
      BY <1>1, <1>3, <2>3, PassRateIs
    <3>2. QED
      BY <1>4, <2>1, <2>3, <3>1
  <2>4. QED
    BY <2>2, <2>3
<1>8. QED
  <2>1. Len(shown.runs) = IF shown.has_next THEN size ELSE N - before
    BY <1>5, <1>6
  <2>2. list = Listed(f)
    BY DEF list, Listed
  <2>3. Len(shown.runs) = IF shown.has_next THEN size ELSE Len(Listed(f)) - (page - 1) * size
    BY <2>1, <2>2 DEF N, before
  <2>4. \A n \in DOMAIN shown.runs : shown.runs[n] = Listed(f)[(page - 1) * size + n]
    BY <1>6, <2>2 DEF before
  <2>5. shown.pass_rate = 1000 <=>
          Listed(f) # <<>> /\ 2000 * (Len(Listed(f)) - CountOf(f, "passed")) <= Len(Listed(f))
    BY <1>7, <2>2 DEF N, passed
  <2>6. QED
    BY <1>4, <2>3, <2>4, <2>5

\* A flow has run last with one verdict, or has no run.
LEMMA OverviewIs ==
    ASSUME StartInv
    PROVE  Cardinality(Overview.healthy) + Cardinality(Overview.failing)
             + Cardinality(Overview.running) + Cardinality(Overview.not_run) = Overview.total
<1> DEFINE H == {f \in Registered : LatestIs(f, "passed")}
           F == {f \in Registered : LatestIs(f, "failed")}
           R == {f \in Registered : LatestIs(f, "running")}
           N == {f \in Registered : ~flow[f].stored \/ Listed(f) = <<>>}
<1>1. ASSUME NEW f \in Registered
      PROVE  /\ Listed(f) = <<>> \/ run[Listed(f)[1]].status \in RunStatus
             /\ Listed(f) # <<>> => flow[f].stored
  <2>1. f \in Flows
    BY StatusAssumption
  <2>2. CASE Listed(f) = <<>>
    BY <2>2
  <2>3. CASE Listed(f) # <<>>
    <3>1. Len(Listed(f)) \in Nat \ {0}
      BY <2>1, <2>3, ListedIs, EmptySeq
    <3>2. Listed(f)[1] \in OfStatus(f, "any")
      BY <2>1, <3>1, ListedIs
    <3>3. PICK r \in Existing : r = Listed(f)[1] /\ run[r].flow = f
      BY <3>2 DEF OfStatus
    <3>4. run[r].status \in RunStatus /\ flow[run[r].flow].stored
      BY <3>3, Types DEF StartInv, IInv, Existing, Exists
    <3>5. QED
      BY <3>3, <3>4
  <2>4. QED
    BY <2>2, <2>3
<1>2. Registered = H \cup F \cup R \cup N
  BY <1>1 DEF LatestIs, RunStatus
<1>3. H \cap F = {} /\ H \cap R = {} /\ F \cap R = {} /\ (H \cup F \cup R) \cap N = {}
  BY <1>1 DEF LatestIs
<1>4. Overview.healthy = H /\ Overview.failing = F /\ Overview.running = R /\ Overview.not_run = N
      /\ Overview.total = Cardinality(Registered)
  BY DEF Overview
<1> HIDE DEF H, F, R, N
<1>5. Cardinality(H) + Cardinality(F) + Cardinality(R) + Cardinality(N) = Cardinality(Registered)
  BY <1>2, <1>3, FourParts, StatusAssumption
<1>6. QED
  BY <1>4, <1>5

LEMMA AllAreListed ==
    ASSUME StartInv
    PROVE  UNION {Range(Listed(f)) : f \in Flows} = Existing
<1>1. ASSUME NEW f \in Flows, NEW r \in Range(Listed(f)) PROVE r \in Existing
  <2>1. PICK n \in DOMAIN Listed(f) : r = Listed(f)[n]
    BY DEF Range
  <2>2. r \in OfStatus(f, "any")
    BY <2>1, ListedIs
  <2>3. QED
    BY <2>2 DEF OfStatus
<1>2. ASSUME NEW r \in Existing PROVE \E f \in Flows : r \in Range(Listed(f))
  <2>1. run[r].flow \in Flows /\ r \in OfStatus(run[r].flow, "any")
    BY DEF StartInv, OfStatus
  <2>2. r \in Range(Listed(run[r].flow))
    BY <2>1, ListedIs DEF Range
  <2>3. QED
    BY <2>1, <2>2
<1>3. QED
  BY <1>1, <1>2

LEMMA ListsAgreeIf == StartInv /\ Inconsistent = {} => ListsAgree
<1> SUFFICES ASSUME StartInv, Inconsistent = {} PROVE ListsAgree
  OBVIOUS
<1>1. RunsChecked = Cardinality(UNION {Range(Listed(f)) : f \in Flows})
  BY AllAreListed DEF RunsChecked
<1>2. ASSUME NEW f \in Flows
      PROVE  /\ CountOf(f, "passed") + CountOf(f, "failed") + CountOf(f, "running") = Len(Listed(f))
             /\ ~flow[f].stored => Listed(f) = <<>>
  <2>1. ASSUME Listed(f) # <<>> PROVE flow[f].stored
    <3>1. Len(Listed(f)) \in Nat \ {0}
      BY <2>1, ListedIs, EmptySeq
    <3>2. Listed(f)[1] \in OfStatus(f, "any")
      BY <3>1, ListedIs
    <3>3. QED
      BY <3>2 DEF OfStatus, StartInv
  <2>2. QED
    BY <2>1, CountsAre
<1>3. ASSUME NEW f \in Flows, NEW size \in 1 .. Len(Listed(f)) + 1,
             NEW page \in 1 .. NumPages(Len(Listed(f)), size)
      PROVE  PageAgrees(f, size, page)
  <2>1. size \in Nat \ {0}
    BY <1>3, ListedIs
  <2>2. PICK shown : shown = FlowRuns(f, "any", page, size)
    OBVIOUS
  <2>3. /\ shown.page = page
        /\ Len(shown.runs) = IF shown.has_next THEN size ELSE Len(Listed(f)) - (page - 1) * size
        /\ \A n \in DOMAIN shown.runs : shown.runs[n] = Listed(f)[(page - 1) * size + n]
        /\ shown.pass_rate = 1000 <=>
             Listed(f) # <<>> /\ 2000 * (Len(Listed(f)) - CountOf(f, "passed")) <= Len(Listed(f))
    BY <1>3, <2>1, <2>2, PagesAre
  <2>4. QED
    BY <2>2, <2>3 DEF PageAgrees
<1>4. ASSUME NEW f \in Flows, NEW n \in DOMAIN Listed(f)
      PROVE  /\ PreviousRun(Listed(f)[n]) = IF n = Len(Listed(f)) THEN "none" ELSE Listed(f)[n + 1]
             /\ NextRun(Listed(f)[n]) = IF n = 1 THEN "none" ELSE Listed(f)[n - 1]
  BY <1>4, NeighboursAre, Zenon
<1>5. \A f \in Flows : ListAgrees(f)
  BY <1>2, <1>3, <1>4 DEF ListAgrees
<1>6. QED
  BY <1>1, <1>5, OverviewIs DEF ListsAgree

\* Whatever begins, ends and is deleted, the views of the flow runs do not
\* contradict each other: the overview, the lists with their pages and rates,
\* the walk from run to run, the live view, INV-F and the cached health.
THEOREM ViewsAgree == StatusSpec => []FlowViewsAgree
<1>1. StatusSpec => []StartInv
  BY InitStartInv, NextStartInv, PTL DEF StatusSpec
<1>2. StartInv /\ VerdictsAreShown => ListsAgree
  BY ListsAgreeIf DEF VerdictsAreShown
<1>3. StartInv /\ VerdictsAreShown /\ HealthIsOfOneRun => FlowViewsAgree
  BY <1>2 DEF FlowViewsAgree
<1>4. QED
  BY <1>1, <1>3, VerdictsShown, HealthOfOneRun, PTL

-----------------------------------------------------------------------------
(***************************************************************************)
(* Scenarios.  Ran is how many calls a run has made before teardown: they  *)
(* are the beginning of the body, and stop short only where one raised.    *)
(* What has been torn down so far is the end of what was set up.           *)
(***************************************************************************)
Names    == STRING \cup {"setup", "execute", "teardown"}
Calls    == [name : Names, ending : Endings]
Outcomes == {"passed", "failed"}

ScenarioTypes ==
    scenario \in [at     : {"fixtures", "executing", "checking", "ending", "releasing",
                            "passed", "failed", "interrupted"},
                  ready  : Nat, error : {"none", "raised"}, checks : Seq(Outcomes),
                  torn   : Nat, log : Seq(Calls)]

\* The first m calls are the beginning of the body, of which r fixtures.
InOrder(log, r, m) ==
    /\ r <= m /\ r <= Len(Fixtures) /\ m <= Len(Body) /\ m <= Len(log)
    /\ \A k \in 1 .. m : log[k].name = Body[k]
    /\ \A k \in 1 .. r : log[k].ending = "returned"

\* Every phase went through, and so did every assertion that holds.
WentThrough(log, checks, m) ==
    /\ m = Len(Fixtures) + 2 + Len(checks) /\ m <= Len(log)
    /\ \A k \in 1 .. Len(Fixtures) + 2 : log[k].ending = "returned"
    /\ \A k \in 1 .. Len(checks) :
         checks[k] = "passed" => log[Len(Fixtures) + 2 + k].ending = "returned"

\* After m calls came teardown, and those of the t fixtures set up last.
Released(log, r, t, m) ==
    /\ t <= r /\ Len(log) = m + 1 + t /\ log[m + 1].name = "teardown"
    /\ \A k \in 1 .. t : log[m + 1 + k].name = Fixtures[r + 1 - k]

Ran == IF scenario.at \in {"releasing", "passed", "failed"}
       THEN Len(scenario.log) - 1 - scenario.torn ELSE Len(scenario.log)

Stage ==
    /\ InOrder(scenario.log, scenario.ready, Ran)
    /\ scenario.at = "fixtures" =>
         Ran = scenario.ready /\ scenario.error = "none" /\ scenario.checks = <<>>
    /\ scenario.at = "executing" =>
         /\ scenario.ready = Len(Fixtures) /\ Ran = Len(Fixtures) + 1
         /\ scenario.error = "none" /\ scenario.checks = <<>>
         /\ scenario.log[Ran].ending = "returned"
    /\ scenario.at = "checking" =>
         /\ scenario.ready = Len(Fixtures) /\ scenario.error = "none"
         /\ WentThrough(scenario.log, scenario.checks, Ran)
         /\ Len(scenario.checks) <= Len(Assertions)

Outcome ==
    scenario.at \in {"ending", "releasing", "passed", "failed"} =>
        /\ scenario.ready < Len(Fixtures) =>
             scenario.error = "raised" /\ Ran = scenario.ready + 1
        /\ scenario.error = "raised" => Ran > 0 /\ scenario.log[Ran].ending = "raised"
        /\ scenario.error = "none" =>
             /\ WentThrough(scenario.log, scenario.checks, Ran)
             /\ Len(scenario.checks) = Len(Assertions)

Releases ==
    IF scenario.at \in {"releasing", "passed", "failed"}
    THEN Released(scenario.log, scenario.ready, scenario.torn, Ran)
    ELSE scenario.torn = 0

Judged ==
    /\ scenario.at \in {"passed", "failed"} => scenario.torn = scenario.ready
    /\ scenario.at = "passed" =>
         /\ scenario.error = "none"
         /\ \A k \in DOMAIN scenario.checks : scenario.checks[k] = "passed"
    /\ scenario.at = "failed" =>
         \/ scenario.error = "raised"
         \/ \E k \in DOMAIN scenario.checks : scenario.checks[k] = "failed"

ScenarioInv ==
    /\ ScenarioTypes
    /\ scenario.at # "interrupted" => Stage /\ Outcome /\ Releases /\ Judged

LEMMA BodyIs ==
    /\ Len(Fixtures) \in Nat /\ Len(Assertions) \in Nat
    /\ Body \in Seq(Names) /\ Len(Body) = Len(Fixtures) + 2 + Len(Assertions)
    /\ \A k \in 1 .. Len(Fixtures) : Body[k] = Fixtures[k] /\ Fixtures[k] \in Names
    /\ Body[Len(Fixtures) + 1] = "setup" /\ Body[Len(Fixtures) + 2] = "execute"
    /\ \A k \in 1 .. Len(Assertions) :
         Body[Len(Fixtures) + 2 + k] = Assertions[k] /\ Assertions[k] \in Names
<1>1. Fixtures \in Seq(Names) /\ Assertions \in Seq(Names) /\ <<"setup", "execute">> \in Seq(Names)
  BY ScenarioAssumption DEF Names
<1> DEFINE first == Fixtures \o <<"setup", "execute">>
<1>2. /\ first \in Seq(Names) /\ Len(first) = Len(Fixtures) + 2
      /\ \A k \in 1 .. Len(Fixtures) : first[k] = Fixtures[k]
      /\ first[Len(Fixtures) + 1] = "setup" /\ first[Len(Fixtures) + 2] = "execute"
  BY <1>1
<1> HIDE DEF first
<1>3. /\ first \o Assertions \in Seq(Names)
      /\ Len(first \o Assertions) = Len(first) + Len(Assertions)
      /\ \A k \in 1 .. Len(first) : (first \o Assertions)[k] = first[k]
      /\ \A k \in 1 .. Len(Assertions) : (first \o Assertions)[Len(first) + k] = Assertions[k]
  BY SMTT(30), <1>1, <1>2
<1>4. Body = first \o Assertions
  BY DEF first, Body
<1>5. \A k \in 1 .. Len(Fixtures) : Fixtures[k] \in Names
  BY <1>1
<1>6. \A k \in 1 .. Len(Assertions) : Assertions[k] \in Names
  BY <1>1
<1>7. Len(Fixtures) \in Nat /\ Len(Assertions) \in Nat
  BY <1>1
<1>8. QED
  BY <1>2, <1>3, <1>4, <1>5, <1>6, <1>7

\* A call is added to the log, which keeps what it holds.
LEMMA LogGrows ==
    ASSUME NEW log \in Seq(Calls), NEW call \in Calls, NEW new, new = Append(log, call)
    PROVE  /\ new \in Seq(Calls) /\ Len(new) = Len(log) + 1 /\ Len(log) \in Nat
           /\ \A k \in 1 .. Len(log) : new[k] = log[k]
           /\ new[Len(log) + 1] = call
OBVIOUS

LEMMA LogKeepsOrder ==
    ASSUME NEW log \in Seq(Calls), NEW call \in Calls, NEW new, new = Append(log, call),
           NEW r \in Nat, NEW m \in Nat, InOrder(log, r, m)
    PROVE  InOrder(new, r, m)
<1>1. /\ Len(new) = Len(log) + 1 /\ Len(log) \in Nat
      /\ \A k \in 1 .. Len(log) : new[k] = log[k]
      /\ Len(Fixtures) \in Nat
  BY LogGrows, BodyIs
<1>2. QED
  BY <1>1, BodyIs DEF InOrder

LEMMA LogKeepsChecks ==
    ASSUME NEW log \in Seq(Calls), NEW call \in Calls, NEW new, new = Append(log, call),
           NEW m \in Nat, NEW checks \in Seq(Outcomes), WentThrough(log, checks, m)
    PROVE  WentThrough(new, checks, m)
<1>1. /\ Len(new) = Len(log) + 1 /\ Len(log) \in Nat /\ Len(checks) \in Nat
      /\ \A k \in 1 .. Len(log) : new[k] = log[k]
      /\ Len(Fixtures) \in Nat
  BY LogGrows, BodyIs
<1>2. \A k \in 1 .. Len(checks) : Len(Fixtures) + 2 + k \in 1 .. Len(log)
  BY <1>1 DEF WentThrough
<1>3. \A k \in 1 .. Len(Fixtures) + 2 : k \in 1 .. Len(log)
  BY <1>1 DEF WentThrough
<1>4. \A k \in 1 .. Len(checks) : new[Len(Fixtures) + 2 + k] = log[Len(Fixtures) + 2 + k]
  BY <1>1, <1>2
<1>5. \A k \in 1 .. Len(Fixtures) + 2 : new[k] = log[k]
  BY <1>1, <1>3
<1>6. m <= Len(new)
  BY <1>1 DEF WentThrough
<1>7. QED
  BY <1>4, <1>5, <1>6 DEF WentThrough

\* The next call of the body.
LEMMA NextCall ==
    ASSUME NEW log \in Seq(Calls), NEW call \in Calls, NEW new, new = Append(log, call),
           NEW r \in Nat, NEW m \in Nat, m = Len(log), InOrder(log, r, m),
           m < Len(Body), call.name = Body[m + 1]
    PROVE  /\ InOrder(new, r, m + 1)
           /\ r = m /\ r < Len(Fixtures) /\ call.ending = "returned" => InOrder(new, r + 1, m + 1)
<1>1. /\ Len(new) = m + 1 /\ \A k \in 1 .. m : new[k] = log[k]
      /\ new[m + 1] = call /\ Len(Fixtures) \in Nat /\ Len(Body) \in Nat
  BY LogGrows, BodyIs
<1>2. \A k \in 1 .. m + 1 : new[k].name = Body[k]
  <2>1. \A k \in 1 .. m : new[k].name = Body[k]
    BY <1>1 DEF InOrder
  <2>2. \A k \in 1 .. m + 1 : k \in 1 .. m \/ k = m + 1
    OBVIOUS
  <2>3. QED
    BY <1>1, <2>1, <2>2
<1>3. r <= m /\ \A k \in 1 .. r : new[k].ending = "returned"
  BY <1>1 DEF InOrder
<1>4. InOrder(new, r, m + 1)
  BY <1>1, <1>2, <1>3 DEF InOrder
<1>5. ASSUME r = m, r < Len(Fixtures), call.ending = "returned" PROVE InOrder(new, r + 1, m + 1)
  <2>1. \A k \in 1 .. r + 1 : k \in 1 .. r \/ k = m + 1
    BY <1>5
  <2>2. \A k \in 1 .. r + 1 : new[k].ending = "returned"
    BY <1>1, <1>3, <1>5, <2>1
  <2>3. QED
    BY <1>1, <1>2, <1>5, <2>2 DEF InOrder
<1>6. QED
  BY <1>4, <1>5

LEMMA NextCheck ==
    ASSUME NEW log \in Seq(Calls), NEW call \in Calls, NEW new, new = Append(log, call),
           NEW checks \in Seq(Outcomes), NEW outcome \in Outcomes,
           NEW newChecks, newChecks = Append(checks, outcome),
           outcome = "passed" => call.ending = "returned",
           NEW m \in Nat, m = Len(log), WentThrough(log, checks, m)
    PROVE  /\ newChecks \in Seq(Outcomes) /\ Len(newChecks) = Len(checks) + 1
           /\ WentThrough(new, newChecks, m + 1)
<1>1. /\ Len(new) = m + 1 /\ \A k \in 1 .. m : new[k] = log[k] /\ new[m + 1] = call
      /\ Len(Fixtures) \in Nat
  BY LogGrows, BodyIs
<1>2. /\ newChecks \in Seq(Outcomes) /\ Len(newChecks) = Len(checks) + 1 /\ Len(checks) \in Nat
      /\ \A k \in 1 .. Len(checks) : newChecks[k] = checks[k]
      /\ newChecks[Len(checks) + 1] = outcome
  OBVIOUS
<1> DEFINE C == Len(checks)  F == Len(Fixtures)
<1>3. m = F + 2 + C /\ F \in Nat /\ C \in Nat
  BY <1>1, <1>2 DEF WentThrough
<1>4. \A k \in 1 .. F + 2 : new[k] = log[k]
  BY <1>1, <1>3
<1>5. \A k \in 1 .. F + 2 : new[k].ending = "returned"
  BY <1>4 DEF WentThrough
<1>6. \A k \in 1 .. C : new[F + 2 + k] = log[F + 2 + k]
  BY <1>1, <1>3
<1>7. \A k \in 1 .. C : newChecks[k] = "passed" => new[F + 2 + k].ending = "returned"
  BY <1>2, <1>6 DEF WentThrough
<1>8. F + 2 + (C + 1) = m + 1
  BY <1>3
<1>9. \A k \in 1 .. C + 1 : k \in 1 .. C \/ k = C + 1
  BY <1>3
<1>10. newChecks[C + 1] = "passed" => new[F + 2 + (C + 1)].ending = "returned"
  BY <1>1, <1>2, <1>8
<1> HIDE DEF C, F
<1>11. \A k \in 1 .. C + 1 : newChecks[k] = "passed" => new[F + 2 + k].ending = "returned"
  BY <1>7, <1>9, <1>10
<1>12. Len(newChecks) = C + 1
  BY <1>2 DEF C
<1>13. m + 1 <= Len(new)
  BY <1>1
<1>14. WentThrough(new, newChecks, m + 1)
  BY <1>5, <1>8, <1>11, <1>12, <1>13 DEF WentThrough, F
<1>15. QED
  BY <1>2, <1>14

LEMMA NextRelease ==
    ASSUME NEW log \in Seq(Calls), NEW call \in Calls, NEW new, new = Append(log, call),
           NEW r \in Nat, NEW t \in Nat, NEW m \in Nat, t < r,
           Released(log, r, t, m), call.name = Fixtures[r - t]
    PROVE  Released(new, r, t + 1, m)
<1>0. Len(log) = m + 1 + t /\ m + 1 + t + 1 = m + 1 + (t + 1)
  BY DEF Released
<1>1. /\ Len(new) = m + 1 + (t + 1)
      /\ \A k \in 1 .. m + 1 + t : new[k] = log[k]
      /\ new[m + 1 + (t + 1)] = call
  BY <1>0, LogGrows
<1>2. new[m + 1].name = "teardown"
  BY <1>1 DEF Released
<1>3. \A k \in 1 .. t : new[m + 1 + k] = log[m + 1 + k]
  BY <1>1
<1>4. \A k \in 1 .. t : new[m + 1 + k].name = Fixtures[r + 1 - k]
  BY <1>3 DEF Released
<1>5. r + 1 - (t + 1) = r - t
  OBVIOUS
<1>6. \A k \in 1 .. t + 1 : k \in 1 .. t \/ k = t + 1
  OBVIOUS
<1>7. \A k \in 1 .. t + 1 : new[m + 1 + k].name = Fixtures[r + 1 - k]
  BY <1>1, <1>4, <1>5, <1>6
<1>8. t + 1 <= r
  OBVIOUS
<1>9. QED
  BY <1>1, <1>2, <1>7, <1>8 DEF Released

LEMMA ScenarioBegins == ScenarioInit => ScenarioInv
BY BodyIs DEF ScenarioInit, NoScenario, ScenarioInv, ScenarioTypes, InOrder, Ran, Stage,
   Outcome, Releases, Judged

LEMMA ScenarioSteps == ScenarioInv /\ [RunScenario]_scenario => ScenarioInv'
<1> SUFFICES ASSUME ScenarioInv, [RunScenario]_scenario PROVE ScenarioInv'
  OBVIOUS
<1> USE DEF Endings, Error, GoesOn
<1>0. /\ scenario.log \in Seq(Calls) /\ Len(scenario.log) \in Nat
      /\ scenario.checks \in Seq(Outcomes) /\ Len(scenario.checks) \in Nat
      /\ scenario.ready \in Nat /\ scenario.torn \in Nat
      /\ scenario.error \in {"none", "raised"} /\ ScenarioTypes
      /\ Len(Fixtures) \in Nat /\ Len(Assertions) \in Nat
      /\ Len(Body) = Len(Fixtures) + 2 + Len(Assertions)
  BY BodyIs DEF ScenarioInv, ScenarioTypes
<1>1. ASSUME NEW ending \in Endings, SetUpFixture(ending) PROVE ScenarioInv'
  <2> DEFINE call == [name |-> Fixtures[scenario.ready + 1], ending |-> ending]
             new == Append(scenario.log, call)  m == Len(scenario.log)
  <2>1. /\ scenario.at = "fixtures" /\ Ran = m /\ m = scenario.ready /\ scenario.ready < Len(Fixtures) /\ scenario.torn = 0
        /\ scenario.error = "none" /\ scenario.checks = <<>>
        /\ InOrder(scenario.log, scenario.ready, m)
    BY <1>0, <1>1 DEF SetUpFixture, ScenarioInv, Stage, Ran, Releases
  <2>2. m < Len(Body) /\ Fixtures[scenario.ready + 1] = Body[m + 1] /\ Fixtures[scenario.ready + 1] \in Names /\ m \in Nat
    BY <1>0, <2>1, BodyIs DEF Names
  <2>3. call \in Calls /\ call.name = Body[m + 1] /\ call.ending = ending
    BY <2>2 DEF Calls
  <2>4. scenario' = [scenario EXCEPT !.ready = IF ending = "returned" THEN scenario.ready + 1
                                                                      ELSE scenario.ready,
                                     !.error = Error(ending),
                                     !.at = GoesOn(ending, "fixtures"), !.log = new]
    BY <1>0, <1>1 DEF SetUpFixture, Call, ScenarioTypes
  <2> HIDE DEF call
  <2>5. /\ InOrder(new, scenario.ready, m + 1)
        /\ scenario.ready = m /\ scenario.ready < Len(Fixtures) /\ ending = "returned"
             => InOrder(new, scenario.ready + 1, m + 1)
    BY <1>0, <2>1, <2>2, <2>3, NextCall
  <2>6. /\ new \in Seq(Calls) /\ Len(new) = m + 1 /\ new[m + 1].ending = ending
        /\ \A k \in 1 .. m : new[k] = scenario.log[k]
    BY <1>0, <2>3, LogGrows
  <2> HIDE DEF new
  <2>7. ScenarioTypes'
    <3>1. scenario.ready + 1 \in Nat /\ Error(ending) \in {"none", "raised"}
      BY <1>0
    <3>2. QED
      BY <1>0, <2>4, <2>6, <3>1 DEF ScenarioTypes
  <2>8. /\ scenario'.log = new /\ scenario'.at = GoesOn(ending, "fixtures")
        /\ scenario'.ready = (IF ending = "returned" THEN m + 1 ELSE m) /\ scenario'.error = Error(ending)
        /\ scenario'.torn = 0 /\ scenario'.checks = <<>>
    BY <1>0, <2>1, <2>4 DEF ScenarioTypes
  <2>9. Ran' = m + 1
    BY <2>6, <2>8 DEF Ran
  <2>10. Stage'
    BY <2>1, <2>5, <2>8, <2>9 DEF Stage
  <2>11. Outcome' /\ Releases' /\ Judged'
    BY <1>0, <2>1, <2>2, <2>6, <2>8, <2>9 DEF Outcome, Releases, Judged
  <2>12. QED
    BY <2>7, <2>10, <2>11 DEF ScenarioInv
<1>2. ASSUME NEW ending \in Endings, SetUp(ending) PROVE ScenarioInv'
  <2> DEFINE call == [name |-> "setup", ending |-> ending]
             new == Append(scenario.log, call)  m == Len(scenario.log)
  <2>1. /\ scenario.at = "fixtures" /\ Ran = m /\ scenario.ready = Len(Fixtures) /\ m = Len(Fixtures) /\ scenario.torn = 0
        /\ scenario.error = "none" /\ scenario.checks = <<>>
        /\ InOrder(scenario.log, scenario.ready, m)
    BY <1>0, <1>2 DEF SetUp, ScenarioInv, Stage, Ran, Releases
  <2>2. m < Len(Body) /\ "setup" = Body[m + 1] /\ "setup" \in Names /\ m \in Nat
    BY <1>0, <2>1, BodyIs DEF Names
  <2>3. call \in Calls /\ call.name = Body[m + 1] /\ call.ending = ending
    BY <2>2 DEF Calls
  <2>4. scenario' = [scenario EXCEPT !.error = Error(ending),
                                     !.at = GoesOn(ending, "executing"), !.log = new]
    BY <1>0, <1>2 DEF SetUp, Call, ScenarioTypes
  <2> HIDE DEF call
  <2>5. /\ InOrder(new, scenario.ready, m + 1)
        /\ scenario.ready = m /\ scenario.ready < Len(Fixtures) /\ ending = "returned"
             => InOrder(new, scenario.ready + 1, m + 1)
    BY <1>0, <2>1, <2>2, <2>3, NextCall
  <2>6. /\ new \in Seq(Calls) /\ Len(new) = m + 1 /\ new[m + 1].ending = ending
        /\ \A k \in 1 .. m : new[k] = scenario.log[k]
    BY <1>0, <2>3, LogGrows
  <2> HIDE DEF new
  <2>7. ScenarioTypes'
    <3>1. scenario.ready + 1 \in Nat /\ Error(ending) \in {"none", "raised"}
      BY <1>0
    <3>2. QED
      BY <1>0, <2>4, <2>6, <3>1 DEF ScenarioTypes
  <2>8. /\ scenario'.log = new /\ scenario'.at = GoesOn(ending, "executing")
        /\ scenario'.ready = scenario.ready /\ scenario'.error = Error(ending)
        /\ scenario'.torn = 0 /\ scenario'.checks = <<>>
    BY <1>0, <2>1, <2>4 DEF ScenarioTypes
  <2>9. Ran' = m + 1
    BY <2>6, <2>8 DEF Ran
  <2>10. Stage'
    BY <2>1, <2>5, <2>6, <2>8, <2>9 DEF Stage
  <2>11. Outcome' /\ Releases' /\ Judged'
    BY <1>0, <2>1, <2>2, <2>6, <2>8, <2>9 DEF Outcome, Releases, Judged
  <2>12. QED
    BY <2>7, <2>10, <2>11 DEF ScenarioInv
<1>3. ASSUME NEW ending \in Endings, PerformAction(ending) PROVE ScenarioInv'
  <2> DEFINE call == [name |-> "execute", ending |-> ending]
             new == Append(scenario.log, call)  m == Len(scenario.log)
  <2>1. /\ scenario.at = "executing" /\ Ran = m /\ scenario.ready = Len(Fixtures) /\ m = Len(Fixtures) + 1 /\ scenario.log[m].ending = "returned" /\ scenario.torn = 0
        /\ scenario.error = "none" /\ scenario.checks = <<>>
        /\ InOrder(scenario.log, scenario.ready, m)
    BY <1>0, <1>3 DEF PerformAction, ScenarioInv, Stage, Ran, Releases
  <2>2. m < Len(Body) /\ "execute" = Body[m + 1] /\ "execute" \in Names /\ m \in Nat
    BY <1>0, <2>1, BodyIs DEF Names
  <2>3. call \in Calls /\ call.name = Body[m + 1] /\ call.ending = ending
    BY <2>2 DEF Calls
  <2>4. scenario' = [scenario EXCEPT !.error = Error(ending),
                                     !.at = GoesOn(ending, "checking"), !.log = new]
    BY <1>0, <1>3 DEF PerformAction, Call, ScenarioTypes
  <2> HIDE DEF call
  <2>5. /\ InOrder(new, scenario.ready, m + 1)
        /\ scenario.ready = m /\ scenario.ready < Len(Fixtures) /\ ending = "returned"
             => InOrder(new, scenario.ready + 1, m + 1)
    BY <1>0, <2>1, <2>2, <2>3, NextCall
  <2>6. /\ new \in Seq(Calls) /\ Len(new) = m + 1 /\ new[m + 1].ending = ending
        /\ \A k \in 1 .. m : new[k] = scenario.log[k]
    BY <1>0, <2>3, LogGrows
  <2> HIDE DEF new
  <2>7. ScenarioTypes'
    <3>1. scenario.ready + 1 \in Nat /\ Error(ending) \in {"none", "raised"}
      BY <1>0
    <3>2. QED
      BY <1>0, <2>4, <2>6, <3>1 DEF ScenarioTypes
  <2>8. /\ scenario'.log = new /\ scenario'.at = GoesOn(ending, "checking")
        /\ scenario'.ready = scenario.ready /\ scenario'.error = Error(ending)
        /\ scenario'.torn = 0 /\ scenario'.checks = <<>>
    BY <1>0, <2>1, <2>4 DEF ScenarioTypes
  <2>9. Ran' = m + 1
    BY <2>6, <2>8 DEF Ran
  <2>10. ending = "returned" => WentThrough(new, <<>>, m + 1)
    <3>1. \A k \in 1 .. Len(Fixtures) + 2 : k \in 1 .. Len(Fixtures) \/ k = m \/ k = m + 1
      BY <1>0, <2>1
    <3>2. \A k \in 1 .. Len(Fixtures) : new[k].ending = "returned"
      BY <2>1, <2>5 DEF InOrder
    <3>3. new[m].ending = "returned"
      BY <1>0, <2>1, <2>2, <2>6
    <3>4. ending = "returned" => \A k \in 1 .. Len(Fixtures) + 2 : new[k].ending = "returned"
      BY <2>6, <3>1, <3>2, <3>3
    <3>5. m + 1 = Len(Fixtures) + 2 + Len(<<>>) /\ m + 1 <= Len(new)
      BY <1>0, <2>1, <2>2, <2>6
    <3>6. \A k \in 1 .. Len(<<>>) : FALSE
      OBVIOUS
    <3>7. QED
      BY <3>4, <3>5, <3>6 DEF WentThrough
  <2>11. Stage'
    BY <1>0, <2>1, <2>5, <2>8, <2>9, <2>10 DEF Stage
  <2>12. Outcome' /\ Releases' /\ Judged'
    BY <1>0, <2>1, <2>2, <2>6, <2>8, <2>9 DEF Outcome, Releases, Judged
  <2>13. QED
    BY <2>7, <2>11, <2>12 DEF ScenarioInv
<1>4. ASSUME NEW outcome \in {"passed", "failed", "raised", "other"}, Check(outcome)
      PROVE  ScenarioInv'
  <2> DEFINE m == Len(scenario.log)  c == Len(scenario.checks)
             ending == IF outcome = "raised" THEN "raised" ELSE "returned"
             counted == IF outcome = "passed" THEN "passed" ELSE "failed"
             call == [name |-> Assertions[c + 1], ending |-> ending]
             new == Append(scenario.log, call)  checks == Append(scenario.checks, counted)
  <2>1. /\ scenario.at = "checking" /\ Ran = m /\ scenario.torn = 0 /\ scenario.error = "none"
        /\ scenario.ready = Len(Fixtures) /\ c < Len(Assertions)
        /\ InOrder(scenario.log, scenario.ready, m)
        /\ WentThrough(scenario.log, scenario.checks, m)
    BY <1>0, <1>4 DEF Check, ScenarioInv, Stage, Ran, Releases
  <2>2. m = Len(Fixtures) + 2 + c /\ m \in Nat /\ c \in Nat
    BY <1>0, <2>1 DEF WentThrough
  <2>3. /\ m < Len(Body) /\ c + 1 \in 1 .. Len(Assertions)
        /\ m + 1 = Len(Fixtures) + 2 + (c + 1)
    <3> HIDE DEF m, c
    <3>1. c \in Nat /\ c < Len(Assertions) /\ m = Len(Fixtures) + 2 + c
      BY <2>1, <2>2
    <3>2. QED
      BY ONLY <1>0, <3>1
  <2>4. Assertions[c + 1] = Body[m + 1] /\ Assertions[c + 1] \in Names
    BY <2>3, BodyIs
  <2>5. /\ call \in Calls /\ call.name = Body[m + 1] /\ call.ending = ending
        /\ counted \in Outcomes /\ (counted = "passed" => ending = "returned")
    BY <2>4 DEF Calls, Outcomes
  <2>6. scenario' = [scenario EXCEPT !.checks = checks, !.log = new]
    BY <1>0, <1>4 DEF Check, Call, ScenarioTypes
  <2> HIDE DEF call, counted, ending
  <2>7. InOrder(new, scenario.ready, m + 1)
    BY <1>0, <2>1, <2>2, <2>3, <2>5, NextCall
  <2>8. /\ checks \in Seq(Outcomes) /\ Len(checks) = c + 1
        /\ WentThrough(new, checks, m + 1)
    BY ZenonT(30), <1>0, <2>1, <2>2, <2>5, NextCheck
  <2>9. new \in Seq(Calls) /\ Len(new) = m + 1
    BY <1>0, <2>5, LogGrows
  <2> HIDE DEF new, checks
  <2>10. ScenarioTypes'
    BY <1>0, <2>6, <2>8, <2>9 DEF ScenarioTypes
  <2>11. /\ scenario'.log = new /\ scenario'.at = "checking"
         /\ scenario'.ready = scenario.ready /\ scenario'.error = "none"
         /\ scenario'.torn = 0 /\ scenario'.checks = checks
    BY <1>0, <2>1, <2>6 DEF ScenarioTypes
  <2>12. Ran' = m + 1
    BY <2>9, <2>11 DEF Ran
  <2>13. Len(checks) <= Len(Assertions)
    BY <1>0, <2>2, <2>3, <2>8
  <2>14. Stage'
    BY <2>1, <2>7, <2>8, <2>11, <2>12, <2>13 DEF Stage
  <2>15. Outcome' /\ Releases' /\ Judged'
    BY <2>11 DEF Outcome, Releases, Judged
  <2>16. QED
    BY <2>10, <2>14, <2>15 DEF ScenarioInv
<1>5. CASE EndChecks
  <2>1. /\ scenario.at = "checking" /\ Ran = Len(scenario.log) /\ scenario.torn = 0
        /\ scenario.ready = Len(Fixtures) /\ scenario.error = "none" /\ Stage
        /\ InOrder(scenario.log, scenario.ready, Ran)
        /\ WentThrough(scenario.log, scenario.checks, Ran)
        /\ Len(scenario.checks) = Len(Assertions)
    BY <1>5 DEF EndChecks, ScenarioInv, Stage, Ran, Releases
  <2>2. scenario' = [scenario EXCEPT !.at = "ending"]
    BY <1>5 DEF EndChecks
  <2>3. /\ scenario'.log = scenario.log /\ scenario'.at = "ending"
        /\ scenario'.ready = scenario.ready /\ scenario'.error = "none"
        /\ scenario'.torn = 0 /\ scenario'.checks = scenario.checks /\ ScenarioTypes'
    BY <1>0, <2>1, <2>2 DEF ScenarioTypes
  <2>4. Ran' = Ran
    BY <2>1, <2>3 DEF Ran
  <2>5. Stage'
    BY <2>1, <2>3, <2>4 DEF Stage
  <2>6. Outcome'
    BY <1>0, <2>1, <2>3, <2>4 DEF Outcome
  <2>7. Releases' /\ Judged'
    BY <2>3 DEF Releases, Judged
  <2>8. QED
    BY <2>3, <2>5, <2>6, <2>7 DEF ScenarioInv
<1>6. ASSUME NEW ending \in Endings, TearDown(ending) PROVE ScenarioInv'
  <2> DEFINE call == [name |-> "teardown", ending |-> ending]
             new == Append(scenario.log, call)  m == Len(scenario.log)
  <2>1. /\ scenario.at = "ending" /\ Ran = m /\ scenario.torn = 0 /\ Outcome /\ m \in Nat
        /\ InOrder(scenario.log, scenario.ready, m)
    BY <1>0, <1>6 DEF TearDown, ScenarioInv, Stage, Ran, Releases
  <2>2. call \in Calls /\ call.name = "teardown"
    BY DEF Calls, Names
  <2>3. scenario' = [scenario EXCEPT !.at = "releasing", !.log = new]
    BY <1>6 DEF TearDown, Call
  <2> HIDE DEF call
  <2>4. /\ new \in Seq(Calls) /\ Len(new) = m + 1 /\ new[m + 1].name = "teardown"
    BY <1>0, <2>2, LogGrows
  <2> HIDE DEF new, m
  <2>5. /\ InOrder(new, scenario.ready, m)
        /\ WentThrough(scenario.log, scenario.checks, m) => WentThrough(new, scenario.checks, m)
        /\ m \in 1 .. Len(scenario.log) => new[m] = scenario.log[m]
    <3>1. new = Append(scenario.log, call)
      BY DEF new
    <3>2. m \in Nat /\ InOrder(scenario.log, scenario.ready, m)
      BY <2>1
    <3>3. InOrder(scenario.log, scenario.ready, m) => InOrder(new, scenario.ready, m)
      BY <1>0, <2>2, <3>1, <3>2, LogKeepsOrder
    <3>4. WentThrough(scenario.log, scenario.checks, m) => WentThrough(new, scenario.checks, m)
      BY <1>0, <2>2, <3>1, <3>2, LogKeepsChecks
    <3>5. m \in 1 .. Len(scenario.log) => new[m] = scenario.log[m]
      BY <1>0, <2>2, <3>1, <3>2, LogGrows
    <3>6. QED
      BY <3>2, <3>3, <3>4, <3>5
  <2>6. ScenarioTypes'
    BY <1>0, <2>3, <2>4 DEF ScenarioTypes
  <2>7. /\ scenario'.log = new /\ scenario'.at = "releasing"
        /\ scenario'.ready = scenario.ready /\ scenario'.error = scenario.error
        /\ scenario'.torn = 0 /\ scenario'.checks = scenario.checks
    BY <1>0, <2>1, <2>3 DEF ScenarioTypes
  <2>8. Ran' = m
    BY <2>1, <2>4, <2>7 DEF Ran
  <2>9. Stage'
    BY <2>5, <2>7, <2>8 DEF Stage
  <2>10. Released(new, scenario.ready, 0, m)
    BY <1>0, <2>1, <2>4 DEF Released
  <2>11. Releases' /\ Judged'
    BY <2>7, <2>8, <2>10 DEF Releases, Judged
  <2>12. Outcome'
    <3>1. scenario.error = "raised" => m > 0 /\ new[m].ending = "raised"
      <4>1. m \in 1 .. Len(scenario.log) \/ m = 0
        BY <2>1 DEF m
      <4>2. QED
        BY <2>1, <2>5, <4>1 DEF Outcome
    <3>2. scenario.error = "none" => /\ WentThrough(new, scenario.checks, m)
                                     /\ Len(scenario.checks) = Len(Assertions)
      BY <2>1, <2>5 DEF Outcome
    <3>3. scenario.ready < Len(Fixtures) => scenario.error = "raised" /\ m = scenario.ready + 1
      BY <2>1 DEF Outcome
    <3>4. QED
      BY <2>7, <2>8, <3>1, <3>2, <3>3 DEF Outcome
  <2>13. QED
    BY <2>6, <2>9, <2>11, <2>12 DEF ScenarioInv
<1>7. ASSUME NEW ending \in Endings, TearDownFixture(ending) PROVE ScenarioInv'
  <2> DEFINE call == [name |-> Fixtures[FixtureToRelease], ending |-> ending]
             new == Append(scenario.log, call)  m == Ran
  <2>1. /\ scenario.at = "releasing" /\ Outcome /\ scenario.torn < scenario.ready
        /\ InOrder(scenario.log, scenario.ready, m)
        /\ Released(scenario.log, scenario.ready, scenario.torn, m)
    BY <1>7 DEF TearDownFixture, ScenarioInv, Stage, Releases
  <2>2. /\ m = Len(scenario.log) - 1 - scenario.torn
        /\ scenario.ready <= m /\ scenario.ready <= Len(Fixtures) /\ m <= Len(scenario.log)
    BY <2>1 DEF Ran, InOrder
  <2> HIDE DEF m
  <2>3. m \in Nat /\ Len(scenario.log) = m + 1 + scenario.torn
    BY ONLY <1>0, <2>2
  <2>4. /\ FixtureToRelease = scenario.ready - scenario.torn
        /\ FixtureToRelease \in 1 .. Len(Fixtures)
    BY <1>0, <2>1, <2>2 DEF FixtureToRelease
  <2>5. Fixtures[FixtureToRelease] \in Names
    BY <2>4, BodyIs
  <2>6. call \in Calls /\ call.name = Fixtures[scenario.ready - scenario.torn]
    BY <2>4, <2>5 DEF Calls
  <2>7. scenario' = [scenario EXCEPT !.torn = scenario.torn + 1, !.log = new]
    BY <1>0, <1>7 DEF TearDownFixture, Call, ScenarioTypes
  <2> HIDE DEF call
  <2>8. new \in Seq(Calls) /\ Len(new) = m + 1 + (scenario.torn + 1)
    <3>1. new \in Seq(Calls) /\ Len(new) = Len(scenario.log) + 1
      BY <1>0, <2>6, LogGrows
    <3>2. QED
      BY ONLY <1>0, <2>3, <3>1
  <2>9. /\ InOrder(new, scenario.ready, m)
        /\ WentThrough(scenario.log, scenario.checks, m) => WentThrough(new, scenario.checks, m)
        /\ m \in 1 .. Len(scenario.log) => new[m] = scenario.log[m]
    <3> HIDE DEF new
    <3>1. new = Append(scenario.log, call)
      BY DEF new
    <3>2. m \in Nat /\ InOrder(scenario.log, scenario.ready, m)
      BY <2>1, <2>3
    <3>3. InOrder(scenario.log, scenario.ready, m) => InOrder(new, scenario.ready, m)
      BY <1>0, <2>6, <3>1, <3>2, LogKeepsOrder
    <3>4. WentThrough(scenario.log, scenario.checks, m) => WentThrough(new, scenario.checks, m)
      BY <1>0, <2>6, <3>1, <3>2, LogKeepsChecks
    <3>5. m \in 1 .. Len(scenario.log) => new[m] = scenario.log[m]
      BY <1>0, <2>6, <3>1, <3>2, LogGrows
    <3>6. QED
      BY <3>2, <3>3, <3>4, <3>5
  <2>10. Released(new, scenario.ready, scenario.torn + 1, m)
    BY <1>0, <2>1, <2>3, <2>6, NextRelease
  <2> HIDE DEF new
  <2>11. ScenarioTypes'
    <3>1. scenario.torn + 1 \in Nat
      BY <1>0
    <3>2. QED
      BY <1>0, <2>7, <2>8, <3>1 DEF ScenarioTypes
  <2>12. /\ scenario'.log = new /\ scenario'.at = "releasing"
         /\ scenario'.ready = scenario.ready /\ scenario'.error = scenario.error
         /\ scenario'.torn = scenario.torn + 1 /\ scenario'.checks = scenario.checks
    BY <1>0, <2>1, <2>7 DEF ScenarioTypes
  <2>13. Ran' = m
    <3>1. Ran' = Len(new) - 1 - (scenario.torn + 1)
      BY <2>12 DEF Ran
    <3>2. QED
      BY SMTT(30), <1>0, <2>3, <2>8, <3>1
  <2>14. Stage'
    BY <2>9, <2>12, <2>13 DEF Stage
  <2>15. Releases' /\ Judged'
    BY <2>10, <2>12, <2>13 DEF Releases, Judged
  <2>16. Outcome'
    <3>1. scenario.error = "raised" => m > 0 /\ new[m].ending = "raised"
      <4>1. m \in 1 .. Len(scenario.log) \/ m = 0
        BY <1>0, <2>3
      <4>2. QED
        BY <2>1, <2>9, <4>1 DEF Outcome, m
    <3>2. scenario.error = "none" => /\ WentThrough(new, scenario.checks, m)
                                     /\ Len(scenario.checks) = Len(Assertions)
      BY <2>1, <2>9 DEF Outcome, m
    <3>3. scenario.ready < Len(Fixtures) => scenario.error = "raised" /\ m = scenario.ready + 1
      BY <2>1 DEF Outcome, m
    <3>4. QED
      BY <2>12, <2>13, <3>1, <3>2, <3>3 DEF Outcome
  <2>17. QED
    BY <2>11, <2>14, <2>15, <2>16 DEF ScenarioInv
<1>8. CASE Finish
  <2> DEFINE held == \A n \in DOMAIN scenario.checks : scenario.checks[n] = "passed"
  <2>1. /\ scenario.at = "releasing" /\ Stage /\ Outcome /\ Releases
        /\ scenario.torn = scenario.ready
    BY <1>8 DEF Finish, ScenarioInv
  <2>2. scenario' = [scenario EXCEPT !.at = IF scenario.error = "none" /\ held
                                            THEN "passed" ELSE "failed"]
    BY <1>8 DEF Finish
  <2>3. ~held => \E k \in DOMAIN scenario.checks : scenario.checks[k] = "failed"
    BY <1>0 DEF Outcomes
  <2>4. /\ scenario'.log = scenario.log
        /\ scenario'.at = (IF scenario.error = "none" /\ held THEN "passed" ELSE "failed")
        /\ scenario'.ready = scenario.ready /\ scenario'.error = scenario.error
        /\ scenario'.torn = scenario.torn /\ scenario'.checks = scenario.checks
        /\ ScenarioTypes'
    BY <1>0, <2>1, <2>2 DEF ScenarioTypes
  <2>5. Ran' = Ran
    BY <2>1, <2>4 DEF Ran
  <2>6. Stage' /\ Outcome' /\ Releases'
    BY <2>1, <2>4, <2>5 DEF Stage, Outcome, Releases
  <2>7. Judged'
    <3>1. held <=> \A k \in DOMAIN scenario'.checks : scenario'.checks[k] = "passed"
      BY <2>4
    <3>2. ~held => \E k \in DOMAIN scenario'.checks : scenario'.checks[k] = "failed"
      BY <2>3, <2>4
    <3> HIDE DEF held
    <3>3. QED
      BY <1>0, <2>1, <2>4, <3>1, <3>2 DEF Judged
  <2>8. QED
    BY <2>4, <2>6, <2>7 DEF ScenarioInv
<1>9. CASE Interrupt
  BY <1>0, <1>9 DEF Interrupt, ScenarioInv, ScenarioTypes
<1>10. CASE UNCHANGED scenario
  BY <1>10 DEF ScenarioInv, ScenarioTypes, Stage, Outcome, Releases, Judged, Ran
<1>11. QED
  BY <1>1, <1>2, <1>3, <1>4, <1>5, <1>6, <1>7, <1>8, <1>9, <1>10 DEF RunScenario

\* However its author's code raises, a scenario that is not interrupted tears
\* down itself and what it had set up, last first, and its verdict is that of
\* its phases and its assertions.
THEOREM ScenariosTearDown == ScenarioSpec => []ScenariosCleanUp
<1>1. ScenarioInv => ScenariosCleanUp
  <2> SUFFICES ASSUME ScenarioInv, scenario.at \in {"passed", "failed"}
               PROVE  ScenariosCleanUp
    BY DEF ScenariosCleanUp
  <2> DEFINE m == Ran  r == scenario.ready  log == scenario.log
  <2>1. /\ InOrder(log, r, m) /\ Outcome /\ Judged /\ scenario.torn = r
        /\ Released(log, r, r, m) /\ r \in Nat /\ m = Len(log) - 1 - r
        /\ log \in Seq(Calls) /\ Len(log) \in Nat
        /\ DOMAIN log = 1 .. Len(log) /\ DOMAIN scenario.checks = 1 .. Len(scenario.checks)
        /\ Len(scenario.checks) \in Nat
    BY DEF ScenarioInv, ScenarioTypes, Stage, Releases, Judged, Ran
  <2> HIDE DEF m, r, log
  <2>2. /\ m \in Nat /\ r <= m /\ r \in 0 .. Len(Fixtures) /\ m <= Len(Body)
        /\ m + 1 \in DOMAIN log /\ Len(log) = m + 1 + r /\ m + 1 - 1 = m
    BY <2>1, BodyIs DEF InOrder
  <2>3. ASSUME scenario.at = "passed"
        PROVE  m = Len(Body) /\ \A k \in 1 .. m : log[k].ending = "returned"
    <3>1. /\ WentThrough(log, scenario.checks, m) /\ Len(scenario.checks) = Len(Assertions)
          /\ \A k \in 1 .. Len(Assertions) : scenario.checks[k] = "passed"
      BY <2>1, <2>3 DEF Outcome, Judged, log, m
    <3>2. m = Len(Fixtures) + 2 + Len(Assertions) /\ m = Len(Body)
      BY <3>1, BodyIs DEF WentThrough
    <3>3. \A k \in 1 .. Len(Assertions) : log[Len(Fixtures) + 2 + k].ending = "returned"
      BY <3>1 DEF WentThrough
    <3>4. ASSUME NEW k \in 1 .. m, k > Len(Fixtures) + 2 PROVE log[k].ending = "returned"
      <4> DEFINE j == k - (Len(Fixtures) + 2)
      <4>1. j \in 1 .. Len(Assertions) /\ Len(Fixtures) + 2 + j = k
        BY <2>2, <3>2, <3>4, BodyIs
      <4> HIDE DEF j
      <4>2. QED
        BY <3>3, <4>1
    <3>5. \A k \in 1 .. m : k \in 1 .. Len(Fixtures) + 2 \/ k > Len(Fixtures) + 2
      BY <2>2, BodyIs
    <3>6. \A k \in 1 .. Len(Fixtures) + 2 : log[k].ending = "returned"
      BY <3>1 DEF WentThrough
    <3>7. QED
      BY <3>2, <3>4, <3>5, <3>6
  <2>4. scenario.at = "failed" => \/ \E k \in 1 .. m : log[k].ending # "returned"
                                  \/ \E k \in DOMAIN scenario.checks : scenario.checks[k] = "failed"
    <3>1. scenario.error = "raised" => m > 0 /\ log[m].ending = "raised"
      BY <2>1 DEF Outcome, log, m
    <3>2. m > 0 => m \in 1 .. m
      BY <2>2
    <3>3. QED
      BY <2>1, <3>1, <3>2 DEF Judged
  <2>5. r < Len(Fixtures) => m + 1 = r + 2 /\ log[r + 1].ending # "returned"
    <3>1. r < Len(Fixtures) => m = r + 1 /\ log[m].ending = "raised"
      BY <2>1 DEF Outcome, r, log, m
    <3>2. QED
      BY SMTT(30), <2>1, <2>2, <3>1
  <2>6. r < m + 1
    BY <2>1, <2>2
  <2>7. CleansUp(r, m + 1)
    <3>1. /\ log[m + 1].name = "teardown"
          /\ \A k \in 1 .. r : log[m + 1 + k].name = Fixtures[r + 1 - k]
      BY <2>1 DEF Released
    <3>2. /\ \A k \in 1 .. m : log[k].name = Body[k]
          /\ \A k \in 1 .. r : log[k].ending = "returned"
      BY <2>1 DEF InOrder
    <3>3. \A k \in 1 .. m + 1 - 1 : log[k].name = Body[k]
      BY <2>2, <3>2
    <3>4. \A k \in 1 .. r : log[k].ending = "returned"
      BY <3>2
    <3>5. scenario.at = "passed" => /\ m + 1 - 1 = Len(Body)
                                    /\ \A k \in 1 .. m + 1 - 1 : log[k].ending = "returned"
      BY <2>2, <2>3
    <3>6. scenario.at = "failed" => \/ \E k \in 1 .. m + 1 - 1 : log[k].ending # "returned"
                                    \/ \E k \in DOMAIN scenario.checks : scenario.checks[k] = "failed"
      BY <2>2, <2>4
    <3>7. m + 1 - 1 <= Len(Body)
      BY <2>2
    <3>8. QED
      BY <2>2, <2>5, <2>6, <3>1, <3>3, <3>4, <3>5, <3>6, <3>7 DEF CleansUp, log
  <2>8. QED
    BY <2>2, <2>7 DEF ScenariosCleanUp, log
<1>2. QED
  BY <1>1, ScenarioBegins, ScenarioSteps, PTL DEF ScenarioSpec
=============================================================================

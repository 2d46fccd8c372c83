------------------------------- MODULE FlowStatus -------------------------------
(***************************************************************************)
(* What is shown of the flow runs while FlowEngine executes them: the      *)
(* overview of the flows, the list of a flow's runs, the detail of a run,  *)
(* the live view of the API, and the health of the Linear connection,      *)
(* which is the result of an execution kept in the cache.                  *)
(***************************************************************************)
EXTENDS FlowEngine, FiniteSetsExt

CONSTANTS
    Registered,     \* REGISTERED_FLOWS
    HealthFlow,     \* "linear-connection"
    HealthChecks,   \* the executions that test_linear_connection starts
    DirectResults   \* numbers of passed and of failed checks without a flow

ASSUME StatusAssumption ==
    /\ Registered \subseteq Flows
    /\ IsFiniteSet(Registered)
    /\ HealthFlow \in Flows
    /\ HealthChecks \subseteq Runs
    /\ DirectResults \subseteq {<<0, 1>>, <<1, 0>>, <<1, 1>>, <<2, 1>>, <<3, 0>>}

VARIABLES
    started,    \* started_at of each run row, 0 without one
    health,     \* LINEAR_HEALTH_CACHE_KEY
    answered    \* the health checks whose request was answered

statusVars == <<started, health, answered>>

\* What get_linear_health answers on an empty cache.
NoHealth == [status |-> "unknown", run |-> "none", passed |-> 0, failed |-> 0]

StatusInit == Init /\ started = [r \in Runs |-> 0] /\ health = NoHealth /\ answered = {}

Existing == {r \in Runs : Exists(r)}

PassedSteps(r) == Cardinality({s \in steps[r] : s.passed})
FailedSteps(r) == Cardinality({s \in steps[r] : ~s.passed})

\* _compute_overall_status
OverallStatus(success, passed) ==
    IF success THEN "healthy" ELSE IF passed > 0 THEN "degraded" ELSE "unhealthy"

-----------------------------------------------------------------------------
\* test_linear_connection, once execute has returned: from_flow_run reads the
\* step rows, which may be gone by then, and the result goes into the cache.
CacheHealth(r) ==
    /\ r \in HealthChecks \ answered
    /\ exec[r].at = "returned"
    /\ health' = [status |-> OverallStatus(exec[r].result = "passed", PassedSteps(r)),
                  run |-> r, passed |-> PassedSteps(r), failed |-> FailedSteps(r)]
    /\ answered' = answered \cup {r}
    /\ UNCHANGED <<vars, started>>

\* _verify_linear_connection_direct: no flow is stored, so the checks of
\* configuration, authentication and permissions are made without a run, up to
\* the first that fails; after one of them the client may not be made at all.
CheckDirectly(result) ==
    /\ ~flow[HealthFlow].stored
    /\ health' = [status |-> OverallStatus(result[1] = 3, result[1]),
                  run |-> "none", passed |-> result[1], failed |-> result[2]]
    /\ UNCHANGED <<vars, started, answered>>

\* LINEAR_HEALTH_CACHE_TIMEOUT
HealthExpires ==
    /\ health # NoHealth
    /\ health' = NoHealth
    /\ UNCHANGED <<vars, started, answered>>

\* auto_now_add: a run starts after every one that is there.
Now == Max({0} \cup {started[r] : r \in Existing}) + 1

Execute ==
    /\ Next
    /\ started' = [r \in Runs |-> IF r \notin Existing' THEN 0
                                  ELSE IF r \in Existing THEN started[r] ELSE Now]
    /\ UNCHANGED <<health, answered>>

StatusNext ==
    \/ Execute
    \/ \E r \in Runs : CacheHealth(r)
    \/ \E result \in DirectResults : CheckDirectly(result)
    \/ HealthExpires

StatusSpec ==
    /\ StatusInit /\ [][StatusNext]_<<vars, statusVars>>
    /\ \A r \in Runs : WF_vars(Step(r))

-----------------------------------------------------------------------------
\* order_by("-started_at")
NewestFirst(S) ==
    CHOOSE list \in [1 .. Cardinality(S) -> S] :
        \A m, n \in DOMAIN list : m < n => started[list[m]] > started[list[n]]

OfStatus(f, status) ==
    {r \in Existing : run[r].flow = f /\ (status = "any" \/ run[r].status = status)}

\* Faulty variant of RunsOf: ordered by "started_at".
RunsOfOldestFirst(f, status) ==
    CHOOSE list \in [1 .. Cardinality(OfStatus(f, status)) -> OfStatus(f, status)] :
        \A m, n \in DOMAIN list : m < n => started[list[m]] < started[list[n]]

\* The runs of a flow, newest first; status "any" leaves them unfiltered.
RunsOf(f, status) == NewestFirst(OfStatus(f, status))

Listed(f)           == RunsOf(f, "any")
CountOf(f, status)  == Len(RunsOf(f, status))

\* get_flows_overview
LatestIs(f, status) == LET list == Listed(f) IN list # <<>> /\ run[list[1]].status = status
Overview ==
    [total   |-> Cardinality(Registered),
     healthy |-> {f \in Registered : LatestIs(f, "passed")},
     failing |-> {f \in Registered : LatestIs(f, "failed")},
     running |-> {f \in Registered : LatestIs(f, "running")},
     not_run |-> {f \in Registered : ~flow[f].stored \/ Listed(f) = <<>>}]

\* Paginator.get_page: beyond the last page is the last page.
NumPages(n, size) == IF n = 0 THEN 1 ELSE (n + size - 1) \div size
Page(page, n, size) == IF page \in 1 .. NumPages(n, size) THEN page ELSE NumPages(n, size)

\* get_flow_runs_data; pass_rate is in tenths of a percent, rounded.
FlowRuns(f, status, page, size) ==
    LET all     == RunsOf(f, status)
        current == Page(page, Len(all), size)
        passed  == Cardinality({n \in DOMAIN all : run[all[n]].status = "passed"})
    IN [runs      |-> SubSeq(all, (current - 1) * size + 1,
                             IF current * size < Len(all) THEN current * size ELSE Len(all)),
        page      |-> current,
        has_next  |-> current < NumPages(Len(all), size),
        total     |-> Len(all),
        pass_rate |-> IF all = <<>> THEN 0 ELSE (2000 * passed + Len(all)) \div (2 * Len(all))]

\* get_run_detail: the runs of the same flow that started before and after.
Earlier(r) == {q \in OfStatus(run[r].flow, "any") : started[q] < started[r]}
Later(r)   == {q \in OfStatus(run[r].flow, "any") : started[q] > started[r]}

PreviousRun(r) == IF Earlier(r) = {} THEN "none" ELSE NewestFirst(Earlier(r))[1]
NextRun(r)     == IF Later(r) = {} THEN "none" ELSE NewestFirst(Later(r))[Cardinality(Later(r))]

\* get_running_flow_runs.  A step row is written once its step is over, with
\* completed_at: none is ever the current step.
RunningFlowRuns ==
    [r \in {r \in Runs : run[r].status = "running"} |->
        [total_steps |-> Cardinality(steps[r]), completed_steps |-> PassedSteps(r) + FailedSteps(r)]]

\* INV-F of check_invariants: what it reports of the runs, and of how many it
\* says it has checked them.
Inconsistent ==
    {r \in Existing : run[r].completed /\ run[r].status = "running"}
      \cup {r \in Existing : ~run[r].completed /\ run[r].status \in {"passed", "failed"}}
RunsChecked == IF Inconsistent = {} THEN Cardinality(Existing) ELSE Cardinality(Inconsistent)

-----------------------------------------------------------------------------
\* A page is full but for the last one and shows its part of the list; a flow is
\* shown at 100 percent only if at most one run in 2000 did not pass.
PageAgrees(f, size, page) ==
    LET listed == Listed(f)
        shown  == FlowRuns(f, "any", page, size)
    IN /\ shown.page = page
       /\ Len(shown.runs) = IF shown.has_next THEN size ELSE Len(listed) - (page - 1) * size
       /\ \A n \in DOMAIN shown.runs : shown.runs[n] = listed[(page - 1) * size + n]
       /\ shown.pass_rate = 1000 <=>
            listed # <<>> /\ 2000 * (Len(listed) - CountOf(f, "passed")) <= Len(listed)

\* The lists by status make up the whole list; the pages show it from end to
\* end; and walking back from the newest run meets every run, and forth again.
ListAgrees(f) ==
    LET listed == Listed(f) IN
    /\ CountOf(f, "passed") + CountOf(f, "failed") + CountOf(f, "running") = Len(listed)
    /\ ~flow[f].stored => listed = <<>>
    /\ \A size \in 1 .. Len(listed) + 1 :
         \A page \in 1 .. NumPages(Len(listed), size) : PageAgrees(f, size, page)
    /\ \A n \in DOMAIN listed :
         /\ PreviousRun(listed[n]) = IF n = Len(listed) THEN "none" ELSE listed[n + 1]
         /\ NextRun(listed[n]) = IF n = 1 THEN "none" ELSE listed[n - 1]

\* Every flow is counted once, and INV-F counts as checked what the lists show.
ListsAgree ==
    /\ Cardinality(Overview.healthy) + Cardinality(Overview.failing)
         + Cardinality(Overview.running) + Cardinality(Overview.not_run) = Overview.total
    /\ \A f \in Flows : ListAgrees(f)
    /\ RunsChecked = Cardinality(UNION {Range(Listed(f)) : f \in Flows})

\* A run is shown live or with a verdict that its step counts bear out, never
\* both, and INV-F finds fault with none.
VerdictsAreShown ==
    /\ \A r \in Existing :
        /\ r \in DOMAIN RunningFlowRuns <=> ~run[r].completed
        /\ run[r].completed => FailedSteps(r) = IF run[r].status = "failed" THEN 1 ELSE 0
    /\ Inconsistent = {}

\* The cached health is that of one execution: as long as its run is there, the
\* connection is healthy exactly if the run passed, unhealthy exactly if it
\* failed in its first step, and the checks are its steps; a check that failed
\* is never healthy.
HealthIsOfOneRun ==
    /\ health.status = "healthy" => health.failed = 0
    /\ health.status = "degraded" => health.passed > 0
    /\ health.run # "none" /\ health.run \in Existing =>
        LET r == health.run IN
        /\ health.status = "healthy" <=> run[r].status = "passed"
        /\ health.status = "unhealthy" <=> \E s \in steps[r] : s.order = 0 /\ ~s.passed
        /\ health.passed = PassedSteps(r) /\ health.failed = FailedSteps(r)

\* The views do not contradict each other while runs begin, end and are deleted.
FlowViewsAgree == ListsAgree /\ VerdictsAreShown /\ HealthIsOfOneRun
=============================================================================

------------------------------- MODULE SpecChecks -------------------------------
(***************************************************************************)
(* What the commands read off the requirements of SpecTree: the checks of  *)
(* links and of drift, the dependency graph, the tests that a change       *)
(* affects, and the risks between tasks in flight.                         *)
(***************************************************************************)
EXTENDS SpecTree

CONSTANTS
    Tasks,       \* active agent tasks
    TaskReqs,    \* the requirements of each
    TaskScope    \* and its scope_in, a set of paths, each a sequence

LinksOf(i) == {l \in DOMAIN links : l[2] = i}
Latest     == runs[Len(runs)]
HighRisk   == {i \in DOMAIN rows : rows[i].risk \in {"critical", "high"}}

-----------------------------------------------------------------------------
\* validate_links, of a file against the requirements.
UnknownRequirements(file) == {l[2] : l \in file} \ DOMAIN rows
NoCoverage(file) ==
    {i \in DOMAIN rows : rows[i].status = "active" /\ ~\E l \in file : l[2] = i}

\* detect_stale_links
StaleLinks == IF runs = <<>> THEN {} ELSE {l \in DOMAIN links : l[1] \notin DOMAIN Latest}

\* detect_orphan_requirements
Orphans ==
    {i \in DOMAIN rows : rows[i].status = "active" /\ GetChildren(rows, i) = {} /\ LinksOf(i) = {}}

\* detect_unmarked_tests, of what the markers in the test files name.
UnmarkedTests(file) == Tests \ {l[1] : l \in file}

\* detect_spec_drift: the requirements of files that were modified since the
\* last run, if there was one.
SpecDrift(modified) ==
    IF runs = <<>> THEN {} ELSE {i \in modified \cap DOMAIN rows : rows[i].source = "specs"}

\* detect_all_drift reports warnings only, so detect_drift fails if strict.
DriftFails(file, modified, strict) ==
    /\ strict
    /\ \/ StaleLinks # {} \/ Orphans # {}
       \/ UnmarkedTests(file) # {} \/ SpecDrift(modified) # {}

\* validate_high_risk_requirements: a requirement without tests is not looked
\* at any further.
Failing(i) == {l \in LinksOf(i) : links[l].status \in {"failed", "error"}}
HighRiskNoTests == {i \in HighRisk : LinksOf(i) = {}}

\* Faulty variant of HighRiskFailing: one passing test is enough.
HighRiskFailingAll == {i \in HighRisk : LinksOf(i) # {} /\ Failing(i) = LinksOf(i)}

HighRiskFailing == {i \in HighRisk \ HighRiskNoTests : Failing(i) # {}}

\* validate_links fails on an unknown requirement, with --check-high-risk on one
\* of high risk that lacks tests or fails, and if strict on missing coverage.
ValidationFails(file, checkHighRisk, strict) ==
    \/ UnknownRequirements(file) # {}
    \/ checkHighRisk /\ HighRiskNoTests \cup HighRiskFailing # {}
    \/ strict /\ NoCoverage(file) # {}

\* validate_changed_files_impact, of the tests whose files changed.
ImpactedHighRisk(file, changed) == {l[2] : l \in {l \in file : l[1] \in changed}} \cap HighRisk
ImpactsFailing(file, changed)  == {i \in ImpactedHighRisk(file, changed) : Failing(i) # {}}
ImpactsUntested(file, changed) == {i \in ImpactedHighRisk(file, changed) : LinksOf(i) = {}}

\* spec_coverage, and the project it reports on: resolve_project.
StoredProjects == {rows[i].project : i \in DOMAIN rows}
ResolveProject(installed) ==
    IF installed \in StoredProjects \/ StoredProjects = {} THEN installed
    ELSE IF Cardinality(StoredProjects) = 1 THEN CHOOSE project \in StoredProjects : TRUE
    ELSE "ambiguous"
SpecCoverage(project) ==
    LET own == {i \in DOMAIN rows : rows[i].project = project}
    IN [total |-> Cardinality(own),
        non_draft |-> Cardinality({i \in own : rows[i].status # "draft"})]

-----------------------------------------------------------------------------
\* DependencyValidator: the graph and its reverse.
DependsOn(i)  == IF i \in DOMAIN rows THEN rows[i].deps ELSE {}
DependedBy(i) == {j \in DOMAIN rows : i \in rows[j].deps}
Graph         == [i \in DOMAIN rows |-> DependsOn(i)]
ReverseGraph  == [i \in DOMAIN rows |-> DependedBy(i)]

\* The loop that get_dependency_chain and get_dependents share.
Walk(first, next) ==
    LET walk[at \in [queue : Seq(DOMAIN next), seen : SUBSET DOMAIN next]] ==
            IF at.queue = <<>> THEN at.seen
            ELSE LET node  == Head(at.queue)
                     found == next[node] \ (at.seen \cup {node})
                 IN walk[IF node \in at.seen THEN [queue |-> Tail(at.queue), seen |-> at.seen]
                         ELSE [queue |-> Tail(at.queue) \o SetToSeq(found), seen |-> at.seen \cup {node}]]
    IN walk[[queue |-> SetToSeq(first), seen |-> {}]]

DependencyChain(i) == Walk(DependsOn(i), Graph)

Dependents(i) == Walk(DependedBy(i), ReverseGraph)

\* The nested dfs of detect_circular_dependencies, over the nodes that are to
\* be looked at: path is the recursion stack, and a neighbour on it closes a
\* cycle.
Visits == [nodes : Seq(DOMAIN rows), visited : SUBSET DOMAIN rows, path : Seq(DOMAIN rows),
           cycles : SUBSET Seq(DOMAIN rows)]
ClosedBy(node, path) ==
    {SubSeq(path, n, Len(path)) \o <<node>> : n \in {n \in DOMAIN path : path[n] = node}}
Closed(at) == [at EXCEPT !.cycles = @ \cup ClosedBy(Head(at.nodes), at.path)]
Inside(at) ==
    [nodes |-> SetToSeq(DependsOn(Head(at.nodes))), visited |-> at.visited \cup {Head(at.nodes)},
     path |-> Append(at.path, Head(at.nodes)), cycles |-> at.cycles]
Onward(at, seen) ==
    [nodes |-> Tail(at.nodes), visited |-> seen.visited, path |-> at.path, cycles |-> seen.cycles]
Dfs[at \in Visits] ==
    IF at.nodes = <<>> THEN at
    ELSE Dfs[Onward(at, IF Head(at.nodes) \in at.visited THEN Closed(at) ELSE Dfs[Inside(at)])]

CircularDependencies ==
    Dfs[[nodes |-> SetToSeq(DOMAIN rows), visited |-> {}, path |-> <<>>, cycles |-> {}]].cycles

-----------------------------------------------------------------------------
\* get_affected_tests: the requirements of the change, what is below them and
\* what depends on them directly.
Hierarchy(S)   == UNION {GetDescendants(rows, i) : i \in S \cap DOMAIN rows}

\* Faulty variant of Expansion: the dependents are those of a requirement's
\* dependencies.
ExpansionReversed(S) == S \cup Hierarchy(S) \cup UNION {DependsOn(i) : i \in S}

Expansion(S) == S \cup Hierarchy(S) \cup UNION {DependedBy(i) : i \in S}

AffectedTests(S) == {l[1] : l \in {l \in DOMAIN links : l[2] \in Expansion(S)}}

\* group_tests_by_project
TestsByProject(tests) ==
    LET pairs == {l \in DOMAIN links : l[1] \in tests}
    IN [project \in {rows[l[2]].project : l \in pairs} |->
            {l[1] : l \in {l \in pairs : rows[l[2]].project = project}}]

Capped(n, most) == IF n < most THEN n ELSE most

\* compute_risk, in hundredths; halves are rounded up.
ImpactRisk(S) ==
    LET below == Cardinality(UNION {{i} \X GetDescendants(rows, i) : i \in S \cap DOMAIN rows})
        above == Cardinality(UNION {{i} \X DependedBy(i) : i \in S \cap DOMAIN rows})
    IN Capped(3 * Cardinality(S), 30) + Capped((3 * Cardinality(AffectedTests(S)) + 1) \div 2, 30)
         + Capped(2 * below, 20) + Capped(2 * above, 20)
RiskLevel(score) ==
    IF score >= 75 THEN "critical" ELSE IF score >= 50 THEN "high"
    ELSE IF score >= 25 THEN "medium" ELSE "low"

-----------------------------------------------------------------------------
\* IntegrationRiskDetector.  Of a pair of tasks that depend on each other only
\* the direction found first is reported.
TaskPairs == {pair \in Tasks \X Tasks : pair[1] # pair[2]}
Shared(a, b)    == TaskReqs[a] \cap TaskReqs[b]
DependsOnTask(b, a) == \E i \in TaskReqs[b] : DependsOn(i) \cap TaskReqs[a] # {}
Overlapping     == {{pair[1], pair[2]} : pair \in {q \in TaskPairs : Shared(q[1], q[2]) # {}}}
FirstOf(pair)   == CHOOSE t \in pair : TRUE
DependencyChains ==
    {pair \in TaskPairs :
        /\ DependsOnTask(pair[2], pair[1])
        /\ DependsOnTask(pair[1], pair[2]) => FirstOf({pair[1], pair[2]}) = pair[1]}
ScopeOverlaps ==
    {{pair[1], pair[2]} : pair \in {q \in TaskPairs : \E a \in TaskScope[q[1]], b \in TaskScope[q[2]] :
                                       IsPrefix(a, b) \/ IsPrefix(b, a)}}

-----------------------------------------------------------------------------
\* The checks do not contradict each other: an orphan has no coverage in the
\* links that are stored; what a change to any test is said to endanger is an
\* error of the high-risk check too, which calls neither tested nor safe what
\* has no link or one that failed; and a stale link is one that the newest run
\* did not update.
ChecksAgree ==
    /\ Orphans \subseteq NoCoverage(DOMAIN links)
    /\ HighRisk \cap Orphans \subseteq HighRiskNoTests
    /\ \A changed \in SUBSET Tests :
         LET file == DOMAIN links IN
         /\ ImpactsFailing(file, changed) \subseteq HighRiskFailing
         /\ ImpactsUntested(file, changed) \subseteq HighRiskNoTests
    /\ \A l \in StaleLinks : links[l].run # Len(runs)
    /\ UnknownRequirements(DOMAIN links) = {}
    /\ \A file \in LinkFiles \cup {DOMAIN links} : \A strict \in BOOLEAN :
         /\ ~DriftFails(file, {}, strict) /\ strict => ~ValidationFails(DOMAIN links, FALSE, FALSE)
                                                   /\ HighRisk \cap Orphans = {}
         /\ ~ValidationFails(file, TRUE, TRUE) =>
              \A i \in DOMAIN rows : /\ rows[i].status = "active" => \E l \in file : l[2] = i
                                    /\ i \in HighRisk => Failing(i) = {} /\ LinksOf(i) # {}

\* The views of the dependency graph agree: what is in the chain of a
\* requirement has it as a dependent, what is in the chain of a member is in
\* the chain, a requirement is in its own chain exactly if the search for
\* cycles reports something that leads there, and every reported cycle can be
\* walked; a task of a reported chain waits for one that it depends on.
\* And the tests of a change are those that any reading of it must run: of the
\* changed requirements and of all that have one of them for a direct
\* dependency or as an ancestor, and of nothing that is not reached through
\* hierarchy or dependencies; a larger change affects no fewer tests and is no
\* less risky; and the report by project shows each of them.
DependencyViewsAgree ==
    /\ UNION {{i} \X DependencyChain(i) : i \in DOMAIN rows}
         = UNION {Dependents(j) \X {j} : j \in DOMAIN rows}
    /\ \A i \in DOMAIN rows : LET chain == DependencyChain(i) IN
         \A j \in chain : DependencyChain(j) \subseteq chain
    /\ (\E i \in DOMAIN rows : i \in DependencyChain(i)) <=> CircularDependencies # {}
    /\ \A cycle \in CircularDependencies :
         /\ Head(cycle) = Last(cycle)
         /\ \A n \in 1 .. Len(cycle) - 1 : cycle[n + 1] \in DependsOn(cycle[n])
    /\ \A pair \in DependencyChains : pair \notin {<<q[2], q[1]>> : q \in DependencyChains}
    /\ links # <<>> => \A i \in DOMAIN rows :
        LET tests == AffectedTests({i})
            reach == {i} \cup Hierarchy({i}) \cup Dependents(i)
            risk  == ImpactRisk({i})
            shown == TestsByProject(tests)
        IN /\ \A l \in DOMAIN links :
                l[2] = i \/ i \in DependsOn(l[2]) \/ l[2] \in GetDescendants(rows, i) => l[1] \in tests
           /\ \A t \in tests : \E l \in DOMAIN links : l[1] = t /\ l[2] \in reach
           /\ \A j \in DOMAIN rows : /\ tests \subseteq AffectedTests({i, j})
                                     /\ risk <= ImpactRisk({i, j})
           /\ UNION {shown[project] : project \in DOMAIN shown} = tests

\* "No warning for parent requirements (non-leaf)": nothing is reported as an
\* orphan that another requirement is stored below.
OrphansAreLeaves ==
    \A i \in Orphans : ~\E j \in DOMAIN rows : IsStrictPrefix(rows[i].path, rows[j].path)
=============================================================================

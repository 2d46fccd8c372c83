------------------------------ MODULE TestReports ------------------------------
(***************************************************************************)
(* Where the results of the test runs are shown: the traceability matrix,  *)
(* and the Linear issues of the requirements, on which report_to_linear    *)
(* comments and sets labels, one call to Linear after the other.           *)
(***************************************************************************)
EXTENDS Conflicts

CONSTANTS
    Issues,          \* the requirements that are issues of Linear
    ReportOptions,   \* what the command is called with
    OldLabels,       \* what an earlier report left on the issues
    MaxReports       \* bound on the reports

ASSUME ReportAssumption ==
    /\ Issues \subseteq Requirements
    /\ ReportOptions \subseteq SUBSET {"comments", "labels", "closed"}
    /\ OldLabels \subseteq {"tests:linked", "tests:passing", "tests:failing"}
    /\ ~({"tests:passing", "tests:failing"} \subseteq OldLabels)
    /\ IsFiniteSet(Links) /\ MaxReports \in Nat

VARIABLES
    issue,        \* labels, comments and closedness of the issues, in Linear
    teamLabels,   \* the labels that Linear has for the team
    reporter      \* the LinearReporter of the command

reportVars == <<issue, teamLabels, reporter>>
allVars    == <<vars, conflictVars, reportVars>>

Verdicts == {"tests:passing", "tests:failing"}
Managed  == Verdicts \cup {"tests:linked"}
NoCounts == [run |-> 0, passed |-> 0, failed |-> 0, total |-> 0]

\* todo: the requirements still to report to; current is the one at hand, with
\* its counts, the labels the issue was fetched with, the names of the managed
\* labels to look up and those that are to be set.
NoReporter == [at |-> "idle", made |-> 0, run |-> 0, options |-> {}, todo |-> {},
               updated |-> {}, skipped |-> {}, errors |-> {},
               current |-> {}, counts |-> NoCounts, fetched |-> {}, names |-> <<>>, ids |-> {}]

ReportInit ==
    /\ ConflictInit
    /\ issue = [r \in Issues |-> [labels |-> OldLabels, comments |-> <<>>, closed |-> FALSE]]
    /\ teamLabels = OldLabels
    /\ reporter = NoReporter

-----------------------------------------------------------------------------
\* handle and report_test_results, of the newest run or of the one named.
\* Bounds: after the last import, and if no delivery came and every import has
\* finished and linked its results.
BeginReport(n, options) ==
    /\ reporter.at \in {"idle", "done"} /\ reporter.made < MaxReports
    /\ Len(runs) = MaxRuns /\ \A p \in Processes : proc[p].at = "idle"
    /\ \A d \in Deliveries : event[d] = NoEvent
    /\ \A k \in DOMAIN runs :
         runs[k].finished /\ runs[k].linked = {t \in Tests : runs[k].results[t] # "absent"}
    /\ reporter' = [NoReporter EXCEPT
                      !.at = "fetching", !.made = reporter.made + 1, !.run = n, !.options = options,
                      !.todo = {r \in Requirements : LinksInRun(r, n) # {}}]
    /\ UNCHANGED <<vars, conflictVars, issue, teamLabels>>

\* Faulty variant of Counts: errors are not counted.
CountsOfFailures(r, n) ==
    LET with(statuses) == Cardinality({l \in LinksInRun(r, n) : link[l].status \in statuses})
    IN [run |-> n, passed |-> with({"passed"}), failed |-> with({"failed"}),
        total |-> Cardinality(LinksInRun(r, n))]

\* The counts of a requirement, of the links whose newest run is this one.
Counts(r, n) ==
    LET with(statuses) == Cardinality({l \in LinksInRun(r, n) : link[l].status \in statuses})
    IN [run |-> n, passed |-> with({"passed"}), failed |-> with(Failing),
        total |-> Cardinality(LinksInRun(r, n))]

Ended(r, how) ==
    [reporter EXCEPT !.at = "fetching", !.todo = @ \ {r}, !.current = {}, !.counts = NoCounts,
                     !.fetched = {}, !.names = <<>>, !.ids = {}, ![how] = @ \cup {r}]

\* Linear does not answer, does not know the issue or says that it is closed,
\* or the links have moved on to a newer run.
Skip(r) ==
    /\ reporter.at = "fetching" /\ r \in reporter.todo
    /\ reporter' = Ended(r, "skipped")
    /\ UNCHANGED <<vars, conflictVars, issue, teamLabels>>

\* The status labels that go with the counts.
LabelNames(counts) ==
    <<"tests:linked", IF counts.failed = 0 THEN "tests:passing" ELSE "tests:failing">>

FetchIssue(r) ==
    LET counts == Counts(r, reporter.run) IN
    /\ reporter.at = "fetching" /\ r \in reporter.todo \cap Issues
    /\ issue[r].closed => "closed" \in reporter.options
    /\ counts.total # 0
    /\ reporter' = [reporter EXCEPT !.at = "commenting", !.current = {r}, !.counts = counts,
                      !.fetched = issue[r].labels, !.names = LabelNames(counts)]
    /\ UNCHANGED <<vars, conflictVars, issue, teamLabels>>

\* _add_comment, whose failure nobody notices.
Comment(r, sent) ==
    /\ reporter.at = "commenting" /\ r \in reporter.current
    /\ sent => "comments" \in reporter.options
    /\ issue' = IF sent THEN [issue EXCEPT ![r].comments = Append(@, reporter.counts)] ELSE issue
    /\ reporter' = IF "labels" \in reporter.options
                   THEN [reporter EXCEPT !.at = "labelling"] ELSE Ended(r, "updated")
    /\ UNCHANGED <<vars, conflictVars, teamLabels>>

\* _get_or_create_label; the label is left out if Linear does not make it.
FindLabel(made) ==
    LET name == Head(reporter.names) IN
    /\ reporter.at = "labelling" /\ reporter.names # <<>>
    /\ made \/ name \notin teamLabels
    /\ teamLabels' = IF made THEN teamLabels \cup {name} ELSE teamLabels
    /\ reporter' = [reporter EXCEPT !.names = Tail(@), !.ids = IF made THEN @ \cup {name} ELSE @]
    /\ UNCHANGED <<vars, conflictVars, issue>>

\* It raises, and report_test_results goes on to the next requirement.
LabelRaises(r) ==
    /\ reporter.at = "labelling" /\ reporter.names # <<>> /\ r \in reporter.current
    /\ reporter' = Ended(r, "errors")
    /\ UNCHANGED <<vars, conflictVars, issue, teamLabels>>

\* _update_labels replaces all labels by those fetched, but for the managed
\* ones, and the new; its failure is not noticed either.
UpdateLabels(r, sent) ==
    /\ reporter.at = "labelling" /\ reporter.names = <<>> /\ r \in reporter.current
    /\ issue' = IF sent THEN [issue EXCEPT ![r].labels = (reporter.fetched \ Managed) \cup reporter.ids]
                ELSE issue
    /\ reporter' = Ended(r, "updated")
    /\ UNCHANGED <<vars, conflictVars, teamLabels>>

EndReport ==
    /\ reporter.at = "fetching" /\ reporter.todo = {}
    /\ reporter' = [reporter EXCEPT !.at = "done"]
    /\ UNCHANGED <<vars, conflictVars, issue, teamLabels>>

\* The command is interrupted.
AbandonReport ==
    /\ reporter.at \notin {"idle", "done"}
    /\ reporter' = [NoReporter EXCEPT !.made = reporter.made]
    /\ UNCHANGED <<vars, conflictVars, issue, teamLabels>>

\* People label, close and reopen an issue.  A bound: from the first report on.
EditIssue(r) ==
    /\ reporter.made > 0
    /\ \/ "own" \notin issue[r].labels /\ issue' = [issue EXCEPT ![r].labels = @ \cup {"own"}]
       \/ issue' = [issue EXCEPT ![r].closed = ~@]
    /\ UNCHANGED <<vars, conflictVars, teamLabels, reporter>>

Report ==
    \/ \E n \in DOMAIN runs, options \in ReportOptions : BeginReport(n, options)
    \/ \E r \in Requirements : Skip(r) \/ FetchIssue(r) \/ LabelRaises(r)
    \/ \E r \in Requirements, sent \in BOOLEAN : Comment(r, sent) \/ UpdateLabels(r, sent)
    \/ \E made \in BOOLEAN : FindLabel(made)
    \/ EndReport \/ AbandonReport
    \/ \E r \in Issues : EditIssue(r)

\* A bound: conflicts are not looked for in what has been reported on, and what
\* conflicts were found in is not reported on.
ReportNext ==
    \/ reporter = NoReporter /\ ConflictNext /\ UNCHANGED reportVars
    \/ detector = {} /\ conflicts = <<>> /\ Report

ReportSpec ==
    /\ ReportInit /\ [][ReportNext]_allVars
    /\ \A p \in Processes : WF_vars(Proceed(p))

-----------------------------------------------------------------------------
\* TestResult.requirements of a run: those that its links file names.
RequirementsOf(n, t) ==
    IF t \in runs[n].linked THEN {RequirementOf[l] : l \in {l \in Links : TestOf[l] = t}} ELSE {}

\* The runs that have a result of the test for the requirement.
RunsWith(r, t) == {n \in DOMAIN runs : r \in RequirementsOf(n, t)}

\* _build_cell_matrix: the most recent one; run 0 stands for "unlinked".
Cell(r, t) ==
    IF RunsWith(r, t) = {} THEN [status |-> "unlinked", run |-> 0]
    ELSE [status |-> runs[Max(RunsWith(r, t))].results[t], run |-> Max(RunsWith(r, t))]

\* get_matrix_data of the requirements that the filters let through.
MatrixData(filtered, page, size) ==
    LET all     == SetToSeq(filtered)
        pages   == Max({1, (Len(all) + size - 1) \div size})
        current == Max({1, Min({page, pages})})
        shown   == SubSeq(all, (current - 1) * size + 1, Min({current * size, Len(all)}))
        tests   == {t \in Tests : \E r \in Range(shown) : RunsWith(r, t) # {}}
    IN [requirements |-> shown, tests |-> tests, page |-> current, total_pages |-> pages,
        cells    |-> [key \in Range(shown) \X tests |-> Cell(key[1], key[2])],
        has_next |-> current < pages, has_prev |-> current > 1]

-----------------------------------------------------------------------------
\* The matrix and the issues tell of the same runs.  Page after page the matrix
\* shows the rows of the whole, without the columns that are empty for the
\* page; where it shows the run that a link was updated by, it shows the link's
\* status, and an older one only if the result of that run was not linked.  An
\* issue never carries both verdicts, and a new one is that of the links some
\* run was the last to update, however many reports overlapped with edits,
\* failed half-way or were repeated; what people had put on the issue before it
\* was fetched stays; and the requirements of a report are accounted for.
ReportsTellOfRuns ==
    /\ LET whole == MatrixData(Requirements, 1, Cardinality(Requirements) + 1) IN
       \A n \in DOMAIN whole.requirements :
         LET r    == whole.requirements[n]
             part == MatrixData(Requirements, n, 1)
         IN /\ part.requirements = <<r>> /\ (part.has_next <=> n < Len(whole.requirements))
            /\ \A t \in whole.tests : IF t \in part.tests THEN part.cells[<<r, t>>] = whole.cells[<<r, t>>]
                                      ELSE whole.cells[<<r, t>>].status = "unlinked"
    /\ \A l \in Existing : link[l].run # 0 =>
         LET cell == Cell(RequirementOf[l], TestOf[l]) IN
         /\ cell.run = link[l].run => cell.status = link[l].status
         /\ cell.run < link[l].run => TestOf[l] \notin runs[link[l].run].linked
    /\ \A r \in Issues :
         /\ Cardinality(issue[r].labels \cap Verdicts) <= 1
         /\ \A verdict \in (issue[r].labels \cap Verdicts) \ OldLabels : \E n \in DOMAIN runs :
              /\ LinksInRun(r, n) # {}
              /\ verdict = "tests:failing" <=> \E l \in LinksInRun(r, n) : link[l].status \in Failing
         /\ r \in reporter.current /\ "own" \in reporter.fetched => "own" \in issue[r].labels
    /\ reporter.at = "done" =>
         /\ reporter.updated \cup reporter.skipped \cup reporter.errors
              = {r \in Requirements : LinksInRun(r, reporter.run) # {}}
         /\ Cardinality(reporter.updated) + Cardinality(reporter.skipped) + Cardinality(reporter.errors)
              = Cardinality({r \in Requirements : LinksInRun(r, reporter.run) # {}})
=============================================================================

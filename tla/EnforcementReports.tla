--------------------------- MODULE EnforcementReports ---------------------------
(***************************************************************************)
(* What the dashboard and the API make of the rows of Enforcement: the     *)
(* status of a validation and whether it regressed, the coverage of each   *)
(* vendor, the statistics and the pages of the runs, and the comparison of *)
(* two runs.  All of it only reads.                                        *)
(***************************************************************************)
EXTENDS Enforcement, Functions

\* The results of a validation and the newest of a set of them, by checked_at.
Of(v)     == {x \in Results : x.validation = v}
Newest(S) == CHOOSE x \in S : \A y \in S : y.at <= x.at
Oldest(S) == CHOOSE x \in S : \A y \in S : x.at <= y.at

\* InAppValidation.status
Status(v) == IF Of(v) = {} THEN "not_run" ELSE Newest(Of(v)).status

\* InAppValidation.detect_regression, on the two newest results.
DetectRegression(v) ==
    LET current == Newest(Of(v)) IN
    Cardinality(Of(v)) >= 2 /\ Newest(Of(v) \ {current}).status = "success"
                            /\ current.status = "failure"

DetectValidationRegressions == {v \in DOMAIN validations : DetectRegression(v)}

\* vendor_coverage_view, for one vendor.
VendorCoverage(vendor) ==
    LET own == {v \in DOMAIN validations : validations[v].vendor = vendor}
        count(status) == Cardinality({v \in own : Status(v) = status})
    IN [total |-> Cardinality(own), passing |-> count("success"), failing |-> count("failure"),
        not_run |-> count("not_run"), regressions |-> own \cap DetectValidationRegressions]

\* get_unique_vendors
UniqueVendors == {validations[x.validation].vendor : x \in Results} \ {""}

-----------------------------------------------------------------------------
\* The properties of a run and the row that lists it.
RunStats(k) ==
    LET count(status) == Cardinality({x \in runs[k].results : x.status = status}) IN
    [id |-> k, total |-> Cardinality(runs[k].results), success |-> count("success"),
     failure |-> count("failure")]

\* get_run_results_grouped
RunResultsGrouped(k) ==
    LET vendorOf(x) == LET v == validations[x.validation].vendor IN
                       IF v = "" THEN "Unassigned" ELSE v
    IN [vendor \in {vendorOf(x) : x \in runs[k].results} |->
            {x \in runs[k].results : vendorOf(x) = vendor}]

StepsPassed(x) == Cardinality({n \in DOMAIN x.steps : x.steps[n]})
StepsFailed(x) == Len(x.steps) - StepsPassed(x)

\* get_run_steps_data leaves out the results without steps.
RunStepsData(k) ==
    {[result |-> x, passed |-> StepsPassed(x), failed |-> StepsFailed(x)] :
        x \in {x \in runs[k].results : x.steps # <<>>}}

\* get_adjacent_runs: 0 for none.
PreviousRun(k) == k - 1
NextRun(k)     == IF k < Len(runs) THEN k + 1 ELSE 0

-----------------------------------------------------------------------------
NewestFirst == [n \in DOMAIN runs |-> Len(runs) + 1 - n]
Slice(s, from, to) == SubSeq(s, from, IF to < Len(s) THEN to ELSE Len(s))

\* Faulty variant of ListedPage: the offset counts from the page itself.
ListedPageOffByOne(page, size) ==
    LET total == Len(runs)
        pages == IF total > 0 THEN (total + size - 1) \div size ELSE 1
    IN [runs |-> Slice(NewestFirst, page * size + 1, (page + 1) * size), page |-> page,
        total_pages |-> pages, has_next |-> page < pages, has_prev |-> page > 1]

\* list_validation_runs of the API: a page beyond the last one is empty.
ListedPage(page, size) ==
    LET total == Len(runs)
        pages == IF total > 0 THEN (total + size - 1) \div size ELSE 1
    IN [runs |-> Slice(NewestFirst, (page - 1) * size + 1, page * size), page |-> page,
        total_pages |-> pages, has_next |-> page < pages, has_prev |-> page > 1]

\* get_validation_runs_data of the dashboard: Paginator.get_page shows the
\* last page for one beyond it.
ShownPage(page, size) ==
    LET pages == IF Len(runs) > 0 THEN (Len(runs) + size - 1) \div size ELSE 1
        at    == IF page < 1 \/ page > pages THEN pages ELSE page
    IN [runs |-> Slice(NewestFirst, (at - 1) * size + 1, at * size), page |-> at,
        total_pages |-> pages, has_next |-> at < pages, has_prev |-> at > 1]

-----------------------------------------------------------------------------
\* The result that build_run_comparison takes of a validation: the results of
\* a run come newest first and a later key overwrites an earlier one.
Compared(k, v) == {Oldest(S) : S \in {{x \in runs[k].results : x.validation = v}} \ {{}}}

ChangeType(before, after) ==
    IF before = {} THEN "new"
    ELSE IF after = {} THEN "removed"
    ELSE LET a == (CHOOSE x \in before : TRUE).status
             b == (CHOOSE x \in after : TRUE).status
         IN IF a = "failure" /\ b = "success" THEN "improved"
            ELSE IF a = "success" /\ b = "failure" THEN "regressed"
            ELSE "unchanged"

\* build_run_comparison
RunComparison(j, k) ==
    [v \in {x.validation : x \in runs[j].results \cup runs[k].results} |->
        ChangeType(Compared(j, v), Compared(k, v))]

\* The summary of the comparison.
Count(comparison, type) == Cardinality({v \in DOMAIN comparison : comparison[v] = type})

-----------------------------------------------------------------------------
\* A comparison turns around: what is new, removed, better or worse from one
\* run to the other is removed, new, worse or better back again, and the summary
\* adds up to the validations of both runs.
ComparisonsTurnAround ==
    \A j, k \in DOMAIN runs :
        LET there == RunComparison(j, k)
            back  == RunComparison(k, j)
        IN /\ \A v \in DOMAIN there :
                 back[v] = CASE there[v] = "new"      -> "removed"
                             [] there[v] = "removed"  -> "new"
                             [] there[v] = "improved" -> "regressed"
                             [] there[v] = "regressed" -> "improved"
                             [] OTHER -> "unchanged"
           /\ Count(there, "new") + Count(there, "removed") + Count(there, "improved")
                + Count(there, "regressed") + Count(there, "unchanged")
                = Cardinality({x.validation : x \in runs[j].results \cup runs[k].results})

RunOf(x)       == CHOOSE k \in DOMAIN runs : x \in runs[k].results
OnlyOneOfRun(x) == \A y \in runs[RunOf(x)].results : y.validation = x.validation => y = x

\* The regression that a validation reports is the one that the comparison of
\* the runs of its two newest results shows, whatever the order in which late
\* submissions were stored, unless one of these runs has more than one result
\* of it, as a file may; and the coverage of its vendor counts it.
RegressionsAreShown ==
    \A v \in DOMAIN validations : Cardinality(Of(v)) >= 2 =>
        LET current  == Newest(Of(v))
            previous == Newest(Of(v) \ {current})
            vendor   == validations[v].vendor
        IN /\ OnlyOneOfRun(current) /\ OnlyOneOfRun(previous)
                => (DetectRegression(v)
                    <=> RunComparison(RunOf(previous), RunOf(current))[v] = "regressed")
           /\ DetectRegression(v) => /\ Status(v) = "failure"
                                     /\ v \in VendorCoverage(vendor).regressions
                                     /\ VendorCoverage(vendor).failing > 0

\* The row of a run accounts for its results: each is in one group by vendor,
\* and every one with a failed step is counted as a failure.
RowsAccountForResults ==
    \A k \in DOMAIN runs :
        LET grouped == RunResultsGrouped(k) IN
        /\ UNION Range(grouped) = runs[k].results
        /\ \A a, b \in DOMAIN grouped : a # b => grouped[a] \cap grouped[b] = {}
        /\ RunStats(k).failure >= Cardinality({d \in RunStepsData(k) : d.failed > 0})
        /\ NextRun(k) # 0 => PreviousRun(NextRun(k)) = k

\* Walking the pages of either list shows every run once, newest first, with the
\* page links leading from the first page to the last.
PagesShowEveryRun ==
    \A size \in 1 .. Len(runs) :
        LET pages == ListedPage(1, size).total_pages
            pageOf(k) == (Len(runs) + size - k) \div size
        IN /\ \A page \in 1 .. pages :
                 LET listed == ListedPage(page, size) IN
                 /\ listed = ShownPage(page, size)
                 /\ listed.has_next <=> page # pages
                 /\ Range(listed.runs) = {k \in DOMAIN runs : pageOf(k) = page}
           /\ ListedPage(pages + 1, size).runs = <<>>
           /\ ShownPage(pages + 1, size) = ListedPage(pages, size)

ReportsAgree ==
    ComparisonsTurnAround /\ RegressionsAreShown /\ RowsAccountForResults /\ PagesShowEveryRun
=============================================================================

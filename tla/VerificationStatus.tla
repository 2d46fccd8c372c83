-------------------------- MODULE VerificationStatus --------------------------
(***************************************************************************)
(* Who writes Requirement.verification_status and slo_status: the import   *)
(* of test results, the SLO and validation endpoints and commands, and     *)
(* check_invariants --fix.  Each writes its evidence row by row and then,  *)
(* if at all, walks over the requirements it listed beforehand and saves   *)
(* one status field of each.  Nothing is in a transaction.                 *)
(***************************************************************************)
EXTENDS StatusRules, Naturals, Sequences

CONSTANTS
    Requirements,
    MethodOf,        \* verification_method of each requirement
    SLOs, SLOsOf,    \* the SLOs linked to each requirement
    Validations,
    RequirementOf,   \* the requirement of each validation
    Processes,       \* concurrent requests and commands
    Entries,         \* the entry points they come in by
    Outcomes,        \* statuses of the test results imported
    CheckTimes,      \* checked_at of the validation results submitted
    MaxRuns          \* bound on the test runs

Entry == {"import_results", "webhook", "slo_update", "slo_only",
          "validation_update", "validation_only", "check_invariants"}

ASSUME StatusAssumption ==
    /\ MethodOf \in [Requirements -> Method]
    /\ SLOsOf \in [Requirements -> SUBSET SLOs]
    /\ RequirementOf \in [Validations -> Requirements]
    /\ Entries \subseteq Entry
    /\ Outcomes \subseteq ResultStatus
    /\ CheckTimes \subseteq Nat
    /\ MaxRuns \in Nat

VARIABLES
    req,      \* the two status fields of each Requirement row
    slo,      \* status of each SLO row
    runs,     \* TestRun rows, oldest first: the statuses linked to each requirement
    results,  \* InAppValidationResult rows of each validation
    proc      \* the local state of each process

vars == <<req, slo, runs, results, proc>>

Row == [verification : Verification, slo : SLOStatus]

NewRequirement == [verification |-> "untested", slo |-> "not_linked"]

\* at: where a process stands; run: the latest_run it works with, 0 for None;
\* rows: the requirements its loop has still to visit, as they were listed.
At(where, n, listed) == [at |-> where, run |-> n, rows |-> listed]

NoRows == [r \in {} |-> NewRequirement]

Idle == At("idle", 0, NoRows)

Init ==
    /\ req     = [r \in Requirements |-> NewRequirement]
    /\ slo     = [s \in SLOs |-> "not_linked"]
    /\ runs    = <<>>
    /\ results = [v \in Validations |-> {}]
    /\ proc    = [p \in Processes |-> Idle]

\* InAppValidation.status: that of the result with the latest checked_at.
LatestStatus(v) ==
    IF results[v] = {} THEN "not_run"
    ELSE (CHOOSE x \in results[v] : \A y \in results[v] : y.at <= x.at).status

\* The test results of a requirement, of one run or of all of them.
ResultsOf(r, n) ==
    IF n = 0 THEN UNION {runs[k][r] : k \in DOMAIN runs} ELSE runs[n][r]

\* The status a listed row should have.  Evidence is read when the row is
\* visited, slo_status was read when it was listed.
Computed(r, row, n) ==
    UnifiedStatus(MethodOf[r], TestStatus(ResultsOf(r, n)),
                  InAppStatus({LatestStatus(v) : v \in {w \in Validations : RequirementOf[w] = r}}),
                  row.slo)

Resting(p) == proc[p].at \in {"idle", "updated", "fixed"}
MayEnter(p, e) == Resting(p) /\ e \cap Entries # {}
Go(p, state) == proc' = [proc EXCEPT ![p] = state]

-----------------------------------------------------------------------------
\* import_junit_xml and import_junit_from_bytes: a new TestRun.
ImportRun(p) ==
    /\ MayEnter(p, {"import_results", "webhook"})
    /\ Len(runs) < MaxRuns
    /\ runs' = Append(runs, [r \in Requirements |-> {}])
    /\ Go(p, At("importing", Len(runs) + 1, NoRows))
    /\ UNCHANGED <<req, slo, results>>

\* link_results_to_requirements: result.requirements.set of one result.
LinkResult(p, R, s) ==
    /\ proc[p].at = "importing"
    /\ runs' = [runs EXCEPT ![proc[p].run] =
                  [r \in Requirements |-> IF r \in R THEN @[r] \cup {s} ELSE @[r]]]
    /\ UNCHANGED <<req, slo, results, proc>>

\* import_results goes on to update_all_verification_statuses(test_run); the
\* webhook handler and --no-status-update do not.
ImportDone(p) ==
    /\ proc[p].at = "importing"
    /\ \/ "import_results" \in Entries /\ Go(p, At("statuses", proc[p].run, req))
       \/ "webhook" \in Entries /\ Go(p, Idle)
    /\ UNCHANGED <<req, slo, runs, results>>

\* update_slo_status, endpoint and command: one SLO of the request.
SetSLO(p, s, status) ==
    /\ MayEnter(p, {"slo_update", "slo_only"}) \/ proc[p].at = "slos"
    /\ slo' = [slo EXCEPT ![s] = status]
    /\ Go(p, At("slos", 0, NoRows))
    /\ UNCHANGED <<req, runs, results>>

\* ... then update_all_slo_statuses, which the command may leave out.
SLOsDone(p) ==
    /\ proc[p].at = "slos"
    /\ \/ Go(p, At("slo_statuses", 0, req))
       \/ "slo_only" \in Entries /\ Go(p, Idle)
    /\ UNCHANGED <<req, slo, runs, results>>

\* submit_validation_result and import_inapp_validations: one result.  No two
\* results of a validation have the same checked_at.
Validate(p, v, t, status) ==
    /\ \/ MayEnter(p, {"validation_update", "validation_only"})
       \/ proc[p].at = "validating"
    /\ \A x \in results[v] : x.at # t
    /\ results' = [results EXCEPT ![v] = @ \cup {[at |-> t, status |-> status]}]
    /\ Go(p, At("validating", 0, NoRows))
    /\ UNCHANGED <<req, slo, runs>>

\* Only the endpoint, and only if asked to, goes on to the statuses.
ValidationsDone(p) ==
    /\ proc[p].at = "validating"
    /\ \/ "validation_update" \in Entries /\ Go(p, At("statuses", 0, req))
       \/ "validation_only" \in Entries /\ Go(p, Idle)
    /\ UNCHANGED <<req, slo, runs, results>>

\* Faulty variant of CheckInvariants: it sorts the runs the other way round.
CheckInvariantsOldestRun(p) ==
    /\ MayEnter(p, {"check_invariants"})
    /\ Go(p, At("fixing", IF runs = <<>> THEN 0 ELSE 1, req))
    /\ UNCHANGED <<req, slo, runs, results>>

\* check_invariants --fix: INV-A against the newest run.
CheckInvariants(p) ==
    /\ MayEnter(p, {"check_invariants"})
    /\ Go(p, At("fixing", Len(runs), req))
    /\ UNCHANGED <<req, slo, runs, results>>

-----------------------------------------------------------------------------
Listed(p) == DOMAIN proc[p].rows

\* The listed rows without the one just visited.
Visited(p, r) ==
    [proc[p] EXCEPT !.rows = [q \in Listed(p) \ {r} |-> proc[p].rows[q]]]

\* Faulty variant of SaveStatus: a status once computed is kept.
SaveStatusOnce(p, r) ==
    /\ proc[p].at \in {"statuses", "fixing"}
    /\ r \in Listed(p)
    /\ LET old == proc[p].rows[r].verification
           new == Computed(r, proc[p].rows[r], proc[p].run)
       IN req' = IF old = "untested" THEN [req EXCEPT ![r].verification = new] ELSE req
    /\ Go(p, Visited(p, r))
    /\ UNCHANGED <<slo, runs, results>>

\* One round of _update_all_statuses or of check_inv_a: the field is saved
\* only if it differs from the listed value.
SaveStatus(p, r) ==
    /\ proc[p].at \in {"statuses", "fixing"}
    /\ r \in Listed(p)
    /\ LET old == proc[p].rows[r].verification
           new == Computed(r, proc[p].rows[r], proc[p].run)
       IN req' = IF new # old THEN [req EXCEPT ![r].verification = new] ELSE req
    /\ Go(p, Visited(p, r))
    /\ UNCHANGED <<slo, runs, results>>

\* One round of update_all_slo_statuses.
SaveSLOStatus(p, r) ==
    /\ proc[p].at = "slo_statuses"
    /\ r \in Listed(p)
    /\ LET old == proc[p].rows[r].slo
           new == WorstSLO({slo[s] : s \in SLOsOf[r]})
       IN req' = IF new # old THEN [req EXCEPT ![r].slo = new] ELSE req
    /\ Go(p, Visited(p, r))
    /\ UNCHANGED <<slo, runs, results>>

\* One round of check_inv_b, over the rows listed as breached.
SaveBreach(p, r) ==
    /\ proc[p].at = "fixing_breached"
    /\ r \in Listed(p)
    /\ req' = IF proc[p].rows[r].verification # "failing"
              THEN [req EXCEPT ![r].verification = "failing"] ELSE req
    /\ Go(p, Visited(p, r))
    /\ UNCHANGED <<slo, runs, results>>

\* What follows a loop.  The endpoint that updated the SLOs goes on to the
\* statuses if the request asked for it, over rows listed anew.
LoopDone(p) ==
    /\ Listed(p) = {}
    /\ \/ proc[p].at = "statuses" /\ Go(p, [proc[p] EXCEPT !.at = "updated"])
       \/ /\ proc[p].at = "slo_statuses"
          /\ \/ "slo_update" \in Entries /\ Go(p, At("statuses", 0, req))
             \/ "slo_only" \in Entries /\ Go(p, Idle)
       \/ /\ proc[p].at = "fixing"
          /\ Go(p, At("fixing_breached", proc[p].run,
                      [r \in {q \in Requirements : req[q].slo = "breached"} |-> req[r]]))
       \/ proc[p].at = "fixing_breached" /\ Go(p, [proc[p] EXCEPT !.at = "fixed"])
    /\ UNCHANGED <<req, slo, runs, results>>

\* The process is killed, or a database call raises.
Crash(p) ==
    /\ ~Resting(p)
    /\ Go(p, Idle)
    /\ UNCHANGED <<req, slo, runs, results>>

Loop(p) ==
    \/ \E r \in Requirements : SaveStatus(p, r) \/ SaveSLOStatus(p, r) \/ SaveBreach(p, r)
    \/ LoopDone(p)

Evidence(p) ==
    \/ ImportRun(p)
    \/ \E R \in SUBSET Requirements, s \in Outcomes : LinkResult(p, R, s)
    \/ ImportDone(p)
    \/ \E s \in SLOs, status \in SLOStatus : SetSLO(p, s, status)
    \/ SLOsDone(p)
    \/ \E v \in Validations, t \in CheckTimes, status \in ValidationStatus \ {"not_run"} :
          Validate(p, v, t, status)
    \/ ValidationsDone(p)

Next == \E p \in Processes : Evidence(p) \/ CheckInvariants(p) \/ Loop(p) \/ Crash(p)

Spec == Init /\ [][Next]_vars

-----------------------------------------------------------------------------
Place == {"idle", "updated", "fixed", "importing", "slos", "validating", "statuses",
          "slo_statuses", "fixing", "fixing_breached"}

\* The types of the rows and of the processes.
TypeOK ==
    /\ req \in [Requirements -> Row]
    /\ slo \in [SLOs -> SLOStatus]
    /\ runs \in Seq([Requirements -> SUBSET Outcomes])
    /\ results \in [Validations -> SUBSET [at : CheckTimes, status : ValidationStatus]]
    /\ proc \in [Processes -> [at : Place, run : Nat,
                             rows : UNION {[L -> Row] : L \in SUBSET Requirements}]]
    /\ \A p \in Processes : proc[p].run <= Len(runs)

Tested(r)    == \E k \in DOMAIN runs : "passed" \in runs[k][r]
Validated(r) == \E v \in Validations : /\ RequirementOf[v] = r
                                       /\ \E x \in results[v] : x.status = "success"

\* The evidence that the verification_method of a requirement asks for.
Supported(r) ==
    CASE MethodOf[r] = "test"  -> Tested(r)
      [] MethodOf[r] = "inapp" -> Validated(r)
      [] MethodOf[r] = "both"  -> Tested(r) /\ Validated(r)
      [] OTHER                 -> Tested(r) \/ Validated(r)

\* Whatever runs concurrently or dies half-way: a requirement is never shown
\* as passing unless some run, or some validation, passed, and of the kind
\* its verification_method asks for.
PassingHasEvidence ==
    \A r \in Requirements : req[r].verification = "passing" => Supported(r)

\* A process that nobody interferes with leaves INV-A behind: when its loop
\* is over, every stored status is the computed one, and INV-B holds.
UpdatedStatusIsComputed ==
    \A p \in Processes : proc[p].at = "updated" =>
        \A r \in Requirements :
            /\ req[r].verification = Computed(r, req[r], proc[p].run)
            /\ req[r].slo = "breached" => req[r].verification = "failing"

\* So does check_invariants --fix, against the newest run: the fixes of INV-A
\* and INV-B do not undo each other.
FixRestoresInvariants ==
    \A p \in Processes : proc[p].at = "fixed" =>
        \A r \in Requirements :
            /\ req[r].verification = Computed(r, req[r], Len(runs))
            /\ req[r].slo = "breached" => req[r].verification = "failing"

\* Saving one status field never touches the other: slo_status changes in the
\* loop over SLO statuses only.
SLOStatusHasOneWriter ==
    [][\A r \in Requirements : req'[r].slo # req[r].slo =>
         \E p \in Processes : proc[p].at = "slo_statuses" /\ r \in Listed(p) \ Listed(p)']_req

-----------------------------------------------------------------------------
AtRest == \A p \in Processes : Resting(p)
=============================================================================

------------------------------ MODULE StatusRules ------------------------------
(***************************************************************************)
(* The rules of requirements/status.py, as functions of the statuses they  *)
(* look at.  How often a status occurs makes no difference to them, so a   *)
(* list of statuses is the set of its members.                             *)
(***************************************************************************)
Verification     == {"passing", "failing", "untested"}
ResultStatus     == {"passed", "failed", "error", "skipped"}
ValidationStatus == {"success", "failure", "unknown", "not_run"}
SLOStatus        == {"met", "at_risk", "breached", "not_linked"}
Method           == {"test", "inapp", "both", "unspecified"}

\* Faulty variant of TestStatus: skipped results do not count.
TestStatusIgnoringSkips(S) ==
    IF S \cap {"failed", "error"} # {} THEN "failing"
    ELSE IF S \subseteq {"passed", "skipped"} THEN "passing" ELSE "untested"

\* compute_verification_status
TestStatus(S) ==
    IF S \cap {"failed", "error"} # {} THEN "failing"
    ELSE IF S = {"passed"} THEN "passing" ELSE "untested"

\* compute_inapp_validation_status
InAppStatus(S) ==
    IF "failure" \in S THEN "failing"
    ELSE IF S = {"success"} THEN "passing" ELSE "untested"

\* The verification_method branches of compute_unified_verification_status.
BaseStatus(method, t, i) ==
    CASE method = "test"  -> t
      [] method = "inapp" -> i
      [] method = "both"  ->
           IF "failing" \in {t, i} THEN "failing"
           ELSE IF t = "passing" /\ i = "passing" THEN "passing" ELSE "untested"
      [] OTHER -> IF t # "untested" THEN t ELSE i

\* compute_unified_verification_status: a breached SLO overrides the rest.
UnifiedStatus(method, t, i, slo) ==
    IF slo = "breached" THEN "failing" ELSE BaseStatus(method, t, i)

\* compute_slo_status
WorstSLO(S) ==
    IF "breached" \in S THEN "breached"
    ELSE IF "at_risk" \in S THEN "at_risk"
    ELSE IF S = {"met"} THEN "met" ELSE "not_linked"
=============================================================================

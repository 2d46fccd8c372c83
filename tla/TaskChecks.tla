------------------------------ MODULE TaskChecks ------------------------------
(***************************************************************************)
(* INV-G to INV-K of requirements/invariants.py: what check_invariants     *)
(* reports of the blackboard.  None of them can be fixed, so a report is   *)
(* all there is.                                                           *)
(***************************************************************************)
EXTENDS AgentTasksRefinement

\* check_inv_g_claimed_has_agent
ClaimedWithoutAgent(t) ==
    task[t].status \in {"claimed", "in_progress"} /\ task[t].claimedBy = NoAgent

\* check_inv_h_claimed_has_lease
ClaimedWithoutLease(t) == task[t].status = "claimed" /\ task[t].lease = "null"

\* check_inv_i_nondraft_has_history
NondraftWithoutHistory(t) == task[t].status # "draft" /\ logged[t] = "none"

\* check_inv_j_approved_has_review
ApprovedWithoutReview(t) ==
    /\ task[t].status \in {"approved", "merged"}
    /\ \A n \in DOMAIN reviews[t] : reviews[t][n].decision # "approved"

\* check_inv_k_no_self_review, which passes over agents that were deleted.
SelfReviewed(t) ==
    /\ task[t].claimedBy # NoAgent
    /\ \E n \in DOMAIN reviews[t] : reviews[t][n].reviewer = task[t].claimedBy

\* check_all_invariants: the codes that are reported of a task.
Reported(t) ==
    (IF ClaimedWithoutAgent(t) THEN {"INV-G"} ELSE {})
      \cup (IF ClaimedWithoutLease(t) THEN {"INV-H"} ELSE {})
      \cup (IF NondraftWithoutHistory(t) THEN {"INV-I"} ELSE {})
      \cup (IF ApprovedWithoutReview(t) THEN {"INV-J"} ELSE {})
      \cup (IF SelfReviewed(t) THEN {"INV-K"} ELSE {})

-----------------------------------------------------------------------------
\* A report accuses the administrator and never the services: it is of a task
\* whose owner was deleted while working on it, which then stays reported until
\* the sweep or an operator takes it back, whatever agents do; or of one that
\* only an operator has moved, until it is claimed.
ReportsAccuseOperators ==
    [][\A t \in Tasks : task'[t] # task[t] \/ reviews'[t] # reviews[t] =>
         LET before == Reported(t)
             after  == Reported(t)'
         IN before # after =>
              /\ \A code \in after \ before :
                   \/ code = "INV-G" /\ agent'[task[t].claimedBy] = NoRow
                   \/ code = "INV-I" /\ task[t].status = "draft"
              /\ \A code \in before \ after :
                   \/ code = "INV-G" /\ task'[t].status \in {"unclaimed", "blocked"}
                   \/ code = "INV-I" /\ task'[t].claimedBy # NoAgent]_<<task, reviews>>
===============================================================================

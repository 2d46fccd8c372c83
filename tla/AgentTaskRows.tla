---------------------------- MODULE AgentTaskRows ----------------------------
(***************************************************************************)
(* The rows of the agent task pipeline and the pure rules about them       *)
(* (requirements/models.py and the guards of                               *)
(* requirements/services/agent_tasks.py).  AgentTasks reads and writes     *)
(* these rows one whole transaction at a time; AgentTasksRC splits each    *)
(* transaction at its database statements.                                 *)
(***************************************************************************)
EXTENDS Naturals, Sequences, FiniteSets

CONSTANTS
    Tasks,        \* AgentTask.external_id
    Agents,       \* Agent.agent_id
    Commits,      \* commit_sha values agents submit
    NoAgent,      \* a NULL agent foreign key
    NoCommit,     \* the empty commit_sha of a task never submitted
    DependsOn,    \* AgentTask.depends_on, a set of tasks per task
    MaxAttempts   \* AgentTask.max_attempts

ASSUME NoAgentAssumption == NoAgent \notin Agents
ASSUME NoCommitAssumption == NoCommit \notin Commits
ASSUME DependsOnAssumption == DependsOn \in [Tasks -> SUBSET Tasks]
ASSUME MaxAttemptsAssumption == MaxAttempts \in Nat

Status == {"draft", "unclaimed", "claimed", "in_progress", "ready_for_review",
           "changes_requested", "approved", "merged", "blocked", "abandoned"}

Role == {"planner", "coder", "reviewer"}

Decision == {"approved", "changes_requested", "rejected"}

\* AGENT_TASK_STATE_TRANSITIONS
Transitions ==
    [draft             |-> {"unclaimed", "abandoned"},
     unclaimed         |-> {"claimed", "blocked"},
     claimed           |-> {"in_progress", "unclaimed"},
     in_progress       |-> {"ready_for_review", "blocked"},
     ready_for_review  |-> {"approved", "changes_requested"},
     changes_requested |-> {"ready_for_review", "abandoned"},
     approved          |-> {"merged"},
     blocked           |-> {"unclaimed", "abandoned"},
     merged            |-> {},
     abandoned         |-> {}]

\* decision_to_status in review_task
DecisionStatus ==
    [approved          |-> "approved",
     changes_requested |-> "changes_requested",
     rejected          |-> "abandoned"]

\* lease_expires against the clock: NULL, in the future, in the past.
Lease == {"null", "live", "lapsed"}

TaskRow == [status    : Status,
            claimedBy : Agents \cup {NoAgent},
            lease     : Lease,
            commit    : Commits \cup {NoCommit},
            attempts  : Nat]

\* role "absent" stands for an agent_id with no row.
AgentRow == [role : Role \cup {"absent"}, active : BOOLEAN]

ReviewRow == [reviewer : Agents \cup {NoAgent},
              decision : Decision,
              commit   : Commits \cup {NoCommit}]

NewTask  == [status |-> "draft", claimedBy |-> NoAgent, lease |-> "null",
             commit |-> NoCommit, attempts |-> 0]
NoRow    == [role |-> "absent", active |-> FALSE]

-----------------------------------------------------------------------------
\* validate_transition
MayMove(row, to) == to \in Transitions[row.status]

\* get_agent: the row exists and is active.
Usable(row) == row.role # "absent" /\ row.active

CanClaimTasks(row)  == row.role = "coder"
CanReviewTasks(row) == row.role = "reviewer"

\* Agent.current_task, before .first() picks one of them
CurrentTasks(tasks, a) ==
    {t \in Tasks : /\ tasks[t].claimedBy = a
                   /\ tasks[t].status \in {"claimed", "in_progress"}}

DependenciesMerged(tasks, t) == \A d \in DependsOn[t] : tasks[d].status = "merged"

\* Faulty variant of IsClaimable: the dependencies are forgotten.
IsClaimableByStatus(tasks, t) == tasks[t].status = "unclaimed"

\* AgentTask.is_claimable
IsClaimable(tasks, t) == tasks[t].status = "unclaimed" /\ DependenciesMerged(tasks, t)

\* The UPDATE of claim_task, applied to a row.
ClaimedRow(row, a) ==
    [row EXCEPT !.status = "claimed", !.claimedBy = a, !.lease = "live"]

StartedRow(row) == [row EXCEPT !.status = "in_progress"]

SubmittedRow(row, c) == [row EXCEPT !.status = "ready_for_review", !.commit = c]

ReviewedRowBeyondLimit(row, d) ==
    IF d = "changes_requested"
    THEN [row EXCEPT !.attempts = @ + 1,
                     !.status   = IF row.attempts + 1 > MaxAttempts
                                  THEN "abandoned" ELSE "changes_requested"]
    ELSE [row EXCEPT !.status = DecisionStatus[d]]

\* review_task: one more attempt, and exhaustion turns the request for
\* changes into an abandonment.
ReviewedRow(row, d) ==
    IF d = "changes_requested"
    THEN [row EXCEPT !.attempts = @ + 1,
                     !.status   = IF row.attempts + 1 >= MaxAttempts
                                  THEN "abandoned" ELSE "changes_requested"]
    ELSE [row EXCEPT !.status = DecisionStatus[d]]

MergedRow(row) == [row EXCEPT !.status = "merged"]

\* Faulty variant of ReleasedRow: the claim is cleared, the status is not.
ReleasedRowStillClaimed(row) == [row EXCEPT !.claimedBy = NoAgent, !.lease = "null"]

ReleasedRow(row) ==
    [row EXCEPT !.status = "unclaimed", !.claimedBy = NoAgent, !.lease = "null"]

Review(a, d, row) == [reviewer |-> a, decision |-> d, commit |-> row.commit]

\* submit_for_review: the owner check, then the resubmission shortcut.
MaySubmit(row, a) ==
    /\ row.claimedBy = a
    /\ row.status = "changes_requested" \/ MayMove(row, "ready_for_review")

\* Faulty variant of MayReview: the owner may review.
MayReviewOwn(row, agentRow, a, d) ==
    /\ CanReviewTasks(agentRow)
    /\ row.status = "ready_for_review"
    /\ MayMove(row, DecisionStatus[d])

\* review_task's checks on the task and the reviewer's row.
MayReview(row, agentRow, a, d) ==
    /\ CanReviewTasks(agentRow)
    /\ row.claimedBy # a
    /\ row.status = "ready_for_review"
    /\ MayMove(row, DecisionStatus[d])

-----------------------------------------------------------------------------
\* What the reviews of a task say, for the properties.
ApprovedCommits(rs) ==
    {rs[i].commit : i \in {j \in DOMAIN rs : rs[j].decision = "approved"}}
ChangeRequests(rs) ==
    Cardinality({i \in DOMAIN rs : rs[i].decision = "changes_requested"})
==============================================================================

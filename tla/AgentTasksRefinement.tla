------------------------- MODULE AgentTasksRefinement -------------------------
(***************************************************************************)
(* The services of agent_tasks.py implement TaskBoard.                     *)
(***************************************************************************)
EXTENDS AgentTasks

\* Draft, unclaimed and blocked tasks all wait; a claim and its start are one
\* hold; an abandoned task is dropped.
PhaseOf ==
    [draft             |-> "waiting",
     unclaimed         |-> "waiting",
     blocked           |-> "waiting",
     claimed           |-> "held",
     in_progress       |-> "held",
     ready_for_review  |-> "submitted",
     changes_requested |-> "returned",
     approved          |-> "accepted",
     merged            |-> "landed",
     abandoned         |-> "dropped"]

boardPhase == [t \in Tasks |-> PhaseOf[task[t].status]]

\* claimed_by outlives the hold when an operator blocks or withdraws a task;
\* the board forgets it there.
boardHolder ==
    [t \in Tasks |-> IF PhaseOf[task[t].status] \in {"waiting", "dropped"}
                     THEN NoAgent ELSE task[t].claimedBy]

\* The reviewer whose review approved the task.
boardAcceptedBy ==
    [t \in Tasks |-> IF task[t].status \in {"approved", "merged"}
                     THEN reviews[t][Len(reviews[t])].reviewer ELSE NoAgent]

Board == INSTANCE TaskBoard WITH
            phase <- boardPhase, holder <- boardHolder, acceptedBy <- boardAcceptedBy

\* Every behaviour of the services is a behaviour of the board.
ImplementsTaskBoard == Board!Spec
===============================================================================

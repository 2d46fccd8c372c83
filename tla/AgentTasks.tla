------------------------------ MODULE AgentTasks ------------------------------
(***************************************************************************)
(* The blackboard of requirements/services/agent_tasks.py with every       *)
(* service call one transaction: what SQLite, the default database, gives  *)
(* (one writer, serializable).  AgentTasksRC is the same code under READ   *)
(* COMMITTED.  A call that raises TransitionError rolls back and is a      *)
(* stuttering step, so only successful calls are actions.                  *)
(***************************************************************************)
EXTENDS AgentTaskRows

CONSTANTS
    Roles,       \* the roles that agents register with
    Sweepers     \* concurrent runs of the expire_leases command

ASSUME RegisteredRolesAssumption == Roles \subseteq Role

VARIABLES
    task,      \* AgentTask rows
    agent,     \* Agent rows
    reviews,   \* AgentTaskReview rows of each task, oldest first
    logged,    \* to_status of each task's newest AgentTaskHistory row
    sweep      \* tasks each expire_leases run has listed and not yet released

vars == <<task, agent, reviews, logged, sweep>>

Init ==
    /\ task    = [t \in Tasks |-> NewTask]
    /\ agent   = [a \in Agents |-> NoRow]
    /\ reviews = [t \in Tasks |-> <<>>]
    /\ logged  = [t \in Tasks |-> "none"]
    /\ sweep   = [s \in Sweepers |-> {}]

\* Every service call that changes a task saves the row and logs it.
Save(t, row) ==
    /\ task'   = [task EXCEPT ![t] = row]
    /\ logged' = [logged EXCEPT ![t] = row.status]

-----------------------------------------------------------------------------
\* register_agent: update_or_create, which also reactivates and re-roles.
RegisterAgent(a, r) ==
    /\ agent' = [agent EXCEPT ![a] = [role |-> r, active |-> TRUE]]
    /\ UNCHANGED <<task, reviews, logged, sweep>>

\* The admin form of an agent: is_active.
AdminSetActive(a, b) ==
    /\ agent[a].role # "absent"
    /\ agent' = [agent EXCEPT ![a].active = b]
    /\ UNCHANGED <<task, reviews, logged, sweep>>

\* Faulty variant of ClaimTask: no current_task check.
ClaimTaskWhileBusy(t, a) ==
    /\ Usable(agent[a])
    /\ CanClaimTasks(agent[a])
    /\ MayMove(task[t], "claimed")
    /\ IsClaimable(task, t)
    /\ Save(t, ClaimedRow(task[t], a))
    /\ UNCHANGED <<agent, reviews, sweep>>

ClaimTask(t, a) ==
    /\ Usable(agent[a])
    /\ CanClaimTasks(agent[a])
    /\ CurrentTasks(task, a) \subseteq {t}
    /\ MayMove(task[t], "claimed")
    /\ IsClaimable(task, t)
    /\ Save(t, ClaimedRow(task[t], a))
    /\ UNCHANGED <<agent, reviews, sweep>>

StartTask(t, a) ==
    /\ Usable(agent[a])
    /\ task[t].claimedBy = a
    /\ MayMove(task[t], "in_progress")
    /\ Save(t, StartedRow(task[t]))
    /\ UNCHANGED <<agent, reviews, sweep>>

SubmitForReview(t, a, c) ==
    /\ Usable(agent[a])
    /\ MaySubmit(task[t], a)
    /\ Save(t, SubmittedRow(task[t], c))
    /\ UNCHANGED <<agent, reviews, sweep>>

\* Faulty variant of ReviewTask: get_or_create of the reviewer's review, which
\* keeps the first.
ReviewTaskOncePerReviewer(t, a, d) ==
    /\ Usable(agent[a])
    /\ MayReview(task[t], agent[a], a, d)
    /\ reviews' = IF \E i \in DOMAIN reviews[t] : reviews[t][i].reviewer = a
                  THEN reviews
                  ELSE [reviews EXCEPT ![t] = Append(@, Review(a, d, task[t]))]
    /\ Save(t, ReviewedRow(task[t], d))
    /\ UNCHANGED <<agent, sweep>>

ReviewTask(t, a, d) ==
    /\ Usable(agent[a])
    /\ MayReview(task[t], agent[a], a, d)
    /\ reviews' = [reviews EXCEPT ![t] = Append(@, Review(a, d, task[t]))]
    /\ Save(t, ReviewedRow(task[t], d))
    /\ UNCHANGED <<agent, sweep>>

MergeTask(t) ==
    /\ task[t].status = "approved"
    /\ Save(t, MergedRow(task[t]))
    /\ UNCHANGED <<agent, reviews, sweep>>

-----------------------------------------------------------------------------
\* Faulty variant of Lapsed: the filter names the wrong status.
LapsedInProgress(t) == task[t].status = "in_progress" /\ task[t].lease = "lapsed"

\* expire_stale_leases lists the lapsed claims in one query and then calls
\* release_task, a transaction of its own, for each of them.  release_task
\* looks at the status only; on any other status it raises and the loop
\* goes on.
Lapsed(t) == task[t].status = "claimed" /\ task[t].lease = "lapsed"

SweepList(s) ==
    /\ sweep[s] = {}
    /\ sweep' = [sweep EXCEPT ![s] = {t \in Tasks : Lapsed(t)}]
    /\ UNCHANGED <<task, agent, reviews, logged>>

\* Faulty variant of SweepRelease: release_task without its status check.
SweepReleaseAnything(s, t) ==
    /\ t \in sweep[s]
    /\ sweep' = [sweep EXCEPT ![s] = @ \ {t}]
    /\ Save(t, ReleasedRow(task[t]))
    /\ UNCHANGED <<agent, reviews>>

SweepRelease(s, t) ==
    /\ t \in sweep[s]
    /\ sweep' = [sweep EXCEPT ![s] = @ \ {t}]
    /\ IF task[t].status = "claimed"
       THEN Save(t, ReleasedRow(task[t]))
       ELSE UNCHANGED <<task, logged>>
    /\ UNCHANGED <<agent, reviews>>

\* The clock passes lease_expires.
LeaseLapses(t) ==
    /\ task[t].lease = "live"
    /\ task' = [task EXCEPT ![t].lease = "lapsed"]
    /\ UNCHANGED <<agent, reviews, logged, sweep>>

-----------------------------------------------------------------------------
\* No service publishes, blocks, unblocks or withdraws a task: an operator
\* edits "status" in the admin form, which writes no history row.  The
\* operator is taken to follow the transition table.
AdminSetStatus(t, to) ==
    /\ to \in {"unclaimed", "blocked", "abandoned"}
    /\ MayMove(task[t], to)
    /\ task' = [task EXCEPT ![t].status = to]
    /\ UNCHANGED <<agent, reviews, logged, sweep>>

\* Deleting an agent in the admin: on_delete=SET_NULL for the tasks it
\* claimed and the reviews it gave.
AdminDeleteAgent(a) ==
    /\ agent[a].role # "absent"
    /\ agent' = [agent EXCEPT ![a] = NoRow]
    /\ task'  = [t \in Tasks |->
                    IF task[t].claimedBy = a
                    THEN [task[t] EXCEPT !.claimedBy = NoAgent] ELSE task[t]]
    /\ reviews' = [t \in Tasks |->
                    [i \in DOMAIN reviews[t] |->
                        IF reviews[t][i].reviewer = a
                        THEN [reviews[t][i] EXCEPT !.reviewer = NoAgent]
                        ELSE reviews[t][i]]]
    /\ UNCHANGED <<logged, sweep>>

-----------------------------------------------------------------------------
Agency ==
    \/ \E a \in Agents, r \in Roles : RegisterAgent(a, r)
    \/ \E a \in Agents, b \in BOOLEAN : AdminSetActive(a, b)

Service ==
    \/ \E t \in Tasks, a \in Agents :
          \/ ClaimTask(t, a)
          \/ StartTask(t, a)
          \/ \E c \in Commits : SubmitForReview(t, a, c)
          \/ \E d \in Decision : ReviewTask(t, a, d)
    \/ \E t \in Tasks : MergeTask(t)

Sweep ==
    \/ \E s \in Sweepers : SweepList(s)
    \/ \E s \in Sweepers, t \in Tasks : SweepRelease(s, t)

Clock == \E t \in Tasks : LeaseLapses(t)

Operator == \E t \in Tasks, to \in Status : AdminSetStatus(t, to)

Next == Agency \/ Service \/ Sweep \/ Clock \/ Operator

Deletion == \E a \in Agents : AdminDeleteAgent(a)

Spec == Init /\ [][Next]_vars

\* The same with an administrator who also deletes agents.
DeletionSpec == Init /\ [][Next \/ Deletion]_vars

\* Time passes for every lease, and cron runs expire_leases again and again,
\* each run to its end (docs/agent-tasks.md, "Cron Setup").  Agents, reviewers
\* and operators are under no obligation.
FairSpec ==
    /\ Spec
    /\ \A t \in Tasks : WF_vars(LeaseLapses(t))
    /\ \A s \in Sweepers : /\ WF_vars(SweepList(s))
                           /\ WF_vars(\E t \in Tasks : SweepRelease(s, t))

-----------------------------------------------------------------------------
TypeOK ==
    /\ task    \in [Tasks -> TaskRow]
    /\ agent   \in [Agents -> AgentRow]
    /\ reviews \in [Tasks -> Seq(ReviewRow)]
    /\ logged  \in [Tasks -> Status \cup {"none"}]
    /\ sweep   \in [Sweepers -> SUBSET Tasks]

\* The AGENT_BUSY check of claim_task: at any time an agent holds at most
\* one task it has claimed or is working on.
OneTaskPerAgent == \A a \in Agents : Cardinality(CurrentTasks(task, a)) <= 1

\* INV-H of invariants.py: a claim carries a lease, so the sweep can see it.
ClaimedHasLease ==
    \A t \in Tasks : task[t].status = "claimed" => task[t].lease # "null"

\* INV-J of invariants.py, and more than it asks: what is approved or merged
\* is the very commit an approving review looked at.
ApprovedCommitReviewed ==
    \A t \in Tasks : task[t].status \in {"approved", "merged"}
                        => task[t].commit \in ApprovedCommits(reviews[t])

\* INV-K of invariants.py: nobody reviewed the task they own.  It relates
\* every review ever given to the owner of now, across role changes,
\* releases and re-claims.
NoSelfReview ==
    \A t \in Tasks : \A i \in DOMAIN reviews[t] :
        task[t].claimedBy # NoAgent => reviews[t][i].reviewer # task[t].claimedBy

\* Why NoSelfReview holds: a task with a review never returns to the
\* blackboard, so it is never claimed by somebody who reviewed it.
ReviewedTaskStaysOffBoard ==
    \A t \in Tasks : reviews[t] # <<>> =>
        task[t].status \in {"ready_for_review", "changes_requested", "approved",
                            "merged", "abandoned"}

\* Work goes on only on top of merged work: from the claim on, every
\* dependency is and stays merged.
WorkedOnTasksHaveMergedDependencies ==
    \A t \in Tasks :
        task[t].status \in {"claimed", "in_progress", "ready_for_review",
                            "changes_requested", "approved", "merged"}
            => DependenciesMerged(task, t)

\* attempt_count is the number of change requests given, and as soon as it
\* reaches max_attempts the task is abandoned for good.
AttemptsAccountForReviews ==
    \A t \in Tasks :
        /\ task[t].attempts = ChangeRequests(reviews[t])
        /\ (task[t].attempts > 0 /\ task[t].attempts >= MaxAttempts)
              => task[t].status = "abandoned"

\* The newest history row tells the task's status in every state that only
\* the services can reach.
HistoryTellsStatus ==
    \A t \in Tasks : task[t].status \notin {"draft", "unclaimed", "blocked", "abandoned"}
                        => logged[t] = task[t].status

\* Once a task has been reviewed its owner never changes, so the coder who is
\* asked for changes is the only one who can deliver them.  Only the deletion
\* of the owner itself takes the task from it.
ReviewedTaskKeepsOwner ==
    [][\A t \in Tasks : reviews[t] # <<>> =>
          \/ task'[t].claimedBy = task[t].claimedBy
          \/ /\ agent'[task[t].claimedBy] = NoRow
             /\ task'[t].claimedBy = NoAgent]_vars

\* A claim nobody starts goes back to the blackboard: its lease lapses and the
\* next expire_leases run that lists it releases it.
UnstartedClaimReturns ==
    \A t \in Tasks : task[t].status = "claimed" ~> task[t].status # "claimed"
==============================================================================

----------------------------- MODULE AgentTasksRC -----------------------------
(***************************************************************************)
(* The services of agent_tasks.py on PostgreSQL at READ COMMITTED, the     *)
(* isolation the concurrent-claim test of the repository is about.         *)
(* @transaction.atomic takes no row locks here (there is no                *)
(* select_for_update), so a call is three database steps with other        *)
(* transactions in between:                                                *)
(*   Load     get_agent and get_task, and the checks made on those rows;   *)
(*   Check    claim_task only: current_task and depends_on, fresh queries; *)
(*   Commit   the UPDATE, the history and review rows, and the commit.     *)
(* claim_task updates four columns where status is still UNCLAIMED; every  *)
(* other service writes the whole row it loaded with task.save().          *)
(***************************************************************************)
EXTENDS AgentTaskRows

CONSTANTS
    Coders, Reviewers,   \* agents by role, registered and active throughout
    Workers              \* gunicorn workers and management commands

ASSUME RolesAssumption == Coders \subseteq Agents /\ Reviewers \subseteq Agents

VARIABLES
    task,      \* AgentTask rows
    reviews,   \* AgentTaskReview rows of each task, oldest first
    logged,    \* to_status of each task's newest AgentTaskHistory row
    listed,    \* tasks the running expire_leases has listed and not yet released
    call       \* the service call each worker is in

vars == <<task, reviews, logged, listed, call>>

\* A call in flight.  "row" is the task row the call loaded; "arg" is the
\* commit submitted or the decision given.
NoCall == [op |-> "none"]

Call ==
    {NoCall} \cup
    [op : {"claim", "claim_checked", "start", "release", "merge"},
     task : Tasks, agent : Agents \cup {NoAgent}, row : TaskRow] \cup
    [op : {"submit"}, task : Tasks, agent : Agents, row : TaskRow, arg : Commits] \cup
    [op : {"review"}, task : Tasks, agent : Agents, row : TaskRow, arg : Decision]

Init ==
    /\ task    = [t \in Tasks |-> NewTask]
    /\ reviews = [t \in Tasks |-> <<>>]
    /\ logged  = [t \in Tasks |-> "none"]
    /\ listed  = {}
    /\ call    = [w \in Workers |-> NoCall]

Idle(w) == call[w] = NoCall

\* The end of every transaction: the row as the database now has it, and the
\* history row of the service.
Store(w, row) ==
    LET t == call[w].task
    IN /\ task'   = [task EXCEPT ![t] = row]
       /\ logged' = [logged EXCEPT ![t] = row.status]
       /\ call'   = [call EXCEPT ![w] = NoCall]

Enter(w, c) ==
    /\ Idle(w)
    /\ call' = [call EXCEPT ![w] = c]
    /\ UNCHANGED <<task, reviews, logged>>

-----------------------------------------------------------------------------
LoadClaim(w, t, a) ==
    /\ a \in Coders
    /\ MayMove(task[t], "claimed")
    /\ Enter(w, [op |-> "claim", task |-> t, agent |-> a, row |-> task[t]])
    /\ UNCHANGED listed

CheckClaim(w) ==
    /\ call[w].op = "claim"
    /\ call' = [call EXCEPT ![w] =
                   IF /\ CurrentTasks(task, call[w].agent) \subseteq {call[w].task}
                      /\ DependenciesMerged(task, call[w].task)
                   THEN [call[w] EXCEPT !.op = "claim_checked"]
                   ELSE NoCall]
    /\ UNCHANGED <<task, reviews, logged, listed>>

\* Faulty variant of CommitClaim: an unconditional UPDATE.
CommitClaimBlindly(w) ==
    /\ call[w].op = "claim_checked"
    /\ Store(w, ClaimedRow(task[call[w].task], call[w].agent))
    /\ UNCHANGED <<reviews, listed>>

\* The compare-and-swap: the row of now, not the row loaded.
CommitClaim(w) ==
    /\ call[w].op = "claim_checked"
    /\ IF task[call[w].task].status = "unclaimed"
       THEN Store(w, ClaimedRow(task[call[w].task], call[w].agent))
       ELSE call' = [call EXCEPT ![w] = NoCall] /\ UNCHANGED <<task, logged>>
    /\ UNCHANGED <<reviews, listed>>

LoadStart(w, t, a) ==
    /\ task[t].claimedBy = a
    /\ MayMove(task[t], "in_progress")
    /\ Enter(w, [op |-> "start", task |-> t, agent |-> a, row |-> task[t]])
    /\ UNCHANGED listed

CommitStart(w) ==
    /\ call[w].op = "start"
    /\ Store(w, StartedRow(call[w].row))
    /\ UNCHANGED <<reviews, listed>>

LoadSubmit(w, t, a, c) ==
    /\ MaySubmit(task[t], a)
    /\ Enter(w, [op |-> "submit", task |-> t, agent |-> a, row |-> task[t], arg |-> c])
    /\ UNCHANGED listed

CommitSubmit(w) ==
    /\ call[w].op = "submit"
    /\ Store(w, SubmittedRow(call[w].row, call[w].arg))
    /\ UNCHANGED <<reviews, listed>>

LoadReview(w, t, a, d) ==
    /\ MayReview(task[t], [role |-> IF a \in Reviewers THEN "reviewer" ELSE "coder",
                           active |-> TRUE], a, d)
    /\ Enter(w, [op |-> "review", task |-> t, agent |-> a, row |-> task[t], arg |-> d])
    /\ UNCHANGED listed

\* Faulty variant of CommitReview: save(update_fields=["status"]), which leaves
\* a commit submitted meanwhile in place under the approval of the earlier one.
CommitReviewStatusOnly(w) ==
    /\ call[w].op = "review"
    /\ reviews' = [reviews EXCEPT ![call[w].task] =
                      Append(@, Review(call[w].agent, call[w].arg, call[w].row))]
    /\ Store(w, [task[call[w].task] EXCEPT
                    !.status = ReviewedRow(call[w].row, call[w].arg).status])
    /\ UNCHANGED listed

CommitReview(w) ==
    /\ call[w].op = "review"
    /\ reviews' = [reviews EXCEPT ![call[w].task] =
                      Append(@, Review(call[w].agent, call[w].arg, call[w].row))]
    /\ Store(w, ReviewedRow(call[w].row, call[w].arg))
    /\ UNCHANGED listed

LoadMerge(w, t) ==
    /\ task[t].status = "approved"
    /\ Enter(w, [op |-> "merge", task |-> t, agent |-> NoAgent, row |-> task[t]])
    /\ UNCHANGED listed

CommitMerge(w) ==
    /\ call[w].op = "merge"
    /\ Store(w, MergedRow(call[w].row))
    /\ UNCHANGED <<reviews, listed>>

\* expire_stale_leases: the list is read outside any transaction, each
\* release_task is a transaction of its own.
SweepList ==
    /\ listed = {}
    /\ listed' = {t \in Tasks : task[t].status = "claimed" /\ task[t].lease = "lapsed"}
    /\ UNCHANGED <<task, reviews, logged, call>>

LoadRelease(w, t) ==
    /\ t \in listed
    /\ listed' = listed \ {t}
    /\ IF task[t].status = "claimed"
       THEN Enter(w, [op |-> "release", task |-> t, agent |-> NoAgent, row |-> task[t]])
       ELSE UNCHANGED <<task, reviews, logged, call>>

CommitRelease(w) ==
    /\ call[w].op = "release"
    /\ Store(w, ReleasedRow(call[w].row))
    /\ UNCHANGED <<reviews, listed>>

-----------------------------------------------------------------------------
\* A worker dies or loses its connection: the transaction rolls back.
Abort(w) ==
    /\ ~Idle(w)
    /\ call' = [call EXCEPT ![w] = NoCall]
    /\ UNCHANGED <<task, reviews, logged, listed>>

LeaseLapses(t) ==
    /\ task[t].lease = "live"
    /\ task' = [task EXCEPT ![t].lease = "lapsed"]
    /\ UNCHANGED <<reviews, logged, listed, call>>

\* The operator publishes a draft in the admin form.
AdminPublish(t) ==
    /\ task[t].status = "draft"
    /\ task' = [task EXCEPT ![t].status = "unclaimed"]
    /\ UNCHANGED <<reviews, logged, listed, call>>

-----------------------------------------------------------------------------
Load ==
    \/ \E w \in Workers, t \in Tasks, a \in Agents :
          \/ LoadClaim(w, t, a)
          \/ LoadStart(w, t, a)
          \/ \E c \in Commits : LoadSubmit(w, t, a, c)
          \/ \E d \in Decision : LoadReview(w, t, a, d)
    \/ \E w \in Workers, t \in Tasks : LoadMerge(w, t) \/ LoadRelease(w, t)

Commit ==
    \E w \in Workers :
        CommitClaim(w) \/ CommitStart(w) \/ CommitSubmit(w) \/ CommitReview(w)
            \/ CommitMerge(w) \/ CommitRelease(w)

Next ==
    \/ Load
    \/ \E w \in Workers : CheckClaim(w)
    \/ Commit
    \/ SweepList
    \/ \E w \in Workers : Abort(w)
    \/ \E t \in Tasks : LeaseLapses(t) \/ AdminPublish(t)

Spec == Init /\ [][Next]_vars

-----------------------------------------------------------------------------
TypeOK ==
    /\ task    \in [Tasks -> TaskRow]
    /\ reviews \in [Tasks -> Seq(ReviewRow)]
    /\ logged  \in [Tasks -> Status \cup {"none"}]
    /\ listed  \in SUBSET Tasks
    /\ call    \in [Workers -> Call]

\* INV-G and INV-H of invariants.py survive the stale whole-row saves: work is
\* never without an owner, and no claim without the lease that expire_leases
\* looks for.
ClaimsAreHeld ==
    \A t \in Tasks :
        /\ task[t].status \in {"claimed", "in_progress"} => task[t].claimedBy # NoAgent
        /\ task[t].status = "claimed" => task[t].lease # "null"

\* INV-J of invariants.py, with the commit: whatever the interleaving, the
\* commit of an approved or merged task is one an approving review looked at;
\* and the newest history row tells the status, although history and row are
\* written by transactions that overwrite each other.
ReviewsAreOnRecord ==
    \A t \in Tasks :
        /\ task[t].status \in {"approved", "merged"}
             => task[t].commit \in ApprovedCommits(reviews[t])
        /\ task[t].status \notin {"draft", "unclaimed", "blocked", "abandoned"}
             => logged[t] = task[t].status

\* "Exactly one claim may commit" (test_agent_tasks_service.py): a task
\* becomes CLAIMED only from UNCLAIMED, so the second of two racing claims
\* raises instead of overwriting the winner.
ClaimsNeverOverwrite ==
    [][\A t \in Tasks : (task'[t].status = "claimed" /\ task'[t] # task[t])
          => task[t].status = "unclaimed" \/ task'[t].claimedBy = task[t].claimedBy]_vars
==============================================================================

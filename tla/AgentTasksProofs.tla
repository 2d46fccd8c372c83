--------------------------- MODULE AgentTasksProofs ---------------------------
(***************************************************************************)
(* Proofs about AgentTasks, for any set of tasks, agents and commits, any  *)
(* dependencies and any max_attempts.                                      *)
(***************************************************************************)
EXTENDS TaskChecks, FiniteSetTheorems, SequenceTheorems, TLAPS

USE NoAgentAssumption, NoCommitAssumption, DependsOnAssumption, MaxAttemptsAssumption

Step == Next \/ Deletion

\* What each check of the transition table leaves possible.
LEMMA MoveFacts ==
    ASSUME NEW row \in TaskRow
    PROVE  /\ MayMove(row, "claimed") => row.status = "unclaimed"
           /\ MayMove(row, "in_progress") => row.status = "claimed"
           /\ MayMove(row, "ready_for_review")
                 => row.status \in {"in_progress", "changes_requested"}
           /\ MayMove(row, "approved") => row.status = "ready_for_review"
           /\ MayMove(row, "unclaimed") => row.status \in {"draft", "claimed", "blocked"}
           /\ MayMove(row, "blocked") => row.status \in {"unclaimed", "in_progress"}
           /\ MayMove(row, "abandoned")
                 => row.status \in {"draft", "changes_requested", "blocked"}
BY DEF MayMove, Transitions, TaskRow, Status

\* The rows the services write are rows.
LEMMA RowTypes ==
    ASSUME NEW row \in TaskRow
    PROVE  /\ \A a \in Agents : ClaimedRow(row, a) \in TaskRow
           /\ StartedRow(row) \in TaskRow
           /\ \A c \in Commits : SubmittedRow(row, c) \in TaskRow
           /\ \A d \in Decision : ReviewedRow(row, d) \in TaskRow
           /\ MergedRow(row) \in TaskRow
           /\ ReleasedRow(row) \in TaskRow
<1>1. \A a \in Agents : ClaimedRow(row, a) \in TaskRow
  BY DEF ClaimedRow, TaskRow, Status, Lease
<1>2. StartedRow(row) \in TaskRow
  BY DEF StartedRow, TaskRow, Status
<1>3. \A c \in Commits : SubmittedRow(row, c) \in TaskRow
  BY DEF SubmittedRow, TaskRow, Status
<1>4. ASSUME NEW d \in Decision
      PROVE  ReviewedRow(row, d) \in TaskRow
  <2>1. CASE d = "changes_requested"
    <3> DEFINE st == IF row.attempts + 1 >= MaxAttempts THEN "abandoned" ELSE "changes_requested"
    <3>1. st \in Status
      BY DEF Status
    <3>2. row.attempts + 1 \in Nat
      BY DEF TaskRow
    <3>3. ReviewedRow(row, d) = [row EXCEPT !.attempts = row.attempts + 1, !.status = st]
      BY <2>1 DEF ReviewedRow
    <3> HIDE DEF st
    <3>4. QED
      BY <3>1, <3>2, <3>3 DEF TaskRow
  <2>2. CASE d = "approved"
    BY <2>2 DEF ReviewedRow, TaskRow, Status, DecisionStatus
  <2>3. CASE d = "rejected"
    BY <2>3 DEF ReviewedRow, TaskRow, Status, DecisionStatus
  <2>4. QED
    BY <2>1, <2>2, <2>3 DEF Decision
<1>5. MergedRow(row) \in TaskRow
  BY DEF MergedRow, TaskRow, Status
<1>6. ReleasedRow(row) \in TaskRow
  BY DEF ReleasedRow, TaskRow, Status, Lease
<1>7. QED
  BY <1>1, <1>2, <1>3, <1>4, <1>5, <1>6

\* ... and what each of them changes.
LEMMA RowFields ==
    ASSUME NEW row \in TaskRow
    PROVE  /\ \A a \in Agents :
                /\ ClaimedRow(row, a).status = "claimed"
                /\ ClaimedRow(row, a).claimedBy = a
                /\ ClaimedRow(row, a).lease = "live"
                /\ ClaimedRow(row, a).attempts = row.attempts
           /\ StartedRow(row).status = "in_progress"
           /\ StartedRow(row).claimedBy = row.claimedBy
           /\ StartedRow(row).attempts = row.attempts
           /\ \A c \in Commits :
                /\ SubmittedRow(row, c).status = "ready_for_review"
                /\ SubmittedRow(row, c).claimedBy = row.claimedBy
                /\ SubmittedRow(row, c).attempts = row.attempts
           /\ \A d \in Decision :
                /\ ReviewedRow(row, d).claimedBy = row.claimedBy
                /\ ReviewedRow(row, d).commit = row.commit
                /\ ReviewedRow(row, d).status \in {"approved", "changes_requested", "abandoned"}
                /\ ReviewedRow(row, d).status = "approved" => d = "approved"
           /\ MergedRow(row).status = "merged"
           /\ MergedRow(row).claimedBy = row.claimedBy
           /\ MergedRow(row).commit = row.commit
           /\ MergedRow(row).attempts = row.attempts
           /\ ReleasedRow(row).status = "unclaimed"
           /\ ReleasedRow(row).claimedBy = NoAgent
           /\ ReleasedRow(row).attempts = row.attempts
BY DEF ClaimedRow, StartedRow, SubmittedRow, ReviewedRow, MergedRow, ReleasedRow,
       TaskRow, Decision, DecisionStatus

-----------------------------------------------------------------------------
\* Every step keeps the tables well-typed.
LEMMA TypeStep ==
    ASSUME TypeOK, [Step]_vars
    PROVE  TypeOK'
<1> USE DEF TypeOK
<1>0. \A t \in Tasks : \A row \in TaskRow :
         Save(t, row) => /\ task' \in [Tasks -> TaskRow]
                         /\ logged' \in [Tasks -> Status \cup {"none"}]
  BY DEF Save, TaskRow
<1>1. ASSUME NEW a \in Agents, NEW r \in Roles, RegisterAgent(a, r) PROVE TypeOK'
  BY <1>1, RegisteredRolesAssumption DEF RegisterAgent, AgentRow
<1>2. ASSUME NEW a \in Agents, NEW b \in BOOLEAN, AdminSetActive(a, b) PROVE TypeOK'
  BY <1>2 DEF AdminSetActive, AgentRow
<1>3. ASSUME NEW t \in Tasks, NEW a \in Agents, ClaimTask(t, a) PROVE TypeOK'
  BY <1>0, <1>3, RowTypes DEF ClaimTask
<1>4. ASSUME NEW t \in Tasks, NEW a \in Agents, StartTask(t, a) PROVE TypeOK'
  BY <1>0, <1>4, RowTypes DEF StartTask
<1>5. ASSUME NEW t \in Tasks, NEW a \in Agents, NEW c \in Commits,
             SubmitForReview(t, a, c)
      PROVE TypeOK'
  BY <1>0, <1>5, RowTypes DEF SubmitForReview
<1>6. ASSUME NEW t \in Tasks, NEW a \in Agents, NEW d \in Decision, ReviewTask(t, a, d)
      PROVE TypeOK'
  <2>1. Review(a, d, task[t]) \in ReviewRow
    BY DEF Review, ReviewRow, TaskRow
  <2>2. Append(reviews[t], Review(a, d, task[t])) \in Seq(ReviewRow)
    BY <2>1, AppendProperties
  <2>3. reviews' \in [Tasks -> Seq(ReviewRow)]
    BY <1>6, <2>2 DEF ReviewTask
  <2>4. QED
    BY <1>0, <1>6, <2>3, RowTypes DEF ReviewTask
<1>7. ASSUME NEW t \in Tasks, MergeTask(t) PROVE TypeOK'
  BY <1>0, <1>7, RowTypes DEF MergeTask
<1>8. ASSUME NEW s \in Sweepers, SweepList(s) PROVE TypeOK'
  BY <1>8 DEF SweepList
<1>9. ASSUME NEW s \in Sweepers, NEW t \in Tasks, SweepRelease(s, t) PROVE TypeOK'
  BY <1>0, <1>9, RowTypes DEF SweepRelease
<1>10. ASSUME NEW t \in Tasks, LeaseLapses(t) PROVE TypeOK'
  BY ZenonT(30), <1>10 DEF LeaseLapses, TaskRow, Lease
<1>11. ASSUME NEW t \in Tasks, NEW to \in Status, AdminSetStatus(t, to) PROVE TypeOK'
  BY ZenonT(30), <1>11 DEF AdminSetStatus, TaskRow, Status
<1>12. ASSUME NEW a \in Agents, AdminDeleteAgent(a) PROVE TypeOK'
  <2>1. task' \in [Tasks -> TaskRow]
    BY ZenonT(30), <1>12 DEF AdminDeleteAgent, TaskRow
  <2>2. agent' \in [Agents -> AgentRow]
    BY <1>12 DEF AdminDeleteAgent, AgentRow, NoRow
  <2>3. ASSUME NEW t \in Tasks PROVE reviews'[t] \in Seq(ReviewRow)
    <3>1. reviews[t] \in Seq(ReviewRow)
      OBVIOUS
    <3>2. /\ Len(reviews[t]) \in Nat
          /\ DOMAIN reviews[t] = 1..Len(reviews[t])
          /\ \A i \in 1..Len(reviews[t]) : reviews[t][i] \in ReviewRow
      BY <3>1, LenProperties
    <3>3. reviews'[t] \in [1..Len(reviews[t]) -> ReviewRow]
      BY <1>12, <3>2 DEF AdminDeleteAgent, ReviewRow
    <3>4. reviews'[t] \in UNION {[1..n -> ReviewRow] : n \in Nat}
      BY <3>2, <3>3
    <3>5. QED
      BY <3>4, SeqDef, Zenon
  <2>4. reviews' \in [Tasks -> Seq(ReviewRow)]
    BY <1>12, <2>3 DEF AdminDeleteAgent
  <2>5. QED
    BY <1>12, <2>1, <2>2, <2>4 DEF AdminDeleteAgent
<1>13. CASE UNCHANGED vars
  BY <1>13 DEF vars
<1>14. QED
  BY <1>1, <1>2, <1>3, <1>4, <1>5, <1>6, <1>7, <1>8, <1>9, <1>10, <1>11, <1>12, <1>13
     DEF Step, Next, Deletion, Agency, Service, Sweep, Clock, Operator

-----------------------------------------------------------------------------
(***************************************************************************)
(* The inductive invariant.  Each part stands alone except these: who may  *)
(* claim a task (NoSelfReview) depends on reviewed tasks staying off the   *)
(* board, and merged dependencies on MERGED being left by no step.         *)
(***************************************************************************)
HeldAlone ==
    \A a \in Agents : \A t, u \in CurrentTasks(task, a) : t = u

IInv ==
    /\ TypeOK
    /\ HeldAlone
    /\ ClaimedHasLease
    /\ ApprovedCommitReviewed
    /\ ReviewedTaskStaysOffBoard
    /\ NoSelfReview
    /\ WorkedOnTasksHaveMergedDependencies
    /\ HistoryTellsStatus
    /\ AttemptsAccountForReviews

\* claim_task's current_task query is the only way to hold a task.
LEMMA HeldAloneStep ==
    ASSUME TypeOK, HeldAlone, [Step]_vars
    PROVE  HeldAlone'
<1>1. ASSUME NEW a \in Agents, NEW r \in Roles, RegisterAgent(a, r) PROVE HeldAlone'
  BY <1>1 DEF TypeOK, HeldAlone, CurrentTasks, RegisterAgent
<1>2. ASSUME NEW a \in Agents, NEW b \in BOOLEAN, AdminSetActive(a, b) PROVE HeldAlone'
  BY <1>2 DEF TypeOK, HeldAlone, CurrentTasks, AdminSetActive
<1>3. ASSUME NEW t \in Tasks, NEW a \in Agents, ClaimTask(t, a) PROVE HeldAlone'
  BY <1>3, MoveFacts, RowFields DEF TypeOK, HeldAlone, CurrentTasks, ClaimTask, Save
<1>4. ASSUME NEW t \in Tasks, NEW a \in Agents, StartTask(t, a) PROVE HeldAlone'
  BY <1>4, MoveFacts, RowFields DEF TypeOK, HeldAlone, CurrentTasks, StartTask, Save
<1>5. ASSUME NEW t \in Tasks, NEW a \in Agents, NEW c \in Commits, SubmitForReview(t, a, c)
      PROVE HeldAlone'
  BY <1>5, MoveFacts, RowFields DEF TypeOK, HeldAlone, CurrentTasks, SubmitForReview, Save
<1>6. ASSUME NEW t \in Tasks, NEW a \in Agents, NEW d \in Decision, ReviewTask(t, a, d)
      PROVE HeldAlone'
  <2>1. Save(t, ReviewedRow(task[t], d))
    BY <1>6 DEF ReviewTask
  <2>2. ReviewedRow(task[t], d).status \notin {"claimed", "in_progress"}
    BY RowFields DEF TypeOK
  <2>3. QED
    BY <2>1, <2>2 DEF TypeOK, HeldAlone, CurrentTasks, Save
<1>7. ASSUME NEW t \in Tasks, MergeTask(t) PROVE HeldAlone'
  BY <1>7, RowFields DEF TypeOK, HeldAlone, CurrentTasks, MergeTask, Save
<1>8. ASSUME NEW s \in Sweepers, SweepList(s) PROVE HeldAlone'
  BY <1>8 DEF TypeOK, HeldAlone, CurrentTasks, SweepList
<1>9. ASSUME NEW s \in Sweepers, NEW t \in Tasks, SweepRelease(s, t) PROVE HeldAlone'
  <2>1. CASE task[t].status = "claimed"
    <3>1. Save(t, ReleasedRow(task[t])) /\ UNCHANGED <<agent, reviews>>
      BY <1>9, <2>1 DEF SweepRelease
    <3>2. QED
      BY <2>1, <3>1, RowFields DEF TypeOK, HeldAlone, CurrentTasks, Save
  <2>2. CASE task[t].status # "claimed"
    BY <1>9, <2>2 DEF TypeOK, HeldAlone, CurrentTasks, SweepRelease
  <2>3. QED
    BY <2>1, <2>2
<1>10. ASSUME NEW t \in Tasks, LeaseLapses(t) PROVE HeldAlone'
  BY <1>10 DEF TypeOK, HeldAlone, CurrentTasks, LeaseLapses, TaskRow
<1>11. ASSUME NEW t \in Tasks, NEW to \in Status, AdminSetStatus(t, to) PROVE HeldAlone'
  BY <1>11, MoveFacts DEF TypeOK, HeldAlone, CurrentTasks, AdminSetStatus, TaskRow
<1>12. ASSUME NEW a \in Agents, AdminDeleteAgent(a) PROVE HeldAlone'
  BY <1>12 DEF TypeOK, HeldAlone, CurrentTasks, AdminDeleteAgent, TaskRow
<1>13. CASE UNCHANGED vars
  BY <1>13 DEF HeldAlone, CurrentTasks, vars
<1>14. QED
  BY <1>1, <1>2, <1>3, <1>4, <1>5, <1>6, <1>7, <1>8, <1>9, <1>10, <1>11, <1>12, <1>13
     DEF Step, Next, Deletion, Agency, Service, Sweep, Clock, Operator

\* Only claim_task makes a task CLAIMED, and it sets the lease.
LEMMA ClaimedHasLeaseStep ==
    ASSUME TypeOK, ClaimedHasLease, [Step]_vars
    PROVE  ClaimedHasLease'
<1>1. ASSUME NEW a \in Agents, NEW r \in Roles, RegisterAgent(a, r) PROVE ClaimedHasLease'
  BY <1>1 DEF TypeOK, ClaimedHasLease, RegisterAgent
<1>2. ASSUME NEW a \in Agents, NEW b \in BOOLEAN, AdminSetActive(a, b) PROVE ClaimedHasLease'
  BY <1>2 DEF TypeOK, ClaimedHasLease, AdminSetActive
<1>3. ASSUME NEW t \in Tasks, NEW a \in Agents, ClaimTask(t, a) PROVE ClaimedHasLease'
  BY <1>3, MoveFacts, RowFields DEF TypeOK, ClaimedHasLease, ClaimTask, Save
<1>4. ASSUME NEW t \in Tasks, NEW a \in Agents, StartTask(t, a) PROVE ClaimedHasLease'
  BY <1>4, MoveFacts, RowFields DEF TypeOK, ClaimedHasLease, StartTask, Save
<1>5. ASSUME NEW t \in Tasks, NEW a \in Agents, NEW c \in Commits, SubmitForReview(t, a, c)
      PROVE ClaimedHasLease'
  BY <1>5, MoveFacts, RowFields DEF TypeOK, ClaimedHasLease, SubmitForReview, Save
<1>6. ASSUME NEW t \in Tasks, NEW a \in Agents, NEW d \in Decision, ReviewTask(t, a, d)
      PROVE ClaimedHasLease'
  BY <1>6, MoveFacts, RowFields DEF TypeOK, ClaimedHasLease, ReviewTask, Save
<1>7. ASSUME NEW t \in Tasks, MergeTask(t) PROVE ClaimedHasLease'
  BY <1>7, RowFields DEF TypeOK, ClaimedHasLease, MergeTask, Save
<1>8. ASSUME NEW s \in Sweepers, SweepList(s) PROVE ClaimedHasLease'
  BY <1>8 DEF TypeOK, ClaimedHasLease, SweepList
<1>9. ASSUME NEW s \in Sweepers, NEW t \in Tasks, SweepRelease(s, t) PROVE ClaimedHasLease'
  <2>1. CASE task[t].status = "claimed"
    <3>1. Save(t, ReleasedRow(task[t])) /\ UNCHANGED <<agent, reviews>>
      BY <1>9, <2>1 DEF SweepRelease
    <3>2. QED
      BY <2>1, <3>1, RowFields DEF TypeOK, ClaimedHasLease, Save
  <2>2. CASE task[t].status # "claimed"
    BY <1>9, <2>2 DEF TypeOK, ClaimedHasLease, SweepRelease
  <2>3. QED
    BY <2>1, <2>2
<1>10. ASSUME NEW t \in Tasks, LeaseLapses(t) PROVE ClaimedHasLease'
  BY <1>10 DEF TypeOK, ClaimedHasLease, LeaseLapses, TaskRow
<1>11. ASSUME NEW t \in Tasks, NEW to \in Status, AdminSetStatus(t, to) PROVE ClaimedHasLease'
  BY <1>11, MoveFacts DEF TypeOK, ClaimedHasLease, AdminSetStatus, TaskRow
<1>12. ASSUME NEW a \in Agents, AdminDeleteAgent(a) PROVE ClaimedHasLease'
  BY <1>12 DEF TypeOK, ClaimedHasLease, AdminDeleteAgent, TaskRow
<1>13. CASE UNCHANGED vars
  BY <1>13 DEF ClaimedHasLease, vars
<1>14. QED
  BY <1>1, <1>2, <1>3, <1>4, <1>5, <1>6, <1>7, <1>8, <1>9, <1>10, <1>11, <1>12, <1>13
     DEF Step, Next, Deletion, Agency, Service, Sweep, Clock, Operator

\* No service or table move takes a reviewed task back to the board.
LEMMA ReviewedTaskStaysOffBoardStep ==
    ASSUME TypeOK, ReviewedTaskStaysOffBoard, [Step]_vars
    PROVE  ReviewedTaskStaysOffBoard'
<1>1. ASSUME NEW a \in Agents, NEW r \in Roles, RegisterAgent(a, r)
      PROVE ReviewedTaskStaysOffBoard'
  BY <1>1 DEF TypeOK, ReviewedTaskStaysOffBoard, RegisterAgent
<1>2. ASSUME NEW a \in Agents, NEW b \in BOOLEAN, AdminSetActive(a, b)
      PROVE ReviewedTaskStaysOffBoard'
  BY <1>2 DEF TypeOK, ReviewedTaskStaysOffBoard, AdminSetActive
<1>3. ASSUME NEW t \in Tasks, NEW a \in Agents, ClaimTask(t, a) PROVE ReviewedTaskStaysOffBoard'
  BY <1>3, MoveFacts, RowFields DEF TypeOK, ReviewedTaskStaysOffBoard, ClaimTask, Save
<1>4. ASSUME NEW t \in Tasks, NEW a \in Agents, StartTask(t, a) PROVE ReviewedTaskStaysOffBoard'
  BY <1>4, MoveFacts, RowFields DEF TypeOK, ReviewedTaskStaysOffBoard, StartTask, Save
<1>5. ASSUME NEW t \in Tasks, NEW a \in Agents, NEW c \in Commits, SubmitForReview(t, a, c)
      PROVE ReviewedTaskStaysOffBoard'
  BY <1>5, MoveFacts, RowFields DEF TypeOK, ReviewedTaskStaysOffBoard, SubmitForReview, Save
<1>6. ASSUME NEW t \in Tasks, NEW a \in Agents, NEW d \in Decision, ReviewTask(t, a, d)
      PROVE ReviewedTaskStaysOffBoard'
  BY <1>6, MoveFacts, RowFields DEF TypeOK, ReviewedTaskStaysOffBoard, ReviewTask, Save
<1>7. ASSUME NEW t \in Tasks, MergeTask(t) PROVE ReviewedTaskStaysOffBoard'
  BY <1>7, RowFields DEF TypeOK, ReviewedTaskStaysOffBoard, MergeTask, Save
<1>8. ASSUME NEW s \in Sweepers, SweepList(s) PROVE ReviewedTaskStaysOffBoard'
  BY <1>8 DEF TypeOK, ReviewedTaskStaysOffBoard, SweepList
<1>9. ASSUME NEW s \in Sweepers, NEW t \in Tasks, SweepRelease(s, t)
      PROVE ReviewedTaskStaysOffBoard'
  <2>1. CASE task[t].status = "claimed"
    <3>1. Save(t, ReleasedRow(task[t])) /\ UNCHANGED <<agent, reviews>>
      BY <1>9, <2>1 DEF SweepRelease
    <3>2. QED
      BY <2>1, <3>1, RowFields DEF TypeOK, ReviewedTaskStaysOffBoard, Save
  <2>2. CASE task[t].status # "claimed"
    BY <1>9, <2>2 DEF TypeOK, ReviewedTaskStaysOffBoard, SweepRelease
  <2>3. QED
    BY <2>1, <2>2
<1>10. ASSUME NEW t \in Tasks, LeaseLapses(t) PROVE ReviewedTaskStaysOffBoard'
  BY <1>10 DEF TypeOK, ReviewedTaskStaysOffBoard, LeaseLapses, TaskRow
<1>11. ASSUME NEW t \in Tasks, NEW to \in Status, AdminSetStatus(t, to)
       PROVE ReviewedTaskStaysOffBoard'
  BY ZenonT(30), <1>11, MoveFacts DEF TypeOK, ReviewedTaskStaysOffBoard, AdminSetStatus, TaskRow
<1>12. ASSUME NEW a \in Agents, AdminDeleteAgent(a) PROVE ReviewedTaskStaysOffBoard'
  BY <1>12 DEF TypeOK, ReviewedTaskStaysOffBoard, AdminDeleteAgent, TaskRow
<1>13. CASE UNCHANGED vars
  BY <1>13 DEF ReviewedTaskStaysOffBoard, vars
<1>14. QED
  BY <1>1, <1>2, <1>3, <1>4, <1>5, <1>6, <1>7, <1>8, <1>9, <1>10, <1>11, <1>12, <1>13
     DEF Step, Next, Deletion, Agency, Service, Sweep, Clock, Operator

\* A service logs what it saves; the operator reaches only the states left out.
LEMMA HistoryTellsStatusStep ==
    ASSUME TypeOK, HistoryTellsStatus, [Step]_vars
    PROVE  HistoryTellsStatus'
<1>1. ASSUME NEW a \in Agents, NEW r \in Roles, RegisterAgent(a, r) PROVE HistoryTellsStatus'
  BY <1>1 DEF TypeOK, HistoryTellsStatus, RegisterAgent
<1>2. ASSUME NEW a \in Agents, NEW b \in BOOLEAN, AdminSetActive(a, b) PROVE HistoryTellsStatus'
  BY <1>2 DEF TypeOK, HistoryTellsStatus, AdminSetActive
<1>3. ASSUME NEW t \in Tasks, NEW a \in Agents, ClaimTask(t, a) PROVE HistoryTellsStatus'
  BY <1>3, MoveFacts, RowFields DEF TypeOK, HistoryTellsStatus, ClaimTask, Save
<1>4. ASSUME NEW t \in Tasks, NEW a \in Agents, StartTask(t, a) PROVE HistoryTellsStatus'
  BY <1>4, MoveFacts, RowFields DEF TypeOK, HistoryTellsStatus, StartTask, Save
<1>5. ASSUME NEW t \in Tasks, NEW a \in Agents, NEW c \in Commits, SubmitForReview(t, a, c)
      PROVE HistoryTellsStatus'
  BY <1>5, MoveFacts, RowFields DEF TypeOK, HistoryTellsStatus, SubmitForReview, Save
<1>6. ASSUME NEW t \in Tasks, NEW a \in Agents, NEW d \in Decision, ReviewTask(t, a, d)
      PROVE HistoryTellsStatus'
  BY <1>6, MoveFacts, RowFields DEF TypeOK, HistoryTellsStatus, ReviewTask, Save
<1>7. ASSUME NEW t \in Tasks, MergeTask(t) PROVE HistoryTellsStatus'
  BY <1>7, RowFields DEF TypeOK, HistoryTellsStatus, MergeTask, Save
<1>8. ASSUME NEW s \in Sweepers, SweepList(s) PROVE HistoryTellsStatus'
  BY <1>8 DEF TypeOK, HistoryTellsStatus, SweepList
<1>9. ASSUME NEW s \in Sweepers, NEW t \in Tasks, SweepRelease(s, t) PROVE HistoryTellsStatus'
  <2>1. CASE task[t].status = "claimed"
    <3>1. Save(t, ReleasedRow(task[t])) /\ UNCHANGED <<agent, reviews>>
      BY <1>9, <2>1 DEF SweepRelease
    <3>2. QED
      BY <2>1, <3>1, RowFields DEF TypeOK, HistoryTellsStatus, Save
  <2>2. CASE task[t].status # "claimed"
    BY <1>9, <2>2 DEF TypeOK, HistoryTellsStatus, SweepRelease
  <2>3. QED
    BY <2>1, <2>2
<1>10. ASSUME NEW t \in Tasks, LeaseLapses(t) PROVE HistoryTellsStatus'
  BY <1>10 DEF TypeOK, HistoryTellsStatus, LeaseLapses, TaskRow
<1>11. ASSUME NEW t \in Tasks, NEW to \in Status, AdminSetStatus(t, to)
       PROVE HistoryTellsStatus'
  BY <1>11, MoveFacts DEF TypeOK, HistoryTellsStatus, AdminSetStatus, TaskRow
<1>12. ASSUME NEW a \in Agents, AdminDeleteAgent(a) PROVE HistoryTellsStatus'
  BY <1>12 DEF TypeOK, HistoryTellsStatus, AdminDeleteAgent, TaskRow
<1>13. CASE UNCHANGED vars
  BY <1>13 DEF HistoryTellsStatus, vars
<1>14. QED
  BY <1>1, <1>2, <1>3, <1>4, <1>5, <1>6, <1>7, <1>8, <1>9, <1>10, <1>11, <1>12, <1>13
     DEF Step, Next, Deletion, Agency, Service, Sweep, Clock, Operator

\* MERGED is left by no step, so dependencies merged at the claim stay merged.
LEMMA WorkedOnTasksHaveMergedDependenciesStep ==
    ASSUME TypeOK, WorkedOnTasksHaveMergedDependencies, [Step]_vars
    PROVE  WorkedOnTasksHaveMergedDependencies'
<1>1. ASSUME NEW a \in Agents, NEW r \in Roles, RegisterAgent(a, r)
      PROVE WorkedOnTasksHaveMergedDependencies'
  BY <1>1 DEF TypeOK, WorkedOnTasksHaveMergedDependencies, DependenciesMerged, RegisterAgent
<1>2. ASSUME NEW a \in Agents, NEW b \in BOOLEAN, AdminSetActive(a, b)
      PROVE WorkedOnTasksHaveMergedDependencies'
  BY <1>2 DEF TypeOK, WorkedOnTasksHaveMergedDependencies, DependenciesMerged, AdminSetActive
<1>3. ASSUME NEW t \in Tasks, NEW a \in Agents, ClaimTask(t, a)
      PROVE WorkedOnTasksHaveMergedDependencies'
  BY <1>3, MoveFacts, RowFields
     DEF TypeOK, WorkedOnTasksHaveMergedDependencies, DependenciesMerged, ClaimTask, Save,
         IsClaimable
<1>4. ASSUME NEW t \in Tasks, NEW a \in Agents, StartTask(t, a)
      PROVE WorkedOnTasksHaveMergedDependencies'
  BY <1>4, MoveFacts, RowFields
     DEF TypeOK, WorkedOnTasksHaveMergedDependencies, DependenciesMerged, StartTask, Save
<1>5. ASSUME NEW t \in Tasks, NEW a \in Agents, NEW c \in Commits, SubmitForReview(t, a, c)
      PROVE WorkedOnTasksHaveMergedDependencies'
  BY <1>5, MoveFacts, RowFields
     DEF TypeOK, WorkedOnTasksHaveMergedDependencies, DependenciesMerged, SubmitForReview,
         Save, MaySubmit
<1>6. ASSUME NEW t \in Tasks, NEW a \in Agents, NEW d \in Decision, ReviewTask(t, a, d)
      PROVE WorkedOnTasksHaveMergedDependencies'
  BY <1>6, MoveFacts, RowFields
     DEF TypeOK, WorkedOnTasksHaveMergedDependencies, DependenciesMerged, ReviewTask, Save,
         MayReview
<1>7. ASSUME NEW t \in Tasks, MergeTask(t) PROVE WorkedOnTasksHaveMergedDependencies'
  BY <1>7, RowFields
     DEF TypeOK, WorkedOnTasksHaveMergedDependencies, DependenciesMerged, MergeTask, Save
<1>8. ASSUME NEW s \in Sweepers, SweepList(s) PROVE WorkedOnTasksHaveMergedDependencies'
  BY <1>8 DEF TypeOK, WorkedOnTasksHaveMergedDependencies, DependenciesMerged, SweepList
<1>9. ASSUME NEW s \in Sweepers, NEW t \in Tasks, SweepRelease(s, t)
      PROVE WorkedOnTasksHaveMergedDependencies'
  <2>1. CASE task[t].status = "claimed"
    <3>1. Save(t, ReleasedRow(task[t])) /\ UNCHANGED <<agent, reviews>>
      BY <1>9, <2>1 DEF SweepRelease
    <3>2. QED
      BY <2>1, <3>1, RowFields
         DEF TypeOK, WorkedOnTasksHaveMergedDependencies, DependenciesMerged, Save
  <2>2. CASE task[t].status # "claimed"
    BY <1>9, <2>2
       DEF TypeOK, WorkedOnTasksHaveMergedDependencies, DependenciesMerged, SweepRelease
  <2>3. QED
    BY <2>1, <2>2
<1>10. ASSUME NEW t \in Tasks, LeaseLapses(t) PROVE WorkedOnTasksHaveMergedDependencies'
  BY <1>10
     DEF TypeOK, WorkedOnTasksHaveMergedDependencies, DependenciesMerged, LeaseLapses, TaskRow
<1>11. ASSUME NEW t \in Tasks, NEW to \in Status, AdminSetStatus(t, to)
       PROVE WorkedOnTasksHaveMergedDependencies'
  BY <1>11, MoveFacts
     DEF TypeOK, WorkedOnTasksHaveMergedDependencies, DependenciesMerged, AdminSetStatus,
         TaskRow
<1>12. ASSUME NEW a \in Agents, AdminDeleteAgent(a) PROVE WorkedOnTasksHaveMergedDependencies'
  BY <1>12
     DEF TypeOK, WorkedOnTasksHaveMergedDependencies, DependenciesMerged, AdminDeleteAgent,
         TaskRow
<1>13. CASE UNCHANGED vars
  BY <1>13 DEF WorkedOnTasksHaveMergedDependencies, DependenciesMerged, vars
<1>14. QED
  BY <1>1, <1>2, <1>3, <1>4, <1>5, <1>6, <1>7, <1>8, <1>9, <1>10, <1>11, <1>12, <1>13
     DEF Step, Next, Deletion, Agency, Service, Sweep, Clock, Operator

\* A review row added at the end, and the reviewer of some rows set to NULL,
\* change what the reviews say of commits and attempts only where they should.
LEMMA ReviewsAppended ==
    ASSUME NEW rs \in Seq(ReviewRow), NEW r \in ReviewRow
    PROVE  /\ ApprovedCommits(rs) \subseteq ApprovedCommits(Append(rs, r))
           /\ r.decision = "approved" => r.commit \in ApprovedCommits(Append(rs, r))
           /\ ChangeRequests(Append(rs, r)) =
                ChangeRequests(rs) + (IF r.decision = "changes_requested" THEN 1 ELSE 0)
<1>1. /\ Len(rs) \in Nat
      /\ DOMAIN rs = 1..Len(rs)
  BY LenProperties
<1>2. /\ DOMAIN Append(rs, r) = 1..(Len(rs) + 1)
      /\ \A i \in 1..Len(rs) : Append(rs, r)[i] = rs[i]
      /\ Append(rs, r)[Len(rs) + 1] = r
  BY <1>1, AppendProperties
<1>3. /\ ApprovedCommits(rs) \subseteq ApprovedCommits(Append(rs, r))
      /\ r.decision = "approved" => r.commit \in ApprovedCommits(Append(rs, r))
  BY <1>1, <1>2 DEF ApprovedCommits
<1>4. ChangeRequests(Append(rs, r)) =
        ChangeRequests(rs) + (IF r.decision = "changes_requested" THEN 1 ELSE 0)
  <2> DEFINE asked(s) == {i \in DOMAIN s : s[i].decision = "changes_requested"}
  <2>1. IsFiniteSet(asked(rs)) /\ Len(rs) + 1 \notin asked(rs)
    <3>1. IsFiniteSet(1 .. Len(rs))
      BY <1>1, FS_Interval
    <3>2. QED
      BY <1>1, <3>1, FS_Subset
  <2>2. asked(Append(rs, r)) = IF r.decision = "changes_requested"
                               THEN asked(rs) \cup {Len(rs) + 1} ELSE asked(rs)
    BY <1>1, <1>2
  <2>3. /\ Cardinality(asked(rs)) \in Nat
        /\ ChangeRequests(rs) = Cardinality(asked(rs))
        /\ ChangeRequests(Append(rs, r)) = Cardinality(asked(Append(rs, r)))
    BY <2>1, FS_CardinalityType DEF ChangeRequests
  <2> HIDE DEF asked
  <2>4. CASE r.decision = "changes_requested"
    <3>1. Cardinality(asked(rs) \cup {Len(rs) + 1}) = Cardinality(asked(rs)) + 1
      BY <2>1, FS_AddElement
    <3>2. QED
      BY <2>2, <2>3, <2>4, <3>1
  <2>5. CASE r.decision # "changes_requested"
    BY <2>2, <2>3, <2>5
  <2>6. QED
    BY <2>4, <2>5
<1>5. QED
  BY <1>3, <1>4

(* Deleting an agent (AdminDeleteAgent: on_delete SET_NULL) can only take names out of
   a review, so a review by somebody other than the owner keeps that property. *)
LEMMA ReviewersErased ==
    ASSUME NEW rs \in Seq(ReviewRow), NEW qs, DOMAIN qs = DOMAIN rs,
           \A i \in DOMAIN rs : /\ qs[i].decision = rs[i].decision
                                /\ qs[i].commit = rs[i].commit
    PROVE  /\ ApprovedCommits(qs) = ApprovedCommits(rs)
           /\ ChangeRequests(qs) = ChangeRequests(rs)
<1>1. ApprovedCommits(qs) = ApprovedCommits(rs)
  BY DEF ApprovedCommits
<1>2. {i \in DOMAIN qs : qs[i].decision = "changes_requested"} =
        {i \in DOMAIN rs : rs[i].decision = "changes_requested"}
  OBVIOUS
<1>3. QED
  BY <1>1, <1>2 DEF ChangeRequests

\* What the deletion of an agent leaves of every review.
LEMMA DeletionErasesReviewers ==
    ASSUME TypeOK, NEW a \in Agents, AdminDeleteAgent(a), NEW t \in Tasks
    PROVE  /\ DOMAIN reviews'[t] = DOMAIN reviews[t]
           /\ \A i \in DOMAIN reviews[t] :
                /\ reviews'[t][i].decision = reviews[t][i].decision
                /\ reviews'[t][i].commit = reviews[t][i].commit
<1>1. /\ DOMAIN reviews[t] = 1..Len(reviews[t])
      /\ \A i \in DOMAIN reviews[t] : reviews[t][i] \in ReviewRow
  BY LenProperties DEF TypeOK
<1>2. QED
  BY <1>1 DEF AdminDeleteAgent, ReviewRow

\* Only review_task approves, recording the commit it read; only a submission
\* changes the commit, and it leaves the approved states behind.
LEMMA ApprovedCommitReviewedStep ==
    ASSUME TypeOK, ApprovedCommitReviewed, [Step]_vars
    PROVE  ApprovedCommitReviewed'
<1>1. ASSUME NEW a \in Agents, NEW r \in Roles, RegisterAgent(a, r) PROVE ApprovedCommitReviewed'
  BY <1>1 DEF TypeOK, ApprovedCommitReviewed, RegisterAgent
<1>2. ASSUME NEW a \in Agents, NEW b \in BOOLEAN, AdminSetActive(a, b)
      PROVE ApprovedCommitReviewed'
  BY <1>2 DEF TypeOK, ApprovedCommitReviewed, AdminSetActive
<1>3. ASSUME NEW t \in Tasks, NEW a \in Agents, ClaimTask(t, a) PROVE ApprovedCommitReviewed'
  BY <1>3, MoveFacts, RowFields DEF TypeOK, ApprovedCommitReviewed, ClaimTask, Save
<1>4. ASSUME NEW t \in Tasks, NEW a \in Agents, StartTask(t, a) PROVE ApprovedCommitReviewed'
  BY <1>4, MoveFacts, RowFields DEF TypeOK, ApprovedCommitReviewed, StartTask, Save
<1>5. ASSUME NEW t \in Tasks, NEW a \in Agents, NEW c \in Commits, SubmitForReview(t, a, c)
      PROVE ApprovedCommitReviewed'
  BY <1>5, MoveFacts, RowFields
     DEF TypeOK, ApprovedCommitReviewed, SubmitForReview, Save, MaySubmit
<1>6. ASSUME NEW t \in Tasks, NEW a \in Agents, NEW d \in Decision, ReviewTask(t, a, d)
      PROVE ApprovedCommitReviewed'
  <2> DEFINE r == Review(a, d, task[t])
  <2>1. r \in ReviewRow /\ r.decision = d /\ r.commit = task[t].commit
    BY DEF Review, ReviewRow, TypeOK, TaskRow
  <2>2. /\ ReviewedRow(task[t], d).commit = task[t].commit
        /\ ReviewedRow(task[t], d).status = "approved" => d = "approved"
        /\ ReviewedRow(task[t], d).status # "merged"
    BY RowFields DEF TypeOK
  <2>3. reviews[t] \in Seq(ReviewRow)
    BY DEF TypeOK
  <2>4. d = "approved" => task[t].commit \in ApprovedCommits(Append(reviews[t], r))
    BY <2>1, <2>3, ReviewsAppended
  <2>5. /\ Save(t, ReviewedRow(task[t], d))
        /\ reviews' = [reviews EXCEPT ![t] = Append(reviews[t], r)]
    BY <1>6 DEF ReviewTask
  <2> HIDE DEF r
  <2>6. ASSUME NEW u \in Tasks, task'[u].status \in {"approved", "merged"}
        PROVE  task'[u].commit \in ApprovedCommits(reviews'[u])
    <3>1. CASE u = t
      BY <2>2, <2>4, <2>5, <2>6, <3>1 DEF TypeOK, Save
    <3>2. CASE u # t
      BY <2>5, <2>6, <3>2 DEF TypeOK, Save, ApprovedCommitReviewed
    <3>3. QED
      BY <3>1, <3>2
  <2>7. QED
    BY <2>6 DEF ApprovedCommitReviewed
<1>7. ASSUME NEW t \in Tasks, MergeTask(t) PROVE ApprovedCommitReviewed'
  BY <1>7, RowFields DEF TypeOK, ApprovedCommitReviewed, MergeTask, Save
<1>8. ASSUME NEW s \in Sweepers, SweepList(s) PROVE ApprovedCommitReviewed'
  BY <1>8 DEF TypeOK, ApprovedCommitReviewed, SweepList
<1>9. ASSUME NEW s \in Sweepers, NEW t \in Tasks, SweepRelease(s, t)
      PROVE ApprovedCommitReviewed'
  <2>1. CASE task[t].status = "claimed"
    <3>1. Save(t, ReleasedRow(task[t])) /\ UNCHANGED <<agent, reviews>>
      BY <1>9, <2>1 DEF SweepRelease
    <3>2. QED
      BY <2>1, <3>1, RowFields DEF TypeOK, ApprovedCommitReviewed, Save
  <2>2. CASE task[t].status # "claimed"
    BY <1>9, <2>2 DEF TypeOK, ApprovedCommitReviewed, SweepRelease
  <2>3. QED
    BY <2>1, <2>2
<1>10. ASSUME NEW t \in Tasks, LeaseLapses(t) PROVE ApprovedCommitReviewed'
  BY <1>10 DEF TypeOK, ApprovedCommitReviewed, LeaseLapses, TaskRow
<1>11. ASSUME NEW t \in Tasks, NEW to \in Status, AdminSetStatus(t, to)
       PROVE ApprovedCommitReviewed'
  BY <1>11, MoveFacts DEF TypeOK, ApprovedCommitReviewed, AdminSetStatus, TaskRow
<1>12. ASSUME NEW a \in Agents, AdminDeleteAgent(a) PROVE ApprovedCommitReviewed'
  <2>1. ASSUME NEW t \in Tasks
        PROVE  /\ task'[t].status = task[t].status
               /\ task'[t].commit = task[t].commit
               /\ ApprovedCommits(reviews'[t]) = ApprovedCommits(reviews[t])
    <3>1. /\ task'[t].status = task[t].status
          /\ task'[t].commit = task[t].commit
      BY <1>12 DEF AdminDeleteAgent, TypeOK, TaskRow
    <3>2. /\ DOMAIN reviews'[t] = DOMAIN reviews[t]
          /\ \A i \in DOMAIN reviews[t] :
                /\ reviews'[t][i].decision = reviews[t][i].decision
                /\ reviews'[t][i].commit = reviews[t][i].commit
      BY <1>12, DeletionErasesReviewers
    <3>3. QED
      BY <3>1, <3>2, ReviewersErased DEF TypeOK
  <2>2. QED
    BY <2>1 DEF ApprovedCommitReviewed
<1>13. CASE UNCHANGED vars
  BY <1>13 DEF ApprovedCommitReviewed, vars
<1>14. QED
  BY <1>1, <1>2, <1>3, <1>4, <1>5, <1>6, <1>7, <1>8, <1>9, <1>10, <1>11, <1>12, <1>13
     DEF Step, Next, Deletion, Agency, Service, Sweep, Clock, Operator

\* A change request is counted by the call that records it, and nothing leads
\* out of the abandonment that the last one brings.
LEMMA AttemptsAccountForReviewsStep ==
    ASSUME TypeOK, AttemptsAccountForReviews, [Step]_vars
    PROVE  AttemptsAccountForReviews'
<1>1. ASSUME NEW a \in Agents, NEW r \in Roles, RegisterAgent(a, r)
      PROVE AttemptsAccountForReviews'
  BY <1>1 DEF TypeOK, AttemptsAccountForReviews, RegisterAgent
<1>2. ASSUME NEW a \in Agents, NEW b \in BOOLEAN, AdminSetActive(a, b)
      PROVE AttemptsAccountForReviews'
  BY <1>2 DEF TypeOK, AttemptsAccountForReviews, AdminSetActive
<1>3. ASSUME NEW t \in Tasks, NEW a \in Agents, ClaimTask(t, a) PROVE AttemptsAccountForReviews'
  BY <1>3, MoveFacts, RowFields DEF TypeOK, AttemptsAccountForReviews, ClaimTask, Save
<1>4. ASSUME NEW t \in Tasks, NEW a \in Agents, StartTask(t, a) PROVE AttemptsAccountForReviews'
  BY <1>4, MoveFacts, RowFields DEF TypeOK, AttemptsAccountForReviews, StartTask, Save
<1>5. ASSUME NEW t \in Tasks, NEW a \in Agents, NEW c \in Commits, SubmitForReview(t, a, c)
      PROVE AttemptsAccountForReviews'
  BY <1>5, MoveFacts, RowFields
     DEF TypeOK, AttemptsAccountForReviews, SubmitForReview, Save, MaySubmit
<1>6. ASSUME NEW t \in Tasks, NEW a \in Agents, NEW d \in Decision, ReviewTask(t, a, d)
      PROVE AttemptsAccountForReviews'
  <2> DEFINE r   == Review(a, d, task[t])
             row == ReviewedRow(task[t], d)
  <2>1. r \in ReviewRow /\ r.decision = d
    BY DEF Review, ReviewRow, TypeOK, TaskRow
  <2>2. ChangeRequests(Append(reviews[t], r)) =
          ChangeRequests(reviews[t]) + (IF d = "changes_requested" THEN 1 ELSE 0)
    BY <2>1, ReviewsAppended DEF TypeOK
  <2>3. /\ task[t].attempts \in Nat
        /\ task[t].attempts = ChangeRequests(reviews[t])
        /\ task[t].status = "ready_for_review"
        /\ ~(task[t].attempts > 0 /\ task[t].attempts >= MaxAttempts)
    BY <1>6 DEF TypeOK, TaskRow, AttemptsAccountForReviews, ReviewTask, MayReview
  <2>4. /\ row.attempts = task[t].attempts + (IF d = "changes_requested" THEN 1 ELSE 0)
        /\ d = "changes_requested" /\ row.attempts >= MaxAttempts => row.status = "abandoned"
    BY <2>3 DEF ReviewedRow, TypeOK, TaskRow
  <2>5. /\ Save(t, row)
        /\ reviews' = [reviews EXCEPT ![t] = Append(reviews[t], r)]
    BY <1>6 DEF ReviewTask
  <2> HIDE DEF r, row
  <2>6. QED
    BY <2>2, <2>3, <2>4, <2>5 DEF TypeOK, Save, AttemptsAccountForReviews
<1>7. ASSUME NEW t \in Tasks, MergeTask(t) PROVE AttemptsAccountForReviews'
  BY <1>7, RowFields DEF TypeOK, AttemptsAccountForReviews, MergeTask, Save
<1>8. ASSUME NEW s \in Sweepers, SweepList(s) PROVE AttemptsAccountForReviews'
  BY <1>8 DEF TypeOK, AttemptsAccountForReviews, SweepList
<1>9. ASSUME NEW s \in Sweepers, NEW t \in Tasks, SweepRelease(s, t)
      PROVE AttemptsAccountForReviews'
  <2>1. CASE task[t].status = "claimed"
    <3>1. Save(t, ReleasedRow(task[t])) /\ UNCHANGED <<agent, reviews>>
      BY <1>9, <2>1 DEF SweepRelease
    <3>2. QED
      BY <2>1, <3>1, RowFields DEF TypeOK, AttemptsAccountForReviews, Save
  <2>2. CASE task[t].status # "claimed"
    BY <1>9, <2>2 DEF TypeOK, AttemptsAccountForReviews, SweepRelease
  <2>3. QED
    BY <2>1, <2>2
<1>10. ASSUME NEW t \in Tasks, LeaseLapses(t) PROVE AttemptsAccountForReviews'
  BY <1>10 DEF TypeOK, AttemptsAccountForReviews, LeaseLapses, TaskRow
<1>11. ASSUME NEW t \in Tasks, NEW to \in Status, AdminSetStatus(t, to)
       PROVE AttemptsAccountForReviews'
  <2>1. /\ task[t] \in TaskRow
        /\ task[t].status # "abandoned"
    BY <1>11, MoveFacts DEF TypeOK, AdminSetStatus
  <2>2. ASSUME NEW u \in Tasks
        PROVE  /\ task'[u].attempts = task[u].attempts
               /\ task[u].status = "abandoned" => task'[u].status = "abandoned"
    BY <1>11, <2>1 DEF TypeOK, AdminSetStatus, TaskRow
  <2>3. QED
    BY <1>11, <2>2 DEF AttemptsAccountForReviews, AdminSetStatus
<1>12. ASSUME NEW a \in Agents, AdminDeleteAgent(a) PROVE AttemptsAccountForReviews'
  <2>1. ASSUME NEW t \in Tasks
        PROVE  /\ task'[t].status = task[t].status
               /\ task'[t].attempts = task[t].attempts
               /\ ChangeRequests(reviews'[t]) = ChangeRequests(reviews[t])
    <3>1. /\ task'[t].status = task[t].status
          /\ task'[t].attempts = task[t].attempts
      BY <1>12 DEF AdminDeleteAgent, TypeOK, TaskRow
    <3>2. /\ DOMAIN reviews'[t] = DOMAIN reviews[t]
          /\ \A i \in DOMAIN reviews[t] :
                /\ reviews'[t][i].decision = reviews[t][i].decision
                /\ reviews'[t][i].commit = reviews[t][i].commit
      BY <1>12, DeletionErasesReviewers
    <3>3. QED
      BY <3>1, <3>2, ReviewersErased DEF TypeOK
  <2>2. QED
    BY <2>1 DEF AttemptsAccountForReviews
<1>13. CASE UNCHANGED vars
  BY <1>13 DEF AttemptsAccountForReviews, vars
<1>14. QED
  BY <1>1, <1>2, <1>3, <1>4, <1>5, <1>6, <1>7, <1>8, <1>9, <1>10, <1>11, <1>12, <1>13
     DEF Step, Next, Deletion, Agency, Service, Sweep, Clock, Operator

\* A claim finds no reviews on its task; a review checks the owner of then, who
\* is the owner of now.
LEMMA NoSelfReviewStep ==
    ASSUME TypeOK, ReviewedTaskStaysOffBoard, NoSelfReview, [Step]_vars
    PROVE  NoSelfReview'
<1>1. ASSUME NEW a \in Agents, NEW r \in Roles, RegisterAgent(a, r) PROVE NoSelfReview'
  BY <1>1 DEF TypeOK, NoSelfReview, RegisterAgent
<1>2. ASSUME NEW a \in Agents, NEW b \in BOOLEAN, AdminSetActive(a, b) PROVE NoSelfReview'
  BY <1>2 DEF TypeOK, NoSelfReview, AdminSetActive
<1>3. ASSUME NEW t \in Tasks, NEW a \in Agents, ClaimTask(t, a) PROVE NoSelfReview'
  <2>1. reviews[t] = <<>>
    BY <1>3, MoveFacts DEF ClaimTask, TypeOK, ReviewedTaskStaysOffBoard
  <2>2. DOMAIN reviews[t] = {}
    BY <2>1
  <2>3. Save(t, ClaimedRow(task[t], a)) /\ UNCHANGED reviews
    BY <1>3 DEF ClaimTask
  <2>4. QED
    BY <2>2, <2>3 DEF TypeOK, NoSelfReview, Save
<1>4. ASSUME NEW t \in Tasks, NEW a \in Agents, StartTask(t, a) PROVE NoSelfReview'
  BY <1>4, MoveFacts, RowFields DEF TypeOK, NoSelfReview, StartTask, Save
<1>5. ASSUME NEW t \in Tasks, NEW a \in Agents, NEW c \in Commits, SubmitForReview(t, a, c)
      PROVE NoSelfReview'
  BY <1>5, MoveFacts, RowFields DEF TypeOK, NoSelfReview, SubmitForReview, Save
<1>6. ASSUME NEW t \in Tasks, NEW a \in Agents, NEW d \in Decision, ReviewTask(t, a, d)
      PROVE NoSelfReview'
  <2> DEFINE r == Review(a, d, task[t])
  <2>1. r.reviewer = a /\ r \in ReviewRow
    BY DEF Review, ReviewRow, TypeOK, TaskRow
  <2>2. task[t].claimedBy # a /\ ReviewedRow(task[t], d).claimedBy = task[t].claimedBy
    BY <1>6, RowFields DEF ReviewTask, MayReview, TypeOK
  <2>3. /\ Save(t, ReviewedRow(task[t], d))
        /\ reviews' = [reviews EXCEPT ![t] = Append(reviews[t], r)]
    BY <1>6 DEF ReviewTask
  <2>4. /\ Len(reviews[t]) \in Nat
        /\ DOMAIN reviews[t] = 1..Len(reviews[t])
    BY LenProperties DEF TypeOK
  <2>5. /\ DOMAIN Append(reviews[t], r) = 1..(Len(reviews[t]) + 1)
        /\ \A i \in 1..Len(reviews[t]) : Append(reviews[t], r)[i] = reviews[t][i]
        /\ Append(reviews[t], r)[Len(reviews[t]) + 1] = r
    BY <2>1, <2>4, AppendProperties DEF TypeOK
  <2> HIDE DEF r
  <2>6. ASSUME NEW u \in Tasks, NEW i \in DOMAIN reviews'[u], task'[u].claimedBy # NoAgent
        PROVE  reviews'[u][i].reviewer # task'[u].claimedBy
    <3>1. CASE u = t
      <4>1. CASE i = Len(reviews[t]) + 1
        BY <2>1, <2>2, <2>3, <2>5, <3>1, <4>1 DEF TypeOK, Save
      <4>2. CASE i \in 1..Len(reviews[t])
        BY <2>2, <2>3, <2>4, <2>5, <2>6, <3>1, <4>2 DEF TypeOK, NoSelfReview, Save
      <4>3. QED
        BY <2>3, <2>4, <2>5, <3>1, <4>1, <4>2 DEF TypeOK
    <3>2. CASE u # t
      BY <2>3, <2>6, <3>2 DEF TypeOK, NoSelfReview, Save
    <3>3. QED
      BY <3>1, <3>2
  <2>7. QED
    BY <2>6 DEF NoSelfReview
<1>7. ASSUME NEW t \in Tasks, MergeTask(t) PROVE NoSelfReview'
  BY <1>7, RowFields DEF TypeOK, NoSelfReview, MergeTask, Save
<1>8. ASSUME NEW s \in Sweepers, SweepList(s) PROVE NoSelfReview'
  BY <1>8 DEF TypeOK, NoSelfReview, SweepList
<1>9. ASSUME NEW s \in Sweepers, NEW t \in Tasks, SweepRelease(s, t) PROVE NoSelfReview'
  <2>1. CASE task[t].status = "claimed"
    <3>1. Save(t, ReleasedRow(task[t])) /\ UNCHANGED <<agent, reviews>>
      BY <1>9, <2>1 DEF SweepRelease
    <3>2. QED
      BY <2>1, <3>1, RowFields DEF TypeOK, NoSelfReview, Save
  <2>2. CASE task[t].status # "claimed"
    BY <1>9, <2>2 DEF TypeOK, NoSelfReview, SweepRelease
  <2>3. QED
    BY <2>1, <2>2
<1>10. ASSUME NEW t \in Tasks, LeaseLapses(t) PROVE NoSelfReview'
  BY <1>10 DEF TypeOK, NoSelfReview, LeaseLapses, TaskRow
<1>11. ASSUME NEW t \in Tasks, NEW to \in Status, AdminSetStatus(t, to) PROVE NoSelfReview'
  BY <1>11, MoveFacts DEF TypeOK, NoSelfReview, AdminSetStatus, TaskRow
<1>12. ASSUME NEW a \in Agents, AdminDeleteAgent(a) PROVE NoSelfReview'
  <2>1. ASSUME NEW t \in Tasks, NEW i \in DOMAIN reviews'[t], task'[t].claimedBy # NoAgent
        PROVE  reviews'[t][i].reviewer # task'[t].claimedBy
    <3>1. /\ task[t].claimedBy # a
          /\ task'[t].claimedBy = task[t].claimedBy
      BY <1>12, <2>1 DEF AdminDeleteAgent, TypeOK, TaskRow
    <3>2. /\ DOMAIN reviews[t] = 1..Len(reviews[t])
          /\ \A j \in DOMAIN reviews[t] : reviews[t][j] \in ReviewRow
      BY LenProperties DEF TypeOK
    <3>3. i \in DOMAIN reviews[t]
      BY <1>12, <2>1 DEF AdminDeleteAgent
    <3>4. reviews'[t][i].reviewer \in {reviews[t][i].reviewer, NoAgent}
      BY <1>12, <3>2, <3>3 DEF AdminDeleteAgent, ReviewRow
    <3>5. QED
      BY <2>1, <3>1, <3>3, <3>4 DEF NoSelfReview
  <2>2. QED
    BY <2>1 DEF NoSelfReview
<1>13. CASE UNCHANGED vars
  BY <1>13 DEF NoSelfReview, vars
<1>14. QED
  BY <1>1, <1>2, <1>3, <1>4, <1>5, <1>6, <1>7, <1>8, <1>9, <1>10, <1>11, <1>12, <1>13
     DEF Step, Next, Deletion, Agency, Service, Sweep, Clock, Operator

-----------------------------------------------------------------------------
\* IInv is inductive, also with an administrator who deletes agents.
THEOREM Invariance == DeletionSpec => []IInv
<1>1. Init => IInv
  <2>1. Init => TypeOK
    BY DEF Init, TypeOK, NewTask, NoRow, TaskRow, AgentRow, Status, Lease
  <2>2. Init => /\ HeldAlone
                /\ ClaimedHasLease
                /\ ApprovedCommitReviewed
                /\ ReviewedTaskStaysOffBoard
                /\ WorkedOnTasksHaveMergedDependencies
                /\ HistoryTellsStatus
    BY DEF Init, NewTask, HeldAlone, CurrentTasks, ClaimedHasLease, ApprovedCommitReviewed,
           ReviewedTaskStaysOffBoard, WorkedOnTasksHaveMergedDependencies, HistoryTellsStatus
  <2>3. Init => NoSelfReview
    BY DEF Init, NewTask, NoSelfReview
  <2>4. Init => AttemptsAccountForReviews
    <3>1. {i \in DOMAIN <<>> : <<>>[i].decision = "changes_requested"} = {}
      OBVIOUS
    <3>2. ChangeRequests(<<>>) = 0
      BY <3>1, FS_EmptySet DEF ChangeRequests
    <3>3. QED
      BY <3>2 DEF Init, NewTask, AttemptsAccountForReviews
  <2>5. QED
    BY <2>1, <2>2, <2>3, <2>4 DEF IInv
<1>2. IInv /\ [Step]_vars => IInv'
  <2> SUFFICES ASSUME IInv, [Step]_vars PROVE IInv'
    OBVIOUS
  <2>1. TypeOK'
    BY TypeStep DEF IInv
  <2>2. HeldAlone'
    BY HeldAloneStep DEF IInv
  <2>3. ClaimedHasLease'
    BY ClaimedHasLeaseStep DEF IInv
  <2>4. ApprovedCommitReviewed'
    BY ApprovedCommitReviewedStep DEF IInv
  <2>5. ReviewedTaskStaysOffBoard'
    BY ReviewedTaskStaysOffBoardStep DEF IInv
  <2>6. NoSelfReview'
    BY NoSelfReviewStep DEF IInv
  <2>7. WorkedOnTasksHaveMergedDependencies'
    BY WorkedOnTasksHaveMergedDependenciesStep DEF IInv
  <2>8. HistoryTellsStatus'
    BY HistoryTellsStatusStep DEF IInv
  <2>9. AttemptsAccountForReviews'
    BY AttemptsAccountForReviewsStep DEF IInv
  <2>10. QED
    BY <2>1, <2>2, <2>3, <2>4, <2>5, <2>6, <2>7, <2>8, <2>9 DEF IInv
<1>3. QED
  BY <1>1, <1>2, PTL DEF DeletionSpec, Step

\* The tables stay well-typed.
THEOREM TypeCorrect == DeletionSpec => []TypeOK
BY Invariance, PTL DEF IInv

\* INV-J of invariants.py, with the commit.
THEOREM ApprovalsAreReviewed == DeletionSpec => []ApprovedCommitReviewed
BY Invariance, PTL DEF IInv

\* INV-K of invariants.py: no agent ever reviewed the task it owns.
THEOREM NobodyReviewsOwnTask == DeletionSpec => []NoSelfReview
BY Invariance, PTL DEF IInv

\* Every task under way stands on merged dependencies.
THEOREM DependenciesStayMerged == DeletionSpec => []WorkedOnTasksHaveMergedDependencies
BY Invariance, PTL DEF IInv

\* INV-H of invariants.py: every claim can lapse.
THEOREM ClaimsHaveLeases == DeletionSpec => []ClaimedHasLease
BY Invariance, PTL DEF IInv

\* The newest history row tells the status.
THEOREM HistoryIsCurrent == DeletionSpec => []HistoryTellsStatus
BY Invariance, PTL DEF IInv

\* attempt_count counts the change requests, and max_attempts ends the task.
THEOREM AttemptsAreCounted == DeletionSpec => []AttemptsAccountForReviews
BY Invariance, PTL DEF IInv

\* The AGENT_BUSY rule: an agent has at most one active task.
THEOREM AgentsHoldOneTask == DeletionSpec => []OneTaskPerAgent
<1>1. IInv => OneTaskPerAgent
  <2> SUFFICES ASSUME HeldAlone, NEW a \in Agents
               PROVE  Cardinality(CurrentTasks(task, a)) <= 1
    BY DEF IInv, OneTaskPerAgent
  <2>1. CASE CurrentTasks(task, a) = {}
    BY <2>1, FS_EmptySet
  <2>2. CASE CurrentTasks(task, a) # {}
    <3>1. PICK t \in CurrentTasks(task, a) : TRUE
      BY <2>2
    <3>2. CurrentTasks(task, a) = {t}
      BY <3>1 DEF HeldAlone
    <3>3. Cardinality({t}) = 1
      BY FS_Singleton, Zenon
    <3>4. QED
      BY <3>2, <3>3
  <2>3. QED
    BY <2>1, <2>2
<1>2. QED
  BY <1>1, Invariance, PTL
-----------------------------------------------------------------------------
(***************************************************************************)
(* What a step may do.                                                     *)
(***************************************************************************)

\* Only claim_task and the sweep give a task another owner, and both find it on
\* the board, where no reviewed task is; a deletion takes the owner's tasks.
LEMMA ReviewedTaskKeepsOwnerStep ==
    ASSUME TypeOK, ReviewedTaskStaysOffBoard, [Step]_vars, NEW t \in Tasks,
           reviews[t] # <<>>
    PROVE  \/ task'[t].claimedBy = task[t].claimedBy
           \/ agent'[task[t].claimedBy] = NoRow /\ task'[t].claimedBy = NoAgent
<1> DEFINE Kept == task'[t].claimedBy = task[t].claimedBy
<1>0. task[t].status \notin {"draft", "unclaimed", "claimed", "in_progress", "blocked"}
  BY DEF ReviewedTaskStaysOffBoard
<1>1. ASSUME NEW a \in Agents, NEW r \in Roles, RegisterAgent(a, r) PROVE Kept
  BY <1>1 DEF RegisterAgent
<1>2. ASSUME NEW a \in Agents, NEW b \in BOOLEAN, AdminSetActive(a, b) PROVE Kept
  BY <1>2 DEF AdminSetActive
<1>3. ASSUME NEW u \in Tasks, NEW a \in Agents, ClaimTask(u, a) PROVE Kept
  BY <1>0, <1>3, MoveFacts DEF TypeOK, ClaimTask, Save
<1>4. ASSUME NEW u \in Tasks, NEW a \in Agents, StartTask(u, a) PROVE Kept
  BY <1>4, RowFields DEF TypeOK, StartTask, Save
<1>5. ASSUME NEW u \in Tasks, NEW a \in Agents, NEW c \in Commits, SubmitForReview(u, a, c)
      PROVE Kept
  BY <1>5, RowFields DEF TypeOK, SubmitForReview, Save
<1>6. ASSUME NEW u \in Tasks, NEW a \in Agents, NEW d \in Decision, ReviewTask(u, a, d)
      PROVE Kept
  BY <1>6, RowFields DEF TypeOK, ReviewTask, Save
<1>7. ASSUME NEW u \in Tasks, MergeTask(u) PROVE Kept
  BY <1>7, RowFields DEF TypeOK, MergeTask, Save
<1>8. ASSUME NEW s \in Sweepers, SweepList(s) PROVE Kept
  BY <1>8 DEF SweepList
<1>9. ASSUME NEW s \in Sweepers, NEW u \in Tasks, SweepRelease(s, u) PROVE Kept
  BY <1>0, <1>9 DEF TypeOK, SweepRelease, Save
<1>10. ASSUME NEW u \in Tasks, LeaseLapses(u) PROVE Kept
  BY <1>10 DEF TypeOK, LeaseLapses, TaskRow
<1>11. ASSUME NEW u \in Tasks, NEW to \in Status, AdminSetStatus(u, to) PROVE Kept
  BY <1>11 DEF TypeOK, AdminSetStatus, TaskRow
<1>12. ASSUME NEW a \in Agents, AdminDeleteAgent(a)
       PROVE  \/ Kept
              \/ agent'[task[t].claimedBy] = NoRow /\ task'[t].claimedBy = NoAgent
  <2>1. CASE task[t].claimedBy = a
    BY <1>12, <2>1 DEF TypeOK, AdminDeleteAgent, TaskRow
  <2>2. CASE task[t].claimedBy # a
    BY <1>12, <2>2 DEF TypeOK, AdminDeleteAgent
  <2>3. QED
    BY <2>1, <2>2
<1>13. CASE UNCHANGED vars
  BY <1>13 DEF vars
<1>14. QED
  BY <1>1, <1>2, <1>3, <1>4, <1>5, <1>6, <1>7, <1>8, <1>9, <1>10, <1>11, <1>12, <1>13
     DEF Step, Next, Deletion, Agency, Service, Sweep, Clock, Operator

\* The coder who is asked for changes is the only one who can deliver them.
THEOREM ReviewedTasksKeepOwners == DeletionSpec => ReviewedTaskKeepsOwner
<1>1. IInv /\ [Step]_vars =>
        [\A t \in Tasks : reviews[t] # <<>> =>
            \/ task'[t].claimedBy = task[t].claimedBy
            \/ /\ agent'[task[t].claimedBy] = NoRow
               /\ task'[t].claimedBy = NoAgent]_vars
  BY ReviewedTaskKeepsOwnerStep DEF IInv
<1>2. QED
  BY <1>1, Invariance, PTL DEF DeletionSpec, Step, ReviewedTaskKeepsOwner

\* The services keep to INV-H, INV-J and INV-K, so that none of them is ever
\* reported.
LEMMA ReportedCodes ==
    ASSUME IInv, NEW t \in Tasks
    PROVE  Reported(t) = (IF ClaimedWithoutAgent(t) THEN {"INV-G"} ELSE {})
                           \cup (IF NondraftWithoutHistory(t) THEN {"INV-I"} ELSE {})
<1>1. ~ClaimedWithoutLease(t)
  BY DEF IInv, ClaimedHasLease, ClaimedWithoutLease
<1>2. ~ApprovedWithoutReview(t)
  BY DEF IInv, ApprovedCommitReviewed, ApprovedCommits, ApprovedWithoutReview
<1>3. ~SelfReviewed(t)
  BY DEF IInv, NoSelfReview, SelfReviewed
<1>4. QED
  BY <1>1, <1>2, <1>3 DEF Reported

\* What each step does to the two that can be.
LEMMA ReportsStep ==
    ASSUME TypeOK, HistoryTellsStatus, [Step]_vars, NEW t \in Tasks
    PROVE  /\ ~ClaimedWithoutAgent(t) /\ ClaimedWithoutAgent(t)'
                => agent'[task[t].claimedBy] = NoRow
           /\ ClaimedWithoutAgent(t) /\ ~ClaimedWithoutAgent(t)'
                => task'[t].status \in {"unclaimed", "blocked"}
           /\ ~NondraftWithoutHistory(t) /\ NondraftWithoutHistory(t)'
                => task[t].status = "draft"
           /\ NondraftWithoutHistory(t) /\ ~NondraftWithoutHistory(t)'
                => task'[t].claimedBy # NoAgent
<1> DEFINE Same == /\ task'[t].status = task[t].status
                   /\ task'[t].claimedBy = task[t].claimedBy
                   /\ logged'[t] = logged[t]
           \* the row is saved by a service that has its owner
           Owned == /\ task'[t].claimedBy # NoAgent
                    /\ ~ClaimedWithoutAgent(t)
                    /\ logged'[t] # "none"
           \* the row is saved and nobody works on the task
           Left == /\ task[t].status \notin {"draft", "unclaimed", "blocked", "abandoned"}
                   /\ task'[t].status \notin {"claimed", "in_progress"}
                   /\ ClaimedWithoutAgent(t) => task'[t].status = "unclaimed"
                   /\ logged'[t] # "none"
<1>0. ASSUME Same \/ Owned \/ Left
      PROVE  /\ ~(~ClaimedWithoutAgent(t) /\ ClaimedWithoutAgent(t)')
             /\ ClaimedWithoutAgent(t) /\ ~ClaimedWithoutAgent(t)'
                  => task'[t].status \in {"unclaimed", "blocked"}
             /\ ~(~NondraftWithoutHistory(t) /\ NondraftWithoutHistory(t)')
             /\ NondraftWithoutHistory(t) /\ ~NondraftWithoutHistory(t)'
                  => task'[t].claimedBy # NoAgent
  <2>1. task[t].status \in Status
    BY DEF TypeOK, TaskRow
  <2>2. QED
    BY <1>0, <2>1
       DEF HistoryTellsStatus, ClaimedWithoutAgent, NondraftWithoutHistory, Status
<1>1. ASSUME NEW a \in Agents, NEW r \in Roles, RegisterAgent(a, r) PROVE Same
  BY <1>1 DEF RegisterAgent
<1>2. ASSUME NEW a \in Agents, NEW b \in BOOLEAN, AdminSetActive(a, b) PROVE Same
  BY <1>2 DEF AdminSetActive
<1>3. ASSUME NEW u \in Tasks, NEW a \in Agents, ClaimTask(u, a) PROVE Same \/ Owned
  BY <1>3, MoveFacts, RowFields DEF TypeOK, ClaimTask, Save, ClaimedWithoutAgent
<1>4. ASSUME NEW u \in Tasks, NEW a \in Agents, StartTask(u, a) PROVE Same \/ Owned
  BY <1>4, RowFields DEF TypeOK, StartTask, Save, ClaimedWithoutAgent
<1>5. ASSUME NEW u \in Tasks, NEW a \in Agents, NEW c \in Commits, SubmitForReview(u, a, c)
      PROVE Same \/ Owned
  BY <1>5, RowFields DEF TypeOK, SubmitForReview, MaySubmit, Save, ClaimedWithoutAgent
<1>6. ASSUME NEW u \in Tasks, NEW a \in Agents, NEW d \in Decision, ReviewTask(u, a, d)
      PROVE Same \/ Left
  <2>1. /\ Save(u, ReviewedRow(task[u], d))
        /\ task[u].status = "ready_for_review"
        /\ ReviewedRow(task[u], d).status \in {"approved", "changes_requested", "abandoned"}
    BY <1>6, RowFields DEF TypeOK, ReviewTask, MayReview
  <2>2. QED
    BY <2>1 DEF TypeOK, Save, ClaimedWithoutAgent
<1>7. ASSUME NEW u \in Tasks, MergeTask(u) PROVE Same \/ Left
  BY <1>7, RowFields DEF TypeOK, MergeTask, Save, ClaimedWithoutAgent
<1>8. ASSUME NEW s \in Sweepers, SweepList(s) PROVE Same
  BY <1>8 DEF SweepList
<1>9. ASSUME NEW s \in Sweepers, NEW u \in Tasks, SweepRelease(s, u) PROVE Same \/ Left
  BY <1>9, RowFields DEF TypeOK, SweepRelease, Save, ClaimedWithoutAgent
<1>10. ASSUME NEW u \in Tasks, LeaseLapses(u) PROVE Same
  BY <1>10 DEF TypeOK, LeaseLapses, TaskRow
<1>11. ASSUME UNCHANGED vars PROVE Same
  BY <1>11 DEF vars
<1>12. ASSUME NEW u \in Tasks, NEW to \in Status, AdminSetStatus(u, to)
       PROVE  \/ Same
              \/ /\ ~ClaimedWithoutAgent(t)'
                 /\ ClaimedWithoutAgent(t) => task'[t].status \in {"unclaimed", "blocked"}
                 /\ NondraftWithoutHistory(t)'
                      => NondraftWithoutHistory(t) \/ task[t].status = "draft"
                 /\ NondraftWithoutHistory(t) => NondraftWithoutHistory(t)'
  <2>1. CASE u # t
    BY <1>12, <2>1 DEF TypeOK, AdminSetStatus
  <2>2. CASE u = t
    <3>1. /\ task'[t].status = to /\ logged'[t] = logged[t]
          /\ to \in {"unclaimed", "blocked", "abandoned"}
      BY <1>12, <2>2 DEF TypeOK, AdminSetStatus, TaskRow
    <3>2. /\ task[t].status # "draft" => to # "draft"
          /\ to = "abandoned" => task[t].status \notin {"claimed", "in_progress"}
      BY <1>12, <2>2, MoveFacts DEF TypeOK, AdminSetStatus
    <3>3. QED
      BY <3>1, <3>2 DEF ClaimedWithoutAgent, NondraftWithoutHistory
  <2>3. QED
    BY <2>1, <2>2
<1>13. ASSUME NEW a \in Agents, AdminDeleteAgent(a)
       PROVE  /\ task'[t].status = task[t].status /\ logged'[t] = logged[t]
              /\ task[t].claimedBy = a => agent'[a] = NoRow /\ task'[t].claimedBy = NoAgent
              /\ task[t].claimedBy # a => Same
  BY <1>13 DEF TypeOK, AdminDeleteAgent, TaskRow
<1>14. CASE \E a \in Agents : AdminDeleteAgent(a)
  BY <1>13, <1>14 DEF ClaimedWithoutAgent, NondraftWithoutHistory
<1>15. CASE \E u \in Tasks, to \in Status : AdminSetStatus(u, to)
  BY <1>0, <1>12, <1>15
<1>16. QED
  BY <1>0, <1>1, <1>2, <1>3, <1>4, <1>5, <1>6, <1>7, <1>8, <1>9, <1>10, <1>11, <1>14, <1>15
     DEF Step, Next, Deletion, Agency, Service, Sweep, Clock, Operator

\* What check_invariants reports of the blackboard is the administrator's doing.
THEOREM ReportsAccuseTheAdministrator == DeletionSpec => ReportsAccuseOperators
<1> DEFINE Codes(t) == (IF ClaimedWithoutAgent(t) THEN {"INV-G"} ELSE {})
                         \cup (IF NondraftWithoutHistory(t) THEN {"INV-I"} ELSE {})
           Accused(t) ==
             LET before == Reported(t)
                 after  == Reported(t)'
             IN before # after =>
                  /\ \A code \in after \ before :
                       \/ code = "INV-G" /\ agent'[task[t].claimedBy] = NoRow
                       \/ code = "INV-I" /\ task[t].status = "draft"
                  /\ \A code \in before \ after :
                       \/ code = "INV-G" /\ task'[t].status \in {"unclaimed", "blocked"}
                       \/ code = "INV-I" /\ task'[t].claimedBy # NoAgent
<1>1. IInv => \A t \in Tasks : Reported(t) = Codes(t)
  BY ReportedCodes
<1>2. (\A t \in Tasks : Reported(t) = Codes(t)) /\ (\A t \in Tasks : Reported(t) = Codes(t))'
        /\ IInv /\ [Step]_vars
      => [\A t \in Tasks : task'[t] # task[t] \/ reviews'[t] # reviews[t] => Accused(t)]_<<task, reviews>>
  <2> SUFFICES ASSUME \A t \in Tasks : Reported(t) = Codes(t),
                      (\A t \in Tasks : Reported(t) = Codes(t))',
                      IInv, [Step]_vars, NEW t \in Tasks
               PROVE  Accused(t)
    OBVIOUS
  <2>1. Reported(t) = Codes(t) /\ Reported(t)' = Codes(t)'
    OBVIOUS
  <2>2. QED
    BY <2>1, ReportsStep DEF IInv
<1>3. QED
  BY <1>1, <1>2, Invariance, PTL DEF DeletionSpec, Step, ReportsAccuseOperators

-----------------------------------------------------------------------------
(***************************************************************************)
(* The services implement the board.  No more is needed of the rows than   *)
(* IInv says: the mapping forgets the owner wherever the rows may keep a   *)
(* stale one.                                                              *)
(***************************************************************************)
Holder(row) ==
    IF PhaseOf[row.status] \in {"waiting", "dropped"} THEN NoAgent ELSE row.claimedBy

AcceptedBy(row, rs) ==
    IF row.status \in {"approved", "merged"} THEN rs[Len(rs)].reviewer ELSE NoAgent

\* The phase of the board that each status of agent_tasks.py stands for.
LEMMA Phases ==
    /\ \A st \in {"draft", "unclaimed", "blocked"} : PhaseOf[st] = "waiting"
    /\ \A st \in {"claimed", "in_progress"} : PhaseOf[st] = "held"
    /\ PhaseOf["ready_for_review"] = "submitted"
    /\ PhaseOf["changes_requested"] = "returned"
    /\ PhaseOf["approved"] = "accepted"
    /\ PhaseOf["merged"] = "landed"
    /\ PhaseOf["abandoned"] = "dropped"
BY DEF PhaseOf

\* A function that differs from another one at one argument.
LEMMA ExceptAt ==
    ASSUME NEW S, NEW f, NEW g, NEW x \in S, NEW v,
           f = [u \in S |-> f[u]], g = [u \in S |-> g[u]],
           \A u \in S : g[u] = IF u = x THEN v ELSE f[u]
    PROVE  /\ g = [f EXCEPT ![x] = v]
           /\ f[x] = v => g = f
OBVIOUS

\* What the board shows of a task.
LEMMA BoardOfTask ==
    ASSUME NEW t \in Tasks
    PROVE  /\ boardPhase[t] = PhaseOf[task[t].status]
           /\ boardHolder[t] = Holder(task[t])
           /\ boardAcceptedBy[t] = AcceptedBy(task[t], reviews[t])
BY DEF boardPhase, boardHolder, boardAcceptedBy, Holder, AcceptedBy

\* The board as a step sees it that saves the row of one task.
LEMMA BoardOfSave ==
    ASSUME TypeOK, NEW t \in Tasks, NEW row \in TaskRow,
           task' = [task EXCEPT ![t] = row],
           \A u \in Tasks \ {t} : reviews'[u] = reviews[u]
    PROVE  /\ boardPhase' = [boardPhase EXCEPT ![t] = PhaseOf[row.status]]
           /\ boardHolder' = [boardHolder EXCEPT ![t] = Holder(row)]
           /\ boardAcceptedBy' = [boardAcceptedBy EXCEPT ![t] = AcceptedBy(row, reviews'[t])]
           /\ PhaseOf[row.status] = PhaseOf[task[t].status] => UNCHANGED boardPhase
           /\ Holder(row) = Holder(task[t]) => UNCHANGED boardHolder
           /\ AcceptedBy(row, reviews'[t]) = AcceptedBy(task[t], reviews[t])
                => UNCHANGED boardAcceptedBy
<1>1. \A u \in Tasks : task'[u] = IF u = t THEN row ELSE task[u]
  BY DEF TypeOK
<1>2. /\ boardPhase = [u \in Tasks |-> boardPhase[u]]
      /\ boardPhase' = [u \in Tasks |-> boardPhase'[u]]
      /\ boardHolder = [u \in Tasks |-> boardHolder[u]]
      /\ boardHolder' = [u \in Tasks |-> boardHolder'[u]]
      /\ boardAcceptedBy = [u \in Tasks |-> boardAcceptedBy[u]]
      /\ boardAcceptedBy' = [u \in Tasks |-> boardAcceptedBy'[u]]
  BY DEF boardPhase, boardHolder, boardAcceptedBy
<1>3. \A u \in Tasks :
        /\ boardPhase'[u] = PhaseOf[task'[u].status]
        /\ boardHolder'[u] = Holder(task'[u])
        /\ boardAcceptedBy'[u] = AcceptedBy(task'[u], reviews'[u])
  BY DEF boardPhase, boardHolder, boardAcceptedBy, Holder, AcceptedBy
<1>4. \A u \in Tasks :
        /\ boardPhase'[u] = IF u = t THEN PhaseOf[row.status] ELSE boardPhase[u]
        /\ boardHolder'[u] = IF u = t THEN Holder(row) ELSE boardHolder[u]
        /\ boardAcceptedBy'[u] =
              IF u = t THEN AcceptedBy(row, reviews'[t]) ELSE boardAcceptedBy[u]
  BY <1>1, <1>3, BoardOfTask
<1> USE BoardOfTask
<1>5. /\ boardPhase' = [boardPhase EXCEPT ![t] = PhaseOf[row.status]]
      /\ PhaseOf[row.status] = PhaseOf[task[t].status] => UNCHANGED boardPhase
  BY <1>2, <1>4, ExceptAt
<1>6. /\ boardHolder' = [boardHolder EXCEPT ![t] = Holder(row)]
      /\ Holder(row) = Holder(task[t]) => UNCHANGED boardHolder
  BY <1>2, <1>4, ExceptAt
<1>7. /\ boardAcceptedBy' = [boardAcceptedBy EXCEPT ![t] = AcceptedBy(row, reviews'[t])]
      /\ AcceptedBy(row, reviews'[t]) = AcceptedBy(task[t], reviews[t])
           => UNCHANGED boardAcceptedBy
  BY <1>2, <1>4, ExceptAt
<1>8. QED
  BY <1>5, <1>6, <1>7

\* Claims take, submissions hand in, reviews accept, return or drop, the sweep
\* and the operator give back.
LEMMA BoardStep ==
    ASSUME IInv, [Next]_vars
    PROVE  [Board!Next]_(Board!boardVars)
<1> USE Phases DEF IInv
<1>0. \A t \in Tasks : task[t] \in TaskRow
  BY DEF TypeOK
\* A row saved without a review; the board is before and after as the rows say.
<1> DEFINE Saved(t, row) == task' = [task EXCEPT ![t] = row] /\ UNCHANGED reviews
           Shows(t, row, ph, h, by) ==
              PhaseOf[row.status] = ph /\ Holder(row) = h /\ AcceptedBy(row, reviews[t]) = by
<1>1. ASSUME NEW t \in Tasks, NEW row \in TaskRow, Saved(t, row),
             NEW ph, NEW h, NEW by, Shows(t, row, ph, h, by),
             NEW ph0, NEW h0, NEW by0, Shows(t, task[t], ph0, h0, by0)
      PROVE  /\ boardPhase[t] = ph0 /\ boardHolder[t] = h0 /\ boardAcceptedBy[t] = by0
             /\ boardPhase' = [boardPhase EXCEPT ![t] = ph]
             /\ boardHolder' = [boardHolder EXCEPT ![t] = h]
             /\ ph = ph0 => UNCHANGED boardPhase
             /\ h = h0 => UNCHANGED boardHolder
             /\ by = by0 => UNCHANGED boardAcceptedBy
  <2>1. /\ task' = [task EXCEPT ![t] = row]
        /\ \A u \in Tasks \ {t} : reviews'[u] = reviews[u]
        /\ reviews'[t] = reviews[t]
    BY <1>1
  <2>2. QED
    BY <1>1, <2>1, BoardOfSave, BoardOfTask
<1>2. ASSUME NEW t \in Tasks, NEW row \in TaskRow, Saved(t, row),
             task[t].status \in {"claimed", "in_progress"},
             row.status \in {"unclaimed", "blocked"}
      PROVE  Board!GiveBack(t)
  <2>1. Shows(t, row, "waiting", NoAgent, NoAgent)
    BY <1>2 DEF Holder, AcceptedBy
  <2>2. Shows(t, task[t], "held", task[t].claimedBy, NoAgent)
    BY <1>2 DEF Holder, AcceptedBy
  <2> HIDE DEF Saved, Shows
  <2>3. QED
    BY <1>1, <1>2, <2>1, <2>2 DEF Board!GiveBack
<1>3. ASSUME NEW t \in Tasks, NEW row \in TaskRow, Saved(t, row),
             NEW ph, NEW h, NEW by, Shows(t, row, ph, h, by), Shows(t, task[t], ph, h, by)
      PROVE  UNCHANGED Board!boardVars
  <2> HIDE DEF Saved, Shows
  <2>1. QED
    BY <1>1, <1>3 DEF Board!boardVars
<1>4. ASSUME NEW t \in Tasks, NEW a \in Agents, ClaimTask(t, a) PROVE Board!Take(t, a)
  <2>1. /\ task[t].status = "unclaimed"
        /\ Saved(t, ClaimedRow(task[t], a))
        /\ CurrentTasks(task, a) \subseteq {t}
        /\ DependenciesMerged(task, t)
    BY <1>4 DEF ClaimTask, IsClaimable, Save
  <2>2. /\ ClaimedRow(task[t], a) \in TaskRow
        /\ ClaimedRow(task[t], a).status = "claimed"
        /\ ClaimedRow(task[t], a).claimedBy = a
    BY <1>0, RowTypes, RowFields
  <2>3. Shows(t, ClaimedRow(task[t], a), "held", a, NoAgent)
    BY <2>2 DEF Holder, AcceptedBy
  <2>4. Shows(t, task[t], "waiting", NoAgent, NoAgent)
    BY <2>1 DEF Holder, AcceptedBy
  <2>5. Board!Holds(a) = {}
    <3> SUFFICES ASSUME NEW u \in Tasks, boardPhase[u] = "held", boardHolder[u] = a
                 PROVE  FALSE
      BY DEF Board!Holds
    <3>1. task[u].status \in {"claimed", "in_progress"} /\ task[u].claimedBy = a
      BY <1>0, BoardOfTask DEF Holder, TaskRow, Status
    <3>2. u = t
      BY <2>1, <3>1 DEF CurrentTasks
    <3>3. QED
      BY <2>1, <3>1, <3>2
  <2>6. \A d \in DependsOn[t] : boardPhase[d] = "landed"
    BY <2>1, BoardOfTask DEF DependenciesMerged
  <2> HIDE DEF Saved, Shows
  <2>7. QED
    BY <1>1, <2>1, <2>2, <2>3, <2>4, <2>5, <2>6 DEF Board!Take
<1>5. ASSUME NEW t \in Tasks, NEW a \in Agents, StartTask(t, a) PROVE UNCHANGED Board!boardVars
  <2>1. task[t].status = "claimed" /\ Saved(t, StartedRow(task[t]))
    BY <1>0, <1>5, MoveFacts DEF StartTask, Save
  <2>2. /\ StartedRow(task[t]) \in TaskRow
        /\ StartedRow(task[t]).status = "in_progress"
        /\ StartedRow(task[t]).claimedBy = task[t].claimedBy
    BY <1>0, RowTypes, RowFields
  <2>3. /\ Shows(t, StartedRow(task[t]), "held", task[t].claimedBy, NoAgent)
        /\ Shows(t, task[t], "held", task[t].claimedBy, NoAgent)
    BY <2>1, <2>2 DEF Holder, AcceptedBy
  <2> HIDE DEF Saved, Shows
  <2>4. QED
    BY <1>3, <2>1, <2>2, <2>3
<1>6. ASSUME NEW t \in Tasks, NEW a \in Agents, NEW c \in Commits, SubmitForReview(t, a, c)
      PROVE  Board!HandIn(t)
  <2>1. /\ task[t].status \in {"in_progress", "changes_requested"}
        /\ Saved(t, SubmittedRow(task[t], c))
    BY <1>0, <1>6, MoveFacts DEF SubmitForReview, MaySubmit, Save
  <2>2. /\ SubmittedRow(task[t], c) \in TaskRow
        /\ SubmittedRow(task[t], c).status = "ready_for_review"
        /\ SubmittedRow(task[t], c).claimedBy = task[t].claimedBy
    BY <1>0, RowTypes, RowFields
  <2>3. Shows(t, SubmittedRow(task[t], c), "submitted", task[t].claimedBy, NoAgent)
    BY <2>2 DEF Holder, AcceptedBy
  <2>4. PICK ph \in {"held", "returned"} : Shows(t, task[t], ph, task[t].claimedBy, NoAgent)
    BY <2>1 DEF Holder, AcceptedBy
  <2> HIDE DEF Saved, Shows
  <2>5. QED
    BY <1>1, <2>1, <2>2, <2>3, <2>4 DEF Board!HandIn
<1>7. ASSUME NEW t \in Tasks, NEW a \in Agents, NEW d \in Decision, ReviewTask(t, a, d)
      PROVE  Board!Accept(t, a) \/ Board!Return(t) \/ Board!Drop(t)
  <2> DEFINE row == ReviewedRow(task[t], d)
             r   == Review(a, d, task[t])
  <2>1. /\ task[t].status = "ready_for_review"
        /\ task[t].claimedBy # a
        /\ task' = [task EXCEPT ![t] = row]
        /\ reviews' = [reviews EXCEPT ![t] = Append(reviews[t], r)]
    BY <1>7 DEF ReviewTask, MayReview, Save
  <2>2. /\ row \in TaskRow
        /\ row.claimedBy = task[t].claimedBy
        /\ row.status \in {"approved", "changes_requested", "abandoned"}
    BY <1>0, RowTypes, RowFields
  <2>3. reviews'[t][Len(reviews'[t])].reviewer = a
    <3>1. r \in ReviewRow /\ r.reviewer = a
      BY <1>0 DEF Review, ReviewRow, TaskRow
    <3>2. reviews[t] \in Seq(ReviewRow) /\ reviews'[t] = Append(reviews[t], r)
      BY <2>1 DEF TypeOK
    <3> HIDE DEF r
    <3>3. /\ Len(Append(reviews[t], r)) = Len(reviews[t]) + 1
          /\ Append(reviews[t], r)[Len(reviews[t]) + 1] = r
      BY <3>1, <3>2, AppendProperties
    <3>4. QED
      BY <3>1, <3>2, <3>3
  <2>4. \A u \in Tasks \ {t} : reviews'[u] = reviews[u]
    BY <2>1 DEF TypeOK
  <2> HIDE DEF row
  <2>5. /\ boardPhase' = [boardPhase EXCEPT ![t] = PhaseOf[row.status]]
        /\ boardHolder' = [boardHolder EXCEPT ![t] = Holder(row)]
        /\ boardAcceptedBy' = [boardAcceptedBy EXCEPT ![t] = AcceptedBy(row, reviews'[t])]
        /\ Holder(row) = Holder(task[t]) => UNCHANGED boardHolder
        /\ AcceptedBy(row, reviews'[t]) = AcceptedBy(task[t], reviews[t])
             => UNCHANGED boardAcceptedBy
    BY <2>1, <2>2, <2>4, BoardOfSave
  <2>6. Shows(t, task[t], "submitted", task[t].claimedBy, NoAgent)
    BY <2>1 DEF Holder, AcceptedBy
  <2>7. boardPhase[t] = "submitted" /\ boardHolder[t] = task[t].claimedBy
    BY <2>6, BoardOfTask
  <2>8. CASE row.status = "approved"
    <3>1. /\ PhaseOf[row.status] = "accepted"
          /\ Holder(row) = task[t].claimedBy
          /\ AcceptedBy(row, reviews'[t]) = a
      BY <2>2, <2>3, <2>8 DEF Holder, AcceptedBy
    <3>2. QED
      BY <2>1, <2>5, <2>6, <2>7, <3>1 DEF Board!Accept
  <2>9. CASE row.status = "changes_requested"
    <3>1. /\ PhaseOf[row.status] = "returned"
          /\ Holder(row) = task[t].claimedBy
          /\ AcceptedBy(row, reviews'[t]) = NoAgent
      BY <2>2, <2>9 DEF Holder, AcceptedBy
    <3>2. QED
      BY <2>5, <2>6, <2>7, <3>1 DEF Board!Return
  <2>10. CASE row.status = "abandoned"
    <3>1. /\ PhaseOf[row.status] = "dropped"
          /\ Holder(row) = NoAgent
          /\ AcceptedBy(row, reviews'[t]) = NoAgent
      BY <2>10 DEF Holder, AcceptedBy
    <3>2. QED
      BY <2>5, <2>6, <2>7, <3>1 DEF Board!Drop
  <2>11. QED
    BY <2>2, <2>8, <2>9, <2>10
<1>8. ASSUME NEW t \in Tasks, MergeTask(t) PROVE Board!Land(t)
  <2> DEFINE by == reviews[t][Len(reviews[t])].reviewer
  <2>1. task[t].status = "approved" /\ Saved(t, MergedRow(task[t]))
    BY <1>8 DEF MergeTask, Save
  <2>2. /\ MergedRow(task[t]) \in TaskRow
        /\ MergedRow(task[t]).status = "merged"
        /\ MergedRow(task[t]).claimedBy = task[t].claimedBy
    BY <1>0, RowTypes, RowFields
  <2>3. /\ Shows(t, MergedRow(task[t]), "landed", task[t].claimedBy, by)
        /\ Shows(t, task[t], "accepted", task[t].claimedBy, by)
    BY <2>1, <2>2 DEF Holder, AcceptedBy
  <2> HIDE DEF Saved, Shows, by
  <2>4. QED
    BY <1>1, <2>1, <2>2, <2>3 DEF Board!Land
<1>9. ASSUME NEW s \in Sweepers, NEW t \in Tasks, SweepRelease(s, t)
      PROVE  Board!GiveBack(t) \/ UNCHANGED <<task, reviews>>
  <2>1. CASE task[t].status = "claimed"
    <3>1. /\ ReleasedRow(task[t]) \in TaskRow
          /\ ReleasedRow(task[t]).status = "unclaimed"
      BY <1>0, RowTypes, RowFields
    <3>2. Saved(t, ReleasedRow(task[t]))
      BY <1>9, <2>1 DEF SweepRelease, Save
    <3>3. QED
      BY <1>2, <2>1, <3>1, <3>2
  <2>2. CASE task[t].status # "claimed"
    BY <1>9, <2>2 DEF SweepRelease
  <2>3. QED
    BY <2>1, <2>2
<1>10. ASSUME NEW t \in Tasks, LeaseLapses(t) PROVE UNCHANGED Board!boardVars
  <2> DEFINE row == [task[t] EXCEPT !.lease = "lapsed"]
  <2>1. /\ row \in TaskRow
        /\ row.status = task[t].status
        /\ row.claimedBy = task[t].claimedBy
    BY <1>0 DEF TaskRow, Lease
  <2>2. Saved(t, row)
    BY <1>10 DEF LeaseLapses
  <2> HIDE DEF row
  <2>3. Shows(t, row, PhaseOf[task[t].status], Holder(task[t]), AcceptedBy(task[t], reviews[t]))
    BY <2>1 DEF Holder, AcceptedBy
  <2>4. QED
    BY <1>3, <2>1, <2>2, <2>3
<1>11. ASSUME NEW t \in Tasks, NEW to \in Status, AdminSetStatus(t, to)
       PROVE  Board!GiveBack(t) \/ Board!Drop(t) \/ UNCHANGED Board!boardVars
  <2> DEFINE row == [task[t] EXCEPT !.status = to]
  <2>1. /\ row \in TaskRow
        /\ row.status = to
        /\ to \in {"unclaimed", "blocked", "abandoned"}
        /\ MayMove(task[t], to)
    BY <1>0, <1>11 DEF TaskRow, AdminSetStatus
  <2>2. Saved(t, row)
    BY <1>11 DEF AdminSetStatus
  <2> HIDE DEF row
  <2>3. CASE to = "abandoned"
    <3>1. task[t].status \in {"draft", "changes_requested", "blocked"}
      BY <1>0, <2>1, <2>3, MoveFacts
    <3>2. Shows(t, row, "dropped", NoAgent, NoAgent)
      BY <2>1, <2>3 DEF Holder, AcceptedBy
    <3>3. PICK ph \in {"waiting", "returned"} :
             Shows(t, task[t], ph, Holder(task[t]), NoAgent)
      BY <3>1 DEF AcceptedBy
    <3> HIDE DEF Saved, Shows
    <3>4. QED
      BY <1>1, <2>1, <2>2, <3>2, <3>3 DEF Board!Drop
  <2>4. CASE to # "abandoned" /\ task[t].status \in {"claimed", "in_progress"}
    BY <1>2, <2>1, <2>2, <2>4
  <2>5. CASE to # "abandoned" /\ task[t].status \notin {"claimed", "in_progress"}
    <3>1. task[t].status \in {"draft", "unclaimed", "blocked"}
      BY <1>0, <2>1, <2>5, MoveFacts
    <3>2. /\ Shows(t, row, "waiting", NoAgent, NoAgent)
          /\ Shows(t, task[t], "waiting", NoAgent, NoAgent)
      BY <2>1, <2>5, <3>1 DEF Holder, AcceptedBy
    <3> HIDE DEF Saved, Shows
    <3>3. QED
      BY <1>3, <2>1, <2>2, <3>2
  <2>6. QED
    BY <2>3, <2>4, <2>5
<1>12. ASSUME UNCHANGED <<task, reviews>> PROVE UNCHANGED Board!boardVars
  BY <1>12 DEF Board!boardVars, boardPhase, boardHolder, boardAcceptedBy
<1>13. CASE Service
  BY <1>4, <1>5, <1>6, <1>7, <1>8, <1>13 DEF Service, Board!Next
<1>14. CASE Sweep
  BY <1>9, <1>12, <1>14 DEF Sweep, SweepList, Board!Next
<1>15. CASE Clock
  BY <1>10, <1>15 DEF Clock
<1>16. CASE Operator
  BY <1>11, <1>16 DEF Operator, Board!Next
<1>17. CASE Agency
  BY <1>12, <1>17 DEF Agency, RegisterAgent, AdminSetActive
<1>18. CASE UNCHANGED vars
  BY <1>12, <1>18 DEF vars
<1>19. QED
  BY <1>13, <1>14, <1>15, <1>16, <1>17, <1>18 DEF Next

\* What the blackboard promises its agents is what the services do.  Deleting an
\* agent (DeletionSpec) is outside this promise: it takes a holder's name away.
THEOREM ServicesImplementTheBoard == Spec => ImplementsTaskBoard
<1>1. Init => Board!Init
  BY Phases DEF Init, NewTask, Board!Init, boardPhase, boardHolder, boardAcceptedBy
<1>2. IInv /\ [Next]_vars => [Board!Next]_(Board!boardVars)
  BY BoardStep
<1>3. [Next]_vars => [Next \/ Deletion]_vars
  OBVIOUS
<1>4. Spec => DeletionSpec
  BY <1>3, PTL DEF Spec, DeletionSpec
<1>5. QED
  BY <1>1, <1>2, <1>4, Invariance, PTL DEF Spec, ImplementsTaskBoard, Board!Spec
==============================================================================

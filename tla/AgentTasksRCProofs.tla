-------------------------- MODULE AgentTasksRCProofs --------------------------
(***************************************************************************)
(* Proofs about AgentTasksRC: what READ COMMITTED leaves true, for any set *)
(* of tasks, agents, commits and workers.                                  *)
(***************************************************************************)
EXTENDS AgentTasksRC, SequenceTheorems, TLAPS

USE NoAgentAssumption, NoCommitAssumption, DependsOnAssumption, MaxAttemptsAssumption,
    RolesAssumption

(***************************************************************************)
(* The inductive invariant adds what each call in flight may rely on: the  *)
(* row it loaded may be stale by now, but a claim and a start carry a real *)
(* agent, and the commit of the row a merge loaded has its approving       *)
(* review, because reviews are only ever added.                            *)
(***************************************************************************)
CallsAreSound ==
    \A w \in Workers :
        /\ call[w].op \in {"claim", "claim_checked"} => call[w].agent \in Agents
        /\ call[w].op = "start" => call[w].row.claimedBy \in Agents
        /\ call[w].op = "merge"
             => call[w].row.commit \in ApprovedCommits(reviews[call[w].task])

IInv == TypeOK /\ CallsAreSound /\ ClaimsAreHeld /\ ReviewsAreOnRecord

-----------------------------------------------------------------------------
\* What the operation of a call in flight tells of its other fields.
LEMMA CallFields ==
    ASSUME NEW c \in Call
    PROVE  /\ c.op \in {"claim", "claim_checked", "start", "release", "merge",
                        "submit", "review"}
                => c.task \in Tasks /\ c.row \in TaskRow
           /\ c.op = "submit" => c.agent \in Agents /\ c.arg \in Commits
           /\ c.op = "review" => c.agent \in Agents /\ c.arg \in Decision
<1>1. CASE c = NoCall
  BY <1>1 DEF NoCall
<1>2. CASE c \in [op : {"claim", "claim_checked", "start", "release", "merge"},
                  task : Tasks, agent : Agents \cup {NoAgent}, row : TaskRow]
  BY <1>2
<1>3. CASE c \in [op : {"submit"}, task : Tasks, agent : Agents, row : TaskRow,
                  arg : Commits]
  BY <1>3
<1>4. CASE c \in [op : {"review"}, task : Tasks, agent : Agents, row : TaskRow,
                  arg : Decision]
  BY <1>4
<1>5. QED
  BY <1>1, <1>2, <1>3, <1>4 DEF Call

\* The only status that reaches IN_PROGRESS is CLAIMED.
LEMMA StartsFromClaimed ==
    ASSUME NEW row \in TaskRow, MayMove(row, "in_progress")
    PROVE  row.status = "claimed"
BY DEF MayMove, Transitions, TaskRow, Status

\* The rows that the services store are rows, with the status that each sets.
LEMMA StoredRows ==
    ASSUME NEW row \in TaskRow
    PROVE  /\ \A a \in Agents : /\ ClaimedRow(row, a) \in TaskRow
                                /\ ClaimedRow(row, a).status = "claimed"
                                /\ ClaimedRow(row, a).claimedBy = a
                                /\ ClaimedRow(row, a).lease = "live"
           /\ StartedRow(row) \in TaskRow
           /\ StartedRow(row).status = "in_progress"
           /\ StartedRow(row).claimedBy = row.claimedBy
           /\ \A c \in Commits : /\ SubmittedRow(row, c) \in TaskRow
                                 /\ SubmittedRow(row, c).status = "ready_for_review"
           /\ MergedRow(row) \in TaskRow
           /\ MergedRow(row).status = "merged"
           /\ MergedRow(row).commit = row.commit
           /\ ReleasedRow(row) \in TaskRow
           /\ ReleasedRow(row).status = "unclaimed"
<1>1. \A a \in Agents : /\ ClaimedRow(row, a) \in TaskRow
                        /\ ClaimedRow(row, a).status = "claimed"
                        /\ ClaimedRow(row, a).claimedBy = a
                        /\ ClaimedRow(row, a).lease = "live"
  BY DEF ClaimedRow, TaskRow, Status, Lease
<1>2. /\ StartedRow(row) \in TaskRow
      /\ StartedRow(row).status = "in_progress"
      /\ StartedRow(row).claimedBy = row.claimedBy
  BY DEF StartedRow, TaskRow, Status
<1>3. \A c \in Commits : /\ SubmittedRow(row, c) \in TaskRow
                         /\ SubmittedRow(row, c).status = "ready_for_review"
  BY DEF SubmittedRow, TaskRow, Status
<1>4. /\ MergedRow(row) \in TaskRow
      /\ MergedRow(row).status = "merged"
      /\ MergedRow(row).commit = row.commit
  BY DEF MergedRow, TaskRow, Status
<1>5. /\ ReleasedRow(row) \in TaskRow
      /\ ReleasedRow(row).status = "unclaimed"
  BY DEF ReleasedRow, TaskRow, Status, Lease
<1>6. QED
  BY <1>1, <1>2, <1>3, <1>4, <1>5

\* review_task keeps the commit and ends the review one way or another.
LEMMA ReviewedRows ==
    ASSUME NEW row \in TaskRow, NEW d \in Decision
    PROVE  /\ ReviewedRow(row, d) \in TaskRow
           /\ ReviewedRow(row, d).commit = row.commit
           /\ ReviewedRow(row, d).status \in {"approved", "changes_requested", "abandoned"}
           /\ ReviewedRow(row, d).status = "approved" => d = "approved"
<1>1. CASE d = "changes_requested"
  <2> DEFINE st == IF row.attempts + 1 >= MaxAttempts THEN "abandoned" ELSE "changes_requested"
  <2>1. st \in {"changes_requested", "abandoned"}
    OBVIOUS
  <2>2. row.attempts + 1 \in Nat
    BY DEF TaskRow
  <2>3. ReviewedRow(row, d) = [row EXCEPT !.attempts = row.attempts + 1, !.status = st]
    BY <1>1 DEF ReviewedRow
  <2> HIDE DEF st
  <2>4. QED
    BY <2>1, <2>2, <2>3 DEF TaskRow, Status
<1>2. CASE d = "approved"
  BY <1>2 DEF ReviewedRow, TaskRow, Status, DecisionStatus
<1>3. CASE d = "rejected"
  BY <1>3 DEF ReviewedRow, TaskRow, Status, DecisionStatus
<1>4. QED
  BY <1>1, <1>2, <1>3 DEF Decision

\* A review added keeps every approval and, if it approves, records its commit.
LEMMA ApprovalsAdded ==
    ASSUME NEW rs \in Seq(ReviewRow), NEW r \in ReviewRow
    PROVE  /\ Append(rs, r) \in Seq(ReviewRow)
           /\ ApprovedCommits(rs) \subseteq ApprovedCommits(Append(rs, r))
           /\ r.decision = "approved" => r.commit \in ApprovedCommits(Append(rs, r))
<1>1. /\ Len(rs) \in Nat
      /\ DOMAIN rs = 1..Len(rs)
  BY LenProperties
<1>2. /\ Append(rs, r) \in Seq(ReviewRow)
      /\ DOMAIN Append(rs, r) = 1..(Len(rs) + 1)
      /\ \A i \in 1..Len(rs) : Append(rs, r)[i] = rs[i]
      /\ Append(rs, r)[Len(rs) + 1] = r
  BY <1>1, AppendProperties
<1>3. QED
  BY <1>1, <1>2 DEF ApprovedCommits

-----------------------------------------------------------------------------
(***************************************************************************)
(* Two kinds of step make up all the others: the end of a transaction      *)
(* stores one sound row and frees the worker; a call that is entered,      *)
(* checked or rolled back leaves the tables alone.                         *)
(***************************************************************************)

\* A row may be stored when its owner, lease and commit are in order under the
\* reviews of the same transaction.
Storable(row, rs) ==
    /\ row \in TaskRow
    /\ row.status \in {"claimed", "in_progress"} => row.claimedBy # NoAgent
    /\ row.status = "claimed" => row.lease # "null"
    /\ row.status \in {"approved", "merged"} => row.commit \in ApprovedCommits(rs)

\* Storing such a row, with reviews that only grew, keeps the invariant.
LEMMA StoreKeeps ==
    ASSUME IInv, NEW w \in Workers, NEW row, Store(w, row), call[w].task \in Tasks,
           reviews' \in [Tasks -> Seq(ReviewRow)],
           \A t \in Tasks : ApprovedCommits(reviews[t]) \subseteq ApprovedCommits(reviews'[t]),
           Storable(row, reviews'[call[w].task]), UNCHANGED listed
    PROVE  IInv'
<1> DEFINE t == call[w].task
<1>1. /\ task' = [task EXCEPT ![t] = row]
      /\ logged' = [logged EXCEPT ![t] = row.status]
      /\ call' = [call EXCEPT ![w] = NoCall]
  BY DEF Store
<1>2. /\ task \in [Tasks -> TaskRow]
      /\ logged \in [Tasks -> Status \cup {"none"}]
      /\ call \in [Workers -> Call]
      /\ listed \in SUBSET Tasks
      /\ t \in Tasks
  BY DEF IInv, TypeOK
<1>3. /\ row \in TaskRow
      /\ row.status \in Status
  BY DEF Storable, TaskRow
<1>4. TypeOK'
  <2>1. task' \in [Tasks -> TaskRow]
    BY <1>1, <1>2, <1>3
  <2>2. logged' \in [Tasks -> Status \cup {"none"}]
    BY <1>1, <1>2, <1>3
  <2>3. call' \in [Workers -> Call]
    BY <1>1, <1>2 DEF Call
  <2>4. QED
    BY <1>2, <2>1, <2>2, <2>3 DEF TypeOK
<1>5. CallsAreSound'
  <2>1. ASSUME NEW v \in Workers
        PROVE  /\ call'[v].op \in {"claim", "claim_checked"} => call'[v].agent \in Agents
               /\ call'[v].op = "start" => call'[v].row.claimedBy \in Agents
               /\ call'[v].op = "merge"
                    => call'[v].row.commit \in ApprovedCommits(reviews'[call'[v].task])
    <3>1. CASE v = w
      BY <1>1, <1>2, <3>1 DEF NoCall
    <3>2. CASE v # w
      <4>1. call'[v] = call[v] /\ call[v] \in Call
        BY <1>1, <1>2, <3>2
      <4>2. call[v].op = "merge" => call[v].task \in Tasks
        BY <4>1, CallFields
      <4>3. QED
        BY <4>1, <4>2 DEF IInv, CallsAreSound
    <3>3. QED
      BY <3>1, <3>2
  <2>2. QED
    BY <2>1 DEF CallsAreSound
<1>6. ClaimsAreHeld' /\ ReviewsAreOnRecord'
  <2>1. ASSUME NEW u \in Tasks
        PROVE  /\ task'[u].status \in {"claimed", "in_progress"}
                    => task'[u].claimedBy # NoAgent
               /\ task'[u].status = "claimed" => task'[u].lease # "null"
               /\ task'[u].status \in {"approved", "merged"}
                    => task'[u].commit \in ApprovedCommits(reviews'[u])
               /\ task'[u].status \notin {"draft", "unclaimed", "blocked", "abandoned"}
                    => logged'[u] = task'[u].status
    <3>1. CASE u = t
      <4>1. task'[u] = row /\ logged'[u] = row.status
        BY <1>1, <1>2, <3>1
      <4>2. QED
        BY <3>1, <4>1 DEF Storable
    <3>2. CASE u # t
      <4>1. task'[u] = task[u] /\ logged'[u] = logged[u]
        BY <1>1, <1>2, <3>2
      <4>2. QED
        BY <4>1 DEF IInv, ClaimsAreHeld, ReviewsAreOnRecord
    <3>3. QED
      BY <3>1, <3>2
  <2>2. QED
    BY <2>1 DEF ClaimsAreHeld, ReviewsAreOnRecord
<1>7. QED
  BY <1>4, <1>5, <1>6 DEF IInv

\* A call that is entered, moved on or dropped keeps the invariant when the new
\* state of the worker is sound.
LEMMA CallKeeps ==
    ASSUME IInv, NEW w \in Workers, NEW c \in Call, call' = [call EXCEPT ![w] = c],
           UNCHANGED <<task, reviews, logged>>, listed' \in SUBSET Tasks,
           c.op \in {"claim", "claim_checked"} => c.agent \in Agents,
           c.op = "start" => c.row.claimedBy \in Agents,
           c.op = "merge" => c.row.commit \in ApprovedCommits(reviews[c.task])
    PROVE  IInv'
<1>1. \A v \in Workers : call'[v] = IF v = w THEN c ELSE call[v]
  BY DEF IInv, TypeOK
<1>2. TypeOK'
  BY DEF IInv, TypeOK
<1>3. CallsAreSound'
  BY <1>1 DEF IInv, CallsAreSound
<1>4. ClaimsAreHeld' /\ ReviewsAreOnRecord'
  BY DEF IInv, ClaimsAreHeld, ReviewsAreOnRecord
<1>5. QED
  BY <1>2, <1>3, <1>4 DEF IInv

-----------------------------------------------------------------------------
LEMMA InitIInv == Init => IInv
<1> SUFFICES ASSUME Init PROVE IInv
  OBVIOUS
<1>1. NewTask \in TaskRow
  BY DEF NewTask, TaskRow, Status, Lease
<1>2. <<>> \in Seq(ReviewRow)
  OBVIOUS
<1>3. TypeOK
  BY <1>1, <1>2 DEF Init, TypeOK, Call
<1>4. CallsAreSound
  BY DEF Init, CallsAreSound, NoCall
<1>5. ClaimsAreHeld /\ ReviewsAreOnRecord
  BY DEF Init, ClaimsAreHeld, ReviewsAreOnRecord, NewTask
<1>6. QED
  BY <1>3, <1>4, <1>5 DEF IInv

\* The checks made on the rows a call loads.
LEMMA LoadKeeps ==
    ASSUME IInv, Load
    PROVE  IInv'
<1> USE DEF IInv, TypeOK
<1>1. ASSUME NEW w \in Workers, NEW t \in Tasks, NEW a \in Agents, LoadClaim(w, t, a)
      PROVE  IInv'
  <2> DEFINE c == [op |-> "claim", task |-> t, agent |-> a, row |-> task[t]]
  <2>1. c \in Call /\ c.op = "claim" /\ c.agent \in Agents
    BY DEF Call
  <2>2. call' = [call EXCEPT ![w] = c] /\ UNCHANGED <<task, reviews, logged, listed>>
    BY <1>1 DEF LoadClaim, Enter
  <2> HIDE DEF c
  <2>3. QED
    BY <2>1, <2>2, CallKeeps
<1>2. ASSUME NEW w \in Workers, NEW t \in Tasks, NEW a \in Agents, LoadStart(w, t, a)
      PROVE  IInv'
  <2> DEFINE c == [op |-> "start", task |-> t, agent |-> a, row |-> task[t]]
  <2>1. c \in Call /\ c.op = "start" /\ c.row.claimedBy \in Agents
    BY <1>2 DEF Call, LoadStart
  <2>2. call' = [call EXCEPT ![w] = c] /\ UNCHANGED <<task, reviews, logged, listed>>
    BY <1>2 DEF LoadStart, Enter
  <2> HIDE DEF c
  <2>3. QED
    BY <2>1, <2>2, CallKeeps
<1>3. ASSUME NEW w \in Workers, NEW t \in Tasks, NEW a \in Agents, NEW x \in Commits,
             LoadSubmit(w, t, a, x)
      PROVE  IInv'
  <2> DEFINE c == [op |-> "submit", task |-> t, agent |-> a, row |-> task[t], arg |-> x]
  <2>1. c \in Call /\ c.op = "submit"
    BY DEF Call
  <2>2. call' = [call EXCEPT ![w] = c] /\ UNCHANGED <<task, reviews, logged, listed>>
    BY <1>3 DEF LoadSubmit, Enter
  <2> HIDE DEF c
  <2>3. QED
    BY <2>1, <2>2, CallKeeps
<1>4. ASSUME NEW w \in Workers, NEW t \in Tasks, NEW a \in Agents, NEW d \in Decision,
             LoadReview(w, t, a, d)
      PROVE  IInv'
  <2> DEFINE c == [op |-> "review", task |-> t, agent |-> a, row |-> task[t], arg |-> d]
  <2>1. c \in Call /\ c.op = "review"
    BY DEF Call
  <2>2. call' = [call EXCEPT ![w] = c] /\ UNCHANGED <<task, reviews, logged, listed>>
    BY <1>4 DEF LoadReview, Enter
  <2> HIDE DEF c
  <2>3. QED
    BY <2>1, <2>2, CallKeeps
<1>5. ASSUME NEW w \in Workers, NEW t \in Tasks, LoadMerge(w, t)
      PROVE  IInv'
  <2> DEFINE c == [op |-> "merge", task |-> t, agent |-> NoAgent, row |-> task[t]]
  <2>1. c \in Call /\ c.op = "merge" /\ c.row = task[t] /\ c.task = t
    BY DEF Call
  <2>2. call' = [call EXCEPT ![w] = c] /\ UNCHANGED <<task, reviews, logged, listed>>
    BY <1>5 DEF LoadMerge, Enter
  <2>3. task[t].commit \in ApprovedCommits(reviews[t])
    BY <1>5 DEF LoadMerge, ReviewsAreOnRecord
  <2> HIDE DEF c
  <2>4. QED
    BY <2>1, <2>2, <2>3, CallKeeps
<1>6. ASSUME NEW w \in Workers, NEW t \in Tasks, LoadRelease(w, t)
      PROVE  IInv'
  <2> DEFINE c == [op |-> "release", task |-> t, agent |-> NoAgent, row |-> task[t]]
  <2>1. c \in Call /\ c.op = "release"
    BY DEF Call
  <2>2. UNCHANGED <<task, reviews, logged>> /\ listed' \in SUBSET Tasks
    BY <1>6 DEF LoadRelease, Enter
  <2>3. CASE task[t].status = "claimed"
    <3>1. call' = [call EXCEPT ![w] = c]
      BY <1>6, <2>3 DEF LoadRelease, Enter
    <3> HIDE DEF c
    <3>2. QED
      BY <2>1, <2>2, <3>1, CallKeeps
  <2>4. CASE task[t].status # "claimed"
    <3>1. call' = call
      BY <1>6, <2>4 DEF LoadRelease
    <3>2. QED
      BY <2>2, <3>1 DEF CallsAreSound, ClaimsAreHeld, ReviewsAreOnRecord
  <2>5. QED
    BY <2>3, <2>4
<1>7. QED
  BY <1>1, <1>2, <1>3, <1>4, <1>5, <1>6 DEF Load

\* The ends of the transactions, each over a row that other transactions may
\* have replaced since it was loaded.
LEMMA CommitKeeps ==
    ASSUME IInv, Commit
    PROVE  IInv'
<1>1. /\ \A t \in Tasks : task[t] \in TaskRow /\ reviews[t] \in Seq(ReviewRow)
      /\ \A w \in Workers : call[w] \in Call
      /\ reviews \in [Tasks -> Seq(ReviewRow)]
  BY DEF IInv, TypeOK
<1>2. ASSUME NEW w \in Workers, CommitClaim(w) PROVE IInv'
  <2>1. /\ call[w].task \in Tasks
        /\ call[w].agent \in Agents
    BY <1>1, <1>2, CallFields DEF CommitClaim, IInv, CallsAreSound
  <2>2. CASE task[call[w].task].status = "unclaimed"
    <3> DEFINE row == ClaimedRow(task[call[w].task], call[w].agent)
    <3>1. Store(w, row) /\ UNCHANGED <<reviews, listed>>
      BY <1>2, <2>2 DEF CommitClaim
    <3>2. Storable(row, reviews'[call[w].task])
      BY ZenonT(30), <1>1, <2>1, StoredRows DEF Storable
    <3> HIDE DEF row
    <3>3. QED
      BY <1>1, <2>1, <3>1, <3>2, StoreKeeps
  <2>3. CASE task[call[w].task].status # "unclaimed"
    <3>1. /\ call' = [call EXCEPT ![w] = NoCall]
          /\ UNCHANGED <<task, logged, reviews, listed>>
      BY <1>2, <2>3 DEF CommitClaim
    <3>2. NoCall \in Call /\ NoCall.op = "none" /\ listed' \in SUBSET Tasks
      BY <3>1 DEF Call, NoCall, IInv, TypeOK
    <3>3. QED
      BY <3>1, <3>2, CallKeeps
  <2>4. QED
    BY <2>2, <2>3
<1>3. ASSUME NEW w \in Workers, CommitStart(w) PROVE IInv'
  <2>1. /\ call[w].task \in Tasks
        /\ call[w].row \in TaskRow
        /\ call[w].row.claimedBy \in Agents
    BY <1>1, <1>3, CallFields DEF CommitStart, IInv, CallsAreSound
  <2> DEFINE row == StartedRow(call[w].row)
  <2>2. Store(w, row) /\ UNCHANGED <<reviews, listed>>
    BY <1>3 DEF CommitStart
  <2>3. Storable(row, reviews'[call[w].task])
    BY <2>1, StoredRows DEF Storable
  <2> HIDE DEF row
  <2>4. QED
    BY <1>1, <2>1, <2>2, <2>3, StoreKeeps
<1>4. ASSUME NEW w \in Workers, CommitSubmit(w) PROVE IInv'
  <2>1. /\ call[w].task \in Tasks
        /\ call[w].row \in TaskRow
        /\ call[w].arg \in Commits
    BY <1>1, <1>4, CallFields DEF CommitSubmit
  <2> DEFINE row == SubmittedRow(call[w].row, call[w].arg)
  <2>2. Store(w, row) /\ UNCHANGED <<reviews, listed>>
    BY <1>4 DEF CommitSubmit
  <2>3. Storable(row, reviews'[call[w].task])
    BY <2>1, StoredRows DEF Storable
  <2> HIDE DEF row
  <2>4. QED
    BY <1>1, <2>1, <2>2, <2>3, StoreKeeps
<1>5. ASSUME NEW w \in Workers, CommitReview(w) PROVE IInv'
  <2>1. /\ call[w].task \in Tasks
        /\ call[w].row \in TaskRow
        /\ call[w].arg \in Decision
        /\ call[w].agent \in Agents
    BY <1>1, <1>5, CallFields DEF CommitReview
  <2> DEFINE row == ReviewedRow(call[w].row, call[w].arg)
             t == call[w].task
             r == Review(call[w].agent, call[w].arg, call[w].row)
  <2>2. /\ reviews' = [reviews EXCEPT ![t] = Append(@, r)]
        /\ Store(w, row)
        /\ UNCHANGED listed
    BY <1>5 DEF CommitReview
  <2>3. /\ r \in ReviewRow
        /\ r.decision = call[w].arg
        /\ r.commit = call[w].row.commit
    BY <2>1 DEF Review, ReviewRow, TaskRow
  <2>4. /\ row \in TaskRow
        /\ row.commit = call[w].row.commit
        /\ row.status \in {"approved", "changes_requested", "abandoned"}
        /\ row.status = "approved" => call[w].arg = "approved"
    BY <2>1, ReviewedRows
  <2> HIDE DEF row, t, r
  <2>5. t \in Tasks /\ reviews[t] \in Seq(ReviewRow)
    BY <1>1, <2>1 DEF t
  <2>6. /\ Append(reviews[t], r) \in Seq(ReviewRow)
        /\ ApprovedCommits(reviews[t]) \subseteq ApprovedCommits(Append(reviews[t], r))
        /\ r.decision = "approved" => r.commit \in ApprovedCommits(Append(reviews[t], r))
    BY <2>3, <2>5, ApprovalsAdded
  <2>7. /\ reviews'[t] = Append(reviews[t], r)
        /\ reviews' \in [Tasks -> Seq(ReviewRow)]
        /\ \A u \in Tasks : u # t => reviews'[u] = reviews[u]
    BY <1>1, <2>2, <2>5, <2>6
  <2>8. \A u \in Tasks : ApprovedCommits(reviews[u]) \subseteq ApprovedCommits(reviews'[u])
    <3>1. ASSUME NEW u \in Tasks
          PROVE  ApprovedCommits(reviews[u]) \subseteq ApprovedCommits(reviews'[u])
      <4>1. CASE u = t
        BY <2>6, <2>7, <4>1
      <4>2. CASE u # t
        BY <2>7, <4>2
      <4>3. QED
        BY <4>1, <4>2
    <3>2. QED
      BY <3>1
  <2>9. Storable(row, reviews'[t])
    BY <2>3, <2>4, <2>6, <2>7 DEF Storable
  <2>10. QED
    BY <2>1, <2>2, <2>7, <2>8, <2>9, StoreKeeps DEF t
<1>6. ASSUME NEW w \in Workers, CommitMerge(w) PROVE IInv'
  <2>1. /\ call[w].task \in Tasks
        /\ call[w].row \in TaskRow
        /\ call[w].row.commit \in ApprovedCommits(reviews[call[w].task])
    BY <1>1, <1>6, CallFields DEF CommitMerge, IInv, CallsAreSound
  <2> DEFINE row == MergedRow(call[w].row)
  <2>2. Store(w, row) /\ UNCHANGED <<reviews, listed>>
    BY <1>6 DEF CommitMerge
  <2>3. Storable(row, reviews'[call[w].task])
    BY <2>1, <2>2, StoredRows DEF Storable
  <2> HIDE DEF row
  <2>4. QED
    BY <1>1, <2>1, <2>2, <2>3, StoreKeeps
<1>7. ASSUME NEW w \in Workers, CommitRelease(w) PROVE IInv'
  <2>1. call[w].task \in Tasks /\ call[w].row \in TaskRow
    BY <1>1, <1>7, CallFields DEF CommitRelease
  <2> DEFINE row == ReleasedRow(call[w].row)
  <2>2. Store(w, row) /\ UNCHANGED <<reviews, listed>>
    BY <1>7 DEF CommitRelease
  <2>3. Storable(row, reviews'[call[w].task])
    BY <2>1, StoredRows DEF Storable
  <2> HIDE DEF row
  <2>4. QED
    BY <1>1, <2>1, <2>2, <2>3, StoreKeeps
<1>8. QED
  BY <1>2, <1>3, <1>4, <1>5, <1>6, <1>7 DEF Commit

LEMMA NextIInv == IInv /\ [Next]_vars => IInv'
<1> SUFFICES ASSUME IInv, [Next]_vars PROVE IInv'
  OBVIOUS
<1>1. NoCall \in Call /\ NoCall.op = "none" /\ listed \in SUBSET Tasks
  BY DEF Call, NoCall, IInv, TypeOK
<1>2. ASSUME NEW w \in Workers, CheckClaim(w) PROVE IInv'
  <2>1. call[w] \in Call /\ call[w].op = "claim" /\ call[w].agent \in Agents
    BY <1>2 DEF CheckClaim, IInv, TypeOK, CallsAreSound
  <2> DEFINE c == [call[w] EXCEPT !.op = "claim_checked"]
  <2>2. c \in Call /\ c.op = "claim_checked" /\ c.agent \in Agents
    BY <2>1 DEF Call, NoCall
  <2>3. /\ call' = [call EXCEPT ![w] = c] \/ call' = [call EXCEPT ![w] = NoCall]
        /\ UNCHANGED <<task, reviews, logged, listed>>
    BY <1>2 DEF CheckClaim
  <2> HIDE DEF c
  <2>4. CASE call' = [call EXCEPT ![w] = c]
    BY <1>1, <2>2, <2>3, <2>4, CallKeeps
  <2>5. CASE call' = [call EXCEPT ![w] = NoCall]
    BY <1>1, <2>3, <2>5, CallKeeps
  <2>6. QED
    BY <2>3, <2>4, <2>5
<1>3. CASE SweepList
  BY <1>3 DEF SweepList, IInv, TypeOK, CallsAreSound, ClaimsAreHeld, ReviewsAreOnRecord
<1>4. ASSUME NEW w \in Workers, Abort(w) PROVE IInv'
  BY <1>1, <1>4, CallKeeps DEF Abort
<1>5. ASSUME NEW t \in Tasks, LeaseLapses(t) PROVE IInv'
  <2>1. TypeOK'
    BY ZenonT(30), <1>5 DEF LeaseLapses, IInv, TypeOK, TaskRow, Lease
  <2>2. QED
    BY <1>5, <2>1 DEF LeaseLapses, IInv, TypeOK, TaskRow, CallsAreSound, ClaimsAreHeld,
                      ReviewsAreOnRecord
<1>6. ASSUME NEW t \in Tasks, AdminPublish(t) PROVE IInv'
  <2>1. TypeOK'
    BY ZenonT(30), <1>6 DEF AdminPublish, IInv, TypeOK, TaskRow, Status
  <2>2. QED
    BY <1>6, <2>1 DEF AdminPublish, IInv, TypeOK, TaskRow, CallsAreSound, ClaimsAreHeld,
                      ReviewsAreOnRecord
<1>7. CASE UNCHANGED vars
  BY <1>7 DEF vars, IInv, TypeOK, CallsAreSound, ClaimsAreHeld, ReviewsAreOnRecord
<1>8. QED
  BY <1>2, <1>3, <1>4, <1>5, <1>6, <1>7, LoadKeeps, CommitKeeps DEF Next

-----------------------------------------------------------------------------
\* The inductive invariant holds in every reachable state of the interleaved
\* services of agent_tasks.py.
THEOREM Invariance == Spec => []IInv
BY InitIInv, NextIInv, PTL DEF Spec

\* The tables and the calls in flight are well-typed.
THEOREM TypeCorrect == Spec => []TypeOK
BY Invariance, PTL DEF IInv

\* INV-G and INV-H survive the stale whole-row saves.
THEOREM ClaimsStayHeld == Spec => []ClaimsAreHeld
BY Invariance, PTL DEF IInv

\* INV-J and the newest history row survive them too.
THEOREM ReviewsStayOnRecord == Spec => []ReviewsAreOnRecord
BY Invariance, PTL DEF IInv

-----------------------------------------------------------------------------
\* No end of a transaction but that of claim_task makes a task CLAIMED, and
\* its UPDATE is conditional on UNCLAIMED.
LEMMA ClaimStep ==
    ASSUME IInv, [Next]_vars, NEW t \in Tasks, task'[t].status = "claimed",
           task'[t] # task[t]
    PROVE  task[t].status = "unclaimed" \/ task'[t].claimedBy = task[t].claimedBy
<1> USE DEF IInv, TypeOK
<1>0. ASSUME NEW w \in Workers, NEW row, Store(w, row)
      PROVE  row.status = "claimed" /\ t = call[w].task /\ task'[t] = row
  BY <1>0 DEF Store
<1>1. CASE Load
  <2>1. UNCHANGED task
    BY ZenonT(30), <1>1 DEF Load, LoadClaim, LoadStart, LoadSubmit, LoadReview, LoadMerge, LoadRelease,
                Enter
  <2>2. QED
    BY <2>1
<1>2. ASSUME NEW w \in Workers, CheckClaim(w) PROVE FALSE
  BY <1>2 DEF CheckClaim
<1>3. ASSUME NEW w \in Workers, CommitClaim(w) PROVE task[t].status = "unclaimed"
  BY <1>0, <1>3 DEF CommitClaim
<1>4. ASSUME NEW w \in Workers, CommitStart(w) PROVE FALSE
  BY <1>0, <1>4, CallFields, StoredRows DEF CommitStart
<1>5. ASSUME NEW w \in Workers, CommitSubmit(w) PROVE FALSE
  BY <1>0, <1>5, CallFields, StoredRows DEF CommitSubmit
<1>6. ASSUME NEW w \in Workers, CommitReview(w) PROVE FALSE
  <2>1. call[w].row \in TaskRow /\ call[w].arg \in Decision
    BY <1>6, CallFields DEF CommitReview
  <2>2. ReviewedRow(call[w].row, call[w].arg).status # "claimed"
    BY <2>1, ReviewedRows
  <2>3. QED
    BY <1>0, <1>6, <2>2 DEF CommitReview
<1>7. ASSUME NEW w \in Workers, CommitMerge(w) PROVE FALSE
  BY <1>0, <1>7, CallFields, StoredRows DEF CommitMerge
<1>8. ASSUME NEW w \in Workers, CommitRelease(w) PROVE FALSE
  BY <1>0, <1>8, CallFields, StoredRows DEF CommitRelease
<1>9. ASSUME NEW u \in Tasks, LeaseLapses(u)
      PROVE  task'[t].claimedBy = task[t].claimedBy
  BY <1>9 DEF LeaseLapses, TaskRow
<1>10. ASSUME NEW u \in Tasks, AdminPublish(u) PROVE FALSE
  BY <1>10 DEF AdminPublish, TaskRow
<1>11. CASE SweepList \/ UNCHANGED vars
  BY <1>11 DEF SweepList, vars
<1>12. ASSUME NEW w \in Workers, Abort(w) PROVE FALSE
  BY <1>12 DEF Abort
<1>13. QED
  BY <1>1, <1>2, <1>3, <1>4, <1>5, <1>6, <1>7, <1>8, <1>9, <1>10, <1>11, <1>12
     DEF Next, Commit

\* "Exactly one claim may commit": of two racing claims the second raises.
THEOREM ClaimsRaceSafely == Spec => ClaimsNeverOverwrite
<1>1. ASSUME IInv, [Next]_vars
      PROVE  [\A t \in Tasks : (task'[t].status = "claimed" /\ task'[t] # task[t])
                 => task[t].status = "unclaimed" \/ task'[t].claimedBy = task[t].claimedBy]_vars
  BY <1>1, ClaimStep
<1>2. QED
  BY <1>1, Invariance, PTL DEF Spec, ClaimsNeverOverwrite
==============================================================================

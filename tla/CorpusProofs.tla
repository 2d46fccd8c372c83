----------------------------- MODULE CorpusProofs -----------------------------
(***************************************************************************)
(* Proofs about Corpus, for any files, checkouts and specifications and    *)
(* any number of concurrent imports, reviews and drift reports.            *)
(***************************************************************************)
EXTENDS Corpus, TLAPS

USE CorpusAssumption

\* The rows that a command holds and that were not deleted are stored.
KnownRowsExist ==
    \A p \in Processes : proc[p].at \in HoldingRows =>
        \A k \in DOMAIN proc[p].known : proc[p].known[k] # Gone => k \in Stored

\* The inductive invariant.
IInv == TypeOK /\ KnownRowsExist /\ LedgerIsConsistent

-----------------------------------------------------------------------------
\* One more row in a map of rows.
LEMMA WithDomain ==
    ASSUME NEW f, NEW k, NEW v
    PROVE  /\ DOMAIN With(f, k, v) = DOMAIN f \cup {k}
           /\ With(f, k, v)[k] = v
           /\ \A j \in DOMAIN f : j # k => With(f, k, v)[j] = f[j]
           /\ With(f, k, v) = [j \in DOMAIN f \cup {k} |-> With(f, k, v)[j]]
BY DEF With

\* The rows held by a command, and those after one more.
LEMMA KnownType ==
    ASSUME NEW f \in Known
    PROVE  /\ DOMAIN f \subseteq Key
           /\ f = [k \in DOMAIN f |-> f[k]]
           /\ \A k \in DOMAIN f : f[k] \in Link \cup {Gone}
BY DEF Known

LEMMA KnownIntro ==
    ASSUME NEW f, NEW K \in SUBSET Key, DOMAIN f = K, f = [k \in K |-> f[k]],
           \A k \in K : f[k] \in Link \cup {Gone}
    PROVE  f \in Known
<1>1. f \in [K -> Link \cup {Gone}]
  OBVIOUS
<1> QED
  BY <1>1 DEF Known

LEMMA KnownWith ==
    ASSUME NEW f \in Known, NEW k \in Key, NEW v \in Link \cup {Gone}
    PROVE  With(f, k, v) \in Known
<1> DEFINE g == With(f, k, v)
<1>1. /\ DOMAIN g = DOMAIN f \cup {k}
      /\ g = [j \in DOMAIN f \cup {k} |-> g[j]]
      /\ g[k] = v
      /\ \A j \in DOMAIN f : j # k => g[j] = f[j]
  BY DEF With
<1>2. DOMAIN f \subseteq Key /\ \A j \in DOMAIN f : f[j] \in Link \cup {Gone}
  BY KnownType
<1> HIDE DEF g
<1>3. DOMAIN g \in SUBSET Key
  BY <1>1, <1>2
<1>4. \A j \in DOMAIN g : g[j] \in Link \cup {Gone}
  BY <1>1, <1>2
<1>5. g \in Known
  BY <1>1, <1>3, <1>4, KnownIntro
<1> QED
  BY <1>5 DEF g

LEMMA NoRowsKnown == NoRows \in Known /\ DOMAIN NoRows = {}
<1>1. DOMAIN NoRows = {} /\ NoRows = [k \in {} |-> NoRows[k]]
  BY DEF NoRows
<1> QED
  BY <1>1, KnownIntro

\* What a place tells about the record of a command.
LEMMA Places ==
    ASSUME TypeOK, NEW p \in Processes
    PROVE  /\ proc[p].at \in {"check", "create"} =>
                proc[p] \in [at : {"check", "create"}, file : Files, left : SUBSET Files,
                             links : SUBSET Files, known : Known]
           /\ proc[p].at \in {"files", "links"} =>
                proc[p] \in [at : {"files", "links"}, left : SUBSET Files,
                             links : SUBSET Files, known : Known]
           /\ proc[p].at = "members" =>
                proc[p] \in [at : {"members"}, hash : DOMAIN snapshot, known : Known]
           /\ proc[p].at = "review_created" =>
                proc[p] \in [at : {"review_created"}, requirement : Requirements,
                             cites : Citations, members : SUBSET Stored]
           /\ proc[p].at = "review_found" =>
                proc[p] \in [at : {"review_found"}, requirement : Requirements,
                             cites : Citations, hash : DOMAIN snapshot]
           /\ proc[p].at \in HoldingRows => proc[p].known \in Known
           /\ proc[p].at \notin HoldingRows \cup {"review_created", "review_found"} =>
                proc[p] = Idle
<1>1. proc[p] \in Command
  BY DEF TypeOK
<1> QED
  BY <1>1 DEF Command, Idle, HoldingRows

\* A command keeps its type while the tables it refers to grow.
LEMMA CommandKept ==
    ASSUME NEW c \in Command, Stored \subseteq Stored',
           DOMAIN snapshot \subseteq DOMAIN snapshot'
    PROVE  c \in Command'
BY DEF Command

\* A review keeps its type while its snapshot and its versions are there.
LEMMA ReviewsKept ==
    ASSUME reviews \in Seq(Reviewed), reviews' = reviews,
           DOMAIN snapshot \subseteq DOMAIN snapshot',
           \A i \in DOMAIN reviews :
               reviews[i].coverage \cup reviews[i].findings \subseteq Stored'
    PROVE  reviews' \in Seq(Reviewed')
<1>1. \A i \in 1..Len(reviews) : reviews[i] \in Reviewed
  OBVIOUS
<1>2. \A i \in 1..Len(reviews) : reviews[i] \in Reviewed'
  BY <1>1 DEF Reviewed
<1>3. reviews \in [1..Len(reviews) -> Reviewed'] /\ Len(reviews) \in Nat
  BY <1>2
<1> QED
  BY <1>3

LEMMA ReviewType ==
    ASSUME TypeOK, NEW i \in DOMAIN reviews
    PROVE  /\ reviews[i] \in Reviewed
           /\ reviews[i].coverage \subseteq Stored
           /\ reviews[i].findings \subseteq Stored
           /\ reviews[i].cites \in Citations
           /\ reviews[i].hash \in DOMAIN snapshot
<1>1. reviews[i] \in Reviewed
  BY DEF TypeOK
<1> QED
  BY <1>1 DEF Reviewed

-----------------------------------------------------------------------------
(* What the actions have in common.                                        *)

\* The two invariants about the commands are kept by a step of one command
\* that leaves rows where they are.
LEMMA StepOfCommand ==
    ASSUME TypeOK, KnownRowsExist, Stored \subseteq Stored',
           DOMAIN snapshot \subseteq DOMAIN snapshot',
           NEW p \in Processes, NEW c \in Command', Go(p, c),
           c.at \in HoldingRows =>
               \A k \in DOMAIN c.known : c.known[k] # Gone => k \in Stored'
    PROVE  proc' \in [Processes -> Command'] /\ KnownRowsExist'
<1>1. proc \in [Processes -> Command]
  BY DEF TypeOK
<1>2. \A q \in Processes : proc'[q] = IF q = p THEN c ELSE proc[q]
  BY <1>1 DEF Go
<1>3. proc' \in [Processes -> Command']
  BY <1>1, CommandKept DEF Go
<1>4. KnownRowsExist'
  BY <1>2 DEF KnownRowsExist
<1> QED
  BY <1>3, <1>4

\* The ledger is about the reviews only.
LEMMA LedgerKept ==
    ASSUME LedgerIsConsistent, UNCHANGED reviews
    PROVE  LedgerIsConsistent'
BY DEF LedgerIsConsistent

\* More versions or snapshots, and the same reviews.
LEMMA TablesGrow ==
    ASSUME TypeOK, UNCHANGED reviews, Stored \subseteq Stored',
           DOMAIN snapshot \subseteq DOMAIN snapshot'
    PROVE  reviews' \in Seq(Reviewed')
<1>1. \A i \in DOMAIN reviews : reviews[i].coverage \cup reviews[i].findings \subseteq Stored
  BY ReviewType
<1> QED
  BY <1>1, ReviewsKept DEF TypeOK

\* The file is done.
LEMMA AfterFile ==
    ASSUME TypeOK, KnownRowsExist, Stored \subseteq Stored', UNCHANGED snapshot,
           NEW p \in Processes, proc[p].at \in {"check", "create"},
           NEW known \in Known, FileDone(p, known),
           \A k \in DOMAIN known : known[k] # Gone => k \in Stored'
    PROVE  proc' \in [Processes -> Command'] /\ KnownRowsExist'
<1>1. proc[p].left \subseteq Files /\ proc[p].links \subseteq Files
  BY Places
<1> DEFINE next(at) == [at |-> at, left |-> proc[p].left, links |-> proc[p].links,
                        known |-> known]
<1>2. CASE proc[p].left = {} /\ proc[p].links = {}
  <2>1. Go(p, Idle) /\ Idle \in Command' /\ Idle.at \notin HoldingRows
    BY <1>2 DEF FileDone, Idle, Command, HoldingRows
  <2> QED
    BY <2>1, StepOfCommand
<1>3. CASE ~(proc[p].left = {} /\ proc[p].links = {})
  <2>1. PICK at \in {"files", "links"} : Go(p, next(at))
    BY <1>3 DEF FileDone
  <2>2. next(at) \in Command' /\ next(at).known = known
    BY <1>1 DEF Command
  <2> QED
    BY <2>1, <2>2, StepOfCommand
<1> QED
  BY <1>2, <1>3

\* A step that changes no table.
LEMMA TablesStay ==
    ASSUME IInv, UNCHANGED <<entry, version, snapshot, reviews>>,
           proc' \in [Processes -> Command'], KnownRowsExist'
    PROVE  IInv'
<1>1. Stored' = Stored
  BY DEF Stored
<1>2. reviews' \in Seq(Reviewed')
  BY <1>1, TablesGrow DEF IInv
<1>3. TypeOK'
  BY <1>1, <1>2 DEF IInv, TypeOK
<1> QED
  BY <1>3, LedgerKept DEF IInv

-----------------------------------------------------------------------------
(* The import.                                                             *)

LEMMA UpsertEntryKeeps ==
    ASSUME IInv, NEW p \in Processes, NEW f \in Files, NEW left \in SUBSET Files,
           NEW links \in SUBSET Files, NEW known \in Known,
           \A k \in DOMAIN known : known[k] # Gone => k \in Stored,
           UpsertEntry(p, f, left, links, known)
    PROVE  IInv'
<1> USE DEF IInv
<1> DEFINE c == [at |-> "check", file |-> f, left |-> left \ {f}, links |-> links,
                 known |-> known]
<1>1. /\ Go(p, c) /\ UNCHANGED <<version, snapshot, reviews>>
      /\ entry' = [entry EXCEPT ![f.entry] = f.status]
  BY DEF UpsertEntry
<1>2. f.status \in Status
  BY DEF KeyOf
<1>3. entry' \in [Entries -> Status \cup {"absent"}]
  BY <1>1, <1>2 DEF TypeOK
<1>4. c \in Command' /\ c.known = known
  BY DEF Command
<1>5. Stored' = Stored
  BY <1>1 DEF Stored
<1>6. proc' \in [Processes -> Command'] /\ KnownRowsExist'
  BY <1>1, <1>4, <1>5, StepOfCommand
<1>7. reviews' \in Seq(Reviewed')
  BY <1>1, <1>5, TablesGrow
<1>8. TypeOK'
  BY <1>1, <1>3, <1>5, <1>6, <1>7 DEF TypeOK
<1> QED
  BY <1>1, <1>6, <1>8, LedgerKept

LEMMA StartImportKeeps ==
    ASSUME IInv, NEW p \in Importers, NEW D \in Checkouts, NEW f \in D, StartImport(p, D, f)
    PROVE  IInv'
<1>1. D \in SUBSET Files /\ {g \in D : g.supersedes # None} \in SUBSET Files /\ f \in Files
  OBVIOUS
<1>2. UpsertEntry(p, f, D, {g \in D : g.supersedes # None}, NoRows)
  BY DEF StartImport
<1> QED
  BY <1>1, <1>2, NoRowsKnown, UpsertEntryKeeps DEF Processes

LEMMA WriteNextFileKeeps ==
    ASSUME IInv, NEW p \in Importers, NEW f \in Files, WriteNextFile(p, f)
    PROVE  IInv'
<1>1. /\ proc[p].at = "files"
      /\ UpsertEntry(p, f, proc[p].left, proc[p].links, proc[p].known)
  BY DEF WriteNextFile
<1>2. p \in Processes /\ TypeOK /\ KnownRowsExist
  BY DEF Processes, IInv
<1>3. /\ proc[p].left \in SUBSET Files /\ proc[p].links \in SUBSET Files
      /\ proc[p].known \in Known
  BY <1>1, <1>2, Places
<1>4. \A k \in DOMAIN proc[p].known : proc[p].known[k] # Gone => k \in Stored
  BY <1>1, <1>2 DEF KnownRowsExist, HoldingRows
<1> QED
  BY <1>1, <1>2, <1>3, <1>4, UpsertEntryKeeps

LEMMA CheckVersionKeeps ==
    ASSUME IInv, NEW p \in Importers, CheckVersion(p)
    PROVE  IInv'
<1> USE DEF IInv
<1> DEFINE f == proc[p].file
           k == KeyOf(f)
<1>1. /\ proc[p].at = "check" /\ p \in Processes
      /\ UNCHANGED <<entry, version, snapshot, reviews>>
  BY DEF CheckVersion, Processes
<1>2. Stored' = Stored
  BY <1>1 DEF Stored
<1>3. /\ f \in Files /\ proc[p].known \in Known /\ proc[p].left \subseteq Files
      /\ proc[p].links \subseteq Files
  BY <1>1, Places
<1>4. k \in Key
  BY <1>3 DEF KeyOf, Key
<1>5. \A j \in DOMAIN proc[p].known : proc[p].known[j] # Gone => j \in Stored
  BY <1>1 DEF KnownRowsExist, HoldingRows
<1>6. ASSUME k \in Stored
      PROVE  proc' \in [Processes -> Command'] /\ KnownRowsExist'
  <2> DEFINE known == With(proc[p].known, k, version[k].supersedes)
  <2>1. version[k].supersedes \in Link \cup {Gone}
    BY <1>6 DEF TypeOK, Link
  <2>2. known \in Known
    BY <1>3, <1>4, <2>1, KnownWith
  <2>3. \A j \in DOMAIN known : known[j] # Gone => j \in Stored'
    BY <1>2, <1>5, <1>6 DEF With
  <2>4. FileDone(p, known)
    BY <1>6 DEF CheckVersion
  <2> HIDE DEF known
  <2> QED
    BY <1>1, <1>2, <2>2, <2>3, <2>4, AfterFile
<1>7. ASSUME k \notin Stored
      PROVE  proc' \in [Processes -> Command'] /\ KnownRowsExist'
  <2> DEFINE c == [proc[p] EXCEPT !.at = "create"]
  <2>1. Go(p, c)
    BY <1>7 DEF CheckVersion
  <2>2. c \in Command' /\ c.known = proc[p].known
    BY <1>1, Places DEF Command
  <2> HIDE DEF c
  <2> QED
    BY <1>1, <1>2, <1>5, <2>1, <2>2, StepOfCommand
<1> QED
  BY <1>1, <1>6, <1>7, TablesStay

LEMMA CreateVersionKeeps ==
    ASSUME IInv, NEW p \in Importers, CreateVersion(p)
    PROVE  IInv'
<1> USE DEF IInv
<1> DEFINE f == proc[p].file
           k == KeyOf(f)
           row == [content |-> f.content, supersedes |-> None]
           known == With(proc[p].known, k, None)
<1>1. /\ proc[p].at = "create" /\ p \in Processes /\ UNCHANGED <<entry, snapshot, reviews>>
      /\ k \notin Stored /\ version' = With(version, k, row) /\ FileDone(p, known)
  BY DEF CreateVersion, Processes
<1>2. f \in Files /\ proc[p].known \in Known
  BY <1>1, Places
<1>3. k \in Key /\ f.content \in Contents
  BY <1>2 DEF KeyOf, Key
<1>4. Stored' = Stored \cup {k}
  BY <1>1 DEF Stored, With
<1>5. version' \in [Stored' -> [content : Contents, supersedes : Stored' \cup {None}]]
  BY <1>1, <1>3, <1>4 DEF TypeOK, With, Stored
<1>6. known \in Known
  BY <1>2, <1>3, KnownWith DEF Link
<1>7. \A j \in DOMAIN proc[p].known : proc[p].known[j] # Gone => j \in Stored
  BY <1>1 DEF KnownRowsExist, HoldingRows
<1>8. \A j \in DOMAIN known : known[j] # Gone => j \in Stored'
  BY <1>4, <1>7 DEF With
<1>9. proc' \in [Processes -> Command'] /\ KnownRowsExist'
  <2> HIDE DEF known
  <2> QED
    BY <1>1, <1>4, <1>6, <1>8, AfterFile
<1>10. reviews' \in Seq(Reviewed')
  BY <1>1, <1>4, TablesGrow
<1>11. Stored' \subseteq Key /\ snapshot' \in [DOMAIN snapshot' -> SUBSET Stored']
  BY <1>1, <1>3, <1>4 DEF TypeOK
<1>12. TypeOK'
  BY <1>1, <1>5, <1>9, <1>10, <1>11 DEF TypeOK
<1> QED
  BY <1>1, <1>9, <1>12, LedgerKept

LEMMA LinkVersionKeeps ==
    ASSUME IInv, NEW p \in Importers, NEW f \in Files, LinkVersion(p, f)
    PROVE  IInv'
<1> USE DEF IInv
<1> DEFINE k == KeyOf(f)
           c == IF proc[p].links = {f} THEN Idle ELSE [proc[p] EXCEPT !.links = @ \ {f}]
<1>1. /\ proc[p].at = "links" /\ p \in Processes /\ UNCHANGED <<entry, snapshot, reviews>>
      /\ f.supersedes \in Stored /\ Go(p, c)
      /\ \/ version' = version
         \/ version' = [version EXCEPT ![k].supersedes = f.supersedes]
  BY DEF LinkVersion, Processes
<1>2. /\ Stored' = Stored
      /\ version' \in [Stored -> [content : Contents, supersedes : Stored \cup {None}]]
  BY <1>1 DEF TypeOK, Stored
<1>3. /\ c \in Command'
      /\ c.at \in HoldingRows => c.known = proc[p].known
  BY <1>1, Places DEF Command, Idle, HoldingRows
<1>4. \A j \in DOMAIN proc[p].known : proc[p].known[j] # Gone => j \in Stored
  BY <1>1 DEF KnownRowsExist, HoldingRows
<1>5. proc' \in [Processes -> Command'] /\ KnownRowsExist'
  <2> HIDE DEF c
  <2> QED
    BY <1>1, <1>2, <1>3, <1>4, StepOfCommand
<1>6. reviews' \in Seq(Reviewed')
  BY <1>1, <1>2, TablesGrow
<1>7. TypeOK'
  BY <1>1, <1>2, <1>5, <1>6 DEF TypeOK
<1> QED
  BY <1>1, <1>5, <1>7, LedgerKept

-----------------------------------------------------------------------------
(* Reviews and drift.                                                      *)

LEMMA CaptureForReviewKeeps ==
    ASSUME IInv, NEW p \in Readers, NEW r \in Requirements, NEW C \in Citations,
           CaptureForReview(p, r, C)
    PROVE  IInv'
<1> USE DEF IInv
<1>1. p \in Processes /\ UNCHANGED <<entry, version, snapshot, reviews>>
  BY DEF CaptureForReview, Processes
<1>2. Stored' = Stored
  BY <1>1 DEF Stored
<1>3. PICK c \in Command' : Go(p, c) /\ c.at \notin HoldingRows
  <2> DEFINE h == Hash(Stored)
             found == [at |-> "review_found", requirement |-> r, cites |-> C, hash |-> h]
             created == [at |-> "review_created", requirement |-> r, cites |-> C,
                         members |-> Stored]
  <2>1. created \in Command' /\ created.at \notin HoldingRows
    BY <1>2 DEF Command, HoldingRows
  <2>2. h \in DOMAIN snapshot => found \in Command' /\ found.at \notin HoldingRows
    BY <1>1 DEF Command, HoldingRows
  <2>3. Go(p, IF h \in DOMAIN snapshot THEN found ELSE created)
    BY DEF CaptureForReview
  <2> QED
    BY <2>1, <2>2, <2>3
<1>4. proc' \in [Processes -> Command'] /\ KnownRowsExist'
  BY <1>1, <1>2, <1>3, StepOfCommand
<1> QED
  BY <1>1, <1>4, TablesStay

\* The versions that apply are members.
LEMMA ApplicableMembers ==
    ASSUME NEW r, NEW M
    PROVE  Applicable(r, M) \subseteq M
BY DEF Applicable, CurrentVersions, Candidates

LEMMA PairOfKey ==
    ASSUME NEW k \in Key
    PROVE  k = <<k[1], k[2]>>
BY DEF Key

\* Of each entry at most one version applies.
LEMMA OneVersionApplies ==
    ASSUME NEW r, NEW M \in SUBSET Key, NEW j \in Applicable(r, M), NEW k \in Applicable(r, M),
           j[1] = k[1]
    PROVE  j = k
<1>1. j \in Key /\ k \in Key /\ j[2] <= k[2] /\ k[2] <= j[2]
  BY DEF Applicable, CurrentVersions, Candidates
<1>2. j[2] \in Nat /\ k[2] \in Nat
  BY <1>1 DEF Key
<1>3. j[2] = k[2]
  BY <1>1, <1>2
<1> QED
  BY <1>1, <1>3, PairOfKey

\* What a review puts on record.
LEMMA Committed ==
    ASSUME IInv, NEW p \in Processes, CommitReview(p)
    PROVE  LET r == proc[p].requirement
               A == Applicable(r, Pinned(p))
           IN /\ r \in Requirements /\ proc[p].cites \in Citations
              /\ Pinned(p) \subseteq Stored
              /\ A \subseteq Stored
              /\ Findings(r, A, proc[p].cites) \subseteq Stored
<1> USE DEF IInv
<1> DEFINE r == proc[p].requirement
           A == Applicable(r, Pinned(p))
           C == proc[p].cites
<1>1. r \in Requirements /\ C \in Citations /\ Pinned(p) \subseteq Stored
  <2>1. CASE proc[p].at = "review_created"
    BY <2>1, Places DEF Pinned, Created
  <2>2. CASE proc[p].at = "review_found"
    <3>1. /\ r \in Requirements /\ C \in Citations
          /\ proc[p].hash \in DOMAIN snapshot
      BY <2>2, Places
    <3>2. snapshot[proc[p].hash] \subseteq Stored
      BY <3>1 DEF TypeOK
    <3> QED
      BY <2>2, <3>1, <3>2 DEF Pinned, Created
  <2> QED
    BY <2>1, <2>2 DEF CommitReview
<1>2. A \subseteq Stored
  BY <1>1, ApplicableMembers
<1>3. Orphaned(A, C) \subseteq Stored
  BY DEF CommitReview
<1>4. Findings(r, A, C) \subseteq Stored
  BY <1>2, <1>3 DEF Findings, Unaddressed, StaleCited, Unmet, Contradicted
<1> QED
  BY <1>1, <1>2, <1>4

\* The ledger of a review, whatever it is pinned to.
LEMMA EntryIsConsistent ==
    ASSUME NEW r, NEW M \in SUBSET Key, NEW C \in SUBSET Key
    PROVE  LET covered == Applicable(r, M)
               faulted == Findings(r, covered, C)
           IN /\ \A j, k \in covered : j[1] = k[1] => j = k
              /\ \A k \in covered \ faulted :
                    /\ Cites(C, k)
                    /\ \A c \in C : c[1] = k[1] => k[2] <= c[2]
              /\ \A c \in C : Cites(covered, c) \/ c \in faulted
<1> DEFINE covered == Applicable(r, M)
           faulted == Findings(r, covered, C)
<1>1. \A j, k \in covered : j[1] = k[1] => j = k
  BY OneVersionApplies
<1>2. \A k \in covered \ faulted : Cites(C, k)
  BY DEF Findings, Unaddressed
<1>3. \A k \in covered \ faulted : \A c \in C : c[1] = k[1] => k[2] <= c[2]
  <2> SUFFICES ASSUME NEW k \in covered \ faulted, NEW c \in C, c[1] = k[1]
               PROVE  k[2] <= c[2]
    OBVIOUS
  <2>1. ~(c[2] < k[2])
    BY DEF Findings, StaleCited
  <2>2. c \in Key /\ k \in Key
    BY ApplicableMembers
  <2>3. c[2] \in Nat /\ k[2] \in Nat
    BY <2>2 DEF Key
  <2> QED
    BY <2>1, <2>3
<1>4. \A c \in C : Cites(covered, c) \/ c \in faulted
  BY DEF Findings, Orphaned, Cites
<1> QED
  BY <1>1, <1>2, <1>3, <1>4

LEMMA CommitReviewKeeps ==
    ASSUME IInv, NEW p \in Readers, CommitReview(p)
    PROVE  IInv'
<1> USE DEF IInv
<1> DEFINE r == proc[p].requirement
           C == proc[p].cites
           M == Pinned(p)
           A == Applicable(r, M)
           h == PinnedHash(p)
           row == [requirement |-> r, hash |-> h, cites |-> C,
                   coverage |-> A, findings |-> Findings(r, A, C)]
<1>1. /\ p \in Processes /\ UNCHANGED <<entry, version>> /\ Go(p, Idle)
      /\ reviews' = Append(reviews, row) /\ snapshot' = With(snapshot, h, M)
  BY DEF CommitReview, Processes
<1>2. /\ r \in Requirements /\ C \in Citations /\ M \subseteq Stored
      /\ A \subseteq Stored /\ Findings(r, A, C) \subseteq Stored
  BY <1>1, Committed
<1> HIDE DEF M, A, C, r, h
<1>3. /\ Stored' = Stored
      /\ DOMAIN snapshot' = DOMAIN snapshot \cup {h}
      /\ snapshot' \in [DOMAIN snapshot \cup {h} -> SUBSET Stored]
  BY <1>1, <1>2 DEF Stored, With, TypeOK
<1>4. row \in Reviewed'
  BY <1>2, <1>3 DEF Reviewed
<1>5. reviews' \in Seq(Reviewed')
  <2>1. \A i \in DOMAIN reviews : reviews[i] \in Reviewed'
    BY <1>3, ReviewType DEF Reviewed
  <2>2. reviews \in Seq(Reviewed')
    <3>1. reviews \in [1..Len(reviews) -> Reviewed'] /\ Len(reviews) \in Nat
      BY <2>1 DEF TypeOK
    <3> QED
      BY <3>1
  <2> QED
    BY <1>1, <1>4, <2>2
<1>6. proc' \in [Processes -> Command'] /\ KnownRowsExist'
  <2>1. Idle \in Command' /\ Idle.at \notin HoldingRows
    BY DEF Idle, Command, HoldingRows
  <2> QED
    BY <1>1, <1>3, <2>1, StepOfCommand
<1>7. TypeOK'
  BY <1>1, <1>3, <1>5, <1>6 DEF TypeOK
<1>8. LedgerIsConsistent'
  <2> SUFFICES ASSUME NEW i \in DOMAIN reviews'
               PROVE  LET covered  == reviews'[i].coverage
                          faulted  == reviews'[i].findings
                          cites    == reviews'[i].cites
                      IN /\ \A j, k \in covered : j[1] = k[1] => j = k
                         /\ \A k \in covered \ faulted :
                               /\ Cites(cites, k)
                               /\ \A c \in cites : c[1] = k[1] => k[2] <= c[2]
                         /\ \A c \in cites : Cites(covered, c) \/ c \in faulted
    BY DEF LedgerIsConsistent, Cites
  <2>1. /\ DOMAIN reviews = 1..Len(reviews) /\ Len(reviews) \in Nat
        /\ DOMAIN reviews' = 1..(Len(reviews) + 1)
        /\ \A j \in DOMAIN reviews : reviews'[j] = reviews[j]
        /\ reviews'[Len(reviews) + 1] = row
    BY <1>1 DEF TypeOK
  <2>2. CASE i \in DOMAIN reviews
    BY <2>1, <2>2 DEF LedgerIsConsistent
  <2>3. CASE i = Len(reviews) + 1
    <3>1. reviews'[i] = row
      BY <2>1, <2>3
    <3>2. M \in SUBSET Key /\ C \in SUBSET Key
      BY <1>2 DEF TypeOK
    <3> QED
      BY <3>1, <3>2, EntryIsConsistent DEF A
  <2> QED
    BY <2>1, <2>2, <2>3
<1> QED
  BY <1>6, <1>7, <1>8

LEMMA CaptureForDriftKeeps ==
    ASSUME IInv, NEW p \in Readers, CaptureForDrift(p)
    PROVE  IInv'
<1> USE DEF IInv
<1> DEFINE h == Hash(Stored)
           known == [k \in Stored |-> None]
           c == [at |-> "members", hash |-> h, known |-> known]
<1>1. /\ p \in Processes /\ UNCHANGED <<entry, version, reviews>> /\ Go(p, c)
      /\ snapshot' = With(snapshot, h, {})
  BY DEF CaptureForDrift, Processes
<1>2. known \in Known
  <2>1. Stored \in SUBSET Key /\ known \in [Stored -> Link \cup {Gone}]
    BY DEF TypeOK, Link
  <2> HIDE DEF known
  <2> QED
    BY <2>1 DEF Known
<1>3. \A k \in DOMAIN known : k \in Stored
  OBVIOUS
<1> HIDE DEF h, known
<1>4. /\ Stored' = Stored
      /\ DOMAIN snapshot' = DOMAIN snapshot \cup {h}
      /\ snapshot' \in [DOMAIN snapshot \cup {h} -> SUBSET Stored]
  BY <1>1 DEF Stored, With, TypeOK
<1>5. c \in Command' /\ c.known = known
  BY <1>2, <1>4 DEF Command
<1>6. proc' \in [Processes -> Command'] /\ KnownRowsExist'
  BY <1>1, <1>3, <1>4, <1>5, StepOfCommand
<1>7. reviews' \in Seq(Reviewed')
  BY <1>1, <1>4, TablesGrow
<1>8. TypeOK'
  BY <1>1, <1>4, <1>6, <1>7 DEF TypeOK
<1> QED
  BY <1>1, <1>6, <1>8, LedgerKept

LEMMA SetMembersKeeps ==
    ASSUME IInv, NEW p \in Readers, SetMembers(p)
    PROVE  IInv'
<1> USE DEF IInv
<1> DEFINE M == DOMAIN proc[p].known
<1>1. /\ p \in Processes /\ UNCHANGED <<entry, version, reviews>> /\ Go(p, Idle)
      /\ proc[p].at = "members"
      /\ snapshot' = [snapshot EXCEPT ![proc[p].hash] = M]
  BY DEF SetMembers, Processes
<1>2. M \subseteq Stored
  BY <1>1 DEF SetMembers, KnownRowsExist, HoldingRows
<1> HIDE DEF M
<1>3. /\ Stored' = Stored
      /\ DOMAIN snapshot' = DOMAIN snapshot
      /\ snapshot' \in [DOMAIN snapshot -> SUBSET Stored]
  BY <1>1, <1>2 DEF Stored, TypeOK
<1>4. proc' \in [Processes -> Command'] /\ KnownRowsExist'
  <2>1. Idle \in Command' /\ Idle.at \notin HoldingRows
    BY DEF Idle, Command, HoldingRows
  <2> QED
    BY <1>1, <1>3, <2>1, StepOfCommand
<1>5. reviews' \in Seq(Reviewed')
  BY <1>1, <1>3, TablesGrow
<1>6. TypeOK'
  BY <1>1, <1>3, <1>4, <1>5 DEF TypeOK
<1> QED
  BY <1>1, <1>4, <1>6, LedgerKept

-----------------------------------------------------------------------------
(* The admin, and the end of a command.                                    *)

\* What is left of the rows a command holds after a deletion.
Forget(known, k) ==
    [j \in DOMAIN known |-> IF j = k THEN Gone ELSE IF known[j] = k THEN None ELSE known[j]]

LEMMA ForgetKnown ==
    ASSUME NEW f \in Known, NEW k \in Key
    PROVE  /\ Forget(f, k) \in Known
           /\ DOMAIN Forget(f, k) = DOMAIN f
           /\ \A j \in DOMAIN f : Forget(f, k)[j] # Gone => j # k /\ f[j] # Gone
<1> DEFINE g == Forget(f, k)
<1>1. DOMAIN f \in SUBSET Key /\ \A j \in DOMAIN f : f[j] \in Link \cup {Gone}
  BY KnownType
<1>2. /\ DOMAIN g = DOMAIN f
      /\ g = [j \in DOMAIN f |-> g[j]]
      /\ \A j \in DOMAIN f : /\ j = k => g[j] = Gone
                             /\ j # k /\ f[j] = k => g[j] = None
                             /\ j # k /\ f[j] # k => g[j] = f[j]
  BY DEF Forget
<1> HIDE DEF g
<1>3. \A j \in DOMAIN f : g[j] \in Link \cup {Gone}
  BY <1>1, <1>2 DEF Link
<1>4. g \in Known
  BY <1>1, <1>2, <1>3, KnownIntro
<1>5. \A j \in DOMAIN f : g[j] # Gone => j # k /\ f[j] # Gone
  <2> SUFFICES ASSUME NEW j \in DOMAIN f, g[j] # Gone
               PROVE  j # k /\ f[j] # Gone
    OBVIOUS
  <2>1. j # k
    BY <1>2
  <2>2. f[j] = k => f[j] # Gone
    BY <1>1 DEF Link
  <2>3. f[j] # k => g[j] = f[j]
    BY <1>2, <2>1
  <2> QED
    BY <2>1, <2>2, <2>3
<1> QED
  BY <1>2, <1>4, <1>5 DEF g

LEMMA AdminDeleteVersionKeeps ==
    ASSUME IInv, NEW k \in Key, AdminDeleteVersion(k)
    PROVE  IInv'
<1> USE DEF IInv
<1>1. k \in Stored /\ ~Protected(k) /\ ~Locked(k) /\ UNCHANGED <<entry, reviews>>
  BY DEF AdminDeleteVersion
<1>2. /\ Stored' = Stored \ {k}
      /\ \A j \in Stored' :
            version'[j] = IF version[j].supersedes = k
                          THEN [version[j] EXCEPT !.supersedes = None] ELSE version[j]
      /\ version' = [j \in Stored' |-> version'[j]]
  BY DEF AdminDeleteVersion, Stored
<1>3. /\ DOMAIN snapshot' = DOMAIN snapshot
      /\ snapshot' \in [DOMAIN snapshot -> SUBSET Stored']
  BY <1>2 DEF AdminDeleteVersion, TypeOK
<1>4. version' \in [Stored' -> [content : Contents, supersedes : Stored' \cup {None}]]
  <2>1. \A j \in Stored' : version[j] \in [content : Contents, supersedes : Stored \cup {None}]
    BY <1>2 DEF TypeOK
  <2>2. \A j \in Stored' : version'[j] \in [content : Contents, supersedes : Stored' \cup {None}]
    BY <1>2, <2>1
  <2> QED
    BY <1>2, <2>2
<1>5. reviews' \in Seq(Reviewed')
  <2>1. \A i \in DOMAIN reviews :
           reviews[i].coverage \cup reviews[i].findings \subseteq Stored'
    BY <1>1, <1>2, ReviewType DEF Protected
  <2> QED
    BY <1>1, <1>3, <2>1, ReviewsKept DEF TypeOK
<1>6. \A p \in Processes :
         proc'[p] = IF proc[p].at \notin HoldingRows THEN proc[p]
                    ELSE [proc[p] EXCEPT !.known = Forget(proc[p].known, k)]
  BY DEF AdminDeleteVersion, Forget
<1>7. \A p \in Processes :
         /\ proc'[p] \in Command'
         /\ proc'[p].at \in HoldingRows =>
               \A j \in DOMAIN proc'[p].known : proc'[p].known[j] # Gone => j \in Stored'
  <2> SUFFICES ASSUME NEW p \in Processes
               PROVE  /\ proc'[p] \in Command'
                      /\ proc'[p].at \in HoldingRows =>
                            \A j \in DOMAIN proc'[p].known :
                               proc'[p].known[j] # Gone => j \in Stored'
    OBVIOUS
  <2>1. CASE proc[p].at \in HoldingRows
    <3> DEFINE known == Forget(proc[p].known, k)
    <3>1. proc'[p] = [proc[p] EXCEPT !.known = known]
      BY <1>6, <2>1
    <3>2. /\ known \in Known /\ DOMAIN known = DOMAIN proc[p].known
          /\ \A j \in DOMAIN known : known[j] # Gone => j # k /\ proc[p].known[j] # Gone
      BY <2>1, Places, ForgetKnown
    <3> HIDE DEF known
    <3>3. \A j \in DOMAIN known : known[j] # Gone => j \in Stored'
      BY <1>2, <2>1, <3>2 DEF KnownRowsExist
    <3>4. proc'[p] \in Command' /\ proc'[p].known = known
      <4>1. CASE proc[p].at \in {"check", "create"}
        BY <3>1, <3>2, <4>1, Places DEF Command
      <4>2. CASE proc[p].at \in {"files", "links"}
        BY <3>1, <3>2, <4>2, Places DEF Command
      <4>3. CASE proc[p].at = "members"
        BY <1>3, <3>1, <3>2, <4>3, Places DEF Command
      <4> QED
        BY <2>1, <4>1, <4>2, <4>3 DEF HoldingRows
    <3> QED
      BY <3>3, <3>4
  <2>2. CASE proc[p].at = "review_created"
    <3>1. proc'[p] = proc[p]
      BY <1>6, <2>2 DEF HoldingRows
    <3>2. proc[p].members \subseteq Stored'
      BY <1>1, <1>2, <2>2, Places DEF Locked, Created
    <3> QED
      BY <2>2, <3>1, <3>2, Places DEF Command, HoldingRows
  <2>3. CASE proc[p].at = "review_found"
    BY <1>3, <1>6, <2>3, Places DEF Command, HoldingRows
  <2>4. CASE proc[p].at \notin HoldingRows \cup {"review_created", "review_found"}
    BY <1>6, <2>4, Places DEF Command, HoldingRows
  <2> QED
    BY <2>1, <2>2, <2>3, <2>4
<1>8. proc' \in [Processes -> Command'] /\ KnownRowsExist'
  <2>1. proc' = [p \in Processes |-> proc'[p]]
    BY DEF AdminDeleteVersion
  <2> QED
    BY <1>7, <2>1 DEF KnownRowsExist
<1>9. TypeOK'
  BY <1>1, <1>2, <1>3, <1>4, <1>5, <1>8 DEF TypeOK
<1> QED
  BY <1>1, <1>8, <1>9, LedgerKept

LEMMA AdminSetStatusKeeps ==
    ASSUME IInv, NEW e \in Entries, NEW s \in StatusEdits, AdminSetStatus(e, s)
    PROVE  IInv'
<1> USE DEF IInv
<1>1. /\ UNCHANGED <<version, snapshot, reviews, proc>>
      /\ entry' \in [Entries -> Status \cup {"absent"}]
  BY DEF AdminSetStatus, TypeOK
<1>2. Stored' = Stored /\ Command' = Command /\ Reviewed' = Reviewed
  BY <1>1 DEF Stored, Command, Reviewed
<1>3. TypeOK'
  BY <1>1, <1>2 DEF TypeOK
<1>4. KnownRowsExist'
  BY <1>1, <1>2 DEF KnownRowsExist
<1> QED
  BY <1>1, <1>3, <1>4, LedgerKept

LEMMA CrashKeeps ==
    ASSUME IInv, NEW p \in Processes, Crash(p)
    PROVE  IInv'
<1>1. Go(p, Idle) /\ UNCHANGED <<entry, version, snapshot, reviews>>
  BY DEF Crash
<1>2. Stored' = Stored
  BY <1>1 DEF Stored
<1>3. Idle \in Command' /\ Idle.at \notin HoldingRows
  BY DEF Idle, Command, HoldingRows
<1>4. proc' \in [Processes -> Command'] /\ KnownRowsExist'
  BY <1>1, <1>2, <1>3, StepOfCommand DEF IInv
<1> QED
  BY <1>1, <1>4, TablesStay

-----------------------------------------------------------------------------
(* The invariants.                                                         *)

LEMMA InitIInv == Init => IInv
<1> SUFFICES ASSUME Init PROVE IInv
  OBVIOUS
<1>1. /\ Stored = {} /\ DOMAIN snapshot = {} /\ reviews = <<>>
      /\ \A p \in Processes : proc[p] = Idle
  BY DEF Init, Stored
<1>2. /\ version \in [Stored -> [content : Contents, supersedes : Stored \cup {None}]]
      /\ snapshot \in [DOMAIN snapshot -> SUBSET Stored]
  BY <1>1 DEF Init
<1>3. reviews \in Seq(Reviewed)
  BY <1>1
<1>4. proc \in [Processes -> Command]
  BY DEF Init, Command
<1>5. TypeOK
  BY <1>1, <1>2, <1>3, <1>4 DEF Init, TypeOK
<1>6. KnownRowsExist
  BY <1>1 DEF KnownRowsExist, Idle, HoldingRows
<1>7. LedgerIsConsistent
  BY <1>1 DEF LedgerIsConsistent
<1> QED
  BY <1>5, <1>6, <1>7 DEF IInv

LEMMA NextIInv == IInv /\ [Next]_vars => IInv'
<1> SUFFICES ASSUME IInv, [Next]_vars PROVE IInv'
  OBVIOUS
<1>1. CASE \E p \in Importers : Import(p)
  <2> PICK p \in Importers : Import(p)
    BY <1>1
  <2>1. ASSUME NEW D \in Checkouts, NEW f \in D, StartImport(p, D, f) PROVE IInv'
    BY <2>1, StartImportKeeps
  <2>2. ASSUME NEW f \in Files, WriteNextFile(p, f) PROVE IInv'
    BY <2>2, WriteNextFileKeeps
  <2>3. ASSUME NEW f \in Files, LinkVersion(p, f) PROVE IInv'
    BY <2>3, LinkVersionKeeps
  <2>4. CASE CheckVersion(p)
    BY <2>4, CheckVersionKeeps
  <2>5. CASE CreateVersion(p)
    BY <2>5, CreateVersionKeeps
  <2> QED
    BY <2>1, <2>2, <2>3, <2>4, <2>5 DEF Import
<1>2. CASE \E p \in Readers : Review(p) \/ Drift(p)
  <2> PICK p \in Readers : Review(p) \/ Drift(p)
    BY <1>2
  <2>1. ASSUME NEW r \in Requirements, NEW C \in Citations, CaptureForReview(p, r, C)
        PROVE  IInv'
    BY <2>1, CaptureForReviewKeeps
  <2>2. CASE CommitReview(p)
    BY <2>2, CommitReviewKeeps
  <2>3. CASE CaptureForDrift(p)
    BY <2>3, CaptureForDriftKeeps
  <2>4. CASE SetMembers(p)
    BY <2>4, SetMembersKeeps
  <2> QED
    BY <2>1, <2>2, <2>3, <2>4 DEF Review, Drift
<1>3. CASE \E p \in Processes : Crash(p)
  BY <1>3, CrashKeeps
<1>4. CASE Admin
  <2>1. ASSUME NEW k \in Key, AdminDeleteVersion(k) PROVE IInv'
    BY <2>1, AdminDeleteVersionKeeps
  <2>2. ASSUME NEW e \in Entries, NEW s \in StatusEdits, AdminSetStatus(e, s) PROVE IInv'
    BY <2>2, AdminSetStatusKeeps
  <2> QED
    BY <1>4, <2>1, <2>2 DEF Admin
<1>5. CASE UNCHANGED vars
  <2>1. UNCHANGED <<entry, version, snapshot, reviews, proc>>
    BY <1>5 DEF vars
  <2>2. Stored' = Stored /\ Command' = Command
    BY <2>1 DEF Stored, Command
  <2>3. proc' \in [Processes -> Command'] /\ KnownRowsExist'
    BY <2>1, <2>2 DEF IInv, TypeOK, KnownRowsExist
  <2> QED
    BY <2>1, <2>3, TablesStay
<1> QED
  BY <1>1, <1>2, <1>3, <1>4, <1>5 DEF Next

\* The inductive invariant holds in every reachable state.
THEOREM Invariance == Spec => []IInv
BY InitIInv, NextIInv, PTL DEF Spec

\* Every reference in a row or in a command is to a stored version or snapshot,
\* whatever is deleted while imports, reviews and reports are under way.
THEOREM TypeCorrect == Spec => []TypeOK
<1>1. IInv => TypeOK
  BY DEF IInv
<1> QED
  BY <1>1, Invariance, PTL

\* The coverage and the findings of every recorded review fit together.
THEOREM LedgerIsAlwaysConsistent == Spec => []LedgerIsConsistent
<1>1. IInv => LedgerIsConsistent
  BY DEF IInv
<1> QED
  BY <1>1, Invariance, PTL

-----------------------------------------------------------------------------
(* The audit trail.                                                        *)

AuditStep ==
    /\ Len(reviews) <= Len(reviews')
    /\ \A i \in DOMAIN reviews :
          /\ reviews'[i] = reviews[i]
          /\ \A k \in reviews[i].coverage \cup reviews[i].findings :
                k \in Stored' /\ version'[k].content = version[k].content

\* A step that leaves the reviews and the content of what they name.
LEMMA NamedVersionsStay ==
    ASSUME TypeOK, UNCHANGED reviews,
           \A k \in Stored : Protected(k) =>
               k \in Stored' /\ version'[k].content = version[k].content
    PROVE  AuditStep
<1>1. \A i \in DOMAIN reviews : \A k \in reviews[i].coverage \cup reviews[i].findings :
         k \in Stored /\ Protected(k)
  BY ReviewType DEF Protected
<1>2. Len(reviews) \in Nat
  BY DEF TypeOK
<1> QED
  BY <1>1, <1>2 DEF AuditStep

\* A new link does not change the content of a row.
LEMMA ContentStays ==
    ASSUME TypeOK, NEW j \in Stored, NEW v
    PROVE  [version[j] EXCEPT !.supersedes = v].content = version[j].content
<1>1. version[j] \in [content : Contents, supersedes : Stored \cup {None}]
  BY DEF TypeOK
<1> QED
  BY <1>1

LEMMA StepKeepsAudit ==
    ASSUME IInv, [Next]_vars
    PROVE  AuditStep
<1>1. TypeOK
  BY DEF IInv
<1>2. ASSUME UNCHANGED <<version, reviews>> PROVE AuditStep
  BY <1>1, <1>2, NamedVersionsStay DEF Stored
<1>3. ASSUME NEW p \in Importers, NEW D \in Checkouts, NEW f \in D, StartImport(p, D, f)
      PROVE  AuditStep
  BY <1>2, <1>3 DEF StartImport, UpsertEntry
<1>4. ASSUME NEW p \in Importers, NEW f \in Files, WriteNextFile(p, f)
      PROVE  AuditStep
  BY <1>2, <1>4 DEF WriteNextFile, UpsertEntry
<1>5. ASSUME NEW p \in Importers, CheckVersion(p)
      PROVE  AuditStep
  BY <1>2, <1>5 DEF CheckVersion
<1>6. ASSUME NEW p \in Importers, CreateVersion(p)
      PROVE  AuditStep
  <2>1. PICK k, row : k \notin Stored /\ version' = With(version, k, row) /\ UNCHANGED reviews
    BY <1>6 DEF CreateVersion
  <2>2. \A j \in Stored : j \in Stored' /\ version'[j] = version[j]
    BY <2>1 DEF Stored, With
  <2> QED
    BY <1>1, <2>1, <2>2, NamedVersionsStay
<1>7. ASSUME NEW p \in Importers, NEW f \in Files, LinkVersion(p, f)
      PROVE  AuditStep
  <2>1. /\ UNCHANGED reviews
        /\ \/ version' = version
           \/ version' = [version EXCEPT ![KeyOf(f)].supersedes = f.supersedes]
    BY <1>7 DEF LinkVersion
  <2>2. Stored' = Stored
    BY <2>1 DEF Stored
  <2>3. \A j \in Stored : \/ version'[j] = version[j]
                          \/ version'[j] = [version[j] EXCEPT !.supersedes = f.supersedes]
    BY <2>1 DEF Stored
  <2>4. \A j \in Stored : version'[j].content = version[j].content
    <3> SUFFICES ASSUME NEW j \in Stored PROVE version'[j].content = version[j].content
      OBVIOUS
    <3>1. [version[j] EXCEPT !.supersedes = f.supersedes].content = version[j].content
      BY <1>1, ContentStays
    <3> QED
      BY <2>3, <3>1
  <2> QED
    BY <1>1, <2>1, <2>2, <2>4, NamedVersionsStay
<1>8. ASSUME NEW p \in Readers, NEW r \in Requirements, NEW C \in Citations,
             CaptureForReview(p, r, C)
      PROVE  AuditStep
  BY <1>2, <1>8 DEF CaptureForReview
<1>9. ASSUME NEW p \in Readers, CommitReview(p)
      PROVE  AuditStep
  <2>1. PICK row : reviews' = Append(reviews, row) /\ UNCHANGED version
    BY <1>9 DEF CommitReview
  <2>2. /\ Len(reviews) <= Len(reviews')
        /\ \A i \in DOMAIN reviews : reviews'[i] = reviews[i]
    BY <1>1, <2>1 DEF TypeOK
  <2>3. \A i \in DOMAIN reviews : \A k \in reviews[i].coverage \cup reviews[i].findings :
           k \in Stored' /\ version'[k].content = version[k].content
    BY <1>1, <2>1, ReviewType DEF Stored
  <2> QED
    BY <2>2, <2>3 DEF AuditStep
<1>10. ASSUME NEW p \in Readers, Drift(p)
       PROVE  AuditStep
  BY <1>2, <1>10 DEF Drift, CaptureForDrift, SetMembers
<1>11. ASSUME NEW p \in Processes, Crash(p)
       PROVE  AuditStep
  BY <1>2, <1>11 DEF Crash
<1>12. ASSUME NEW k \in Key, AdminDeleteVersion(k)
       PROVE  AuditStep
  <2>1. /\ ~Protected(k) /\ UNCHANGED reviews
        /\ Stored' = Stored \ {k}
        /\ \A j \in Stored' :
              version'[j] = IF version[j].supersedes = k
                            THEN [version[j] EXCEPT !.supersedes = None] ELSE version[j]
    BY <1>12 DEF AdminDeleteVersion, Stored
  <2>2. \A j \in Stored' : version'[j].content = version[j].content
    <3> SUFFICES ASSUME NEW j \in Stored' PROVE version'[j].content = version[j].content
      OBVIOUS
    <3>1. [version[j] EXCEPT !.supersedes = None].content = version[j].content
      BY <1>1, <2>1, ContentStays
    <3> QED
      BY <2>1, <3>1
  <2> QED
    BY <1>1, <2>1, <2>2, NamedVersionsStay
<1>13. ASSUME NEW e, NEW s, AdminSetStatus(e, s)
       PROVE  AuditStep
  BY <1>2, <1>13 DEF AdminSetStatus
<1>14. CASE UNCHANGED vars
  BY <1>2, <1>14 DEF vars
<1> QED
  BY <1>3, <1>4, <1>5, <1>6, <1>7, <1>8, <1>9, <1>10, <1>11, <1>12, <1>13, <1>14
     DEF Next, Import, Review, Admin

\* No import, deletion, status change or crash alters a recorded review or the
\* content of a version that it names.
THEOREM AuditTrailStays == Spec => AuditTrailIsFixed
<1>1. IInv /\ [Next]_vars =>
         [/\ Len(reviews) <= Len(reviews')
          /\ \A i \in DOMAIN reviews :
                /\ reviews'[i] = reviews[i]
                /\ \A k \in reviews[i].coverage \cup reviews[i].findings :
                      k \in Stored' /\ version'[k].content = version[k].content]_<<version, reviews>>
  BY StepKeepsAudit DEF AuditStep
<1> QED
  BY <1>1, Invariance, PTL DEF Spec, AuditTrailIsFixed

-----------------------------------------------------------------------------
(* Drift.                                                                  *)

\* A step that changes an entry or a version adds no member to a snapshot.
LEMMA NoMembersAdded ==
    ASSUME IInv, [Next]_vars, ~UNCHANGED <<entry, version>>,
           NEW h \in DOMAIN snapshot
    PROVE  snapshot'[h] \subseteq snapshot[h]
<1>1. ASSUME UNCHANGED snapshot PROVE snapshot'[h] \subseteq snapshot[h]
  BY <1>1
<1>2. ASSUME NEW p \in Importers, Import(p)
      PROVE  snapshot'[h] \subseteq snapshot[h]
  BY <1>1, <1>2 DEF Import, StartImport, WriteNextFile, UpsertEntry, CheckVersion,
                    CreateVersion, LinkVersion
<1>3. ASSUME NEW p \in Readers, Review(p) \/ Drift(p)
      PROVE  FALSE
  BY <1>3 DEF Review, Drift, CaptureForReview, CommitReview, CaptureForDrift, SetMembers
<1>4. ASSUME NEW p \in Processes, Crash(p)
      PROVE  FALSE
  BY <1>4 DEF Crash
<1>5. ASSUME NEW k \in Key, AdminDeleteVersion(k)
      PROVE  snapshot'[h] \subseteq snapshot[h]
  BY <1>5 DEF AdminDeleteVersion
<1>6. ASSUME NEW e, NEW s, AdminSetStatus(e, s)
      PROVE  snapshot'[h] \subseteq snapshot[h]
  BY <1>1, <1>6 DEF AdminSetStatus
<1>7. ~UNCHANGED vars
  BY DEF vars
<1> QED
  BY <1>2, <1>3, <1>4, <1>5, <1>6, <1>7 DEF Next, Admin

\* Why a version that applied does not apply any more: its entry is retired,
\* something supersedes it now, or something newer has come forward.
LEMMA WaysToLose ==
    ASSUME IInv, IInv', NEW r \in Requirements, NEW k \in Applicable(r, Stored),
           k \in Stored', version'[k].content = version[k].content,
           k \notin Applicable(r, Stored)'
    PROVE  \/ entry'[k[1]] = "retired"
           \/ \E m \in Stored' : version'[m].supersedes = k
           \/ \E j \in Candidates(Stored)' : j[1] = k[1] /\ k[2] < j[2]
<1>1. r \in Scope[version'[k].content]
  BY DEF Applicable
<1>2. k \notin CurrentVersions(Stored)'
  BY <1>1 DEF Applicable
<1>3. CASE k \notin Candidates(Stored)'
  BY <1>3 DEF Candidates
<1>4. CASE k \in Candidates(Stored)'
  <2>1. PICK j \in Candidates(Stored)' : j[1] = k[1] /\ ~(j[2] <= k[2])
    BY <1>2, <1>4 DEF CurrentVersions
  <2>2. j \in Key /\ k \in Key
    BY <2>1 DEF Candidates, IInv, TypeOK
  <2>3. j[2] \in Nat /\ k[2] \in Nat
    BY <2>2 DEF Key
  <2> QED
    BY <2>1, <2>3
<1> QED
  BY <1>3, <1>4

LEMMA DriftStep ==
    ASSUME IInv, IInv', [Next]_vars, ~UNCHANGED <<entry, version>>,
           NEW i \in DOMAIN reviews, NEW k \in reviews[i].coverage,
           Loses(reviews[i].requirement, k)
    PROVE  \/ Stale(i, Stored)'
           \/ entry'[k[1]] = "retired"
           \/ \E m \in Stored : /\ \/ m \in snapshot[reviews[i].hash]
                                   \/ version[m].supersedes # None
                                /\ Relinked(m)
<1> DEFINE r == reviews[i].requirement
           h == reviews[i].hash
<1>1. /\ r \in Requirements /\ h \in DOMAIN snapshot
      /\ snapshot[h] \subseteq Stored
  BY ReviewType DEF IInv, Reviewed, TypeOK
<1>2. /\ reviews'[i] = reviews[i]
      /\ k \in Stored' /\ version'[k].content = version[k].content
  BY StepKeepsAudit DEF AuditStep
<1>3. snapshot'[h] \subseteq snapshot[h]
  BY <1>1, NoMembersAdded
<1>4. ASSUME NEW m \in Stored', m \notin snapshot[h],
             m[1] = k[1] \/ version'[m].supersedes = k
      PROVE  Stale(i, Stored)'
  <2>1. m \in Added(i, Stored)'
    BY <1>2, <1>3, <1>4 DEF Added
  <2>2. ReachesCoverage(m, reviews[i].coverage)'
    BY <1>2, <1>4 DEF ReachesCoverage
  <2> QED
    BY <2>1, <2>2 DEF Stale
<1>5. k \in Applicable(r, Stored) /\ k \notin Applicable(r, Stored)'
  BY DEF Loses
<1>6. k \in Candidates(Stored)
  BY <1>5 DEF Applicable, CurrentVersions
<1>7. ASSUME NEW m \in Stored', version'[m].supersedes = k
      PROVE  \/ Stale(i, Stored)'
             \/ m \in Stored /\ m \in snapshot[h] /\ Relinked(m)
  <2>1. CASE m \notin snapshot[h]
    BY <1>4, <1>7, <2>1
  <2>2. CASE m \in snapshot[h]
    <3>1. m \in Stored /\ version[m].supersedes # k
      BY <1>1, <1>6, <2>2 DEF Candidates
    <3> QED
      BY <1>7, <2>2, <3>1 DEF Relinked
  <2> QED
    BY <2>1, <2>2
<1>8. ASSUME NEW j \in Candidates(Stored)', j[1] = k[1], k[2] < j[2]
      PROVE  \/ Stale(i, Stored)'
             \/ \E m \in Stored : version[m].supersedes # None /\ Relinked(m)
  <2>1. j \in Stored'
    BY DEF Candidates
  <2>2. CASE j \notin Stored
    BY <1>1, <1>4, <1>8, <2>1, <2>2
  <2>3. CASE j \in Stored
    <3>1. j \notin Candidates(Stored)
      <4>1. j \in Key /\ k \in Key
        BY <1>6, <2>3 DEF Candidates, IInv, TypeOK
      <4>2. j[2] \in Nat /\ k[2] \in Nat
        BY <4>1 DEF Key
      <4>3. ~(j[2] <= k[2])
        BY <1>8, <4>2
      <4> QED
        BY <1>5, <1>8, <4>3 DEF Applicable, CurrentVersions
    <3>2. entry[j[1]] # "retired"
      BY <1>6, <1>8 DEF Candidates
    <3>3. PICK m \in Stored : version[m].supersedes = j
      BY <2>3, <3>1, <3>2 DEF Candidates
    <3>4. version[m].supersedes # None
      BY <2>3, <3>3 DEF IInv, TypeOK
    <3>5. Relinked(m)
      BY <3>3 DEF Relinked, Candidates
    <3> QED
      BY <3>4, <3>5
  <2> QED
    BY <2>2, <2>3
<1> QED
  BY <1>1, <1>2, <1>5, <1>7, <1>8, WaysToLose

LEMMA SameMembers ==
    ASSUME NEW i, CurrentMembers' = Stored', Stale(i, Stored)'
    PROVE  Stale(i, CurrentMembers)'
BY DEF Stale, Added

\* A version covered by a latest review does not stop applying behind the back
\* of drift, but in the three ways that the property lists.
THEOREM DriftSeesLoss == Spec => DriftSeesLostCoverage
<1>1. IInv /\ IInv' /\ [Next]_vars =>
         [\A i \in DOMAIN reviews :
             \A k \in reviews[i].coverage :
                /\ Latest(i)
                /\ Loses(reviews[i].requirement, k)
                /\ CurrentMembers' = Stored'
                => \/ Stale(i, CurrentMembers)'
                   \/ entry'[k[1]] = "retired"
                   \/ \E m \in Stored : /\ \/ m \in snapshot[reviews[i].hash]
                                           \/ version[m].supersedes # None
                                        /\ Relinked(m)]_<<entry, version>>
  BY DriftStep, SameMembers
<1> QED
  BY <1>1, Invariance, PTL DEF Spec, DriftSeesLostCoverage
=============================================================================

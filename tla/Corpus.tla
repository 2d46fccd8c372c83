-------------------------------- MODULE Corpus --------------------------------
(***************************************************************************)
(* The decision corpus.  parse_corpus turns files into immutable versions  *)
(* of entries; a review pins a snapshot of all versions, records which of  *)
(* them apply to a requirement and which of those the specification fails; *)
(* drift compares the corpus of today with the snapshots of the latest     *)
(* reviews.  A review is a transaction, parse_corpus and drift are not.    *)
(***************************************************************************)
EXTENDS Naturals, FiniteSets, SequencesExt

CONSTANTS
    Entries,        \* external ids, numbered in their order
    Numbers,        \* version numbers
    Contents,       \* what the content hash of a version covers
    Requirements,
    Scope,          \* the requirements that the applies_to of a content reaches
    Failing,        \* the requirements that fail a check of a content
    Conflicting,    \* the pairs of contents with contradictory checks
    ChecksOf,       \* the check ids of a content ...
    RenamedFrom,    \* ... and the ids they are renamed from
    Files,          \* corpus files ...
    Checkouts,      \* ... and the directories of them that are imported
    Citations,      \* the complies_with lists of the specifications reviewed
    StatusEdits,    \* statuses set in the admin
    Importers,      \* the commands that run parse_corpus ...
    Readers,        \* ... and those that run corpus review or corpus drift
    None,           \* no version: a null supersedes
    Gone,           \* a row that was deleted after a command had read it
    MaxReviews,     \* bound on the reviews ...
    MaxSnapshots    \* ... and on the snapshots

Status == {"active", "superseded", "retired"}
Key == Entries \X Numbers
Processes == Importers \cup Readers

ASSUME CorpusAssumption ==
    /\ Entries \subseteq Nat /\ Numbers \subseteq Nat
    /\ Scope \in [Contents -> SUBSET Requirements]
    /\ Failing \in [Contents -> SUBSET Requirements]
    /\ Files \subseteq [entry : Entries, number : Numbers, content : Contents,
                        status : Status, supersedes : Key \cup {None},
                        retired : SUBSET UNION {ChecksOf[c] : c \in Contents}]
    /\ Checkouts \subseteq SUBSET Files
    /\ \A D \in Checkouts, f, g \in Files :
          f \in D /\ g \in D /\ f.entry = g.entry => f = g
    /\ \A f \in Files : f.retired \cap ChecksOf[f.content] = {}
    /\ Citations \subseteq SUBSET Key
    /\ StatusEdits \subseteq Status
    /\ None \notin Key /\ Gone \notin Key \cup {None}
    /\ MaxReviews \in Nat /\ MaxSnapshots \in Nat

VARIABLES
    entry,      \* status of each CorpusEntry row
    version,    \* CorpusEntryVersion rows: content and supersedes
    snapshot,   \* CorpusSnapshot rows: the members recorded under each hash
    reviews,    \* SpecReview rows with their coverage and findings, oldest first
    proc        \* the local state of each command

vars == <<entry, version, snapshot, reviews, proc>>

Idle == [at |-> "idle"]
NoRows == [k \in {} |-> None]

Init ==
    /\ entry    = [e \in Entries |-> "absent"]
    /\ version  = [k \in {} |-> None]
    /\ snapshot = [h \in {} |-> {}]
    /\ reviews  = <<>>
    /\ proc     = [p \in Processes |-> Idle]

Stored == DOMAIN version
Go(p, state) == proc' = [proc EXCEPT ![p] = state]
With(f, k, x) == [j \in DOMAIN f \cup {k} |-> IF j = k THEN x ELSE f[j]]
KeyOf(f) == <<f.entry, f.number>>

-----------------------------------------------------------------------------
(* parse_corpus: import_corpus_entries, one autocommitted query at a time.  *)
(* A step that raises has no action of its own: it ends the command the way *)
(* Crash does, and what was written before it stays.                        *)

\* A command works on the files it has left to write, then on those that
\* supersede a version, in the order of their paths, here in any; known holds
\* the rows it wrote or found by key. update_or_create of the entry of a file:
\* its status is that of the file.
UpsertEntry(p, f, left, links, known) ==
    /\ entry' = [entry EXCEPT ![f.entry] = f.status]
    /\ Go(p, [at |-> "check", file |-> f, left |-> left \ {f}, links |-> links, known |-> known])
    /\ UNCHANGED <<version, snapshot, reviews>>

\* A checkout is parsed as a whole, then its first file is written.
StartImport(p, D, f) ==
    /\ proc[p] = Idle /\ f \in D
    /\ UpsertEntry(p, f, D, {g \in D : g.supersedes # None}, NoRows)

WriteNextFile(p, f) ==
    /\ proc[p].at = "files" /\ f \in proc[p].left
    /\ UpsertEntry(p, f, proc[p].left, proc[p].links, proc[p].known)

\* The check ids of the newest older version are accounted for.
AccountsFor(f, ids) ==
    /\ RenamedFrom[f.content] \subseteq ids
    /\ RenamedFrom[f.content] \cap ChecksOf[f.content] = {}
    /\ f.retired \subseteq ids
    /\ ids \subseteq ChecksOf[f.content] \cup RenamedFrom[f.content] \cup f.retired

LineageHolds(f) ==
    \A n \in Numbers :
        /\ n < f.number /\ <<f.entry, n>> \in Stored
        /\ \A m \in Numbers : n < m /\ m < f.number => <<f.entry, m>> \notin Stored
        => AccountsFor(f, ChecksOf[version[<<f.entry, n>>].content])

\* The file is done: the next one, or _resolve_supersedes after the last.
FileDone(p, known) ==
    LET left  == proc[p].left
        links == proc[p].links
    IN Go(p, IF left = {} /\ links = {} THEN Idle
             ELSE [at    |-> IF left = {} THEN "links" ELSE "files",
                   left  |-> left, links |-> links, known |-> known])

\* Faulty variant of CheckVersion: a version that changed is updated.
CheckOrUpdateVersion(p) ==
    /\ proc[p].at = "check"
    /\ LET f == proc[p].file
           k == KeyOf(f)
       IN /\ LineageHolds(f)
          /\ IF k \in Stored
             THEN /\ version' = [version EXCEPT ![k].content = f.content]
                  /\ FileDone(p, With(proc[p].known, k, version[k].supersedes))
             ELSE /\ Go(p, [proc[p] EXCEPT !.at = "create"])
                  /\ UNCHANGED version
    /\ UNCHANGED <<entry, snapshot, reviews>>

\* validate_check_lineage, then the stored version is looked up: other content
\* is a CorpusVersionConflict.
CheckVersion(p) ==
    /\ proc[p].at = "check"
    /\ LET f == proc[p].file
           k == KeyOf(f)
       IN /\ LineageHolds(f)
          /\ IF k \in Stored
             THEN /\ version[k].content = f.content
                  /\ FileDone(p, With(proc[p].known, k, version[k].supersedes))
             ELSE Go(p, [proc[p] EXCEPT !.at = "create"])
    /\ UNCHANGED <<entry, version, snapshot, reviews>>

\* CorpusEntryVersion.objects.create: the pair of entry and number is unique.
CreateVersion(p) ==
    /\ proc[p].at = "create"
    /\ LET f == proc[p].file
           k == KeyOf(f)
       IN /\ k \notin Stored
          /\ version' = With(version, k, [content |-> f.content, supersedes |-> None])
          /\ FileDone(p, With(proc[p].known, k, None))
    /\ UNCHANGED <<entry, snapshot, reviews>>

\* One version's supersedes, saved only if it differs from the value read.
LinkVersion(p, f) ==
    /\ proc[p].at = "links" /\ f \in proc[p].links
    /\ LET k     == KeyOf(f)
           known == proc[p].known
       IN /\ f.supersedes \in Stored
          /\ f.supersedes \in DOMAIN known => known[f.supersedes] # Gone
          /\ known[k] # Gone
          /\ version' = IF known[k] # f.supersedes
                        THEN [version EXCEPT ![k].supersedes = f.supersedes]
                        ELSE version
    /\ Go(p, IF proc[p].links = {f} THEN Idle ELSE [proc[p] EXCEPT !.links = @ \ {f}])
    /\ UNCHANGED <<entry, snapshot, reviews>>

-----------------------------------------------------------------------------
(* Which versions apply, and what a review finds.                           *)

\* Neither retired nor superseded by a member.
Candidates(M) ==
    {k \in M : /\ entry[k[1]] # "retired"
               /\ \A m \in M : version[m].supersedes # k}

\* Faulty variant of CurrentVersions: a version does not replace the one before.
EveryCandidate(M) == Candidates(M)

\* current_versions: of each entry, the highest candidate.
CurrentVersions(M) ==
    {k \in Candidates(M) : \A j \in Candidates(M) : j[1] = k[1] => j[2] <= k[2]}

\* resolve_applicable_entries.
Applicable(r, M) == {k \in CurrentVersions(M) : r \in Scope[version[k].content]}

\* The canonical order of the members of a snapshot, and its hash.
Before(j, k) == j[1] < k[1] \/ (j[1] = k[1] /\ j[2] < k[2])
Hash(M) == LET keys == SetToSortSeq(M, Before)
           IN [i \in DOMAIN keys |-> version[keys[i]].content]

Cites(C, k) == \E c \in C : c[1] = k[1]

\* evaluate: the versions with a finding.
Unaddressed(A, C) == {k \in A : ~Cites(C, k)}
StaleCited(A, C) ==
    {k \in A : \E c \in C : /\ c[1] = k[1]
                            /\ \/ c[2] < k[2]
                               \/ \E m \in Stored : version[m].supersedes = k}
Orphaned(A, C) == {c \in C : \A k \in A : k[1] # c[1]}
Unmet(r, A, C) == {k \in A : Cites(C, k) /\ r \in Failing[version[k].content]}
Contradicted(A) ==
    {k \in A : \E j \in A : /\ k[1] < j[1]
                            /\ {version[k].content, version[j].content} \in Conflicting}

Findings(r, A, C) ==
    Unaddressed(A, C) \cup StaleCited(A, C) \cup Orphaned(A, C)
       \cup Unmet(r, A, C) \cup Contradicted(A)

-----------------------------------------------------------------------------
(* review_target, one transaction.                                          *)

\* A review that inserted the snapshot, its hash and its members, and has not
\* committed: whoever captures the same corpus waits.
Created(p) == proc[p].at = "review_created"
Held(h) == \E p \in Processes : Created(p) /\ Hash(proc[p].members) = h

MayCapture(h) ==
    /\ ~Held(h)
    /\ h \in DOMAIN snapshot \/ Cardinality(DOMAIN snapshot) < MaxSnapshots

\* current_snapshot: capture lists the versions and gets or creates the row.
CaptureForReview(p, r, C) ==
    /\ proc[p] = Idle /\ Len(reviews) < MaxReviews
    /\ LET h == Hash(Stored) IN
       /\ MayCapture(h)
       /\ Go(p, IF h \in DOMAIN snapshot
                THEN [at |-> "review_found", requirement |-> r, cites |-> C, hash |-> h]
                ELSE [at |-> "review_created", requirement |-> r, cites |-> C,
                      members |-> Stored])
    /\ UNCHANGED <<entry, version, snapshot, reviews>>

\* The snapshot that review_requirement is given, and the members it reads.
PinnedHash(p) == IF Created(p) THEN Hash(proc[p].members) ELSE proc[p].hash
Pinned(p)     == IF Created(p) THEN proc[p].members ELSE snapshot[proc[p].hash]

\* review_requirement to its end, and the commit.  A citation above every
\* stored version of its entry, or an orphan without a row, aborts it.
CommitReview(p) ==
    /\ proc[p].at \in {"review_created", "review_found"}
    /\ LET r == proc[p].requirement
           C == proc[p].cites
           A == Applicable(r, Pinned(p))
       IN /\ \A c \in C : \E k \in Stored : k[1] = c[1] /\ c[2] <= k[2]
          /\ Orphaned(A, C) \subseteq Stored
          /\ reviews' = Append(reviews, [requirement |-> r, hash |-> PinnedHash(p), cites |-> C,
                                         coverage |-> A, findings |-> Findings(r, A, C)])
    /\ snapshot' = With(snapshot, PinnedHash(p), Pinned(p))
    /\ Go(p, Idle)
    /\ UNCHANGED <<entry, version>>

-----------------------------------------------------------------------------
(* corpus_drift, not in a transaction: capture inserts the row, then sets   *)
(* its members; a row that is there is taken as it is, and nothing written. *)

CaptureForDrift(p) ==
    /\ proc[p] = Idle
    /\ LET h == Hash(Stored) IN
       /\ h \notin DOMAIN snapshot /\ MayCapture(h)
       /\ snapshot' = With(snapshot, h, {})
       /\ Go(p, [at |-> "members", hash |-> h, known |-> [k \in Stored |-> None]])
    /\ UNCHANGED <<entry, version, reviews>>

SetMembers(p) ==
    /\ proc[p].at = "members"
    /\ \A k \in DOMAIN proc[p].known : proc[p].known[k] # Gone
    /\ snapshot' = [snapshot EXCEPT ![proc[p].hash] = DOMAIN proc[p].known]
    /\ Go(p, Idle)
    /\ UNCHANGED <<entry, version, reviews>>

\* The report: what the corpus gained since review i, and whether it reaches
\* the coverage of the review.
Added(i, M) == M \ snapshot[reviews[i].hash]

\* Faulty variant of ReachesCoverage: only within an entry.
ReachesOwnEntry(k, covered) == \E c \in covered : c[1] = k[1]

ReachesCoverage(k, covered) ==
    \/ \E c \in covered : c[1] = k[1]
    \/ version[k].supersedes \in covered

Stale(i, M) == \E k \in Added(i, M) : ReachesCoverage(k, reviews[i].coverage)

\* The members of the snapshot that drift works with.
CurrentMembers ==
    IF Hash(Stored) \in DOMAIN snapshot THEN snapshot[Hash(Stored)] ELSE Stored

Latest(i) == \A j \in DOMAIN reviews :
                i < j => reviews[j].requirement # reviews[i].requirement

-----------------------------------------------------------------------------
\* Coverage and findings protect the versions they name.
Protected(k) ==
    \E i \in DOMAIN reviews : k \in reviews[i].coverage \cup reviews[i].findings

\* The rows an uncommitted transaction has written refer to the version.
Locked(k) == \E p \in Processes : Created(p) /\ k \in proc[p].members

HoldingRows == {"check", "create", "files", "links", "members"}

\* The admin deletes a version: it leaves the snapshots, links to it become
\* null (SET_NULL), and the commands that hold its row hold a deleted one.
AdminDeleteVersion(k) ==
    /\ k \in Stored /\ ~Protected(k) /\ ~Locked(k)
    /\ version' = [j \in Stored \ {k} |->
                     IF version[j].supersedes = k THEN [version[j] EXCEPT !.supersedes = None]
                     ELSE version[j]]
    /\ snapshot' = [h \in DOMAIN snapshot |-> snapshot[h] \ {k}]
    /\ proc' = [p \in Processes |->
                  IF proc[p].at \notin HoldingRows THEN proc[p]
                  ELSE [proc[p] EXCEPT !.known =
                          [j \in DOMAIN @ |-> IF j = k THEN Gone
                                              ELSE IF @[j] = k THEN None ELSE @[j]]]]
    /\ UNCHANGED <<entry, reviews>>

AdminSetStatus(e, s) ==
    /\ entry[e] # "absent"
    /\ entry' = [entry EXCEPT ![e] = s]
    /\ UNCHANGED <<version, snapshot, reviews, proc>>

\* A command is killed or a query raises: a review is rolled back.
Crash(p) ==
    /\ proc[p] # Idle
    /\ Go(p, Idle)
    /\ UNCHANGED <<entry, version, snapshot, reviews>>

Import(p) ==
    \/ \E D \in Checkouts : \E f \in D : StartImport(p, D, f)
    \/ \E f \in Files : WriteNextFile(p, f) \/ LinkVersion(p, f)
    \/ CheckVersion(p) \/ CreateVersion(p)

Review(p) ==
    \/ \E r \in Requirements, C \in Citations : CaptureForReview(p, r, C)
    \/ CommitReview(p)

Drift(p) == CaptureForDrift(p) \/ SetMembers(p)

Admin ==
    \/ \E k \in Key : AdminDeleteVersion(k)
    \/ \E e \in Entries, s \in StatusEdits : AdminSetStatus(e, s)

Next ==
    \/ \E p \in Importers : Import(p)
    \/ \E p \in Readers : Review(p) \/ Drift(p)
    \/ \E p \in Processes : Crash(p)
    \/ Admin

Spec == Init /\ [][Next]_vars

-----------------------------------------------------------------------------
Link == Key \cup {None}
Known == UNION {[K -> Link \cup {Gone}] : K \in SUBSET Key}

Command ==
    {Idle}
    \cup [at : {"check", "create"}, file : Files, left : SUBSET Files,
          links : SUBSET Files, known : Known]
    \cup [at : {"files", "links"}, left : SUBSET Files, links : SUBSET Files, known : Known]
    \cup [at : {"members"}, hash : DOMAIN snapshot, known : Known]
    \cup [at : {"review_created"}, requirement : Requirements, cites : Citations,
          members : SUBSET Stored]
    \cup [at : {"review_found"}, requirement : Requirements, cites : Citations,
          hash : DOMAIN snapshot]

Reviewed == [requirement : Requirements, hash : DOMAIN snapshot, cites : Citations,
             coverage : SUBSET Stored, findings : SUBSET Stored]

\* The types of the rows and of the commands; every reference is to a stored
\* version or snapshot.
TypeOK ==
    /\ entry \in [Entries -> Status \cup {"absent"}]
    /\ version \in [Stored -> [content : Contents, supersedes : Stored \cup {None}]]
    /\ Stored \subseteq Key
    /\ snapshot \in [DOMAIN snapshot -> SUBSET Stored]
    /\ reviews \in Seq(Reviewed)
    /\ proc \in [Processes -> Command]

-----------------------------------------------------------------------------
\* What a review has put on record stays what it was: no import, deletion or
\* crash changes a recorded review, or the content of a version it covers or
\* found at fault.
AuditTrailIsFixed ==
    [][/\ Len(reviews) <= Len(reviews')
       /\ \A i \in DOMAIN reviews :
             /\ reviews'[i] = reviews[i]
             /\ \A k \in reviews[i].coverage \cup reviews[i].findings :
                   k \in Stored' /\ version'[k].content = version[k].content]_<<version, reviews>>

\* The coverage and the findings of a review fit together: at most one version
\* of an entry is covered, and where there is no finding the specification
\* cites the entry, at that version or above, and cites nothing else.
LedgerIsConsistent ==
    \A i \in DOMAIN reviews :
        LET covered  == reviews[i].coverage
            faulted  == reviews[i].findings
            cites    == reviews[i].cites
        IN /\ \A j, k \in covered : j[1] = k[1] => j = k
           /\ \A k \in covered \ faulted :
                 /\ Cites(cites, k)
                 /\ \A c \in cites : c[1] = k[1] => k[2] <= c[2]
           /\ \A c \in cites : Cites(covered, c) \/ c \in faulted

\* A version that a latest review covers and that stops applying makes drift
\* call the review stale, if the row of the snapshot that drift works with has
\* all its members.  Three ways out of the corpus are not seen: its
\* entry is retired; the link of a version that the review was pinned to is
\* moved, or set after the review; a link that held a version back goes.
Relinked(k) ==
    \/ k \notin Stored'
    \/ version'[k].supersedes # version[k].supersedes

Loses(r, k) == k \in Applicable(r, Stored) /\ k \notin Applicable(r, Stored)'

DriftSeesLostCoverage ==
    [][\A i \in DOMAIN reviews :
          \A k \in reviews[i].coverage :
             /\ Latest(i)
             /\ Loses(reviews[i].requirement, k)
             /\ CurrentMembers' = Stored'
             => \/ Stale(i, CurrentMembers)'
                \/ entry'[k[1]] = "retired"
                \/ \E m \in Stored : /\ \/ m \in snapshot[reviews[i].hash]
                                        \/ version[m].supersedes # None
                                     /\ Relinked(m)]_<<entry, version>>
=============================================================================

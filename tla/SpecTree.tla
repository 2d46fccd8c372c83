-------------------------------- MODULE SpecTree --------------------------------
(***************************************************************************)
(* The requirements that specification files and Linear issues are         *)
(* imported into: a forest kept by treebeard as materialized paths, owned  *)
(* project by project, with dependencies beside the hierarchy and the      *)
(* links of the tests that verify it.  An import holds copies of the rows  *)
(* it read first and writes them back whole, one statement after another   *)
(* and outside any transaction, while other projects import theirs.        *)
(***************************************************************************)
EXTENDS Naturals, Sequences, FiniteSets, SequencesExt, FiniteSetsExt, Functions

CONSTANTS
    Ids,             \* external ids, numbered in their order
    Processes,       \* those that import
    ProjectOf,       \* the project each imports for
    Directories,     \* what each may find: lists of files, or of issues
    MaxImports,      \* bound on the imports of each process
    Tests,           \* test node ids
    LinkFiles,       \* links.json files: sets of test and requirement id
    TestOutcomes,    \* results of a test run, by test
    MaxRuns          \* bound on the test runs

RiskLevels == {"critical", "high", "medium", "low", "unclassified"}

\* What a file declares.  The ids of a "multi" file are those of its headings;
\* a "bad" file does not parse; an "issue" comes from Linear.  parent 0 and
\* risk "" are left out.
Files == [kind : {"single", "multi", "bad", "issue"}, ids : Seq(Nat), parent : Nat,
          deps : SUBSET Nat, status : {"draft", "active"}, risk : STRING]

ASSUME SpecTreeAssumption ==
    /\ Ids \subseteq Nat \ {0}
    /\ Directories \in [Processes -> SUBSET Seq(Files)]
    /\ DOMAIN ProjectOf = Processes
    /\ MaxImports \in Nat
    /\ MaxRuns \in Nat
    /\ LinkFiles \subseteq SUBSET (Tests \X Nat)
    /\ \A file \in LinkFiles : IsFiniteSet(file)

VARIABLES
    rows,        \* Requirement rows by external id
    importer,    \* the import that each process is at
    links,       \* TestRequirementLink rows by test and external id
    runs         \* the results of each test run, by test, oldest first

vars == <<rows, importer, links, runs>>

NoImport == [at |-> "idle", entries |-> <<>>, clear |-> FALSE, i |-> 0, existing |-> <<>>, count |-> 0]

Init ==
    /\ rows     = <<>>
    /\ importer = [p \in Processes |-> NoImport]
    /\ links    = <<>>
    /\ runs     = <<>>

-----------------------------------------------------------------------------
\* A function with one value set.
With(f, k, x) == [j \in DOMAIN f \cup {k} |-> IF j = k THEN x ELSE f[j]]

\* treebeard's MP_Node: the path of a node extends that of its parent, and
\* numchild says whether to look for children at all.
Children(t, base) == {i \in DOMAIN t : t[i].path # <<>> /\ Front(t[i].path) = base}
IsLeaf(t, i)      == t[i].numchild = 0
GetChildren(t, i) == IF IsLeaf(t, i) THEN {} ELSE Children(t, t[i].path)
GetDescendants(t, i) ==
    IF IsLeaf(t, i) THEN {} ELSE {j \in DOMAIN t : IsStrictPrefix(t[i].path, t[j].path)}

\* Where node_order_by puts a new node among the siblings under base, and the
\* rows with the later siblings moved up.
Positions(t, S)    == {Last(t[i].path) : i \in S}
Place(t, id, base) ==
    LET siblings == Children(t, base)
        later    == {i \in siblings : i > id}
        at       == IF siblings = {} THEN 1
                    ELSE IF later = {} THEN Max(Positions(t, siblings)) + 1
                    ELSE Min(Positions(t, later))
        moved(q) == IF \E i \in later : IsPrefix(t[i].path, q)
                    THEN [q EXCEPT ![Len(base) + 1] = @ + 1] ELSE q
    IN [path |-> Append(base, at), rows |-> [i \in DOMAIN t |-> [t[i] EXCEPT !.path = moved(@)]]]

\* add_root and add_child of the reloaded parent.  They raise on an external
\* id or a path that is taken.
CanAdd(t, id, parent) ==
    /\ id \notin DOMAIN t
    /\ parent # 0 => (IsLeaf(t, parent) <=> Children(t, t[parent].path) = {})

AddNode(t, id, parent, fields) ==
    LET base  == IF parent = 0 THEN <<>> ELSE t[parent].path
        place == Place(t, id, base)
        new   == [fields EXCEPT !.path = place.path]
        grown == IF parent = 0 THEN place.rows
                 ELSE [place.rows EXCEPT ![parent].numchild = @ + 1]
    IN With(grown, id, new)

\* delete of a queryset: every node that is no leaf takes the nodes below its
\* path with it, the parents that stay lose a child, and rows that refer to a
\* deleted one are cascaded.
Deleted(t, S) ==
    LET tops == {i \in S : ~\E j \in S : IsStrictPrefix(t[j].path, t[i].path)}
        gone == S \cup UNION {GetDescendants(t, i) : i \in tops}
        lost(i) == Cardinality({j \in tops : t[j].path # <<>> /\ Front(t[j].path) = t[i].path})
    IN [i \in DOMAIN t \ gone |->
           [t[i] EXCEPT !.deps = @ \ gone,
                        !.numchild = IF lost(i) < @ THEN @ - lost(i) ELSE 0]]

-----------------------------------------------------------------------------
\* parse_file: the first heading of a file is the parent of the others, and
\* its frontmatter is shared.
ParseFile(f) ==
    LET entry(id, parent) ==
            [id |-> id, parent |-> parent, deps |-> f.deps, status |-> f.status,
             risk |-> f.risk, source |-> "specs"]
    IN CASE f.kind = "bad"   -> <<>>
         [] f.kind = "multi" -> [n \in DOMAIN f.ids |->
                                    entry(f.ids[n], IF n = 1 THEN 0 ELSE f.ids[1])]
         [] OTHER            -> <<entry(f.ids[1], f.parent)>>

\* _issue_to_requirement: a Linear issue has neither dependencies nor a risk.
IssueToRequirement(f) ==
    [id |-> f.ids[1], parent |-> f.parent, deps |-> {}, status |-> f.status,
     risk |-> "", source |-> "linear"]

\* parse_directory, which skips a file that does not parse with a warning, and
\* fetch_issues_by_label, page after page.
ParseDirectory(directory) ==
    FlattenSeq([n \in DOMAIN directory |->
                    IF directory[n].kind = "issue" THEN <<IssueToRequirement(directory[n])>>
                    ELSE ParseFile(directory[n])])

\* The roots are imported first: the entries by what is imported up to each.
Ordered(entries) ==
    LET isRoot(n) == entries[n].parent = 0
        upTo(n)   == {m \in DOMAIN entries : IF isRoot(m) = isRoot(n) THEN m <= n ELSE isRoot(m)}
    IN [k \in DOMAIN entries |-> entries[CHOOSE n \in DOMAIN entries : Cardinality(upTo(n)) = k]]

\* resolve_risk_level: the level of an entry; it raises on an unknown one.
RiskStated(e) == e.risk \in RiskLevels \cup {""}
RiskOf(e)     == IF e.risk = "" THEN "unclassified" ELSE e.risk

\* A row with the fields of an entry: _extract_requirement_fields.
NewRow == [project |-> "none", status |-> "draft", risk |-> "unclassified", source |-> "none",
           path |-> <<>>, numchild |-> 0, deps |-> {}]
FieldsOf(p, e, row) ==
    [row EXCEPT !.project = ProjectOf[p], !.status = e.status, !.risk = RiskOf(e), !.source = e.source]

-----------------------------------------------------------------------------
\* parse_specs or import_linear is started.
StartImport(p, directory, clear) ==
    /\ importer[p].at \in {"idle", "done", "failed"}
    /\ importer[p].count < MaxImports
    /\ importer' = [importer EXCEPT ![p] =
                      [NoImport EXCEPT !.at = IF clear THEN "clearing" ELSE "reading",
                                       !.clear = clear, !.count = importer[p].count + 1,
                                       !.entries = ParseDirectory(directory)]]
    /\ UNCHANGED <<rows, links, runs>>

Owned(p) == {i \in DOMAIN rows : rows[i].project = ProjectOf[p]}

\* clear_existing; import_linear clears what came from Linear.
Cleared(p) ==
    IF \E n \in DOMAIN importer[p].entries : importer[p].entries[n].source = "linear"
    THEN {i \in Owned(p) : rows[i].source = "linear"} ELSE Owned(p)

Clear(p) ==
    /\ importer[p].at = "clearing"
    /\ rows' = Deleted(rows, Cleared(p))
    /\ links' = Restrict(links, {l \in DOMAIN links : l[2] \in DOMAIN rows'})
    /\ importer' = [importer EXCEPT ![p].at = "reading"]
    /\ UNCHANGED runs

\* Faulty variant of ReadOwned: the rows of every project are taken.
ReadOwnedByAnyone(p) ==
    /\ importer[p].at = "reading"
    /\ importer' = [importer EXCEPT ![p].at = "saving", ![p].existing = rows]
    /\ UNCHANGED <<rows, links, runs>>

\* existing
ReadOwned(p) ==
    /\ importer[p].at = "reading"
    /\ importer' = [importer EXCEPT ![p].at = "saving", ![p].existing = Restrict(rows, Owned(p))]
    /\ UNCHANGED <<rows, links, runs>>

Entry(p)    == Ordered(importer[p].entries)[importer[p].i + 1]
HasEntry(p) == importer[p].at = "saving" /\ importer[p].i < Len(importer[p].entries)

\* Both passes advance with the copy that stays in existing.
Kept(p, row) == [importer EXCEPT ![p].i = @ + 1, ![p].existing = With(@, Entry(p).id, row)]

\* An entry whose row was read, or created before, by this import: the copy is
\* saved whole, path and numchild included; a row that is gone comes back.
Update(p) ==
    LET id  == Entry(p).id
        row == FieldsOf(p, Entry(p), importer[p].existing[id])
    IN /\ HasEntry(p)
       /\ RiskStated(Entry(p))
       /\ id \in DOMAIN importer[p].existing
       /\ \A j \in DOMAIN rows \ {id} : rows[j].path # row.path
       /\ rows' = With(rows, id, [row EXCEPT !.deps = IF id \in DOMAIN rows THEN rows[id].deps ELSE {}])
       /\ importer' = Kept(p, row)
       /\ UNCHANGED <<links, runs>>

\* The parent that is stored for an entry, 0 for a root.
ParentOf(p, e) ==
    IF e.parent \in DOMAIN importer[p].existing \cap DOMAIN rows THEN e.parent ELSE 0

Create(p) ==
    LET e     == Entry(p)
        added == AddNode(rows, e.id, ParentOf(p, e), FieldsOf(p, e, NewRow))
    IN /\ HasEntry(p)
       /\ RiskStated(e)
       /\ e.id \notin DOMAIN importer[p].existing
       /\ CanAdd(rows, e.id, ParentOf(p, e))
       /\ rows' = added
       /\ importer' = Kept(p, added[e.id])
       /\ UNCHANGED <<links, runs>>

\* InvalidRiskLevelError, or an IntegrityError for an id of another project or
\* a path that is taken: what is written stays.
Raise(p) ==
    LET e == Entry(p) IN
    /\ HasEntry(p)
    /\ \/ ~RiskStated(e)
       \/ /\ e.id \in DOMAIN importer[p].existing
          /\ \E j \in DOMAIN rows \ {e.id} : rows[j].path = importer[p].existing[e.id].path
       \/ /\ e.id \notin DOMAIN importer[p].existing
          /\ ~CanAdd(rows, e.id, ParentOf(p, e))
    /\ importer' = [importer EXCEPT ![p].at = "failed", ![p].existing = <<>>]
    /\ UNCHANGED <<rows, links, runs>>

\* Both passes are through.
EndOfPasses(p) ==
    /\ importer[p].at = "saving"
    /\ ~HasEntry(p)
    /\ importer' = [importer EXCEPT ![p].at = "depending", ![p].i = 0]
    /\ UNCHANGED <<rows, links, runs>>

Dependent(p) == importer[p].entries[importer[p].i + 1]
HasDependent(p) == importer[p].at = "depending" /\ importer[p].i < Len(importer[p].entries)

\* Faulty variant of ValidDeps: a dependency on a requirement that comes later
\* in the files is dropped.
ValidDepsSoFar(p) ==
    Dependent(p).deps \cap {importer[p].entries[n].id : n \in 1 .. importer[p].i}

\* A dependency that this project has no requirement for is dropped.
ValidDeps(p) == Dependent(p).deps \cap DOMAIN importer[p].existing

\* The third pass: depends_on.set, unless the entry names none.  It raises
\* when a row is gone.
SetDependencies(p) ==
    /\ HasDependent(p)
    /\ IF Dependent(p).deps = {} \/ ValidDeps(p) \cup {Dependent(p).id} \subseteq DOMAIN rows
       THEN /\ importer' = [importer EXCEPT ![p].i = @ + 1]
            /\ rows' = IF Dependent(p).deps = {} THEN rows
                       ELSE [rows EXCEPT ![Dependent(p).id].deps = ValidDeps(p)]
       ELSE /\ importer' = [importer EXCEPT ![p].at = "failed", ![p].existing = <<>>]
            /\ UNCHANGED rows
    /\ UNCHANGED <<links, runs>>

EndImport(p) ==
    /\ importer[p].at = "depending"
    /\ ~HasDependent(p)
    /\ importer' = [importer EXCEPT ![p].at = "done", ![p].existing = <<>>]
    /\ UNCHANGED <<rows, links, runs>>

-----------------------------------------------------------------------------
\* run is the one that last_run_at names.
NewLink == [status |-> "unknown", run |-> 0, review |-> TRUE]

\* import_test_links: a new link waits for a review and a known one does not
\* any more; ids without a requirement are skipped.
ImportTestLinks(file) ==
    LET known == {l \in file : l[2] \in DOMAIN rows} IN
    /\ known # {}
    /\ links' = [l \in DOMAIN links \cup known |->
                    IF l \notin DOMAIN links THEN NewLink
                    ELSE IF l \in known THEN [links[l] EXCEPT !.review = FALSE] ELSE links[l]]
    /\ UNCHANGED <<rows, importer, runs>>

\* import_results: update_test_requirement_links of a new test run.
RecordRun(outcomes) ==
    /\ Len(runs) < MaxRuns
    /\ runs' = Append(runs, outcomes)
    /\ links' = [l \in DOMAIN links |->
                    IF l[1] \notin DOMAIN outcomes THEN links[l]
                    ELSE [status |-> outcomes[l[1]], run |-> Len(runs) + 1,
                          review |-> \/ links[l].review
                                     \/ links[l].status = "passed" /\ outcomes[l[1]] \in {"failed", "error"}]]
    /\ UNCHANGED <<rows, importer>>

-----------------------------------------------------------------------------
ImportStep(p) ==
    \/ \E directory \in Directories[p], clear \in BOOLEAN : StartImport(p, directory, clear)
    \/ Clear(p) \/ ReadOwned(p)
    \/ Update(p) \/ Create(p) \/ Raise(p) \/ EndOfPasses(p)
    \/ SetDependencies(p) \/ EndImport(p)

LinkStep ==
    \/ \E file \in LinkFiles : ImportTestLinks(file)
    \/ \E outcomes \in TestOutcomes : RecordRun(outcomes)

Next == (\E p \in Processes : ImportStep(p)) \/ LinkStep

Spec == Init /\ [][Next]_vars

-----------------------------------------------------------------------------
\* The types of the rows and of the imports.
TypeOK ==
    /\ DOMAIN rows \subseteq Ids
    /\ \A i \in DOMAIN rows : rows[i] \in [project : Range(ProjectOf), status : {"draft", "active"},
            risk : RiskLevels, source : {"specs", "linear"}, path : Seq(Nat), numchild : Nat,
            deps : SUBSET Ids]
    /\ \A p \in Processes : importer[p].at \in {"idle", "clearing", "reading", "saving",
                                                "depending", "done", "failed"}
    /\ DOMAIN links \subseteq Tests \X Ids

Fields(row) == <<row.project, row.status, row.risk, row.source>>

\* No deletion takes away a row that an import has in hand.  Of every tree this
\* cannot be said: a clear deletes what lies below the paths of its project,
\* and a copied path may have come below one of them.
HandsKept      == \A p \in Processes : DOMAIN importer[p].existing \cap DOMAIN rows \subseteq DOMAIN rows'
RowsInHandStay == [][HandsKept]_vars

\* What an import writes stays inside its project, whatever ids its files name
\* and whoever else imports meanwhile: the fields of a requirement change only
\* with a step of its own project, which it keeps, and its dependencies are
\* requirements of that project.
ProjectsKeepApart ==
    [][\A i \in DOMAIN rows \cap DOMAIN rows' :
        /\ Fields(rows'[i]) # Fields(rows[i]) =>
             /\ rows'[i].project = rows[i].project
             /\ \E p \in Processes : /\ ProjectOf[p] = rows[i].project
                                     /\ importer'[p] # importer[p]
        /\ \A d \in rows'[i].deps : rows'[d].project = rows'[i].project]_vars

\* An import that ends without raising has stored every requirement that its
\* files name, as the last of them describes it, and with those of its
\* dependencies that its project has, also the ones that come later in the
\* files.
EndedImportsAreStored ==
    [][\A p \in Processes : importer[p].at = "depending" /\ importer'[p].at = "done" =>
        LET entries == importer[p].entries
            order   == Ordered(entries)
        IN /\ \A n \in DOMAIN entries :
                /\ entries[n].id \in Owned(p)
                /\ /\ entries[n].deps # {}
                   /\ \A k \in n + 1 .. Len(entries) :
                        entries[k].id = entries[n].id => entries[k].deps = {}
                   => rows[entries[n].id].deps = entries[n].deps \cap Owned(p)
           /\ \A n \in DOMAIN order :
                (\A k \in n + 1 .. Len(order) : order[k].id # order[n].id)
                    => Fields(rows[order[n].id]) =
                       <<ProjectOf[p], order[n].status, RiskOf(order[n]), order[n].source>>]_vars
=============================================================================

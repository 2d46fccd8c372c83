------------------------------ MODULE ImpactGraphs ------------------------------
(***************************************************************************)
(* The impact of a code change across projects.  Each project root keeps a *)
(* map of its modules, a snapshot of the surfaces it publishes and a git   *)
(* history; the analysis joins them into one graph, follows it for three   *)
(* steps from the changed files, and looks up the tests of the             *)
(* requirements it meets in the rows of SpecTree.                          *)
(***************************************************************************)
EXTENDS SpecChecks

CONSTANTS
    Roots,         \* the project roots, in the order of the command line
    Prefixed,      \* the requirements whose id begins with REQ-
    Maps,          \* the maps of the roots at first
    Surfaces,      \* and the surfaces of their code, of which there is a snapshot
    Edits,         \* what a commit may do: the files of a root, and its surfaces
    History,       \* the commits that were made before
    Declarations,  \* what an author may declare to depend on
    Promotions,    \* module and requirement of a map_promote
    Names,         \* the name given to map_init for each root
    Diffs,         \* the changed files of an analysis, by root
    MaxEdits       \* bound on the steps below

VARIABLES
    maps,        \* spectrace-map.yaml of each root
    snapshots,   \* contract.snapshot.json of each root: its surfaces
    code,        \* the surfaces of the code of each root
    commits,     \* the commits made since
    edits        \* how many of the steps below were taken

ecosystem == <<maps, snapshots, code, commits, edits>>

RootSet == Range(Roots)

\* A name is a kind and a label: a "path" has a slash in it, a "file" has none,
\* "cli" is an entry point, and only "req" begins with REQ-.
ReqName(i)   == IF i \in Prefixed THEN <<"req", i>> ELSE <<"other", i>>
HasSlash(n)  == n[1] \in {"path", "cli"}
Pyproject    == <<"file", 0>>
NoOrigin     == <<"none", 0>>
NoMap        == [project |-> "", modules |-> <<>>]
NoModule     == [reqs |-> {}, deps |-> {}, inferred |-> {}]

\* A map as it is read from a file, and a commit.
IsMap(map) ==
    /\ map = [project |-> map.project, modules |-> map.modules]
    /\ IsFiniteSet(DOMAIN map.modules)
    /\ \A f \in DOMAIN map.modules :
         LET module == map.modules[f] IN
         /\ module = [reqs |-> module.reqs, deps |-> module.deps, inferred |-> module.inferred]
         /\ IsFiniteSet(module.reqs)
         /\ IsFiniteSet(module.deps)
IsLog(log) ==
    /\ log \in Seq(Range(log))
    /\ \A k \in DOMAIN log : IsFiniteSet(log[k].files)

\* No file that changes has the name of a requirement.
ASSUME ImpactAssumption ==
    /\ Roots \in Seq(RootSet)
    /\ Maps = [r \in RootSet |-> Maps[r]]
    /\ Surfaces = [r \in RootSet |-> Surfaces[r]]
    /\ \A r \in RootSet : IsMap(Maps[r]) /\ IsFiniteSet(DOMAIN Surfaces[r])
    /\ \A e \in Edits : IsFiniteSet(e.files) /\ IsFiniteSet(DOMAIN e.surfaces)
    /\ IsLog(History)
    /\ \A diff \in Diffs : \A r \in RootSet :
         IsFiniteSet(diff[r]) /\ diff[r] \cap {ReqName(i) : i \in Prefixed} = {}

EcosystemInit ==
    /\ Init
    /\ maps      = Maps
    /\ snapshots = Surfaces
    /\ code      = Surfaces
    /\ commits   = <<>>
    /\ edits     = 0

-----------------------------------------------------------------------------
\* GitCoChangeAnalyzer: three commits of both files within 30 days of the last.
\* A commit older than 90 days is not read at all, so no weight decays.
Window   == 30
MinCount == 3

Log       == History \o commits
OfRoot(r) == LET log == Log IN {k \in DOMAIN log : log[k].root = r}
PairsIn(files) == {p \in files \X files : p[1][2] < p[2][2]}
InWindow(log, dates, k) ==
    {d \in dates : log[k].day - Window <= log[d].day /\ log[d].day <= log[k].day}
CoChanges(r) ==
    LET log         == Log
        own         == OfRoot(r)
        dates(p)    == {k \in own : {p[1], p[2]} \subseteq log[k].files}
        frequent(D) == \E k \in D : Cardinality(InWindow(log, D, k)) >= MinCount
    IN {p \in UNION {PairsIn(log[k].files) : k \in own} : frequent(dates(p))}

-----------------------------------------------------------------------------
\* map_init writes the map anew, whatever it held.
MapInit(r) ==
    /\ LET pairs == CoChanges(r)
           files == {p[1] : p \in pairs} \cup {p[2] : p \in pairs}
           partners(f) == {p[1] : p \in {p \in pairs : p[2] = f}} \cup {p[2] : p \in {p \in pairs : p[1] = f}}
       IN maps' = [maps EXCEPT ![r] = [project |-> Names[r],
                      modules |-> [f \in files |-> [NoModule EXCEPT !.inferred = partners(f)]]]]
    /\ UNCHANGED <<snapshots, code, commits>>

Module(r, f) == IF f \in DOMAIN maps[r].modules THEN maps[r].modules[f] ELSE NoModule

\* map_promote, of a requirement that the module does not have yet.
MapPromote(r, f, i) ==
    /\ maps[r] # NoMap
    /\ i \notin Module(r, f).reqs
    /\ maps' = [maps EXCEPT ![r].modules =
                  With(@, f, [Module(r, f) EXCEPT !.reqs = @ \cup {i}, !.inferred = @ \ {ReqName(i)}])]
    /\ UNCHANGED <<snapshots, code, commits>>

\* The author declares a dependency in the map.
Declare(r, f, declaration) ==
    /\ maps[r] # NoMap
    /\ maps' = [maps EXCEPT ![r].modules =
                  With(@, f, [Module(r, f) EXCEPT !.deps = @ \cup {declaration}])]
    /\ UNCHANGED <<snapshots, code, commits>>

\* generate_contract: ContractSnapshot.generate of the code as it is.
GenerateContract(r) ==
    /\ snapshots' = [snapshots EXCEPT ![r] = code[r]]
    /\ UNCHANGED <<maps, code, commits>>

\* Somebody commits.
EditCode(edit) ==
    /\ code' = [code EXCEPT ![edit.root] = edit.surfaces]
    /\ commits' = Append(commits, [root |-> edit.root, day |-> edit.day, files |-> edit.files])
    /\ UNCHANGED <<maps, snapshots>>

EcosystemStep ==
    \/ \E r \in RootSet : MapInit(r) \/ GenerateContract(r)
    \/ \E p \in Promotions : MapPromote(p.root, p.file, p.req)
    \/ \E d \in Declarations : Declare(d.root, d.file, d.on)
    \/ \E e \in Edits : EditCode(e)

-----------------------------------------------------------------------------
\* MapReader.
ProjectName(r)      == IF maps[r] = NoMap THEN r ELSE maps[r].project
ReadMap(r)          == UNION {{f} \X maps[r].modules[f].reqs : f \in DOMAIN maps[r].modules}
ReadDependencies(r) == UNION {{f} \X maps[r].modules[f].deps : f \in DOMAIN maps[r].modules}
PublishedSurfaces(r) == {pair[1] : pair \in ReadMap(r)} \cup DOMAIN snapshots[r]

\* keys_by_name: of two roots with one name the later is taken.
RootNamed(name) == Roots[Max({n \in DOMAIN Roots : ProjectName(Roots[n]) = name})]
ProjectNames    == {ProjectName(r) : r \in RootSet}

\* read_all_dependencies.  A declaration names a project and a surface.
Malformed(d)  == d.project = "" \/ d.surface = NoOrigin
Known(d)      == d.surface \in PublishedSurfaces(RootNamed(d.project))
AllDeclared   == UNION {{r} \X ReadDependencies(r) : r \in RootSet}
ReadingRaises ==
    \E x \in AllDeclared : \/ Malformed(x[2][2])
                           \/ x[2][2].project \in ProjectNames /\ ~Known(x[2][2])
Unresolved == {x \in AllDeclared : x[2][2].project \notin ProjectNames}

Edge(from, to, source, directed) == [from |-> from, to |-> to, source |-> source, directed |-> directed]

DependencyEdges ==
    {Edge(<<x[2][2].project, x[2][2].surface>>, <<ProjectName(x[1]), x[2][1]>>, "dependency", TRUE) :
        x \in AllDeclared \ Unresolved}

\* read_all
AnnotatedEdges ==
    UNION {{Edge(<<ProjectName(r), p[1]>>, <<ProjectName(r), ReqName(p[2])>>, "annotated", FALSE) :
              p \in ReadMap(r)} : r \in RootSet}

\* to_edges
InferredEdges ==
    UNION {{Edge(<<ProjectName(r), p[1]>>, <<ProjectName(r), p[2]>>, "inferred", FALSE) :
              p \in CoChanges(r)} : r \in RootSet}

\* surface_origin and contract_edges: a file that is its own surface needs no
\* edge.
SurfaceOrigin(s, spec) ==
    IF spec.origin # NoOrigin THEN spec.origin ELSE IF s[1] = "cli" THEN Pyproject ELSE NoOrigin
ContractEdges ==
    UNION {{Edge(<<ProjectName(r), SurfaceOrigin(s, snapshots[r][s])>>, <<ProjectName(r), s>>, "contract", FALSE) :
              s \in {s \in DOMAIN snapshots[r] : SurfaceOrigin(s, snapshots[r][s]) \notin {NoOrigin, s}}} :
           r \in RootSet}

Edges == AnnotatedEdges \cup InferredEdges \cup ContractEdges \cup DependencyEdges

-----------------------------------------------------------------------------
\* ImpactGraph.blast_radius, with the edges that leave a node.
MaxDepth == 3
Neighbours(edges, node) ==
    {e.to : e \in {e \in edges : e.from = node}} \cup
    {e.from : e \in {e \in edges : e.to = node /\ ~e.directed}}

\* Faulty variant of Enqueue: what was found last is followed first.
EnqueueFirst(queue, found) == found \o queue

Enqueue(queue, found) == queue \o found

Bfs(edges, changed) ==
    LET nodes == changed \cup {e.from : e \in edges} \cup {e.to : e \in edges}
        entries(S, depth) == SetToSeq({[node |-> node, depth |-> depth] : node \in S})
        bfs[at \in [queue : Seq([node : nodes, depth : 0 .. MaxDepth]), visited : SUBSET nodes]] ==
            IF at.queue = <<>> THEN at.visited
            ELSE LET current == Head(at.queue)
                     found   == IF current.depth >= MaxDepth THEN {}
                                ELSE Neighbours(edges, current.node) \ at.visited
                 IN bfs[[queue   |-> Enqueue(Tail(at.queue), entries(found, current.depth + 1)),
                         visited |-> at.visited \cup found]]
    IN bfs[[queue |-> entries(changed, 0), visited |-> changed]]

\* BlastResult
BlastRadius(edges, changed) ==
    LET visited  == Bfs(edges, changed)
        affected == visited \ changed
        traversed == {e \in edges : {e.from, e.to} \subseteq visited}
    IN [visited      |-> visited,
        requirements |-> {n \in affected : n[2][1] = "req"},
        modules      |-> {n \in affected : HasSlash(n[2])},
        projects     |-> {n[1] : n \in affected},
        traversed    |-> traversed,
        cross        |-> {e \in traversed : e.from[1] # e.to[1]}]

\* _compute_risk, in hundredths.
BlastRisk(blast) ==
    3 * Capped(Cardinality(blast.modules), 10) + 3 * Capped(Cardinality(blast.requirements), 10)
      + 4 * Capped(Cardinality(blast.projects), 5) + 4 * Capped(Cardinality(blast.cross), 5)

\* count_traversed_edges and traversed_edge_factor, in tenths out of 500.
CountTraversed(blast, source) == Cardinality({e \in blast.traversed : e.source = source})
EdgeFactor(blast) ==
    Capped(10 * CountTraversed(blast, "annotated") + 10 * CountTraversed(blast, "dependency")
             + 8 * CountTraversed(blast, "contract") + 6 * CountTraversed(blast, "inferred")
             + 15 * Cardinality(blast.cross), 500)

-----------------------------------------------------------------------------
ChangedNodes(diff) == UNION {{ProjectName(r)} \X diff[r] : r \in RootSet}

\* code_analyze, of the graph and the changed files of each root.
CodeAnalysis(edges, diff) ==
    LET blast == BlastRadius(edges, ChangedNodes(diff))
        tests == AffectedTests({n[2][2] : n \in blast.requirements})
    IN [blast |-> blast, tests |-> tests, byProject |-> TestsByProject(tests),
        risk |-> (40 * BlastRisk(blast) + 150 * Capped(Cardinality(tests), 20)
                    + 6 * EdgeFactor(blast) + 50) \div 100]

\* code_impact_analysis fails the build.
Blocks(analysis) == RiskLevel(analysis.risk) \in {"high", "critical"}

\* Faulty variant of Diff: a surface that is gone is no change at all.
DiffOfKept(old, new) ==
    LET change(s, field, removed) == [surface |-> s, field |-> field, breaking |-> removed]
    IN {change(s, "", FALSE) : s \in DOMAIN new \ DOMAIN old} \cup
       UNION {{change(s, f, TRUE)  : f \in old[s].fields \ new[s].fields} \cup
              {change(s, f, FALSE) : f \in new[s].fields \ old[s].fields} :
                 s \in DOMAIN old \cap DOMAIN new}

\* ContractDiffer.diff: what was removed is breaking.
Diff(old, new) ==
    LET change(s, field, removed) == [surface |-> s, field |-> field, breaking |-> removed]
    IN {change(s, "", TRUE)  : s \in DOMAIN old \ DOMAIN new} \cup
       {change(s, "", FALSE) : s \in DOMAIN new \ DOMAIN old} \cup
       UNION {{change(s, f, TRUE)  : f \in old[s].fields \ new[s].fields} \cup
              {change(s, f, FALSE) : f \in new[s].fields \ old[s].fields} :
                 s \in DOMAIN old \cap DOMAIN new}

-----------------------------------------------------------------------------
\* The rows matter to the steps above by the links alone, and those only to the
\* analysis: as a bound, they are taken from the rows that the imports leave.
Settled ==
    /\ \A p \in Processes : importer[p].at \in {"done", "failed"} /\ importer[p].count = MaxImports
    /\ links # <<>>
    /\ runs = <<>>

EcosystemNext ==
    \/ edits = 0 /\ Next /\ UNCHANGED ecosystem
    \/ Settled /\ EcosystemStep /\ edits < MaxEdits /\ edits' = edits + 1 /\ UNCHANGED vars

EcosystemSpec == EcosystemInit /\ [][EcosystemNext]_<<vars, ecosystem>>

-----------------------------------------------------------------------------
\* What is within n steps of a set of nodes, where a provider is no step away
\* from its consumer.
Within(edges, n, S) ==
    LET steps == {<<e.from, e.to>> : e \in edges}
                    \cup {<<e.to, e.from>> : e \in {e \in edges : ~e.directed}}
        within[k \in 0 .. n] ==
            IF k = 0 THEN S
            ELSE LET near == within[k - 1] IN near \cup {s[2] : s \in {s \in steps : s[1] \in near}}
    IN within[n]

\* The projects that depend on one of P, directly or through others.
DependentProjects(P) ==
    LET declared == {<<ProjectName(x[1]), x[2][2].project>> : x \in AllDeclared}
        projects == P \cup {d[1] : d \in declared}
        closed(S) == P \subseteq S /\ \A d \in declared : d[2] \in S => d[1] \in S
    IN {project \in projects : \A S \in SUBSET projects : closed(S) => project \in S}

\* An analysis either raises or reports all that lies within three steps of the
\* change and nothing else: it never runs from a consumer to its provider, so
\* only projects that depend on a changed one are affected; the tests of a
\* requirement that is mapped to a changed file are found; a declared consumer
\* of a changed surface is; and a change of files that nothing is known of has
\* no risk.  Without a link and an edit the graphs are those of the start.
BlastRadiusIsExact ==
    ~ReadingRaises /\ (links # <<>> \/ edits > 0) =>
        LET edges == Edges IN
        \A diff \in Diffs :
            LET changed  == ChangedNodes(diff)
                analysis == CodeAnalysis(edges, diff)
                blast    == analysis.blast
            IN /\ blast.visited = Within(edges, MaxDepth, changed)
               /\ blast.projects \subseteq DependentProjects({n[1] : n \in changed})
               /\ \A r \in RootSet : \A p \in ReadMap(r) :
                    p[1] \in diff[r] /\ p[2] \in Prefixed
                        => {l[1] : l \in LinksOf(p[2])} \subseteq analysis.tests
               /\ \A x \in AllDeclared : <<x[2][2].project, x[2][2].surface>> \in changed
                        => <<ProjectName(x[1]), x[2][1]>> \in blast.visited
               /\ (\A e \in edges : {e.from, e.to} \cap changed = {}) => analysis.risk = 0
               /\ Blocks(analysis) => blast.traversed # {}

\* A snapshot after which the declared dependencies cannot be read any more
\* differs from the one before by a breaking change of a declared surface.
ContractsBreakLoudly ==
    [][\A r \in RootSet : snapshots'[r] # snapshots[r] /\ ~ReadingRaises /\ ReadingRaises' =>
        \E c \in Diff(snapshots[r], snapshots'[r]) :
            /\ c.breaking
            /\ \E x \in AllDeclared : x[2][2].surface = c.surface]_ecosystem
=============================================================================

---------------------------- MODULE SpecGraphProofs ----------------------------
(***************************************************************************)
(* Proofs about SpecTree, SpecChecks, ImpactGraphs and FlowFiles together, *)
(* for any directories, links, roots, surfaces, files and requests.        *)
(***************************************************************************)
EXTENDS FlowFiles, SequenceTheorems, FiniteSetTheorems, WellFoundedInduction, TLAPS

allVars == <<vars, ecosystem, flowFiles, scenario>>

-----------------------------------------------------------------------------
(***************************************************************************)
(* The links.  A link is of a requirement that is stored, since what       *)
(* deletes the row deletes the link, and the run that it names has a       *)
(* result of its test.                                                     *)
(***************************************************************************)
LinkStatus == {"unknown"} \cup UNION {Range(outcomes) : outcomes \in TestOutcomes}
LinkRow    == [status : LinkStatus, run : Nat, review : BOOLEAN]

LinksAreSound ==
    /\ runs \in Seq(TestOutcomes)
    /\ links \in [DOMAIN links -> LinkRow]
    /\ DOMAIN links \subseteq Tests \X DOMAIN rows
    /\ \A l \in DOMAIN links : links[l].run # 0 =>
         links[l].run \in DOMAIN runs /\ l[1] \in DOMAIN runs[links[l].run]

USE SpecTreeAssumption

LEMMA InitLinks == Init => LinksAreSound
BY DEF Init, LinksAreSound

\* What an import writes leaves the links to rows that stay.
LEMMA ImportKeepsLinks ==
    ASSUME LinksAreSound, NEW p \in Processes, ImportStep(p)
    PROVE  LinksAreSound'
<1>1. CASE Clear(p)
  <2> DEFINE kept == {l \in DOMAIN links : l[2] \in DOMAIN rows'}
  <2>1. links' = [l \in kept |-> links[l]] /\ UNCHANGED runs
    BY <1>1 DEF Clear, Restrict
  <2>2. DOMAIN links' = kept
    BY <2>1
  <2>3. QED
    BY <2>1, <2>2 DEF LinksAreSound
<1>2. ASSUME DOMAIN rows \subseteq DOMAIN rows', UNCHANGED <<links, runs>>
      PROVE  LinksAreSound'
  BY <1>2 DEF LinksAreSound
<1>3. CASE Update(p)
  BY <1>2, <1>3 DEF Update, With
<1>4. CASE Create(p)
  <2> DEFINE new == AddNode(rows, Entry(p).id, ParentOf(p, Entry(p)), FieldsOf(p, Entry(p), NewRow))
  <2>1. rows' = new /\ UNCHANGED <<links, runs>>
    BY <1>4 DEF Create
  <2>2. DOMAIN rows \subseteq DOMAIN new
    BY DEF AddNode, Place, With
  <2>3. QED
    BY <1>2, <2>1, <2>2
<1>5. CASE SetDependencies(p)
  BY <1>2, <1>5 DEF SetDependencies
<1>6. CASE \/ \E directory \in Directories[p], clear \in BOOLEAN : StartImport(p, directory, clear)
           \/ ReadOwned(p) \/ Raise(p) \/ EndOfPasses(p) \/ EndImport(p)
  BY <1>2, <1>6 DEF StartImport, ReadOwned, Raise, EndOfPasses, EndImport
<1>7. QED
  BY <1>1, <1>3, <1>4, <1>5, <1>6 DEF ImportStep

LEMMA TestLinksKeepLinks ==
    ASSUME LinksAreSound, NEW file \in LinkFiles, ImportTestLinks(file)
    PROVE  LinksAreSound'
<1> DEFINE known == {l \in file : l[2] \in DOMAIN rows}
<1>1. /\ links' = [l \in DOMAIN links \cup known |->
                    IF l \notin DOMAIN links THEN NewLink
                    ELSE IF l \in known THEN [links[l] EXCEPT !.review = FALSE] ELSE links[l]]
      /\ UNCHANGED <<rows, runs>>
  BY DEF ImportTestLinks
<1>2. file \subseteq Tests \X Nat
  OBVIOUS
<1>3. known \subseteq Tests \X DOMAIN rows
  BY <1>2
<1>4. NewLink \in LinkRow /\ NewLink.run = 0
  BY DEF NewLink, LinkRow, LinkStatus
<1>5. \A l \in DOMAIN links : [links[l] EXCEPT !.review = FALSE] \in LinkRow
                              /\ [links[l] EXCEPT !.review = FALSE].run = links[l].run
  BY DEF LinksAreSound, LinkRow
<1>6. DOMAIN links' = DOMAIN links \cup known
  BY <1>1
<1> HIDE DEF known
<1>7. \A l \in DOMAIN links' :
        /\ links'[l] \in LinkRow
        /\ links'[l].run # 0 => l \in DOMAIN links /\ links'[l].run = links[l].run
  BY <1>1, <1>4, <1>5, <1>6 DEF LinksAreSound
<1>8. links' \in [DOMAIN links' -> LinkRow]
  BY <1>1, <1>6, <1>7
<1>9. QED
  BY <1>1, <1>3, <1>6, <1>7, <1>8 DEF LinksAreSound

LEMMA RunKeepsLinks ==
    ASSUME LinksAreSound, NEW outcomes \in TestOutcomes, RecordRun(outcomes)
    PROVE  LinksAreSound'
<1> DEFINE shown(l) == [status |-> outcomes[l[1]], run |-> Len(runs) + 1,
                        review |-> \/ links[l].review
                                   \/ links[l].status = "passed" /\ outcomes[l[1]] \in {"failed", "error"}]
<1>1. /\ runs' = Append(runs, outcomes)
      /\ links' = [l \in DOMAIN links |-> IF l[1] \notin DOMAIN outcomes THEN links[l] ELSE shown(l)]
      /\ UNCHANGED rows
  BY DEF RecordRun
<1>2. /\ runs \in Seq(TestOutcomes) /\ Len(runs) \in Nat /\ DOMAIN runs = 1 .. Len(runs)
      /\ runs' \in Seq(TestOutcomes) /\ DOMAIN runs' = 1 .. Len(runs) + 1
      /\ runs'[Len(runs) + 1] = outcomes
      /\ \A n \in DOMAIN runs : runs'[n] = runs[n]
  BY <1>1 DEF LinksAreSound
<1>3. ASSUME NEW l \in DOMAIN links, l[1] \in DOMAIN outcomes
      PROVE  shown(l) \in LinkRow /\ shown(l).run = Len(runs) + 1
  <2>1. outcomes[l[1]] \in LinkStatus
    BY <1>3 DEF LinkStatus, Range
  <2>2. links[l].review \in BOOLEAN
    BY DEF LinksAreSound, LinkRow
  <2>3. QED
    BY <1>2, <2>1, <2>2 DEF LinkRow
<1>4. DOMAIN links' = DOMAIN links
  BY <1>1
<1> HIDE DEF shown
<1>5. links' \in [DOMAIN links' -> LinkRow]
  BY <1>1, <1>3, <1>4 DEF LinksAreSound
<1>6. ASSUME NEW l \in DOMAIN links', links'[l].run # 0
      PROVE  links'[l].run \in DOMAIN runs' /\ l[1] \in DOMAIN runs'[links'[l].run]
  <2>1. CASE l[1] \in DOMAIN outcomes
    BY <1>1, <1>2, <1>3, <1>4, <2>1
  <2>2. CASE l[1] \notin DOMAIN outcomes
    BY <1>1, <1>2, <1>4, <1>6, <2>2 DEF LinksAreSound
  <2>3. QED
    BY <2>1, <2>2
<1>7. QED
  BY <1>1, <1>2, <1>4, <1>5, <1>6 DEF LinksAreSound

LEMMA NextLinks == LinksAreSound /\ [FlowFilesNext]_allVars => LinksAreSound'
<1> SUFFICES ASSUME LinksAreSound, [FlowFilesNext]_allVars PROVE LinksAreSound'
  OBVIOUS
<1>1. ASSUME UNCHANGED vars PROVE LinksAreSound'
  BY <1>1 DEF vars, LinksAreSound
<1>2. ASSUME Next PROVE LinksAreSound'
  BY <1>2, ImportKeepsLinks, TestLinksKeepLinks, RunKeepsLinks DEF Next, LinkStep
<1>3. ASSUME NEW p \in Meanwhile, ImportMeanwhile(p) PROVE LinksAreSound'
  BY <1>3, FlowFilesAssumption, ImportKeepsLinks DEF ImportMeanwhile
<1>4. QED
  BY <1>1, <1>2, <1>3 DEF FlowFilesNext, EcosystemNext, allVars

LEMMA ChecksAreSound == LinksAreSound => ChecksAgree
<1> SUFFICES ASSUME LinksAreSound PROVE ChecksAgree
  OBVIOUS
<1>1. \A l \in DOMAIN links : l[2] \in DOMAIN rows
  BY DEF LinksAreSound
<1>2. Orphans \subseteq NoCoverage(DOMAIN links) /\ HighRisk \cap Orphans \subseteq HighRiskNoTests
  BY DEF Orphans, NoCoverage, HighRiskNoTests, LinksOf
<1>3. ASSUME NEW changed \in SUBSET Tests
      PROVE  /\ ImpactsFailing(DOMAIN links, changed) \subseteq HighRiskFailing
             /\ ImpactsUntested(DOMAIN links, changed) \subseteq HighRiskNoTests
  BY DEF ImpactsFailing, ImpactsUntested, ImpactedHighRisk, HighRiskFailing, HighRiskNoTests,
         Failing, LinksOf
<1>4. ASSUME NEW l \in StaleLinks PROVE links[l].run # Len(runs)
  <2>1. runs # <<>> /\ l \in DOMAIN links /\ l[1] \notin DOMAIN runs[Len(runs)]
    BY <1>4 DEF StaleLinks, Latest
  <2>2. Len(runs) # 0
    BY <2>1 DEF LinksAreSound
  <2>3. QED
    BY <2>1, <2>2 DEF LinksAreSound
<1>5. UnknownRequirements(DOMAIN links) = {}
  BY <1>1 DEF UnknownRequirements
<1>6. ASSUME NEW file, ~ValidationFails(file, TRUE, TRUE), NEW i \in DOMAIN rows
      PROVE  /\ rows[i].status = "active" => \E l \in file : l[2] = i
             /\ i \in HighRisk => Failing(i) = {} /\ LinksOf(i) # {}
  BY <1>6 DEF ValidationFails, NoCoverage, HighRiskNoTests, HighRiskFailing
<1>7. ASSUME ~DriftFails(DOMAIN links, {}, TRUE) \/ \E file : ~DriftFails(file, {}, TRUE)
      PROVE  /\ ~ValidationFails(DOMAIN links, FALSE, FALSE)
             /\ HighRisk \cap Orphans = {}
  BY <1>5, <1>7 DEF DriftFails, ValidationFails
<1>8. QED
  BY <1>2, <1>3, <1>4, <1>5, <1>6, <1>7 DEF ChecksAgree

LEMMA InitLinksOfAll == FlowFilesInit => LinksAreSound
BY InitLinks DEF FlowFilesInit, EcosystemInit

\* Whatever is imported, linked and run, and however the imports of several
\* projects interleave: the checks of validator.py do not contradict each other.
THEOREM ChecksAlwaysAgree == FlowFilesSpec => []ChecksAgree
<1>1. FlowFilesSpec => []LinksAreSound
  BY InitLinksOfAll, NextLinks, PTL DEF FlowFilesSpec, allVars
<1>2. QED
  BY <1>1, ChecksAreSound, PTL

-----------------------------------------------------------------------------
(***************************************************************************)
(* The contracts.  Only generate_contract replaces a snapshot; it leaves   *)
(* the maps alone, so what cannot be read afterwards is a declaration of a *)
(* surface that the snapshot has lost.                                     *)
(***************************************************************************)
USE ImpactAssumption

LEMMA LessRelated ==
    ASSUME NEW i \in Nat, NEW j \in Nat, i < j
    PROVE  <<i, j>> \in OpToRel(<, Nat)
<1>1. i \in Nat /\ j \in Nat /\ i < j
  OBVIOUS
<1>2. QED
  BY ONLY <1>1 DEF OpToRel

\* Every set of places that is bounded and not empty has a greatest one.
LEMMA GreatestPlace ==
    ASSUME NEW bound \in Nat, NEW places \in SUBSET (1 .. bound), places # {}
    PROVE  \E i \in places : \A j \in places : j <= i
<1> DEFINE distances == {k \in 0 .. bound : bound - k \in places}
<1>1. distances \in SUBSET Nat
  OBVIOUS
<1>2. \A n \in places : n \in Int /\ n <= bound /\ bound - n \in distances
  OBVIOUS
<1>3. distances # {}
  BY <1>2
<1> HIDE DEF distances
<1>4. PICK k \in distances : \A j \in distances : ~ (<<j, k>> \in OpToRel(<, Nat))
  BY ONLY <1>1, <1>3, NatLessThanWellFounded, WFMin, Zenon
<1>5. k \in Nat /\ bound - k \in places
  BY <1>1, <1>4 DEF distances
<1>6. ASSUME NEW n \in places PROVE n <= bound - k
  <2>1. bound - n \in distances /\ bound - n \in Nat /\ n \in Int
    BY <1>1, <1>2
  <2>2. ASSUME bound - n < k PROVE FALSE
    <3>1. <<bound - n, k>> \in OpToRel(<, Nat)
      BY ONLY <1>5, <2>1, <2>2, LessRelated, Zenon
    <3>2. QED
      BY ONLY <1>4, <2>1, <3>1, Zenon
  <2>3. QED
    BY <1>5, <2>1, <2>2
<1>7. QED
  BY <1>5, <1>6

LEMMA NamedRoots ==
    ASSUME NEW name \in ProjectNames
    PROVE  RootNamed(name) \in RootSet
<1> DEFINE named == {n \in DOMAIN Roots : ProjectName(Roots[n]) = name}
<1>1. DOMAIN Roots = 1 .. Len(Roots) /\ Len(Roots) \in Nat
  OBVIOUS
<1>2. named \in SUBSET (1 .. Len(Roots)) /\ named # {}
  BY <1>1 DEF ProjectNames, RootSet, Range
<1>3. \E n \in named : \A m \in named : m <= n
  <2> HIDE DEF named
  <2>1. QED
    BY ONLY <1>1, <1>2, GreatestPlace
<1>4. PICK n \in named : \A m \in named : m <= n
  BY ONLY <1>3
<1>5. \A m \in named : n >= m
  BY <1>1, <1>2, <1>4
<1>6. Max(named) \in named
  BY <1>4, <1>5 DEF Max
<1>7. QED
  BY <1>6 DEF RootNamed, RootSet, Range

SnapshotsAreOfRoots == snapshots = [r \in RootSet |-> snapshots[r]]

LEMMA NextSnapshots ==
    ASSUME SnapshotsAreOfRoots, [FlowFilesNext]_allVars
    PROVE  /\ SnapshotsAreOfRoots'
           /\ snapshots' # snapshots =>
                /\ \E q \in RootSet : snapshots' = [snapshots EXCEPT ![q] = code[q]]
                /\ maps' = maps
<1>1. ASSUME UNCHANGED <<maps, snapshots>> PROVE SnapshotsAreOfRoots' /\ snapshots' = snapshots
  BY <1>1 DEF SnapshotsAreOfRoots
<1>2. CASE EcosystemStep
  <2>1. ASSUME NEW r \in RootSet, GenerateContract(r)
        PROVE  /\ SnapshotsAreOfRoots' /\ maps' = maps
               /\ \E q \in RootSet : snapshots' = [snapshots EXCEPT ![q] = code[q]]
    BY <2>1 DEF GenerateContract, SnapshotsAreOfRoots
  <2>2. ASSUME UNCHANGED snapshots PROVE SnapshotsAreOfRoots'
    BY <2>2 DEF SnapshotsAreOfRoots
  <2>3. QED
    BY <1>2, <2>1, <2>2 DEF EcosystemStep, MapInit, MapPromote, Declare, EditCode
<1>3. QED
  BY <1>1, <1>2 DEF FlowFilesNext, EcosystemNext, allVars, ecosystem

LEMMA ContractStep ==
    ASSUME SnapshotsAreOfRoots, [FlowFilesNext]_allVars, NEW r \in RootSet,
           snapshots'[r] # snapshots[r], ~ReadingRaises, ReadingRaises'
    PROVE  \E c \in Diff(snapshots[r], snapshots'[r]) :
             /\ c.breaking
             /\ \E x \in AllDeclared : x[2][2].surface = c.surface
<1>1. PICK q \in RootSet : snapshots' = [snapshots EXCEPT ![q] = code[q]]
  BY NextSnapshots
<1>2. maps' = maps
  BY NextSnapshots
<1>3. q = r /\ snapshots'[r] = code[r] /\ \A s \in RootSet : s # r => snapshots'[s] = snapshots[s]
  BY <1>1 DEF SnapshotsAreOfRoots
<1>4. /\ AllDeclared' = AllDeclared /\ ProjectNames' = ProjectNames
      /\ \A name : RootNamed(name)' = RootNamed(name)
      /\ \A s : ReadMap(s)' = ReadMap(s)
  BY <1>2 DEF AllDeclared, ReadDependencies, ProjectNames, ProjectName, RootNamed, ReadMap
<1>5. PICK x \in AllDeclared :
        Malformed(x[2][2]) \/ (x[2][2].project \in ProjectNames /\ ~Known(x[2][2])')
  BY <1>4 DEF ReadingRaises, Malformed
<1> DEFINE d == x[2][2]
<1>6. d.project \in ProjectNames /\ Known(d) /\ ~Known(d)'
  BY <1>5 DEF ReadingRaises
<1>7. RootNamed(d.project) = r
  <2>1. RootNamed(d.project) \in RootSet
    BY <1>6, NamedRoots
  <2>2. CASE RootNamed(d.project) # r
    BY <1>3, <1>4, <1>6, <2>1, <2>2 DEF Known, PublishedSurfaces
  <2>3. QED
    BY <2>2
<1>8. d.surface \in DOMAIN snapshots[r] \ DOMAIN snapshots'[r]
  BY <1>4, <1>6, <1>7 DEF Known, PublishedSurfaces
<1> DEFINE c == [surface |-> d.surface, field |-> "", breaking |-> TRUE]
<1>9. c \in Diff(snapshots[r], snapshots'[r])
  BY ONLY <1>8, Zenon DEF Diff
<1>10. c.breaking /\ c.surface = d.surface
  OBVIOUS
<1>11. QED
  BY <1>9, <1>10

\* Of any maps, surfaces, declarations and commits: a snapshot that makes the
\* declared dependencies unreadable is reported as a breaking change.
THEOREM ContractsAlwaysBreakLoudly == FlowFilesSpec => ContractsBreakLoudly
<1>1. FlowFilesInit => SnapshotsAreOfRoots
  BY DEF FlowFilesInit, EcosystemInit, SnapshotsAreOfRoots
<1>2. SnapshotsAreOfRoots /\ [FlowFilesNext]_allVars => SnapshotsAreOfRoots'
  BY NextSnapshots
<1>3. SnapshotsAreOfRoots /\ [FlowFilesNext]_allVars =>
        [\A r \in RootSet : snapshots'[r] # snapshots[r] /\ ~ReadingRaises /\ ReadingRaises' =>
          \E c \in Diff(snapshots[r], snapshots'[r]) :
            /\ c.breaking
            /\ \E x \in AllDeclared : x[2][2].surface = c.surface]_ecosystem
  BY ContractStep
<1>4. QED
  BY <1>1, <1>2, <1>3, PTL DEF FlowFilesSpec, allVars, ContractsBreakLoudly

-----------------------------------------------------------------------------
(***************************************************************************)
(* The files.  What an editor holds has every key that the file had at     *)
(* first, so that merging it brings back none that was not checked; a      *)
(* file that is no mapping is never opened.                                *)
(***************************************************************************)
USE FlowFilesAssumption

Nothing   == {Text, <<>>}
EditorRow == {NoEditor} \cup
             [at : {"open", "merged", "writing"}, path : Range(FlowPaths), form : Documents]

HoldsForm(ed) ==
    /\ FlowDocs[ed.path] \notin Nothing
    /\ DOMAIN FlowDocs[ed.path] \subseteq DOMAIN ed.form
    /\ ed.at \in {"merged", "writing"} => ValidFlow(ed.form)

FileIsSound(path) ==
    /\ FlowDocs[path] \in Nothing => files[path] = FlowDocs[path]
    /\ files[path] \notin Nothing => DOMAIN FlowDocs[path] \subseteq DOMAIN files[path]
    /\ files[path] \in Nothing \cup {FlowDocs[path]} \/ ValidFlow(files[path])
    /\ \/ files[path] = FlowDocs[path]
       \/ files[path] \notin Nothing /\ ValidFlow(files[path])
       \/ files[path] = <<>> /\ \E e \in Editors : editor[e].at = "writing" /\ editor[e].path = path
       \/ path \in torn

FilesAreSound ==
    /\ files \in [Range(FlowPaths) -> Documents \cup {Text}]
    /\ editor \in [Editors -> EditorRow]
    /\ \A e \in Editors : editor[e].at # "idle" => HoldsForm(editor[e])
    /\ \A path \in Range(FlowPaths) : FileIsSound(path)

\* A merge of mappings, the first of which the parser accepts, is accepted too,
\* if the second names no requirements that have not been looked at.
LEMMA MergedIsValid ==
    ASSUME NEW form \in Documents, NEW old \in Documents, ValidFlow(form),
           ValidFlow(old) \/ DOMAIN old \subseteq DOMAIN form
    PROVE  /\ Merged(form, old) \in Documents
           /\ ValidFlow(Merged(form, old))
           /\ DOMAIN form \subseteq DOMAIN Merged(form, old)
<1> DEFINE new == Merged(form, old)
<1>1. new \in Documents
  OBVIOUS
<1>2. /\ DOMAIN new = DOMAIN form \cup DOMAIN old
      /\ \A key \in DOMAIN form : new[key] = form[key]
      /\ \A key \in DOMAIN old \ DOMAIN form : new[key] = old[key]
  BY DEF Merged
<1> HIDE DEF new
<1>3. {"id", "title", "steps"} \subseteq DOMAIN new /\ new["steps"] = form["steps"]
  BY <1>2 DEF ValidFlow
<1>4. Get(new, "requirements", <<>>) \in {Get(form, "requirements", <<>>), Get(old, "requirements", <<>>)}
      /\ (DOMAIN old \subseteq DOMAIN form => Get(new, "requirements", <<>>) = Get(form, "requirements", <<>>))
  BY <1>2 DEF Get
<1>5. Get(new, "requirements", <<>>) # Text
  BY <1>4 DEF ValidFlow
<1>6. ValidFlow(new)
  BY <1>3, <1>5 DEF ValidFlow
<1>7. QED
  BY <1>1, <1>2, <1>6 DEF new

LEMMA ValidIsSomething ==
    ASSUME NEW doc \in Documents, ValidFlow(doc) PROVE doc \notin Nothing
<1>1. DOMAIN <<>> = {} /\ "id" \in DOMAIN doc
  BY DEF ValidFlow
<1>2. QED
  BY <1>1 DEF Nothing

LEMMA InitFiles == FlowFilesInit => FilesAreSound
<1> SUFFICES ASSUME FlowFilesInit PROVE FilesAreSound
  OBVIOUS
<1>1. files = FlowDocs /\ editor = [e \in Editors |-> NoEditor]
  BY DEF FlowFilesInit
<1>2. \A path \in Range(FlowPaths) : FileIsSound(path)
  BY <1>1 DEF FileIsSound
<1>3. QED
  BY <1>1, <1>2 DEF FilesAreSound, EditorRow, NoEditor

\* An editor that leaves the files alone, and a file that stays damaged.
LEMMA EditorAlone ==
    ASSUME FilesAreSound, NEW e \in Editors, NEW row \in EditorRow,
           editor' = [editor EXCEPT ![e] = row], files' = files,
           row.at # "idle" => HoldsForm(row),
           torn \subseteq torn',
           editor[e].at = "writing" => editor[e].path \in torn'
    PROVE  FilesAreSound'
<1>1. /\ editor' \in [Editors -> EditorRow] /\ editor'[e] = row
      /\ \A o \in Editors : o # e => editor'[o] = editor[o]
  BY DEF FilesAreSound
<1>2. \A o \in Editors : editor'[o].at # "idle" => HoldsForm(editor'[o])
  BY <1>1 DEF FilesAreSound
<1>3. ASSUME NEW path \in Range(FlowPaths) PROVE FileIsSound(path)'
  <2>1. FileIsSound(path)
    BY DEF FilesAreSound
  <2>2. ASSUME NEW o \in Editors, editor[o].at = "writing", editor[o].path = path
        PROVE  path \in torn' \/ (editor'[o].at = "writing" /\ editor'[o].path = path)
    BY <1>1, <2>2
  <2>3. QED
    BY <2>1, <2>2 DEF FileIsSound
<1>4. QED
  BY <1>1, <1>2, <1>3 DEF FilesAreSound, HoldsForm

LEMMA OpenFormStep ==
    ASSUME FilesAreSound, NEW e \in Editors, NEW path \in Range(FlowPaths), OpenForm(e, path)
    PROVE  FilesAreSound'
<1> DEFINE row == [at |-> "open", path |-> path, form |-> files[path]]
<1>1. /\ editor[e].at = "idle" /\ files[path] \notin Nothing
      /\ editor' = [editor EXCEPT ![e] = row] /\ UNCHANGED <<files, torn>>
  BY DEF OpenForm, Nothing
<1>2. row \in EditorRow
  BY <1>1 DEF EditorRow, FilesAreSound, Nothing
<1>3. FileIsSound(path)
  BY DEF FilesAreSound
<1>4. HoldsForm(row)
  BY <1>1, <1>3 DEF HoldsForm, FileIsSound
<1>5. QED
  BY <1>1, <1>2, <1>4, EditorAlone

LEMMA PostFormStep ==
    ASSUME FilesAreSound, NEW e \in Editors, NEW change \in FormEdits, PostForm(e, change)
    PROVE  FilesAreSound'
<1> DEFINE ed   == editor[e]
           form == Merged(change, ed.form)
           old  == files[ed.path]
           row  == IF AcceptsForm(form) /\ old \notin Nothing
                   THEN [ed EXCEPT !.at = "merged", !.form = Merged(form, old)] ELSE NoEditor
<1>1. /\ ed.at = "open" /\ editor' = [editor EXCEPT ![e] = row] /\ UNCHANGED <<files, torn>>
  BY DEF PostForm, Nothing, FilesAreSound
<1>2. ed \in [at : {"open", "merged", "writing"}, path : Range(FlowPaths), form : Documents]
  BY <1>1 DEF FilesAreSound, EditorRow, NoEditor
<1>3. form \in Documents /\ DOMAIN ed.form \subseteq DOMAIN form
  <2>1. change \in Documents /\ ed.form \in Documents
    BY <1>2
  <2>2. form \in Documents
    BY <2>1
  <2>3. QED
    BY <2>2 DEF Merged
<1>4. HoldsForm(ed) /\ FileIsSound(ed.path)
  BY <1>1, <1>2 DEF FilesAreSound
<1>5. ASSUME AcceptsForm(form), old \notin Nothing
      PROVE  row \in EditorRow /\ HoldsForm(row)
  <2>1. old \in Documents
    BY <1>2, <1>5 DEF FilesAreSound, Nothing
  <2>2. ValidFlow(old) \/ DOMAIN old \subseteq DOMAIN form
    BY <1>3, <1>4, <1>5 DEF HoldsForm, FileIsSound
  <2> DEFINE new == Merged(form, old)
  <2>3. new \in Documents /\ ValidFlow(new) /\ DOMAIN form \subseteq DOMAIN new
    BY <1>3, <1>5, <2>1, <2>2, MergedIsValid DEF AcceptsForm
  <2>4. row = [at |-> "merged", path |-> ed.path, form |-> new]
    BY <1>2, <1>5
  <2> HIDE DEF new, row
  <2>5. row \in EditorRow
    BY <1>2, <2>3, <2>4 DEF EditorRow
  <2>6. DOMAIN FlowDocs[ed.path] \subseteq DOMAIN new
    BY <1>3, <1>4, <2>3 DEF HoldsForm
  <2>7. QED
    BY <1>4, <2>3, <2>4, <2>5, <2>6 DEF HoldsForm
<1>6. row \in EditorRow /\ (row.at # "idle" => HoldsForm(row))
  BY <1>5 DEF EditorRow, NoEditor
<1> HIDE DEF row
<1>7. QED
  BY <1>1, <1>6, EditorAlone

LEMMA EditorCrashStep ==
    ASSUME FilesAreSound, NEW e \in Editors, EditorCrash(e) PROVE FilesAreSound'
<1>1. /\ editor' = [editor EXCEPT ![e] = NoEditor] /\ files' = files
      /\ torn \subseteq torn'
      /\ editor[e].at = "writing" => editor[e].path \in torn'
  BY DEF EditorCrash
<1>2. NoEditor \in EditorRow /\ NoEditor.at = "idle"
  BY DEF EditorRow, NoEditor
<1>3. QED
  BY <1>1, <1>2, EditorAlone

\* One file changes, and the editor that writes it goes on.
LEMMA FileChanges ==
    ASSUME FilesAreSound, NEW e \in Editors, editor[e].at # "idle",
           NEW row \in EditorRow, editor' = [editor EXCEPT ![e] = row],
           row.at # "idle" => HoldsForm(row),
           NEW content, files' = [files EXCEPT ![editor[e].path] = content],
           \/ content = <<>> /\ row.at = "writing" /\ row.path = editor[e].path
           \/ content = Text /\ editor[e].path \in torn'
           \/ content = editor[e].form /\ ValidFlow(content),
           torn \subseteq torn'
    PROVE  FilesAreSound'
<1> DEFINE ed == editor[e]
<1>1. ed \in [at : {"open", "merged", "writing"}, path : Range(FlowPaths), form : Documents]
      /\ HoldsForm(ed)
  BY DEF FilesAreSound, EditorRow, NoEditor
<1>2. content \in Documents \cup {Text}
  BY <1>1
<1>3. files' \in [Range(FlowPaths) -> Documents \cup {Text}]
  BY <1>2 DEF FilesAreSound
<1>4. /\ editor' \in [Editors -> EditorRow] /\ editor'[e] = row
      /\ \A o \in Editors : o # e => editor'[o] = editor[o]
  BY DEF FilesAreSound
<1>5. \A o \in Editors : editor'[o].at # "idle" => HoldsForm(editor'[o])
  BY <1>4 DEF FilesAreSound
<1>6. ASSUME NEW path \in Range(FlowPaths), path # ed.path PROVE FileIsSound(path)'
  <2>1. FileIsSound(path) /\ files'[path] = files[path]
    BY <1>6 DEF FilesAreSound
  <2>2. ASSUME NEW o \in Editors, editor[o].at = "writing", editor[o].path = path
        PROVE  editor'[o].at = "writing" /\ editor'[o].path = path
    BY <1>4, <1>6, <2>2
  <2>3. QED
    BY <2>1, <2>2 DEF FileIsSound
<1>7. ASSUME NEW path \in Range(FlowPaths), path = ed.path PROVE FileIsSound(path)'
  <2>1. files'[path] = content
    BY <1>7 DEF FilesAreSound
  <2>2. FlowDocs[path] \notin Nothing /\ DOMAIN FlowDocs[path] \subseteq DOMAIN ed.form
    BY <1>1, <1>7 DEF HoldsForm
  <2>3. ValidFlow(ed.form) => ed.form \notin Nothing
    BY <1>1, ValidIsSomething
  <2>4. CASE content = <<>> /\ row.at = "writing" /\ row.path = ed.path
    BY <1>4, <1>7, <2>1, <2>2, <2>4 DEF FileIsSound, Nothing
  <2>5. CASE content = Text /\ ed.path \in torn'
    BY <1>7, <2>1, <2>2, <2>5 DEF FileIsSound, Nothing
  <2>6. CASE content = ed.form /\ ValidFlow(content)
    BY <2>1, <2>2, <2>3, <2>6 DEF FileIsSound
  <2>7. QED
    BY <2>4, <2>5, <2>6
<1>8. \A path \in Range(FlowPaths) : FileIsSound(path)'
  BY <1>6, <1>7
<1>9. QED
  BY <1>3, <1>4, <1>5, <1>8 DEF FilesAreSound, HoldsForm

LEMMA WriteSteps ==
    ASSUME FilesAreSound, NEW e \in Editors, OpenFile(e) \/ WriteFile(e)
    PROVE  FilesAreSound'
<1> DEFINE ed == editor[e]
<1>1. ed.at \in {"merged", "writing"}
  BY DEF OpenFile, WriteFile
<1>2. ed \in [at : {"open", "merged", "writing"}, path : Range(FlowPaths), form : Documents]
      /\ HoldsForm(ed) /\ ValidFlow(ed.form)
  BY <1>1 DEF FilesAreSound, EditorRow, NoEditor, HoldsForm
<1>3. CASE OpenFile(e)
  <2> DEFINE row == [ed EXCEPT !.at = "writing"]
  <2>1. /\ files' = [files EXCEPT ![ed.path] = <<>>] /\ UNCHANGED torn
        /\ editor' = [editor EXCEPT ![e] = row]
    BY <1>3 DEF OpenFile, FilesAreSound
  <2>2. row \in EditorRow /\ row.at = "writing" /\ row.path = ed.path /\ row.form = ed.form
    BY <1>2 DEF EditorRow
  <2>3. HoldsForm(row)
    BY <1>2, <2>2 DEF HoldsForm
  <2> HIDE DEF row
  <2>4. QED
    BY <1>1, <2>1, <2>2, <2>3, FileChanges
<1>4. CASE WriteFile(e)
  <2>1. NoEditor \in EditorRow /\ NoEditor.at = "idle"
    BY DEF EditorRow, NoEditor
  <2>2. /\ editor' = [editor EXCEPT ![e] = NoEditor]
        /\ \/ files' = [files EXCEPT ![ed.path] = ed.form] /\ UNCHANGED torn
           \/ files' = [files EXCEPT ![ed.path] = Text] /\ torn' = torn \cup {ed.path}
    BY <1>4 DEF WriteFile
  <2>3. CASE files' = [files EXCEPT ![ed.path] = ed.form] /\ UNCHANGED torn
    BY <1>1, <1>2, <2>1, <2>2, <2>3, FileChanges
  <2>4. CASE files' = [files EXCEPT ![ed.path] = Text] /\ torn' = torn \cup {ed.path}
    BY <1>1, <2>1, <2>2, <2>4, FileChanges
  <2>5. QED
    BY <2>2, <2>3, <2>4
<1>5. QED
  BY <1>3, <1>4

LEMMA NextFiles == FilesAreSound /\ [FlowFilesNext]_allVars => FilesAreSound'
<1> SUFFICES ASSUME FilesAreSound, [FlowFilesNext]_allVars PROVE FilesAreSound'
  OBVIOUS
<1>1. ASSUME UNCHANGED <<files, editor, torn>> PROVE FilesAreSound'
  BY <1>1 DEF FilesAreSound, FileIsSound, HoldsForm
<1>2. ASSUME NEW e \in Editors, EditStep(e) PROVE FilesAreSound'
  BY <1>2, OpenFormStep, PostFormStep, EditorCrashStep, WriteSteps DEF EditStep
<1>3. ASSUME SyncStep PROVE UNCHANGED <<files, editor, torn>>
  BY <1>3 DEF SyncStep, StartSync, ParseNext, BeginSync, StoreFlow, LookUpRequirement,
              LinkRequirements, EndSync, SyncCrash, SyncCodeFlow, DeleteFlow
<1>4. ASSUME NEW p \in Meanwhile, ImportMeanwhile(p) PROVE UNCHANGED <<files, editor, torn>>
  BY <1>4 DEF ImportMeanwhile
<1>5. QED
  BY <1>1, <1>2, <1>3, <1>4 DEF FlowFilesNext, allVars, flowFiles

\* Of any files, forms and editors, however their writes interleave and where
\* they crash: every file is what it was, or a flow that the parser accepts, or
\* is being written, or a write of it was cut off.
THEOREM SavedFlowsStayReadable == FlowFilesSpec => []SavedFlowsAreReadable
<1>1. FilesAreSound => SavedFlowsAreReadable
  BY DEF FilesAreSound, FileIsSound, SavedFlowsAreReadable, Nothing
<1>2. QED
  BY <1>1, InitFiles, NextFiles, PTL DEF FlowFilesSpec, allVars

-----------------------------------------------------------------------------
(***************************************************************************)
(* The synchronisation.  Of the flows that it has been through, each is    *)
(* stored as the last of them with its name has it; of the requirements    *)
(* that it has looked up, it has found those that have been there all the  *)
(* time; and the flow at hand is there unless somebody has deleted it.     *)
(***************************************************************************)
ReadFlows == {BuildFlow(doc) : doc \in {d \in Documents : ValidFlow(d)}}
FlowNames == CodeFlows \cup {flow.name : flow \in ReadFlows}
FlowRow   == [steps : {Text} \cup {flow.steps : flow \in ReadFlows}, links : SUBSET Nat]

RowsOfFlows(fr) == fr \in [DOMAIN fr -> FlowRow] /\ DOMAIN fr \subseteq FlowNames

\* The synchronisation, where the requirements of present are stored.
SyncRow(present) ==
    [at : {"idle", "parsing", "storing", "linking", "done", "failed"},
     paths : Seq(Range(FlowPaths)), todo : Seq(ReadFlows), clear : BOOLEAN, i : Nat,
     found : SUBSET Nat, named : Nat, lost : BOOLEAN, stored : SUBSET present,
     deleted : SUBSET FlowNames, count : Nat]

Defined(fr, flow) ==
    /\ flow.name \in DOMAIN fr
    /\ fr[flow.name].steps = flow.steps \/ flow.name \in CodeFlows

FlowIsStored(s, fr, flow) ==
    /\ Defined(fr, flow)
    /\ fr[flow.name].links \subseteq Range(flow.requirements)
    /\ Range(flow.requirements) \cap s.stored \subseteq fr[flow.name].links

\* The last of the flows before the one at hand with a name, and not that one.
LastSoFar(s, n) ==
    /\ \A m \in n + 1 .. s.i : s.todo[m].name # s.todo[n].name
    /\ s.at = "linking" => s.todo[s.i + 1].name # s.todo[n].name

StoredInTurn(s, fr) ==
    \A n \in 1 .. s.i :
        s.todo[n].name \notin s.deleted /\ LastSoFar(s, n) => FlowIsStored(s, fr, s.todo[n])

LookedUp(s) == {s.todo[s.i + 1].requirements[k] : k \in 1 .. s.named}

LinkingIsSound(s, fr) ==
    LET flow == s.todo[s.i + 1] IN
    /\ s.i < Len(s.todo)
    /\ s.named <= Len(flow.requirements)
    /\ s.found \subseteq LookedUp(s)
    /\ LookedUp(s) \cap s.stored \subseteq s.found
    /\ flow.name \notin s.deleted => Defined(fr, flow) /\ (s.lost => s.found # {})

Fresh(s) == s.named = 0 /\ s.found = {}

SyncIsSound(s, fr, present) ==
    /\ s \in SyncRow(present)
    /\ RowsOfFlows(fr)
    /\ s.at = "parsing" => s.i <= Len(s.paths) /\ Fresh(s)
    /\ s.at = "storing" => s.i <= Len(s.todo) /\ Fresh(s)
    /\ s.at \in {"storing", "linking"} => StoredInTurn(s, fr)
    /\ s.at = "linking" => LinkingIsSound(s, fr)

SyncInv == SyncIsSound(syncer, flowRows, DOMAIN rows)

LEMMA ReadRequirements ==
    ASSUME NEW flow \in ReadFlows
    PROVE  /\ flow.requirements \in Seq(Nat)
           /\ flow.name \in FlowNames
           /\ flow.steps \in {Text} \cup {f.steps : f \in ReadFlows}
<1>1. PICK doc \in Documents : ValidFlow(doc) /\ flow = BuildFlow(doc)
  BY DEF ReadFlows
<1>2. <<>> \in Seq(Nat)
  OBVIOUS
<1>3. Get(doc, "requirements", <<>>) \in Seq(Nat)
  BY <1>1, <1>2 DEF ValidFlow, Get
<1>4. QED
  BY <1>1, <1>3 DEF BuildFlow, FlowNames

LEMMA ParsedFlows ==
    ASSUME NEW content \in Documents \cup {Text}, ~Raises(content)
    PROVE  ParseFlow(content) \in Seq(ReadFlows)
<1>1. CASE IsFlow(content)
  <2>1. content \in Documents /\ ValidFlow(content)
    BY <1>1 DEF Raises, IsFlow
  <2>2. BuildFlow(content) \in ReadFlows
    BY <2>1 DEF ReadFlows
  <2>3. QED
    BY <1>1, <2>2 DEF ParseFlow
<1>2. CASE ~IsFlow(content)
  BY <1>2 DEF ParseFlow
<1>3. QED
  BY <1>1, <1>2

LEMMA WithRow ==
    ASSUME NEW fr, RowsOfFlows(fr), NEW f \in FlowNames, NEW row \in FlowRow
    PROVE  /\ RowsOfFlows(With(fr, f, row))
           /\ DOMAIN With(fr, f, row) = DOMAIN fr \cup {f}
           /\ With(fr, f, row)[f] = row
           /\ \A g \in DOMAIN fr : g # f => With(fr, f, row)[g] = fr[g]
BY DEF With, RowsOfFlows

\* One that does not sync, or has only begun.
LEMMA IdleIsSound ==
    ASSUME NEW s, NEW fr, NEW present, s \in SyncRow(present), RowsOfFlows(fr),
           s.at \notin {"storing", "linking"},
           s.at = "parsing" => s.i <= Len(s.paths) /\ Fresh(s)
    PROVE  SyncIsSound(s, fr, present)
BY DEF SyncIsSound

LEMMA EndedIsSound ==
    ASSUME NEW fr, NEW present, RowsOfFlows(fr), NEW how \in {"done", "failed"}, syncer.count \in Nat
    PROVE  SyncIsSound(Ended(how), fr, present)
<1>1. /\ NoSync \in SyncRow(present)
      /\ Ended(how) = [NoSync EXCEPT !.at = how, !.count = syncer.count]
  BY DEF Ended, NoSync, SyncRow
<1>2. Ended(how) \in SyncRow(present) /\ Ended(how).at = how
  BY <1>1 DEF SyncRow
<1>3. QED
  BY <1>1, <1>2, IdleIsSound

LEMMA InitSync == FlowFilesInit => SyncInv
<1> SUFFICES ASSUME FlowFilesInit PROVE SyncInv
  OBVIOUS
<1>1. syncer = NoSync /\ flowRows = <<>>
  BY DEF FlowFilesInit
<1>2. RowsOfFlows(flowRows)
  BY <1>1 DEF RowsOfFlows
<1>3. syncer \in SyncRow(DOMAIN rows) /\ syncer.at = "idle"
  BY <1>1 DEF SyncRow, NoSync
<1>4. QED
  BY <1>2, <1>3, IdleIsSound DEF SyncInv

LEMMA StartSyncStep ==
    ASSUME SyncInv, NEW paths \in Seq(Range(FlowPaths)), NEW clear \in BOOLEAN,
           StartSync(paths, clear), rows' = rows
    PROVE  SyncInv'
<1>1. /\ syncer' = [at |-> "parsing", paths |-> paths, todo |-> <<>>, clear |-> clear, i |-> 0,
                    found |-> {}, named |-> 0, lost |-> FALSE, stored |-> {}, deleted |-> {},
                    count |-> syncer.count + 1]
      /\ flowRows' = flowRows
  BY DEF StartSync, NoSync
<1>2. syncer.count \in Nat /\ RowsOfFlows(flowRows)
  BY DEF SyncInv, SyncIsSound, SyncRow
<1>3. syncer' \in SyncRow(DOMAIN rows')
  BY <1>1, <1>2 DEF SyncRow
<1>4. syncer'.at = "parsing" /\ syncer'.i <= Len(syncer'.paths) /\ Fresh(syncer')
  BY <1>1 DEF Fresh
<1>5. QED
  BY <1>1, <1>2, <1>3, <1>4, IdleIsSound DEF SyncInv

LEMMA ParseNextStep ==
    ASSUME SyncInv, FilesAreSound, ParseNext, rows' = rows PROVE SyncInv'
<1> DEFINE content == files[syncer.paths[syncer.i + 1]]
<1>1. /\ syncer.at = "parsing" /\ syncer.i < Len(syncer.paths) /\ flowRows' = flowRows
      /\ syncer' = IF Raises(content) THEN Ended("failed")
                   ELSE [syncer EXCEPT !.i = @ + 1, !.todo = @ \o ParseFlow(content)]
  BY DEF ParseNext
<1>2. syncer \in SyncRow(DOMAIN rows) /\ RowsOfFlows(flowRows)
  BY DEF SyncInv, SyncIsSound
<1>3. CASE Raises(content)
  <2>1. syncer.count \in Nat /\ syncer' = Ended("failed")
    BY <1>1, <1>2, <1>3 DEF SyncRow
  <2>2. QED
    BY <1>1, <1>2, <2>1, EndedIsSound DEF SyncInv
<1>4. CASE ~Raises(content)
  <2>1. syncer.paths[syncer.i + 1] \in Range(FlowPaths)
    BY <1>1, <1>2 DEF SyncRow
  <2>2. content \in Documents \cup {Text}
    BY <2>1 DEF FilesAreSound
  <2>3. ParseFlow(content) \in Seq(ReadFlows)
    BY <1>4, <2>2, ParsedFlows
  <2> DEFINE todo == syncer.todo \o ParseFlow(content)
  <2>4. todo \in Seq(ReadFlows)
    BY <1>2, <2>3 DEF SyncRow
  <2>5. syncer' = [syncer EXCEPT !.i = @ + 1, !.todo = todo]
    BY <1>1, <1>4
  <2> DEFINE next == syncer.i + 1
  <2>6. next \in Nat /\ syncer' = [syncer EXCEPT !.i = next, !.todo = todo]
    BY <1>2, <2>5 DEF SyncRow
  <2> HIDE DEF content, todo, next
  <2>7. /\ syncer'.at = "parsing" /\ syncer'.i = next /\ syncer'.paths = syncer.paths
        /\ syncer'.named = syncer.named /\ syncer'.found = syncer.found
        /\ syncer' \in SyncRow(DOMAIN rows)
    BY <1>1, <1>2, <2>4, <2>6 DEF SyncRow
  <2>8. syncer'.i <= Len(syncer'.paths)
    BY <1>1, <1>2, <2>7 DEF SyncRow, next
  <2>9. Fresh(syncer')
    BY <1>1, <2>7 DEF SyncInv, SyncIsSound, Fresh
  <2>10. QED
    BY <1>1, <1>2, <2>7, <2>8, <2>9, IdleIsSound DEF SyncInv
<1>5. QED
  BY <1>3, <1>4

LEMMA BeginSyncStep ==
    ASSUME SyncInv, BeginSync, rows' = rows PROVE SyncInv'
<1>1. /\ syncer' = [syncer EXCEPT !.at = "storing", !.i = 0, !.stored = DOMAIN rows]
      /\ flowRows' = IF syncer.clear THEN Restrict(flowRows, DOMAIN flowRows \ FlowsNamed) ELSE flowRows
  BY DEF BeginSync
<1>2. syncer \in SyncRow(DOMAIN rows) /\ RowsOfFlows(flowRows)
  BY DEF SyncInv, SyncIsSound
<1>3. RowsOfFlows(flowRows')
  BY <1>1, <1>2 DEF RowsOfFlows, Restrict
<1>4. syncer' \in SyncRow(DOMAIN rows) /\ syncer'.at = "storing" /\ syncer'.i = 0
      /\ syncer'.named = syncer.named /\ syncer'.found = syncer.found
  <2>1. DOMAIN rows \in SUBSET DOMAIN rows
    OBVIOUS
  <2> DEFINE present == DOMAIN rows
  <2>2. syncer' = [syncer EXCEPT !.at = "storing", !.i = 0, !.stored = present]
    BY <1>1
  <2> HIDE DEF present
  <2>3. QED
    BY <1>2, <2>1, <2>2 DEF SyncRow, present
<1>5. Fresh(syncer')
  BY <1>4 DEF BeginSync, SyncInv, SyncIsSound, Fresh
<1>6. StoredInTurn(syncer', flowRows') /\ syncer'.i <= Len(syncer'.todo)
  BY <1>4 DEF StoredInTurn, SyncRow
<1>7. QED
  BY <1>3, <1>4, <1>5, <1>6 DEF SyncInv, SyncIsSound

\* The flow at hand is one that was read.
LEMMA AtHandIsRead ==
    ASSUME SyncInv, syncer.at \in {"storing", "linking"}, syncer.i < Len(syncer.todo)
    PROVE  /\ FlowAtHand \in ReadFlows
           /\ syncer.i + 1 \in Nat /\ syncer.i + 1 <= Len(syncer.todo)
<1>1. syncer.todo \in Seq(ReadFlows) /\ syncer.i \in Nat
  BY DEF SyncInv, SyncIsSound, SyncRow
<1>2. QED
  BY <1>1 DEF FlowAtHand

LEMMA StoreFlowStep ==
    ASSUME SyncInv, StoreFlow, rows' = rows PROVE SyncInv'
<1> DEFINE flow == FlowAtHand
           row  == [steps |-> flow.steps, links |-> Linked(flow.name)]
<1>1. /\ syncer.at = "storing" /\ syncer.i < Len(syncer.todo)
      /\ flowRows' = With(flowRows, flow.name, row)
      /\ syncer' = [syncer EXCEPT !.at = "linking", !.lost = FALSE]
  BY DEF StoreFlow
<1>2. /\ syncer \in SyncRow(DOMAIN rows) /\ RowsOfFlows(flowRows)
      /\ Fresh(syncer) /\ StoredInTurn(syncer, flowRows)
  BY <1>1 DEF SyncInv, SyncIsSound
<1>3. flow \in ReadFlows
  BY <1>1, AtHandIsRead
<1>4. flow.requirements \in Seq(Nat) /\ flow.name \in FlowNames /\ row \in FlowRow
  <2>1. Linked(flow.name) \in SUBSET Nat
    BY <1>2 DEF Linked, RowsOfFlows, FlowRow
  <2>2. /\ flow.requirements \in Seq(Nat) /\ flow.name \in FlowNames
        /\ flow.steps \in {Text} \cup {f.steps : f \in ReadFlows}
    BY <1>3, ReadRequirements
  <2> HIDE DEF flow
  <2>3. QED
    BY <2>1, <2>2 DEF FlowRow
<1>5. /\ RowsOfFlows(flowRows') /\ DOMAIN flowRows' = DOMAIN flowRows \cup {flow.name}
      /\ flowRows'[flow.name] = row
      /\ \A g \in DOMAIN flowRows : g # flow.name => flowRows'[g] = flowRows[g]
  <2> DEFINE f   == flow.name
             new == With(flowRows, f, row)
  <2>1. f \in FlowNames /\ row \in FlowRow /\ flowRows' = new
    BY <1>1, <1>4
  <2> HIDE DEF flow, row, f
  <2>2. /\ RowsOfFlows(new) /\ DOMAIN new = DOMAIN flowRows \cup {f} /\ new[f] = row
        /\ \A g \in DOMAIN flowRows : g # f => new[g] = flowRows[g]
    BY ONLY <1>2, <2>1, WithRow
  <2> HIDE DEF new
  <2>3. QED
    BY <2>1, <2>2 DEF f
<1>6. /\ syncer' \in SyncRow(DOMAIN rows)
      /\ syncer'.at = "linking" /\ syncer'.lost = FALSE
      /\ syncer'.i = syncer.i /\ syncer'.todo = syncer.todo
      /\ syncer'.named = 0 /\ syncer'.found = {}
      /\ syncer'.stored = syncer.stored /\ syncer'.deleted = syncer.deleted
  BY <1>1, <1>2 DEF SyncRow, Fresh
<1>7. flow = syncer.todo[syncer.i + 1]
  BY DEF FlowAtHand
<1>8. row.steps = flow.steps
  OBVIOUS
<1> HIDE DEF flow, row
<1>9. StoredInTurn(syncer', flowRows')
  <2> SUFFICES ASSUME NEW n \in 1 .. syncer.i, syncer.todo[n].name \notin syncer.deleted,
                      LastSoFar(syncer', n)
               PROVE  FlowIsStored(syncer', flowRows', syncer.todo[n])
    BY <1>6 DEF StoredInTurn
  <2>1. LastSoFar(syncer, n) /\ syncer.todo[n].name # flow.name
    BY <1>1, <1>6, <1>7 DEF LastSoFar
  <2>2. FlowIsStored(syncer, flowRows, syncer.todo[n])
    BY <1>2, <2>1 DEF StoredInTurn
  <2>3. QED
    BY <1>5, <1>6, <2>1, <2>2 DEF FlowIsStored, Defined
<1>10. LinkingIsSound(syncer', flowRows')
  <2>1. LookedUp(syncer') = {}
    BY <1>6 DEF LookedUp
  <2>2. Defined(flowRows', flow)
    BY <1>5, <1>8 DEF Defined
  <2>3. 0 <= Len(flow.requirements)
    BY <1>4
  <2>4. QED
    BY <1>1, <1>6, <1>7, <2>1, <2>2, <2>3 DEF LinkingIsSound
<1>11. QED
  BY <1>5, <1>6, <1>9, <1>10 DEF SyncInv, SyncIsSound

LEMMA LookUpStep ==
    ASSUME SyncInv, LookUpRequirement, rows' = rows PROVE SyncInv'
<1> DEFINE flow  == FlowAtHand
           id    == flow.requirements[syncer.named + 1]
           named == syncer.named + 1
           found == syncer.found \cup ({id} \cap DOMAIN rows)
<1>1. /\ syncer.at = "linking" /\ syncer.named < Len(flow.requirements)
      /\ syncer' = [syncer EXCEPT !.named = named, !.found = found] /\ flowRows' = flowRows
  BY DEF LookUpRequirement
<1>2. /\ syncer \in SyncRow(DOMAIN rows) /\ RowsOfFlows(flowRows)
      /\ StoredInTurn(syncer, flowRows) /\ LinkingIsSound(syncer, flowRows)
  BY <1>1 DEF SyncInv, SyncIsSound
<1>3. flow = syncer.todo[syncer.i + 1] /\ syncer.i < Len(syncer.todo)
  BY <1>2 DEF FlowAtHand, LinkingIsSound
<1>4. flow.requirements \in Seq(Nat)
  BY <1>1, <1>3, AtHandIsRead, ReadRequirements
<1>5. syncer.named \in Nat /\ named \in Nat /\ named <= Len(flow.requirements) /\ id \in Nat
  <2>1. syncer.named \in Nat
    BY <1>2 DEF SyncRow
  <2> HIDE DEF flow
  <2>2. named \in 1 .. Len(flow.requirements)
    BY <1>1, <1>4, <2>1
  <2>3. QED
    BY <1>4, <2>1, <2>2
<1>6. found \in SUBSET Nat
  BY <1>2, <1>5 DEF SyncRow
<1>7. id = flow.requirements[named] /\ syncer.named = named - 1
      /\ found = syncer.found \cup ({id} \cap DOMAIN rows)
  BY <1>5
<1> HIDE DEF flow, id, named, found
<1>8. /\ syncer' \in SyncRow(DOMAIN rows)
      /\ syncer'.at = "linking" /\ syncer'.lost = syncer.lost
      /\ syncer'.i = syncer.i /\ syncer'.todo = syncer.todo
      /\ syncer'.named = named /\ syncer'.found = found
      /\ syncer'.stored = syncer.stored /\ syncer'.deleted = syncer.deleted
  BY <1>1, <1>2, <1>5, <1>6 DEF SyncRow
<1>9. LookedUp(syncer') = LookedUp(syncer) \cup {id}
  <2>1. 1 .. named = (1 .. syncer.named) \cup {named}
    BY <1>5, <1>7
  <2>2. QED
    BY <1>3, <1>7, <1>8, <2>1 DEF LookedUp
<1>10. StoredInTurn(syncer', flowRows')
  BY <1>1, <1>2, <1>8 DEF StoredInTurn, LastSoFar, FlowIsStored, Defined
<1>11. LinkingIsSound(syncer', flowRows')
  <2>1. syncer.stored \subseteq DOMAIN rows
    BY <1>2 DEF SyncRow
  <2>2. found \subseteq LookedUp(syncer') /\ LookedUp(syncer') \cap syncer.stored \subseteq found
    BY <1>2, <1>7, <1>9, <2>1 DEF LinkingIsSound
  <2>3. flow.name \notin syncer.deleted => Defined(flowRows', flow) /\ (syncer.lost => found # {})
    BY <1>1, <1>2, <1>3, <1>7 DEF LinkingIsSound, Defined
  <2>4. QED
    BY <1>3, <1>5, <1>8, <2>2, <2>3 DEF LinkingIsSound
<1>12. QED
  BY <1>1, <1>2, <1>8, <1>10, <1>11 DEF SyncInv, SyncIsSound

LEMMA LinkStepIsSound ==
    ASSUME SyncInv, LinkRequirements, rows' = rows PROVE SyncInv'
<1> DEFINE flow == FlowAtHand
<1>1. syncer.at = "linking" /\ syncer.named = Len(flow.requirements)
  BY DEF LinkRequirements
<1>2. /\ syncer \in SyncRow(DOMAIN rows) /\ RowsOfFlows(flowRows)
      /\ StoredInTurn(syncer, flowRows) /\ LinkingIsSound(syncer, flowRows)
  BY <1>1 DEF SyncInv, SyncIsSound
<1>3. flow = syncer.todo[syncer.i + 1] /\ syncer.i < Len(syncer.todo) /\ syncer.i \in Nat
  BY <1>2 DEF FlowAtHand, LinkingIsSound, SyncRow
<1>4. flow.requirements \in Seq(Nat)
  BY <1>1, <1>3, AtHandIsRead, ReadRequirements
<1>5. LookedUp(syncer) = Range(flow.requirements)
  <2>1. DOMAIN flow.requirements = 1 .. Len(flow.requirements)
    BY <1>4
  <2>2. LookedUp(syncer) = {flow.requirements[k] : k \in DOMAIN flow.requirements}
    BY ONLY <1>1, <1>3, <2>1 DEF LookedUp
  <2>3. QED
    BY ONLY <2>2 DEF Range
<1>6. CASE syncer.lost /\ syncer.found # {}
  <2>1. syncer' = Ended("failed") /\ flowRows' = flowRows /\ syncer.count \in Nat
    BY <1>2, <1>6 DEF LinkRequirements, SyncRow
  <2>2. QED
    BY <1>2, <2>1, EndedIsSound DEF SyncInv
<1>7. CASE ~(syncer.lost /\ syncer.found # {})
  <2> DEFINE next == syncer.i + 1
             f    == flow.name
  <2>1. /\ syncer' = [syncer EXCEPT !.at = "storing", !.i = next, !.named = 0, !.found = {}]
        /\ flowRows' = IF f \in DOMAIN flowRows /\ ~syncer.lost
                       THEN [flowRows EXCEPT ![f].links = syncer.found] ELSE flowRows
    BY <1>7 DEF LinkRequirements, LinksSet
  <2>2. next \in Nat /\ next <= Len(syncer.todo)
    BY <1>2, <1>3 DEF SyncRow
  <2>3. next = syncer.i + 1
    OBVIOUS
  <2> HIDE DEF flow, next
  <2>4. /\ syncer' \in SyncRow(DOMAIN rows) /\ syncer'.at = "storing"
        /\ syncer'.i = next /\ syncer'.todo = syncer.todo /\ syncer'.named = 0 /\ syncer'.found = {}
        /\ syncer'.stored = syncer.stored /\ syncer'.deleted = syncer.deleted
    BY <1>2, <2>1, <2>2 DEF SyncRow
  <2>5. /\ RowsOfFlows(flowRows') /\ DOMAIN flowRows' = DOMAIN flowRows
        /\ \A g \in DOMAIN flowRows :
             /\ flowRows'[g].steps = flowRows[g].steps
             /\ g # f => flowRows'[g] = flowRows[g]
        /\ f \in DOMAIN flowRows /\ ~syncer.lost => flowRows'[f].links = syncer.found
    <3>1. syncer.found \in SUBSET Nat
      BY <1>2 DEF SyncRow
    <3>2. QED
      BY <1>2, <2>1, <3>1 DEF RowsOfFlows, FlowRow
  <2>6. ASSUME f \notin syncer.deleted PROVE FlowIsStored(syncer', flowRows', flow)
    <3>1. Defined(flowRows, flow) /\ ~syncer.lost
      BY <1>2, <1>3, <1>7, <2>6 DEF LinkingIsSound
    <3>2. syncer.found \subseteq Range(flow.requirements)
          /\ Range(flow.requirements) \cap syncer.stored \subseteq syncer.found
      BY <1>2, <1>5 DEF LinkingIsSound
    <3>3. QED
      BY <2>4, <2>5, <3>1, <3>2 DEF FlowIsStored, Defined
  <2>7. StoredInTurn(syncer', flowRows')
    <3> SUFFICES ASSUME NEW n \in 1 .. next, syncer.todo[n].name \notin syncer.deleted,
                        LastSoFar(syncer', n)
                 PROVE  FlowIsStored(syncer', flowRows', syncer.todo[n])
      BY <2>4 DEF StoredInTurn
    <3>1. CASE n = next
      BY <1>3, <2>3, <2>6, <3>1
    <3>2. CASE n # next
      <4>1. n \in 1 .. syncer.i /\ next \in n + 1 .. next
        BY <1>3, <2>2, <2>3, <3>2
      <4>2. syncer.todo[n].name # f
        BY <1>3, <2>3, <2>4, <4>1 DEF LastSoFar
      <4>3. n + 1 .. syncer.i \subseteq n + 1 .. next
        BY <1>3, <2>3
      <4>4. LastSoFar(syncer, n)
        BY <1>3, <2>4, <4>2, <4>3 DEF LastSoFar
      <4>5. FlowIsStored(syncer, flowRows, syncer.todo[n])
        BY <1>2, <4>1, <4>4 DEF StoredInTurn
      <4>6. QED
        BY <2>4, <2>5, <4>2, <4>5 DEF FlowIsStored, Defined
    <3>3. QED
      BY <3>1, <3>2
  <2>8. QED
    BY <2>2, <2>4, <2>5, <2>7 DEF SyncInv, SyncIsSound, Fresh
<1>8. QED
  BY <1>6, <1>7

\* Rows that another process writes: those of the flows read stay, as far as
\* nobody deletes them, and so do their links to what has been there all the time.
LEMMA RowsMeanwhile ==
    ASSUME SyncInv, RowsOfFlows(flowRows'),
           syncer' \in SyncRow(DOMAIN rows'),
           syncer' = [syncer EXCEPT !.deleted = syncer'.deleted, !.lost = syncer'.lost,
                                    !.stored = syncer'.stored],
           syncer.deleted \subseteq syncer'.deleted, syncer'.stored \subseteq syncer.stored,
           \A f \in DOMAIN flowRows \ syncer'.deleted :
              /\ f \in DOMAIN flowRows'
              /\ flowRows'[f].steps = flowRows[f].steps \/ f \in CodeFlows
              /\ flowRows'[f].links \subseteq flowRows[f].links
              /\ flowRows[f].links \cap syncer'.stored \subseteq flowRows'[f].links,
           syncer.at = "linking" /\ syncer'.lost =>
              \/ syncer.lost
              \/ FlowAtHand.name \in syncer'.deleted
              \/ syncer.found # {}
    PROVE  SyncInv'
<1>1. /\ syncer'.at = syncer.at /\ syncer'.i = syncer.i /\ syncer'.todo = syncer.todo
      /\ syncer'.paths = syncer.paths /\ syncer'.named = syncer.named /\ syncer'.found = syncer.found
  BY DEF SyncInv, SyncIsSound, SyncRow
<1>2. ASSUME NEW flow, flow.name \notin syncer'.deleted, FlowIsStored(syncer, flowRows, flow)
      PROVE  FlowIsStored(syncer', flowRows', flow)
  BY <1>2 DEF FlowIsStored, Defined
<1>3. ASSUME NEW flow, flow.name \notin syncer'.deleted, Defined(flowRows, flow)
      PROVE  Defined(flowRows', flow)
  BY <1>3 DEF Defined
<1>4. ASSUME StoredInTurn(syncer, flowRows) PROVE StoredInTurn(syncer', flowRows')
  <2> SUFFICES ASSUME NEW n \in 1 .. syncer.i, syncer.todo[n].name \notin syncer'.deleted,
                      LastSoFar(syncer', n)
               PROVE  FlowIsStored(syncer', flowRows', syncer.todo[n])
    BY <1>1 DEF StoredInTurn
  <2>1. LastSoFar(syncer, n)
    BY <1>1 DEF LastSoFar
  <2>2. QED
    BY <1>2, <1>4, <2>1 DEF StoredInTurn
<1>5. ASSUME syncer.at = "linking", LinkingIsSound(syncer, flowRows)
      PROVE  LinkingIsSound(syncer', flowRows')
  <2> DEFINE flow == syncer.todo[syncer.i + 1]
  <2>1. LookedUp(syncer') = LookedUp(syncer) /\ flow = FlowAtHand /\ flow = syncer'.todo[syncer'.i + 1]
    BY <1>1 DEF LookedUp, FlowAtHand
  <2>2. /\ syncer.i < Len(syncer.todo) /\ syncer.named <= Len(flow.requirements)
        /\ syncer.found \subseteq LookedUp(syncer)
        /\ LookedUp(syncer) \cap syncer.stored \subseteq syncer.found
        /\ flow.name \notin syncer.deleted => Defined(flowRows, flow) /\ (syncer.lost => syncer.found # {})
    BY <1>5 DEF LinkingIsSound
  <2> HIDE DEF flow
  <2>3. flow.name \notin syncer'.deleted =>
          Defined(flowRows', flow) /\ (syncer'.lost => syncer'.found # {})
    BY <1>1, <1>3, <1>5, <2>1, <2>2
  <2>4. LookedUp(syncer') \cap syncer'.stored \subseteq syncer'.found
    BY <1>1, <2>1, <2>2
  <2>5. QED
    BY <1>1, <2>1, <2>2, <2>3, <2>4 DEF LinkingIsSound
<1>6. QED
  BY <1>1, <1>4, <1>5 DEF SyncInv, SyncIsSound, Fresh

LEMMA CodeFlowStep ==
    ASSUME SyncInv, NEW f \in CodeFlows, SyncCodeFlow(f), rows' = rows PROVE SyncInv'
<1> DEFINE row == [steps |-> Text, links |-> Linked(f)]
<1>1. flowRows' = With(flowRows, f, row) /\ syncer' = syncer
  BY DEF SyncCodeFlow
<1>2. syncer \in SyncRow(DOMAIN rows) /\ RowsOfFlows(flowRows)
  BY DEF SyncInv, SyncIsSound
<1>3. row \in FlowRow /\ (f \in DOMAIN flowRows => row.links = flowRows[f].links)
  BY <1>2 DEF RowsOfFlows, FlowRow, Linked
<1> DEFINE new == With(flowRows, f, row)
<1>4. flowRows' = new
  BY <1>1
<1> HIDE DEF row
<1>5. f \in FlowNames
  BY DEF FlowNames
<1>6. /\ RowsOfFlows(new) /\ DOMAIN new = DOMAIN flowRows \cup {f} /\ new[f] = row
      /\ \A g \in DOMAIN flowRows : g # f => new[g] = flowRows[g]
  BY ONLY <1>2, <1>3, <1>5, WithRow
<1> HIDE DEF new
<1>7. syncer' \in SyncRow(DOMAIN rows')
      /\ syncer' = [syncer EXCEPT !.deleted = syncer'.deleted, !.lost = syncer'.lost,
                                  !.stored = syncer'.stored]
  BY <1>1, <1>2 DEF SyncRow
<1>8. \A g \in DOMAIN flowRows :
        /\ g \in DOMAIN flowRows'
        /\ flowRows'[g].steps = flowRows[g].steps \/ g \in CodeFlows
        /\ flowRows'[g].links = flowRows[g].links
  BY <1>3, <1>4, <1>6
<1>9. QED
  BY <1>1, <1>4, <1>6, <1>7, <1>8, RowsMeanwhile

LEMMA DeleteFlowStep ==
    ASSUME SyncInv, NEW f \in DOMAIN flowRows, DeleteFlow(f), rows' = rows PROVE SyncInv'
<1>1. syncer \in SyncRow(DOMAIN rows) /\ RowsOfFlows(flowRows)
  BY DEF SyncInv, SyncIsSound
<1>2. /\ flowRows' = [g \in DOMAIN flowRows \ {f} |-> flowRows[g]]
      /\ syncer' = IF ~Syncing THEN syncer
                   ELSE [syncer EXCEPT !.deleted = @ \cup {f},
                                       !.lost = @ \/ (syncer.at = "linking" /\ FlowAtHand.name = f)]
  BY DEF DeleteFlow, Restrict
<1>3. RowsOfFlows(flowRows')
  BY <1>1, <1>2 DEF RowsOfFlows
<1>4. CASE ~Syncing
  BY <1>1, <1>2, <1>3, <1>4 DEF SyncInv, SyncIsSound, Syncing
<1>5. CASE Syncing
  <2> DEFINE deleted == syncer.deleted \cup {f}
             lost    == syncer.lost \/ (syncer.at = "linking" /\ FlowAtHand.name = f)
  <2>1. syncer' = [syncer EXCEPT !.deleted = deleted, !.lost = lost]
    BY <1>2, <1>5
  <2>2. deleted \in SUBSET FlowNames /\ lost \in BOOLEAN
    BY <1>1 DEF SyncRow, RowsOfFlows
  <2>3. /\ syncer.deleted \subseteq deleted /\ f \in deleted
        /\ lost => syncer.lost \/ (syncer.at = "linking" /\ FlowAtHand.name = f)
    OBVIOUS
  <2> HIDE DEF deleted, lost
  <2>4. /\ syncer' \in SyncRow(DOMAIN rows)
        /\ syncer'.deleted = deleted /\ syncer'.lost = lost /\ syncer'.stored = syncer.stored
        /\ syncer' = [syncer EXCEPT !.deleted = deleted, !.lost = lost, !.stored = syncer.stored]
    BY <1>1, <2>1, <2>2 DEF SyncRow
  <2>5. \A g \in DOMAIN flowRows \ deleted : g \in DOMAIN flowRows' /\ flowRows'[g] = flowRows[g]
    BY <1>2, <2>3
  <2>6. QED
    BY <1>3, <2>3, <2>4, <2>5, RowsMeanwhile
<1>6. QED
  BY <1>4, <1>5

LEMMA ImportMeanwhileStep ==
    ASSUME SyncInv, NEW p \in Processes, ImportMeanwhile(p) PROVE SyncInv'
<1> DEFINE stored == syncer.stored \cap DOMAIN rows'
           lost   == syncer.lost \/ ~(syncer.found \subseteq DOMAIN rows')
<1>1. /\ flowRows' = [f \in DOMAIN flowRows |->
                        [flowRows[f] EXCEPT !.links = flowRows[f].links \cap DOMAIN rows']]
      /\ syncer' = [syncer EXCEPT !.stored = stored, !.lost = lost]
  BY DEF ImportMeanwhile
<1>2. syncer \in SyncRow(DOMAIN rows) /\ RowsOfFlows(flowRows)
  BY DEF SyncInv, SyncIsSound
<1>3. /\ DOMAIN flowRows' = DOMAIN flowRows
      /\ \A f \in DOMAIN flowRows :
           /\ flowRows'[f] \in FlowRow /\ flowRows'[f].steps = flowRows[f].steps
           /\ flowRows'[f].links = flowRows[f].links \cap DOMAIN rows'
  BY <1>1, <1>2 DEF RowsOfFlows, FlowRow
<1>4. RowsOfFlows(flowRows')
  BY <1>1, <1>2, <1>3 DEF RowsOfFlows
<1>5. /\ stored \in SUBSET DOMAIN rows' /\ lost \in BOOLEAN /\ stored \subseteq syncer.stored
      /\ lost => syncer.lost \/ syncer.found # {}
  BY <1>2 DEF SyncRow
<1> HIDE DEF stored, lost
<1>6. /\ syncer' \in SyncRow(DOMAIN rows')
      /\ syncer'.stored = stored /\ syncer'.lost = lost /\ syncer'.deleted = syncer.deleted
      /\ syncer' = [syncer EXCEPT !.deleted = syncer.deleted, !.lost = lost, !.stored = stored]
  BY <1>1, <1>2, <1>5 DEF SyncRow
<1>7. QED
  BY <1>3, <1>4, <1>5, <1>6, RowsMeanwhile

LEMMA SyncSteps ==
    ASSUME SyncInv, FilesAreSound, SyncStep, rows' = rows PROVE SyncInv'
<1>1. RowsOfFlows(flowRows) /\ syncer.count \in Nat
  BY DEF SyncInv, SyncIsSound, SyncRow
<1>2. CASE \/ \E clear \in BOOLEAN : StartSync(FlowPaths, clear)
           \/ \E path \in Range(FlowPaths) : StartSync(<<path>>, FALSE)
  <2>1. \A path \in Range(FlowPaths) : <<path>> \in Seq(Range(FlowPaths))
    OBVIOUS
  <2>2. QED
    BY <1>2, <2>1, StartSyncStep
<1>3. CASE EndSync \/ SyncCrash
  <2>1. flowRows' = flowRows /\ \E how \in {"done", "failed"} : syncer' = Ended(how)
    BY <1>3 DEF EndSync, SyncCrash
  <2>2. QED
    BY <1>1, <2>1, EndedIsSound DEF SyncInv
<1>4. CASE ParseNext \/ BeginSync
  BY <1>4, ParseNextStep, BeginSyncStep
<1>5. CASE StoreFlow \/ LookUpRequirement \/ LinkRequirements
  BY <1>5, StoreFlowStep, LookUpStep, LinkStepIsSound
<1>6. CASE \/ \E f \in CodeFlows : SyncCodeFlow(f)
           \/ \E f \in DOMAIN flowRows : DeleteFlow(f)
  BY <1>6, CodeFlowStep, DeleteFlowStep
<1>7. QED
  BY <1>2, <1>3, <1>4, <1>5, <1>6 DEF SyncStep

LEMMA NextSync ==
    ASSUME SyncInv, FilesAreSound, [FlowFilesNext]_allVars PROVE SyncInv'
<1>1. CASE UNCHANGED <<rows, syncer, flowRows>>
  BY <1>1 DEF SyncInv
<1>2. CASE syncer = NoSync /\ UNCHANGED <<syncer, flowRows>>
  <2>1. RowsOfFlows(flowRows') /\ syncer' = NoSync
    BY <1>2 DEF SyncInv, SyncIsSound
  <2>2. NoSync \in SyncRow(DOMAIN rows') /\ NoSync.at = "idle"
    BY DEF SyncRow, NoSync
  <2>3. QED
    BY <2>1, <2>2, IdleIsSound DEF SyncInv
<1>3. CASE \E p \in Meanwhile : ImportMeanwhile(p)
  BY <1>3, ImportMeanwhileStep
<1>4. CASE SyncStep /\ rows' = rows
  BY <1>4, SyncSteps
<1>5. ASSUME NEW e \in Editors, EditStep(e) PROVE UNCHANGED <<syncer, flowRows>>
  BY <1>5 DEF EditStep, OpenForm, PostForm, OpenFile, WriteFile, EditorCrash
<1>6. QED
  BY <1>1, <1>2, <1>3, <1>4, <1>5 DEF FlowFilesNext, allVars, vars, flowFiles, Untouched

\* Of the flows that a synchronisation has read, the last with each name.
LEMMA LastIsDefined ==
    ASSUME SyncInv, NEW f \in FlowsNamed
    PROVE  /\ LastDefined(f) \in 1 .. Len(syncer.todo)
           /\ syncer.todo[LastDefined(f)].name = f
           /\ \A m \in LastDefined(f) + 1 .. Len(syncer.todo) : syncer.todo[m].name # f
<1>1. /\ syncer.todo \in Seq(ReadFlows)
      /\ DOMAIN syncer.todo = 1 .. Len(syncer.todo) /\ Len(syncer.todo) \in Nat
  BY DEF SyncInv, SyncIsSound, SyncRow
<1> DEFINE places == {n \in DOMAIN syncer.todo : syncer.todo[n].name = f}
<1>2. places \in SUBSET (1 .. Len(syncer.todo)) /\ places # {}
  BY <1>1 DEF FlowsNamed
<1>3. \E n \in places : \A m \in places : m <= n
  <2> HIDE DEF places
  <2>1. QED
    BY ONLY <1>1, <1>2, GreatestPlace
<1>4. PICK n \in places : \A m \in places : m <= n
  BY ONLY <1>3
<1>5. /\ n \in DOMAIN syncer.todo /\ syncer.todo[n].name = f
      /\ \A m \in n + 1 .. Len(syncer.todo) : syncer.todo[m].name # f
  BY ONLY <1>1, <1>4
<1>6. QED
  BY <1>1, <1>5 DEF LastDefined

LEMMA EndedFollows ==
    ASSUME SyncInv, [FlowFilesNext]_allVars, syncer.at = "storing", syncer'.at = "done",
           NEW f \in FlowsNamed \ syncer.deleted
    PROVE  LET file == syncer.todo[LastDefined(f)] IN
           /\ f \in DOMAIN flowRows
           /\ flowRows[f].steps = file.steps \/ f \in CodeFlows
           /\ flowRows[f].links \subseteq Range(file.requirements)
           /\ Range(file.requirements) \cap syncer.stored \subseteq flowRows[f].links
<1>1. syncer.i = Len(syncer.todo)
  <2>1. syncer \in SyncRow(DOMAIN rows)
    BY DEF SyncInv, SyncIsSound
  <2>2. ASSUME SyncStep PROVE EndSync
    BY <2>1, <2>2 DEF SyncStep, StartSync, ParseNext, BeginSync, StoreFlow, LookUpRequirement,
          LinkRequirements, SyncCrash, Ended, NoSync, SyncCodeFlow, DeleteFlow, SyncRow, Syncing
  <2>3. ASSUME NEW p \in Meanwhile, ImportMeanwhile(p) PROVE FALSE
    BY <2>3 DEF ImportMeanwhile
  <2>4. ASSUME NEW e \in Editors, EditStep(e) PROVE syncer' = syncer
    BY <2>4 DEF EditStep, OpenForm, PostForm, OpenFile, WriteFile, EditorCrash
  <2>5. SyncStep
    BY <2>3, <2>4 DEF FlowFilesNext, allVars, flowFiles
  <2>6. QED
    BY <2>2, <2>5 DEF EndSync
<1> DEFINE n == LastDefined(f)
<1>2. n \in 1 .. syncer.i /\ syncer.todo[n].name = f
      /\ \A m \in n + 1 .. syncer.i : syncer.todo[m].name # f
  BY <1>1, LastIsDefined
<1> HIDE DEF n
<1>3. LastSoFar(syncer, n)
  BY <1>2 DEF LastSoFar
<1>4. FlowIsStored(syncer, flowRows, syncer.todo[n])
  BY <1>2, <1>3 DEF SyncInv, SyncIsSound, StoredInTurn
<1>5. QED
  BY <1>2, <1>4 DEF FlowIsStored, Defined, n

\* The four invariants hold in every reachable state: of the requirements and
\* their links, the snapshots, the files and the synchronisation.
THEOREM Invariance ==
    FlowFilesSpec => [](LinksAreSound /\ SnapshotsAreOfRoots /\ FilesAreSound /\ SyncInv)
<1> DEFINE IInv == LinksAreSound /\ SnapshotsAreOfRoots /\ FilesAreSound /\ SyncInv
<1>1. FlowFilesInit => IInv
  <2>1. FlowFilesInit => SnapshotsAreOfRoots
    BY DEF FlowFilesInit, EcosystemInit, SnapshotsAreOfRoots
  <2>2. QED
    BY <2>1, InitLinksOfAll, InitFiles, InitSync
<1>2. IInv /\ [FlowFilesNext]_allVars => IInv'
  BY NextLinks, NextSnapshots, NextFiles, NextSync
<1>3. QED
  BY <1>1, <1>2, PTL DEF FlowFilesSpec, allVars

\* Of any files, flows of the code, deletions, crashes, and imports that go on
\* meanwhile: a synchronisation that ends has stored what its files say.
THEOREM FlowsAlwaysFollowTheirFiles == FlowFilesSpec => FlowsFollowTheirFiles
<1>1. SyncInv /\ [FlowFilesNext]_allVars =>
        [syncer.at = "storing" /\ syncer'.at = "done" =>
           \A f \in FlowsNamed \ syncer.deleted :
              LET file == syncer.todo[LastDefined(f)] IN
              /\ f \in DOMAIN flowRows
              /\ flowRows[f].steps = file.steps \/ f \in CodeFlows
              /\ flowRows[f].links \subseteq Range(file.requirements)
              /\ Range(file.requirements) \cap syncer.stored \subseteq flowRows[f].links]_syncer
  BY EndedFollows
<1>2. QED
  BY <1>1, Invariance, PTL DEF FlowFilesSpec, allVars, FlowsFollowTheirFiles

-----------------------------------------------------------------------------
(***************************************************************************)
(* Searches.  A loop over a queue is a function that is defined by its     *)
(* value one step later; a measure that falls with each step is what makes *)
(* that a definition, and what an induction over the loop goes by.         *)
(***************************************************************************)
LEMMA LeastNumber ==
    ASSUME NEW S \in SUBSET Nat, S # {}
    PROVE  \E k \in S : \A j \in S : k <= j
<1>1. PICK k \in S : \A j \in S : ~ (<<j, k>> \in OpToRel(<, Nat))
  BY ONLY S \in SUBSET Nat, S # {}, NatLessThanWellFounded, WFMin, Zenon
<1>2. ASSUME NEW j \in S, j < k PROVE FALSE
  <2>1. j \in Nat /\ k \in Nat /\ j < k
    BY <1>2
  <2>2. <<j, k>> \in OpToRel(<, Nat)
    BY ONLY <2>1, LessRelated, Zenon
  <2>3. QED
    BY ONLY <1>1, <2>2, Zenon
<1>3. QED
  BY <1>2

\* A loop: where it is done, what comes next, and a measure that falls.
IsLoop(D, Done, step, measure) ==
    /\ Done \subseteq D
    /\ step \in [D -> D]
    /\ measure \in [D -> Nat]
    /\ \A d \in D \ Done : measure[step[d]] < measure[d]

\* What is left behind by each point of a loop follows from what comes next.
LEMMA LoopInduction ==
    ASSUME NEW D, NEW Done, NEW step, NEW measure, IsLoop(D, Done, step, measure),
           NEW Good \in SUBSET D,
           \A d \in D \cap Done : d \in Good,
           \A d \in D \ Done : step[d] \in Good => d \in Good
    PROVE  D \subseteq Good
<1> DEFINE left == {measure[d] : d \in D \ Good}
<1>1. left \in SUBSET Nat
  BY DEF IsLoop
<1>2. SUFFICES ASSUME left # {} PROVE FALSE
  OBVIOUS
<1>3. PICK k \in left : \A j \in left : k <= j
  BY <1>1, <1>2, LeastNumber
<1>4. PICK d \in D \ Good : k = measure[d]
  BY <1>3
<1>5. d \notin Done /\ step[d] \in D /\ step[d] \notin Good
  BY <1>4 DEF IsLoop
<1>6. measure[step[d]] \in left
  BY <1>5
<1>7. measure[step[d]] \in Nat /\ k \in Nat /\ measure[step[d]] < k
  BY <1>4, <1>5 DEF IsLoop
<1> HIDE DEF left
<1>8. QED
  BY <1>3, <1>6, <1>7

Below(D, measure, n) == {d \in D : measure[d] < n}

\* What the loop yields from the points whose measure is below n.
Yields(D, Done, step, out, measure, n, g) ==
    g = [d \in Below(D, measure, n) |-> IF d \in Done THEN out[d] ELSE g[step[d]]]

LEMMA YieldsAlike ==
    ASSUME NEW D, NEW Done, NEW step, NEW out, NEW measure, IsLoop(D, Done, step, measure),
           NEW m \in Nat, NEW n \in Nat, NEW g, NEW h,
           Yields(D, Done, step, out, measure, m, g), Yields(D, Done, step, out, measure, n, h)
    PROVE  \A d \in Below(D, measure, m) \cap Below(D, measure, n) : g[d] = h[d]
<1> DEFINE both == Below(D, measure, m) \cap Below(D, measure, n)
           Good == {d \in D : d \in both => g[d] = h[d]}
<1>1. Good \in SUBSET D
  OBVIOUS
<1>2. ASSUME NEW d \in D \cap Done PROVE d \in Good
  BY DEF Yields, Below
<1>3. ASSUME NEW d \in D \ Done, step[d] \in Good PROVE d \in Good
  <2>1. d \in both => step[d] \in both
    BY DEF Below, IsLoop
  <2>2. d \in both => g[d] = g[step[d]] /\ h[d] = h[step[d]]
    BY DEF Yields, Below
  <2>3. QED
    BY <1>3, <2>1, <2>2
<1> HIDE DEF Good
<1>4. D \subseteq Good
  BY <1>1, <1>2, <1>3, LoopInduction
<1>5. QED
  BY <1>4 DEF Good, Below

LEMMA YieldsExist ==
    ASSUME NEW D, NEW Done, NEW step, NEW out, NEW measure, IsLoop(D, Done, step, measure),
           NEW n \in Nat
    PROVE  \E g : Yields(D, Done, step, out, measure, n, g)
<1> DEFINE without == {k \in Nat : ~ \E g : Yields(D, Done, step, out, measure, k, g)}
<1>1. SUFFICES ASSUME without # {} PROVE FALSE
  OBVIOUS
<1>2. PICK k \in without : \A j \in without : k <= j
  <2> HIDE DEF without
  <2>1. without \in SUBSET Nat
    BY DEF without
  <2>2. QED
    BY <1>1, <2>1, LeastNumber
<1>3. CASE k = 0
  <2> DEFINE g == [d \in {} |-> 0]
  <2>1. Below(D, measure, k) = {}
    BY <1>3 DEF Below, IsLoop
  <2>2. Yields(D, Done, step, out, measure, k, g)
    BY <2>1 DEF Yields
  <2>3. QED
    BY <1>2, <2>2
<1>4. CASE k # 0
  <2>1. k - 1 \in Nat /\ k - 1 \notin without
    BY <1>2, <1>4
  <2>2. PICK g : Yields(D, Done, step, out, measure, k - 1, g)
    BY <2>1
  <2> DEFINE h == [d \in Below(D, measure, k) |-> IF d \in Done THEN out[d] ELSE g[step[d]]]
  <2>3. ASSUME NEW d \in Below(D, measure, k), d \notin Done PROVE h[step[d]] = g[step[d]]
    <3>1. step[d] \in Below(D, measure, k - 1) /\ step[d] \in Below(D, measure, k)
      BY <1>2, <2>3 DEF Below, IsLoop
    <3>2. g[step[d]] = IF step[d] \in Done THEN out[step[d]] ELSE g[step[step[d]]]
      BY <2>2, <3>1 DEF Yields
    <3>3. QED
      BY <3>1, <3>2
  <2>4. h = [d \in Below(D, measure, k) |-> IF d \in Done THEN out[d] ELSE h[step[d]]]
    BY <2>3
  <2> HIDE DEF h
  <2>5. Yields(D, Done, step, out, measure, k, h)
    BY <2>4 DEF Yields
  <2>6. QED
    BY <1>2, <2>5
<1>5. QED
  BY <1>3, <1>4

\* So there is a function that yields it from everywhere.
LEMMA LoopYields ==
    ASSUME NEW D, NEW Done, NEW step, NEW out, NEW measure, IsLoop(D, Done, step, measure)
    PROVE  \E f : f = [d \in D |-> IF d \in Done THEN out[d] ELSE f[step[d]]]
<1> DEFINE g(n) == CHOOSE g : Yields(D, Done, step, out, measure, n, g)
           f    == [d \in D |-> g(measure[d] + 1)[d]]
<1>1. \A n \in Nat : Yields(D, Done, step, out, measure, n, g(n))
  BY YieldsExist
<1> HIDE DEF g
<1>2. ASSUME NEW d \in D PROVE f[d] = IF d \in Done THEN out[d] ELSE f[step[d]]
  <2> DEFINE n == measure[d] + 1
             m == measure[step[d]] + 1
  <2>1. n \in Nat /\ m \in Nat /\ step[d] \in D
    BY DEF IsLoop
  <2>2. d \in Below(D, measure, n) /\ step[d] \in Below(D, measure, m)
    BY DEF Below, IsLoop
  <2>3. d \notin Done => step[d] \in Below(D, measure, n)
    BY DEF Below, IsLoop
  <2>4. f[d] = g(n)[d] /\ f[step[d]] = g(m)[step[d]]
    BY <2>1
  <2> HIDE DEF n, m, f
  <2>5. Yields(D, Done, step, out, measure, n, g(n)) /\ Yields(D, Done, step, out, measure, m, g(m))
    BY <1>1, <2>1
  <2>6. g(n)[d] = IF d \in Done THEN out[d] ELSE g(n)[step[d]]
    BY <2>2, <2>5 DEF Yields
  <2>7. d \notin Done => g(n)[step[d]] = g(m)[step[d]]
    BY <2>1, <2>2, <2>3, <2>5, YieldsAlike
  <2>8. QED
    BY <2>4, <2>6, <2>7
<1>3. f = [d \in D |-> f[d]]
  OBVIOUS
<1> HIDE DEF f
<1>4. f = [d \in D |-> IF d \in Done THEN out[d] ELSE f[step[d]]]
  BY <1>2, <1>3
<1>5. QED
  BY <1>4

\* The image of a finite set.
LEMMA ImageIsFinite ==
    ASSUME NEW S, IsFiniteSet(S), NEW f
    PROVE  /\ IsFiniteSet({f[x] : x \in S})
           /\ Cardinality({f[x] : x \in S}) \in Nat
           /\ Cardinality({f[x] : x \in S}) <= Cardinality(S)
           /\ (\A x, y \in S : f[x] = f[y] => x = y) => Cardinality({f[x] : x \in S}) = Cardinality(S)
<1> DEFINE T == {f[x] : x \in S}
           g == [x \in S |-> f[x]]
<1>1. g \in Surjection(S, T)
  BY DEF Surjection
<1>2. (\A x, y \in S : f[x] = f[y] => x = y) => g \in Injection(S, T)
  BY DEF Injection, IsInjective
<1> HIDE DEF T, g
<1>3. IsFiniteSet(T) /\ Cardinality(T) <= Cardinality(S) /\ (Cardinality(T) = Cardinality(S) <=> g \in Injection(S, T))
  BY ONLY <1>1, IsFiniteSet(S), FS_Surjection
<1>4. Cardinality(T) \in Nat
  BY ONLY <1>3, FS_CardinalityType
<1>5. QED
  BY <1>2, <1>3, <1>4 DEF T

LEMMA UnionIsFinite ==
    ASSUME NEW S, IsFiniteSet(S), NEW f, \A x \in S : IsFiniteSet(f[x])
    PROVE  IsFiniteSet(UNION {f[x] : x \in S})
<1> DEFINE T == {f[x] : x \in S}
<1>1. IsFiniteSet(T)
  BY ONLY IsFiniteSet(S), ImageIsFinite
<1>2. \A t \in T : IsFiniteSet(t)
  OBVIOUS
<1> HIDE DEF T
<1>3. IsFiniteSet(UNION T)
  BY ONLY <1>1, <1>2, FS_UNION
<1>4. QED
  BY <1>3 DEF T

\* The elements of a set in some order.
LEMMA SeqOfSet ==
    ASSUME NEW S, IsFiniteSet(S)
    PROVE  /\ SetToSeq(S) \in Seq(S)
           /\ Len(SetToSeq(S)) = Cardinality(S)
           /\ Cardinality(S) \in Nat
           /\ \A x \in S : \E k \in 1 .. Cardinality(S) : SetToSeq(S)[k] = x
<1> DEFINE n == Cardinality(S)
           q == SetToSeq(S)
<1>1. n \in Nat /\ ExistsBijection(1 .. n, S)
  BY FS_CardinalityType
<1>2. PICK f : f \in Bijection(1 .. n, S)
  BY <1>1 DEF ExistsBijection
<1>3. f \in [1 .. n -> S] /\ IsInjective(f)
  BY <1>2 DEF Bijection, Injection
<1>4. q \in [1 .. n -> S] /\ IsInjective(q)
  BY <1>3 DEF SetToSeq
<1> HIDE DEF q
<1>5. q \in Seq(S) /\ Len(q) = n
  BY <1>1, <1>4
<1>6. q \in Injection(1 .. n, S)
  BY <1>4 DEF Injection
<1>7. Cardinality(1 .. n) = n
  BY <1>1, FS_Interval
<1>8. q \in Surjection(1 .. n, S)
  BY ONLY <1>6, <1>7, IsFiniteSet(S), FS_Injection
<1>9. \A x \in S : \E k \in 1 .. n : q[k] = x
  BY <1>8 DEF Surjection
<1>10. QED
  BY <1>1, <1>5, <1>9 DEF q

-----------------------------------------------------------------------------
(***************************************************************************)
(* The blast radius.  The queue holds the nodes of at most two depths, the *)
(* nearer first; what is visited are those within the nearer depth and     *)
(* what is queued at the other.                                            *)
(***************************************************************************)
NodesOf(edges, changed) == changed \cup {e.from : e \in edges} \cup {e.to : e \in edges}
Searches(nodes)   == [queue : Seq([node : nodes, depth : 0 .. MaxDepth]), visited : SUBSET nodes]
Exhausted(nodes)  == {s \in Searches(nodes) : s.queue = <<>>}
Entries(S, depth) == SetToSeq({[node |-> node, depth |-> depth] : node \in S})
FoundAt(edges, s) ==
    IF Head(s.queue).depth >= MaxDepth THEN {} ELSE Neighbours(edges, Head(s.queue).node) \ s.visited
Further(edges, s) ==
    [queue   |-> Enqueue(Tail(s.queue), Entries(FoundAt(edges, s), Head(s.queue).depth + 1)),
     visited |-> s.visited \cup FoundAt(edges, s)]
FurtherOf(edges, nodes) ==
    [s \in Searches(nodes) |-> IF s.queue = <<>> THEN s ELSE Further(edges, s)]
Pending(nodes) == [s \in Searches(nodes) |-> Cardinality(nodes \ s.visited) + Len(s.queue)]

IsSearch(f, edges, nodes) ==
    f = [s \in Searches(nodes) |-> IF s.queue = <<>> THEN s.visited ELSE f[Further(edges, s)]]

LEMMA EntriesOf ==
    ASSUME NEW S, IsFiniteSet(S), NEW depth
    PROVE  /\ Entries(S, depth) \in Seq({[node |-> node, depth |-> depth] : node \in S})
           /\ Len(Entries(S, depth)) = Cardinality(S)
           /\ Cardinality(S) \in Nat
           /\ \A n \in S : \E k \in 1 .. Cardinality(S) : Entries(S, depth)[k] = [node |-> n, depth |-> depth]
<1> DEFINE f == [n \in S |-> [node |-> n, depth |-> depth]]
           T == {f[n] : n \in S}
<1>1. T = {[node |-> n, depth |-> depth] : n \in S}
  OBVIOUS
<1>2. Entries(S, depth) = SetToSeq(T)
  BY <1>1 DEF Entries
<1>3. \A n \in S : f[n] = [node |-> n, depth |-> depth] /\ f[n] \in T
  OBVIOUS
<1> HIDE DEF f, T
<1>4. \A x, y \in S : f[x] = f[y] => x = y
  <2>1. \A n : [node |-> n, depth |-> depth].node = n
    OBVIOUS
  <2>2. ASSUME NEW x \in S, NEW y \in S, f[x] = f[y] PROVE x = y
    <3>1. [node |-> x, depth |-> depth] = [node |-> y, depth |-> depth]
      BY ONLY <1>3, <2>2
    <3>2. [node |-> x, depth |-> depth].node = [node |-> y, depth |-> depth].node
      BY ONLY <3>1
    <3>3. QED
      BY ONLY <2>1, <3>2
  <2>3. QED
    BY ONLY <2>2
<1>5. IsFiniteSet(T) /\ Cardinality(T) = Cardinality(S)
  BY ONLY <1>4, IsFiniteSet(S), ImageIsFinite DEF T
<1>6. /\ SetToSeq(T) \in Seq(T) /\ Len(SetToSeq(T)) = Cardinality(S) /\ Cardinality(S) \in Nat
      /\ \A x \in T : \E k \in 1 .. Cardinality(S) : SetToSeq(T)[k] = x
  BY ONLY <1>5, SeqOfSet
<1>7. \A n \in S : \E k \in 1 .. Cardinality(S) : SetToSeq(T)[k] = [node |-> n, depth |-> depth]
  BY ONLY <1>3, <1>6
<1>8. QED
  BY ONLY <1>1, <1>2, <1>6, <1>7

\* What one round of the loop does.
LEMMA Round ==
    ASSUME NEW edges, NEW changed, NEW nodes, nodes = NodesOf(edges, changed), IsFiniteSet(nodes),
           NEW s \in Searches(nodes), s.queue # <<>>,
           NEW q, q = s.queue, NEW t, t = Further(edges, s), NEW found, found = FoundAt(edges, s)
    PROVE  /\ t \in Searches(nodes)
           /\ Len(q) \in Nat /\ Len(q) > 0
           /\ q[1].node \in nodes /\ q[1].depth \in 0 .. 3
           /\ found = IF q[1].depth = 3 THEN {} ELSE Neighbours(edges, q[1].node) \ s.visited
           /\ found \subseteq nodes \ s.visited
           /\ t.visited = s.visited \cup found
           /\ Cardinality(found) \in Nat
           /\ Len(t.queue) = Len(q) - 1 + Cardinality(found)
           /\ \A k \in 1 .. Len(q) - 1 : t.queue[k] = q[k + 1]
           /\ \A k \in Len(q) .. Len(t.queue) : t.queue[k].node \in found /\ t.queue[k].depth = q[1].depth + 1
           /\ \A n \in found : \E k \in Len(q) .. Len(t.queue) : t.queue[k].node = n
<1> DEFINE E == [node : nodes, depth : 0 .. MaxDepth]
           e == Entries(found, q[1].depth + 1)
<1>1. q \in Seq(E) /\ Head(q) = q[1] /\ q[1] \in E /\ Len(q) \in Nat /\ Len(q) > 0 /\ s.visited \subseteq nodes
  <2>1. q \in Seq(E) /\ s.visited \subseteq nodes
    BY DEF Searches
  <2> HIDE DEF E
  <2>2. q \in Seq(E) /\ q # <<>> /\ s.visited \subseteq nodes
    BY <2>1
  <2>3. QED
    BY ONLY <2>2
<1>2. q[1].node \in nodes /\ q[1].depth \in 0 .. 3
  BY <1>1 DEF MaxDepth
<1>3. Neighbours(edges, q[1].node) \subseteq nodes
  BY DEF Neighbours, NodesOf
<1>4. found = IF q[1].depth = 3 THEN {} ELSE Neighbours(edges, q[1].node) \ s.visited
  BY <1>1, <1>2 DEF FoundAt, MaxDepth
<1>5. found \subseteq nodes \ s.visited
  BY <1>3, <1>4
<1>6. IsFiniteSet(found)
  BY <1>5, FS_Subset
<1>7. found # {} => q[1].depth + 1 \in 0 .. MaxDepth
  BY <1>2, <1>4 DEF MaxDepth
<1>8. /\ e \in Seq(E) /\ Len(e) = Cardinality(found) /\ Cardinality(found) \in Nat
      /\ \A k \in 1 .. Cardinality(found) : e[k].node \in found /\ e[k].depth = q[1].depth + 1
      /\ \A n \in found : \E k \in 1 .. Cardinality(found) : e[k].node = n
  <2> DEFINE d == q[1].depth + 1
             T == {[node |-> n, depth |-> d] : n \in found}
  <2>1. \A n \in found : n \in nodes /\ d \in 0 .. MaxDepth
    BY ONLY <1>5, <1>7
  <2> HIDE DEF d
  <2>2. \A x \in T : x \in E /\ x.node \in found /\ x.depth = d
    BY ONLY <2>1
  <2>3. \A n \in found : [node |-> n, depth |-> d].node = n
    OBVIOUS
  <2> HIDE DEF T, E
  <2>4. /\ e \in Seq(T) /\ Len(e) = Cardinality(found) /\ Cardinality(found) \in Nat
        /\ \A n \in found : \E k \in 1 .. Cardinality(found) : e[k] = [node |-> n, depth |-> d]
    <3>1. /\ Entries(found, d) \in Seq({[node |-> n, depth |-> d] : n \in found})
          /\ Len(Entries(found, d)) = Cardinality(found) /\ Cardinality(found) \in Nat
          /\ \A n \in found : \E k \in 1 .. Cardinality(found) : Entries(found, d)[k] = [node |-> n, depth |-> d]
      BY ONLY <1>6, EntriesOf
    <3>2. QED
      BY ONLY <3>1 DEF e, T, d
  <2>5. T \subseteq E
    BY ONLY <2>2
  <2>6. e \in Seq(E) /\ \A k \in 1 .. Cardinality(found) : e[k] \in T
    BY ONLY <2>4, <2>5
  <2>7. \A n \in found : \E k \in 1 .. Cardinality(found) : e[k].node = n
    BY ONLY <2>3, <2>4
  <2>8. \A k \in 1 .. Cardinality(found) : e[k].node \in found /\ e[k].depth = d
    BY ONLY <2>2, <2>6
  <2>9. QED
    BY ONLY <2>4, <2>6, <2>7, <2>8 DEF d
<1>9. t = [queue |-> Tail(q) \o e, visited |-> s.visited \cup found]
  BY <1>1 DEF Further, Enqueue
<1> HIDE DEF e, E
<1>10. Tail(q) \in Seq(E) /\ Len(Tail(q)) = Len(q) - 1 /\ \A k \in 1 .. Len(q) - 1 : Tail(q)[k] = q[k + 1]
  BY <1>1
<1>11. /\ t.queue \in Seq(E) /\ Len(t.queue) = Len(q) - 1 + Cardinality(found)
       /\ \A k \in 1 .. Len(q) - 1 : t.queue[k] = q[k + 1]
       /\ \A k \in Len(q) .. Len(t.queue) : t.queue[k] = e[k - (Len(q) - 1)]
  <2>1. t.queue = Tail(q) \o e
    BY ONLY <1>9
  <2> DEFINE m == Tail(q)
  <2>2. m \in Seq(E) /\ Len(m) = Len(q) - 1 /\ \A k \in 1 .. Len(q) - 1 : m[k] = q[k + 1]
    BY ONLY <1>10
  <2> HIDE DEF m
  <2>3. /\ m \o e \in Seq(E) /\ Len(m \o e) = Len(m) + Len(e)
        /\ \A k \in 1 .. Len(m) : (m \o e)[k] = m[k]
        /\ \A k \in Len(m) + 1 .. Len(m) + Len(e) : (m \o e)[k] = e[k - Len(m)]
    <3>1. e \in Seq(E) /\ m \in Seq(E) /\ Len(m) \in Nat /\ Len(e) \in Nat
      BY ONLY <1>8, <2>2
    <3>2. /\ m \o e \in Seq(E) /\ Len(m \o e) = Len(m) + Len(e)
          /\ \A i \in 1 .. Len(m) + Len(e) : (m \o e)[i] = IF i <= Len(m) THEN m[i] ELSE e[i - Len(m)]
      BY ONLY <3>1, ConcatProperties, Zenon
    <3>3. QED
      BY ONLY <3>1, <3>2
  <2>4. t.queue = m \o e
    BY ONLY <2>1 DEF m
  <2>5. Len(t.queue) = Len(q) - 1 + Cardinality(found) /\ t.queue \in Seq(E)
    BY ONLY <1>1, <1>8, <2>2, <2>3, <2>4
  <2>6. \A k \in 1 .. Len(q) - 1 : t.queue[k] = q[k + 1]
    BY ONLY <1>1, <2>2, <2>3, <2>4
  <2>7. \A k \in Len(q) .. Len(t.queue) : t.queue[k] = e[k - (Len(q) - 1)]
    BY ONLY <1>1, <1>8, <2>2, <2>3, <2>4, <2>5
  <2>8. QED
    BY ONLY <2>5, <2>6, <2>7
<1>12. t \in Searches(nodes)
  BY <1>1, <1>5, <1>9, <1>11 DEF Searches, E
<1>13. \A k \in Len(q) .. Len(t.queue) : t.queue[k].node \in found /\ t.queue[k].depth = q[1].depth + 1
  <2>1. ASSUME NEW k \in Len(q) .. Len(t.queue)
        PROVE  k - (Len(q) - 1) \in 1 .. Cardinality(found)
    BY ONLY <1>1, <1>8, <1>11, k \in Len(q) .. Len(t.queue)
  <2>2. QED
    BY ONLY <1>8, <1>11, <2>1
<1>14. \A n \in found : \E k \in Len(q) .. Len(t.queue) : t.queue[k].node = n
  <2>1. ASSUME NEW n \in found PROVE \E k \in Len(q) .. Len(t.queue) : t.queue[k].node = n
    <3>1. PICK k \in 1 .. Cardinality(found) : e[k].node = n
      BY <1>8
    <3>2. k + Len(q) - 1 \in Len(q) .. Len(t.queue) /\ (k + Len(q) - 1) - (Len(q) - 1) = k
      BY ONLY <1>1, <1>8, <1>11, k \in 1 .. Cardinality(found)
    <3>3. t.queue[k + Len(q) - 1] = e[k]
      BY ONLY <1>11, <3>2
    <3>4. QED
      BY <3>1, <3>2, <3>3
  <2>2. QED
    BY <2>1
<1>15. QED
  <2>1. t.visited = s.visited \cup found
    BY ONLY <1>9
  <2>2. QED
    BY ONLY <1>1, <1>2, <1>4, <1>5, <1>8, <1>11, <1>12, <1>13, <1>14, <2>1

LEMMA SearchesAreLoops ==
    ASSUME NEW edges, NEW changed, NEW nodes, nodes = NodesOf(edges, changed), IsFiniteSet(nodes)
    PROVE  IsLoop(Searches(nodes), Exhausted(nodes), FurtherOf(edges, nodes), Pending(nodes))
<1>1. \A s \in Searches(nodes) : Len(s.queue) \in Nat
  BY DEF Searches
<1>2. \A s \in Searches(nodes) : IsFiniteSet(nodes \ s.visited) /\ Cardinality(nodes \ s.visited) \in Nat
  BY FS_Difference, FS_CardinalityType
<1>3. Pending(nodes) \in [Searches(nodes) -> Nat]
  <2>1. ASSUME NEW s \in Searches(nodes)
        PROVE  Cardinality(nodes \ s.visited) + Len(s.queue) \in Nat
    <3>1. Len(s.queue) \in Nat /\ Cardinality(nodes \ s.visited) \in Nat
      BY <1>1, <1>2
    <3> DEFINE left == nodes \ s.visited
    <3> HIDE DEF left
    <3>2. Len(s.queue) \in Nat /\ Cardinality(left) \in Nat
      BY <3>1 DEF left
    <3>3. Cardinality(left) + Len(s.queue) \in Nat
      BY ONLY <3>2
    <3>4. QED
      BY <3>3 DEF left
  <2>2. QED
    BY ONLY <2>1 DEF Pending
<1>4. FurtherOf(edges, nodes) \in [Searches(nodes) -> Searches(nodes)]
  BY Round DEF FurtherOf
<1>5. ASSUME NEW s \in Searches(nodes) \ Exhausted(nodes)
      PROVE  Pending(nodes)[FurtherOf(edges, nodes)[s]] < Pending(nodes)[s]
  <2> DEFINE t == Further(edges, s)
             found == FoundAt(edges, s)
             left == nodes \ s.visited
  <2>1. s.queue # <<>> /\ FurtherOf(edges, nodes)[s] = t
    BY DEF Exhausted, FurtherOf
  <2>2. /\ t \in Searches(nodes) /\ Len(s.queue) \in Nat /\ found \subseteq left
        /\ t.visited = s.visited \cup found /\ Cardinality(found) \in Nat
        /\ Len(t.queue) = Len(s.queue) - 1 + Cardinality(found)
    BY <2>1, Round
  <2>3. nodes \ t.visited = left \ found /\ left \cap found = found
    BY <2>2
  <2>4. IsFiniteSet(left) /\ Cardinality(left) \in Nat
    BY <1>2
  <2> HIDE DEF left, t, found
  <2>5. Cardinality(left \ found) = Cardinality(left) - Cardinality(left \cap found)
    BY ONLY <2>4, FS_Difference
  <2>6. Cardinality(nodes \ t.visited) = Cardinality(left) - Cardinality(found)
    BY <2>3, <2>5
  <2>7. Pending(nodes)[s] = Cardinality(left) + Len(s.queue)
    BY DEF Pending, left
  <2>8. Pending(nodes)[t] = Cardinality(nodes \ t.visited) + Len(t.queue)
    BY <2>2 DEF Pending
  <2>9. QED
    BY <2>1, <2>2, <2>4, <2>6, <2>7, <2>8
<1>6. Exhausted(nodes) \subseteq Searches(nodes)
  BY DEF Exhausted
<1>7. QED
  BY <1>3, <1>4, <1>5, <1>6 DEF IsLoop

LEMMA SearchExists ==
    ASSUME NEW edges, NEW changed, NEW nodes, nodes = NodesOf(edges, changed), IsFiniteSet(nodes)
    PROVE  \E f : IsSearch(f, edges, nodes)
<1> DEFINE out == [s \in Searches(nodes) |-> s.visited]
<1>1. PICK f : f = [s \in Searches(nodes) |->
                      IF s \in Exhausted(nodes) THEN out[s] ELSE f[FurtherOf(edges, nodes)[s]]]
  <2> DEFINE D == Searches(nodes)
             Done == Exhausted(nodes)
             step == FurtherOf(edges, nodes)
             measure == Pending(nodes)
  <2>1. IsLoop(D, Done, step, measure)
    BY SearchesAreLoops
  <2> HIDE DEF D, Done, step, measure, out
  <2>2. \E f : f = [s \in D |-> IF s \in Done THEN out[s] ELSE f[step[s]]]
    BY ONLY <2>1, LoopYields
  <2>3. QED
    BY ONLY <2>2 DEF D, Done, step
<1>2. ASSUME NEW s \in Searches(nodes)
      PROVE  (IF s \in Exhausted(nodes) THEN out[s] ELSE f[FurtherOf(edges, nodes)[s]])
               = (IF s.queue = <<>> THEN s.visited ELSE f[Further(edges, s)])
  BY DEF Exhausted, FurtherOf
<1>3. f = [s \in Searches(nodes) |-> IF s.queue = <<>> THEN s.visited ELSE f[Further(edges, s)]]
  BY <1>1, <1>2
<1>4. QED
  BY <1>3 DEF IsSearch

LEMMA BfsIsASearch ==
    ASSUME NEW edges, NEW changed, IsFiniteSet(NodesOf(edges, changed))
    PROVE  \E f : /\ IsSearch(f, edges, NodesOf(edges, changed))
                  /\ Bfs(edges, changed) = f[[queue |-> Entries(changed, 0), visited |-> changed]]
<1> DEFINE bfs == CHOOSE f : IsSearch(f, edges, NodesOf(edges, changed))
<1>1. IsSearch(bfs, edges, NodesOf(edges, changed))
  BY SearchExists
<1>2. Bfs(edges, changed) = bfs[[queue |-> Entries(changed, 0), visited |-> changed]]
  BY DEF Bfs, IsSearch, Entries, FoundAt, Further, Searches, NodesOf
<1>3. QED
  BY <1>1, <1>2

\* What is within each number of steps of the change.
Rings(edges, changed, w) ==
    /\ w[0] = changed
    /\ \A k \in 0 .. 2 : w[k + 1] = w[k] \cup UNION {Neighbours(edges, m) : m \in w[k]}

\* The search is at depth d.
SearchedTo(edges, w, s, d) ==
    LET q == s.queue IN
    /\ d \in 0 .. 3
    /\ \A k \in 1 .. Len(q) :
         /\ q[k].depth \in {d, d + 1}
         /\ q[k].depth <= 3
         /\ q[k].node \in w[q[k].depth] \cap s.visited
    /\ \A j, k \in 1 .. Len(q) : j < k => q[j].depth <= q[k].depth
    /\ w[d] \subseteq s.visited
    /\ \A n \in s.visited : n \in w[d] \/ \E k \in 1 .. Len(q) : q[k].depth = d + 1 /\ q[k].node = n
    /\ d < 3 => \A n \in w[d + 1] :
         n \in s.visited \/ \E k \in 1 .. Len(q) : q[k].depth = d /\ n \in Neighbours(edges, q[k].node)

\* When the first node in the queue is of the next depth, the search is there.
LEMMA NextRing ==
    ASSUME NEW edges, NEW changed, NEW w, Rings(edges, changed, w), NEW s, NEW d,
           SearchedTo(edges, w, s, d), Len(s.queue) \in Nat, Len(s.queue) > 0,
           s.queue[1].depth = d + 1
    PROVE  SearchedTo(edges, w, s, d + 1)
<1> DEFINE q == s.queue
           len == Len(q)
           near(m) == Neighbours(edges, m)
<1>1. /\ d \in 0 .. 3
      /\ \A k \in 1 .. len : /\ q[k].depth \in {d, d + 1}
                             /\ q[k].depth <= 3
                             /\ q[k].node \in w[q[k].depth] \cap s.visited
      /\ \A j, k \in 1 .. len : j < k => q[j].depth <= q[k].depth
      /\ w[d] \subseteq s.visited
      /\ \A n \in s.visited : n \in w[d] \/ \E k \in 1 .. len : q[k].depth = d + 1 /\ q[k].node = n
      /\ d < 3 => \A n \in w[d + 1] :
           n \in s.visited \/ \E k \in 1 .. len : q[k].depth = d /\ n \in near(q[k].node)
  BY ONLY SearchedTo(edges, w, s, d) DEF SearchedTo
<1>2. len \in Nat /\ len > 0 /\ q[1].depth = d + 1
  OBVIOUS
<1>3. w[d] \cup UNION {near(m) : m \in w[d]} = w[d + 1] /\ d \in 0 .. 2
  <2>1. d + 1 <= 3
    BY ONLY <1>1, <1>2
  <2>2. d \in 0 .. 2
    BY ONLY <1>1, <2>1
  <2>3. QED
    BY ONLY <2>2, Rings(edges, changed, w) DEF Rings
<1>4. d < 2 => w[d + 2] = w[d + 1] \cup UNION {near(m) : m \in w[d + 1]}
  <2>1. ASSUME d < 2 PROVE d + 1 \in 0 .. 2 /\ (d + 1) + 1 = d + 2
    BY ONLY <1>3, <2>1
  <2>2. QED
    BY ONLY <2>1, Rings(edges, changed, w) DEF Rings
<1> HIDE DEF q, len, near
<1>5. \A k \in 1 .. len : q[k].depth = d + 1
  <2>1. ASSUME NEW k \in 1 .. len PROVE q[k].depth = d + 1
    <3>1. CASE k = 1
      BY ONLY <1>2, <3>1
    <3>2. CASE k # 1
      <4>1. 1 \in 1 .. len /\ 1 < k
        BY ONLY <1>2, <3>2, k \in 1 .. len
      <4>2. q[1].depth <= q[k].depth
        BY ONLY <1>1, <4>1, k \in 1 .. len
      <4>3. q[k].depth \in {d, d + 1} /\ d \in Int
        BY ONLY <1>1, k \in 1 .. len
      <4>4. QED
        BY ONLY <1>2, <4>2, <4>3
    <3>3. QED
      BY ONLY <3>1, <3>2
  <2>2. QED
    BY ONLY <2>1
<1>6. \A k \in 1 .. len : q[k].depth # d
  BY ONLY <1>1, <1>5
<1>7. s.visited = w[d + 1]
  <2>1. w[d + 1] \subseteq s.visited
    BY ONLY <1>1, <1>3, <1>6
  <2>2. s.visited \subseteq w[d + 1]
    BY ONLY <1>1, <1>3, <1>5
  <2>3. QED
    BY ONLY <2>1, <2>2
<1>8. ASSUME d + 1 < 3, NEW n \in w[d + 2]
      PROVE  n \in s.visited \/ \E k \in 1 .. len : q[k].depth = d + 1 /\ n \in near(q[k].node)
  <2>1. d < 2
    BY ONLY <1>3, <1>8
  <2>2. CASE n \in w[d + 1]
    BY ONLY <1>7, <2>2
  <2>3. CASE \E m \in w[d + 1] : n \in near(m)
    <3>1. PICK m \in w[d + 1] : n \in near(m)
      BY ONLY <2>3
    <3>2. CASE m \in w[d]
      BY ONLY <1>3, <1>7, <3>1, <3>2
    <3>3. CASE m \notin w[d]
      <4>1. PICK k \in 1 .. len : q[k].depth = d + 1 /\ q[k].node = m
        BY ONLY <1>1, <1>7, <3>3
      <4>2. QED
        BY ONLY <3>1, <4>1
    <3>4. QED
      BY ONLY <3>2, <3>3
  <2>4. QED
    BY ONLY <1>4, <1>8, <2>1, <2>2, <2>3
<1>9. /\ d + 1 \in 0 .. 3 /\ d + 1 + 1 = d + 2
      /\ \A k \in 1 .. len : /\ q[k].depth \in {d + 1, d + 1 + 1}
                             /\ q[k].depth <= 3
                             /\ q[k].node \in w[q[k].depth] \cap s.visited
      /\ \A j, k \in 1 .. len : j < k => q[j].depth <= q[k].depth
      /\ w[d + 1] \subseteq s.visited
      /\ \A n \in s.visited : n \in w[d + 1]
  BY ONLY <1>1, <1>3, <1>5, <1>7
<1>10. QED
  BY ONLY <1>8, <1>9 DEF SearchedTo, q, len, near

\* A round with a node of the depth that the search is at.
LEMMA SameRing ==
    ASSUME NEW edges, NEW changed, NEW nodes, nodes = NodesOf(edges, changed), IsFiniteSet(nodes),
           NEW w, Rings(edges, changed, w), NEW s \in Searches(nodes), s.queue # <<>>, NEW d,
           SearchedTo(edges, w, s, d), s.queue[1].depth = d
    PROVE  SearchedTo(edges, w, Further(edges, s), d)
<1> DEFINE q == s.queue
           t == Further(edges, s)
           found == FoundAt(edges, s)
           u == t.queue
           near(m) == Neighbours(edges, m)
<1>1. /\ d \in 0 .. 3
      /\ \A k \in 1 .. Len(q) : /\ q[k].depth \in {d, d + 1}
                                /\ q[k].depth <= 3
                                /\ q[k].node \in w[q[k].depth] \cap s.visited
      /\ \A j, k \in 1 .. Len(q) : j < k => q[j].depth <= q[k].depth
      /\ w[d] \subseteq s.visited
      /\ \A n \in s.visited : n \in w[d] \/ \E k \in 1 .. Len(q) : q[k].depth = d + 1 /\ q[k].node = n
      /\ d < 3 => \A n \in w[d + 1] :
           n \in s.visited \/ \E k \in 1 .. Len(q) : q[k].depth = d /\ n \in near(q[k].node)
  BY ONLY SearchedTo(edges, w, s, d) DEF SearchedTo
<1>2. /\ Len(q) \in Nat /\ Len(q) > 0 /\ q[1].depth = d
      /\ found = IF d = 3 THEN {} ELSE near(q[1].node) \ s.visited
      /\ t.visited = s.visited \cup found
      /\ Cardinality(found) \in Nat
      /\ Len(u) = Len(q) - 1 + Cardinality(found)
      /\ \A k \in 1 .. Len(q) - 1 : u[k] = q[k + 1]
      /\ \A k \in Len(q) .. Len(u) : u[k].node \in found /\ u[k].depth = d + 1
      /\ \A n \in found : \E k \in Len(q) .. Len(u) : u[k].node = n
  BY ONLY nodes = NodesOf(edges, changed), IsFiniteSet(nodes), s \in Searches(nodes), s.queue # <<>>,
          s.queue[1].depth = d, Round
<1>3. d < 3 => w[d + 1] = w[d] \cup UNION {near(m) : m \in w[d]}
  <2>1. ASSUME d < 3 PROVE d \in 0 .. 2
    BY ONLY <1>1, <2>1
  <2>2. QED
    BY ONLY <2>1, Rings(edges, changed, w) DEF Rings
<1> HIDE DEF q, t, found, u, near
<1>4. q[1].node \in w[d]
  <2>1. 1 \in 1 .. Len(q)
    BY ONLY <1>2
  <2>2. QED
    BY ONLY <1>1, <1>2, <2>1
<1>5. found # {} => d < 3 /\ d \in 0 .. 2
  BY ONLY <1>1, <1>2
<1>6. found \subseteq w[d + 1]
  BY ONLY <1>2, <1>3, <1>4, <1>5
<1>7. ASSUME NEW k \in 1 .. Len(u)
      PROVE  \/ k \in 1 .. Len(q) - 1 /\ k + 1 \in 1 .. Len(q) /\ u[k] = q[k + 1]
             \/ k \in Len(q) .. Len(u) /\ d < 3 /\ u[k].node \in found /\ u[k].depth = d + 1
  <2>1. CASE k <= Len(q) - 1
    <3>1. k \in 1 .. Len(q) - 1 /\ k + 1 \in 1 .. Len(q)
      BY ONLY <1>2, <2>1, k \in 1 .. Len(u)
    <3>2. QED
      BY ONLY <1>2, <3>1
  <2>2. CASE ~(k <= Len(q) - 1)
    <3>1. k \in Len(q) .. Len(u)
      BY ONLY <1>2, <2>2, k \in 1 .. Len(u)
    <3>2. u[k].node \in found /\ u[k].depth = d + 1
      BY ONLY <1>2, <3>1
    <3>3. QED
      BY ONLY <1>5, <3>1, <3>2
  <2>3. QED
    BY ONLY <2>1, <2>2
<1>8. \A k \in 1 .. Len(q) : k # 1 => k - 1 \in 1 .. Len(u) /\ u[k - 1] = q[k]
  <2>1. ASSUME NEW k \in 1 .. Len(q), k # 1 PROVE k - 1 \in 1 .. Len(u) /\ u[k - 1] = q[k]
    <3>1. k - 1 \in 1 .. Len(q) - 1 /\ (k - 1) + 1 = k
      BY ONLY <1>2, <2>1
    <3>2. k - 1 \in 1 .. Len(u)
      BY ONLY <1>2, <2>1
    <3>3. QED
      BY ONLY <1>2, <3>1, <3>2
  <2>2. QED
    BY ONLY <2>1
<1>9. \A k \in Len(q) .. Len(u) : k \in 1 .. Len(u)
  BY ONLY <1>2
<1>10. ASSUME NEW k \in 1 .. Len(u)
       PROVE  u[k].depth \in {d, d + 1} /\ u[k].depth <= 3 /\ u[k].node \in w[u[k].depth] \cap t.visited
  <2>1. CASE k \in 1 .. Len(q) - 1 /\ k + 1 \in 1 .. Len(q) /\ u[k] = q[k + 1]
    BY ONLY <1>1, <1>2, <2>1
  <2>2. CASE k \in Len(q) .. Len(u) /\ d < 3 /\ u[k].node \in found /\ u[k].depth = d + 1
    <3>1. d + 1 <= 3
      BY ONLY <1>1, <2>2
    <3>2. u[k].node \in w[d + 1] /\ u[k].node \in t.visited
      BY ONLY <1>2, <1>6, <2>2
    <3>3. QED
      BY ONLY <2>2, <3>1, <3>2
  <2>3. QED
    BY ONLY <1>7, <2>1, <2>2
<1>11. ASSUME NEW j \in 1 .. Len(u), NEW k \in 1 .. Len(u), j < k
       PROVE  u[j].depth <= u[k].depth
  <2>1. CASE k \in Len(q) .. Len(u)
    <3>1. u[k].depth = d + 1 /\ u[j].depth \in {d, d + 1} /\ d \in Int
      <4>1. u[k].depth = d + 1
        BY ONLY <1>2, <2>1
      <4>2. u[j].depth \in {d, d + 1}
        BY ONLY <1>10, j \in 1 .. Len(u)
      <4>3. d \in Int
        BY ONLY <1>1
      <4>4. QED
        BY ONLY <4>1, <4>2, <4>3
    <3>2. QED
      BY ONLY <3>1
  <2>2. CASE k \in 1 .. Len(q) - 1
    <3>1. j \in 1 .. Len(q) - 1 /\ j + 1 \in 1 .. Len(q) /\ k + 1 \in 1 .. Len(q) /\ j + 1 < k + 1
      BY ONLY <1>2, <1>11, <2>2
    <3>2. q[j + 1].depth <= q[k + 1].depth
      BY ONLY <1>1, <3>1
    <3>3. QED
      BY ONLY <1>2, <2>2, <3>1, <3>2
  <2>3. QED
    BY ONLY <1>7, <2>1, <2>2
<1>12. w[d] \subseteq t.visited
  BY ONLY <1>1, <1>2
<1>13. ASSUME NEW n \in t.visited
       PROVE  n \in w[d] \/ \E k \in 1 .. Len(u) : u[k].depth = d + 1 /\ u[k].node = n
  <2>1. CASE n \in found
    BY ONLY <1>2, <1>9, <2>1
  <2>2. CASE n \in s.visited /\ n \notin w[d]
    <3>1. PICK k \in 1 .. Len(q) : q[k].depth = d + 1 /\ q[k].node = n
      BY ONLY <1>1, <2>2
    <3>2. k # 1
      BY ONLY <1>1, <1>2, <3>1
    <3>3. QED
      BY ONLY <1>8, <3>1, <3>2
  <2>3. QED
    BY ONLY <1>2, <2>1, <2>2
<1>14. ASSUME d < 3, NEW n \in w[d + 1]
       PROVE  n \in t.visited \/ \E k \in 1 .. Len(u) : u[k].depth = d /\ n \in near(u[k].node)
  <2>1. CASE n \in s.visited
    BY ONLY <1>2, <2>1
  <2>2. CASE n \notin s.visited
    <3>1. PICK k \in 1 .. Len(q) : q[k].depth = d /\ n \in near(q[k].node)
      BY ONLY <1>1, <1>14, <2>2
    <3>2. CASE k = 1
      BY ONLY <1>1, <1>2, <1>14, <2>2, <3>1, <3>2
    <3>3. CASE k # 1
      BY ONLY <1>8, <3>1, <3>3
    <3>4. QED
      BY ONLY <3>2, <3>3
  <2>3. QED
    BY ONLY <2>1, <2>2
<1>15. QED
  BY ONLY <1>1, <1>10, <1>11, <1>12, <1>13, <1>14 DEF SearchedTo, u, t, near

\* So the search finds what is within three steps.
LEMMA SearchIsExact ==
    ASSUME NEW edges, NEW changed, NEW nodes, nodes = NodesOf(edges, changed), IsFiniteSet(nodes),
           NEW w, Rings(edges, changed, w), NEW f, IsSearch(f, edges, nodes),
           NEW s \in Searches(nodes), NEW d, SearchedTo(edges, w, s, d)
    PROVE  f[s] = w[3]
<1> DEFINE D == Searches(nodes)
           Done == Exhausted(nodes)
           step == FurtherOf(edges, nodes)
           measure == Pending(nodes)
           at(r) == \E e \in 0 .. 3 : SearchedTo(edges, w, r, e)
           Good == {r \in D : at(r) => f[r] = w[3]}
<1>1. IsLoop(D, Done, step, measure)
  BY SearchesAreLoops
<1>2. ASSUME NEW r \in D \cap Done, NEW e, SearchedTo(edges, w, r, e) PROVE f[r] = w[3]
  <2>1. f[r] = r.visited /\ Len(r.queue) = 0
    BY DEF IsSearch, Exhausted
  <2>2. /\ e \in 0 .. 3 /\ w[e] \subseteq r.visited
        /\ \A n \in r.visited : n \in w[e] \/ \E k \in 1 .. Len(r.queue) : TRUE
        /\ e < 3 => \A n \in w[e + 1] : n \in r.visited \/ \E k \in 1 .. Len(r.queue) : TRUE
    BY ONLY <1>2 DEF SearchedTo
  <2>3. 1 .. Len(r.queue) = {}
    BY ONLY <2>1
  <2>4. r.visited = w[e] /\ (e < 3 => w[e + 1] \subseteq w[e])
    BY ONLY <2>2, <2>3
  <2> DEFINE near(S) == S \cup UNION {Neighbours(edges, m) : m \in S}
  <2>5. \A k \in 0 .. 2 : w[k + 1] = near(w[k])
    BY ONLY Rings(edges, changed, w) DEF Rings
  <2>6. \A S : S \subseteq near(S)
    OBVIOUS
  <2> HIDE DEF near
  <2>7. w[1] = near(w[0]) /\ w[2] = near(w[1]) /\ w[3] = near(w[2])
    BY ONLY <2>5
  <2>8. e < 3 => w[e + 1] = near(w[e]) /\ w[e + 1] = w[e]
    <3>1. ASSUME e < 3 PROVE w[e + 1] = near(w[e])
      BY ONLY <2>2, <2>5, <3>1
    <3>2. QED
      BY ONLY <2>4, <2>6, <3>1
  <2>9. CASE e = 3
    BY ONLY <2>1, <2>4, <2>9
  <2>10. CASE e = 2
    BY ONLY <2>1, <2>4, <2>8, <2>10
  <2>11. CASE e = 1
    <3>1. w[2] = w[1]
      BY ONLY <2>8, <2>11
    <3>2. QED
      BY ONLY <2>1, <2>4, <2>7, <2>11, <3>1
  <2>12. CASE e = 0
    <3>1. w[1] = w[0]
      BY ONLY <2>8, <2>12
    <3>2. QED
      BY ONLY <2>1, <2>4, <2>7, <2>12, <3>1
  <2>13. QED
    BY ONLY <2>2, <2>9, <2>10, <2>11, <2>12
<1>3. ASSUME NEW r \in D \ Done, step[r] \in Good, NEW e, SearchedTo(edges, w, r, e) PROVE f[r] = w[3]
  <2>1. r \in D /\ r.queue # <<>> /\ step[r] = Further(edges, r) /\ f[r] = f[Further(edges, r)]
    BY DEF IsSearch, Exhausted, FurtherOf
  <2>2. Len(r.queue) \in Nat /\ Len(r.queue) > 0
    BY <2>1, Round
  <2>3. r.queue[1].depth \in {e, e + 1} /\ e \in 0 .. 3 /\ r.queue[1].depth <= 3
    <3>1. 1 \in 1 .. Len(r.queue)
      BY ONLY <2>2
    <3>2. QED
      BY ONLY <1>3, <3>1 DEF SearchedTo
  <2>4. PICK g \in 0 .. 3 : SearchedTo(edges, w, r, g) /\ r.queue[1].depth = g
    <3>1. CASE r.queue[1].depth = e
      BY ONLY <1>3, <2>3, <3>1
    <3>2. CASE r.queue[1].depth = e + 1
      <4>1. SearchedTo(edges, w, r, e + 1)
        BY ONLY <1>3, <2>2, <3>2, Rings(edges, changed, w), NextRing
      <4>2. QED
        BY ONLY <2>3, <3>2, <4>1
    <3>3. QED
      BY ONLY <2>3, <3>1, <3>2
  <2>5. SearchedTo(edges, w, Further(edges, r), g)
    BY <2>1, <2>4, SameRing
  <2>6. QED
    BY <1>3, <2>1, <2>5, <2>4
<1>4. Good \in SUBSET D /\ (\A r \in D \cap Done : r \in Good) /\ (\A r \in D \ Done : step[r] \in Good => r \in Good)
  BY <1>2, <1>3
<1> HIDE DEF Good, D, Done, step, measure
<1>5. D \subseteq Good
  BY ONLY <1>1, <1>4, LoopInduction
<1>6. d \in 0 .. 3
  BY DEF SearchedTo
<1>7. QED
  BY <1>5, <1>6 DEF Good, D

\* The rings are those of Within.
LEMMA WithinIsTheLastRing ==
    ASSUME NEW edges, NEW changed
    PROVE  \E w : Rings(edges, changed, w) /\ Within(edges, MaxDepth, changed) = w[3]
<1> DEFINE steps == {<<e.from, e.to>> : e \in edges}
                    \cup {<<e.to, e.from>> : e \in {e \in edges : ~e.directed}}
           near(S) == S \cup {p[2] : p \in {p \in steps : p[1] \in S}}
           one == near(changed)
           two == near(one)
           IsWithin(f) == f = [k \in 0 .. MaxDepth |-> IF k = 0 THEN changed ELSE near(f[k - 1])]
           all == [k \in 0 .. 3 |-> IF k = 0 THEN changed ELSE IF k = 1 THEN one ELSE IF k = 2 THEN two ELSE near(two)]
           within == CHOOSE f : IsWithin(f)
<1>1. Within(edges, MaxDepth, changed) = within[MaxDepth]
  BY DEF Within
<1>2. \A S : near(S) = S \cup UNION {Neighbours(edges, m) : m \in S}
  <2>1. ASSUME NEW S, NEW n PROVE (\E p \in steps : p[1] \in S /\ p[2] = n) <=> (\E m \in S : n \in Neighbours(edges, m))
    <3>1. \A p : p \in steps <=> \E e \in edges : p = <<e.from, e.to>> \/ (~e.directed /\ p = <<e.to, e.from>>)
      BY ONLY TRUE
    <3>2. \A m : n \in Neighbours(edges, m) <=>
            \E e \in edges : (e.from = m /\ e.to = n) \/ (e.to = m /\ ~e.directed /\ e.from = n)
      BY ONLY TRUE DEF Neighbours
    <3>3. \A a, b : <<a, b>>[1] = a /\ <<a, b>>[2] = b
      BY ONLY TRUE
    <3> HIDE DEF steps
    <3>4. ASSUME NEW p \in steps, p[1] \in S, p[2] = n PROVE \E m \in S : n \in Neighbours(edges, m)
      BY ONLY <3>1, <3>2, <3>3, <3>4
    <3>5. ASSUME NEW m \in S, n \in Neighbours(edges, m) PROVE \E p \in steps : p[1] \in S /\ p[2] = n
      <4>1. <<m, n>> \in steps
        BY ONLY <3>1, <3>2, <3>5
      <4>2. QED
        BY ONLY <3>3, <4>1, m \in S
    <3>6. QED
      BY ONLY <3>4, <3>5
  <2> HIDE DEF steps
  <2>2. QED
    BY ONLY <2>1
<1> HIDE DEF near
<1>3. all[0] = changed /\ all[1] = near(all[0]) /\ all[2] = near(all[1]) /\ all[3] = near(all[2])
  OBVIOUS
<1>4. \A k \in 0 .. 3 : all[k] = IF k = 0 THEN changed ELSE near(all[k - 1])
  BY ONLY <1>3
<1>5. all = [k \in 0 .. 3 |-> all[k]]
  OBVIOUS
<1> HIDE DEF all
<1>6. IsWithin(all)
  BY ONLY <1>4, <1>5 DEF MaxDepth
<1>7. IsWithin(within)
  BY <1>6
<1> HIDE DEF within
<1>8. \A k \in 0 .. 3 : within[k] = IF k = 0 THEN changed ELSE near(within[k - 1])
  BY ONLY <1>7 DEF MaxDepth
<1>9. within[0] = changed
  BY ONLY <1>8
<1>10. \A k \in 0 .. 2 : within[k + 1] = near(within[k])
  <2>1. ASSUME NEW k \in 0 .. 2 PROVE within[k + 1] = near(within[k])
    <3>1. k + 1 \in 0 .. 3 /\ k + 1 # 0 /\ (k + 1) - 1 = k
      OBVIOUS
    <3>2. QED
      BY ONLY <1>8, <3>1
  <2>2. QED
    BY ONLY <2>1
<1>11. Rings(edges, changed, within)
  BY ONLY <1>2, <1>9, <1>10 DEF Rings
<1>12. QED
  BY <1>1, <1>11 DEF MaxDepth

LEMMA BfsIsExact ==
    ASSUME NEW edges, NEW changed, IsFiniteSet(NodesOf(edges, changed))
    PROVE  \E w : /\ Rings(edges, changed, w)
                  /\ Within(edges, MaxDepth, changed) = w[3]
                  /\ Bfs(edges, changed) = w[3]
<1> DEFINE nodes == NodesOf(edges, changed)
           e == Entries(changed, 0)
           s == [queue |-> e, visited |-> changed]
<1>1. PICK w : Rings(edges, changed, w) /\ Within(edges, MaxDepth, changed) = w[3]
  BY WithinIsTheLastRing
<1>2. PICK f : IsSearch(f, edges, nodes) /\ Bfs(edges, changed) = f[s]
  BY BfsIsASearch
<1>3. changed \subseteq nodes
  BY DEF NodesOf
<1>4. IsFiniteSet(changed)
  BY <1>3, FS_Subset
<1> DEFINE T == {[node |-> n, depth |-> 0] : n \in changed}
<1>5. /\ e \in Seq(T) /\ Len(e) = Cardinality(changed) /\ Cardinality(changed) \in Nat
      /\ \A n \in changed : \E k \in 1 .. Cardinality(changed) : e[k] = [node |-> n, depth |-> 0]
  BY <1>4, EntriesOf
<1>6. \A x \in T : x \in [node : nodes, depth : 0 .. MaxDepth] /\ x.node \in changed /\ x.depth = 0
  BY <1>3 DEF MaxDepth
<1> HIDE DEF T, e, nodes
<1>7. T \subseteq [node : nodes, depth : 0 .. MaxDepth]
  BY ONLY <1>6
<1>8. e \in Seq([node : nodes, depth : 0 .. MaxDepth]) /\ \A k \in 1 .. Len(e) : e[k] \in T
  <2> DEFINE E == [node : nodes, depth : 0 .. MaxDepth]
  <2>1. T \subseteq E
    BY <1>7
  <2> HIDE DEF E
  <2>2. e \in Seq(E) /\ \A k \in 1 .. Len(e) : e[k] \in T
    BY ONLY <1>5, <2>1
  <2>3. QED
    BY <2>2 DEF E
<1>9. s \in Searches(nodes)
  BY <1>3, <1>8 DEF Searches
<1>10. /\ w[0] = changed
       /\ \A k \in 0 .. 2 : w[k + 1] = w[k] \cup UNION {Neighbours(edges, m) : m \in w[k]}
  BY ONLY <1>1 DEF Rings
<1>11. ASSUME NEW n \in w[1]
       PROVE  n \in changed \/ \E k \in 1 .. Len(e) : e[k].depth = 0 /\ n \in Neighbours(edges, e[k].node)
  <2>1. w[1] = w[0] \cup UNION {Neighbours(edges, m) : m \in w[0]}
    BY ONLY <1>10
  <2>2. CASE n \notin changed
    <3>1. PICK m \in changed : n \in Neighbours(edges, m)
      BY ONLY <1>10, <2>1, <2>2, n \in w[1]
    <3>2. PICK k \in 1 .. Len(e) : e[k] = [node |-> m, depth |-> 0]
      BY ONLY <1>5, m \in changed
    <3>3. e[k].depth = 0 /\ e[k].node = m
      BY ONLY <3>2
    <3>4. QED
      BY ONLY <3>1, <3>3
  <2>3. QED
    BY <2>2
<1>12. SearchedTo(edges, w, s, 0)
  <2>1. \A k \in 1 .. Len(e) : e[k].node \in changed /\ e[k].depth = 0
    BY ONLY <1>6, <1>8
  <2>2. s.queue = e /\ s.visited = changed
    OBVIOUS
  <2> HIDE DEF s
  <2>3. QED
    BY ONLY <1>10, <1>11, <2>1, <2>2 DEF SearchedTo
<1> HIDE DEF s
<1>13. nodes = NodesOf(edges, changed) /\ IsFiniteSet(nodes)
  BY DEF nodes
<1>14. f[s] = w[3]
  BY ONLY <1>1, <1>2, <1>9, <1>12, <1>13, SearchIsExact
<1>15. QED
  BY <1>1, <1>2, <1>14

-----------------------------------------------------------------------------
(***************************************************************************)
(* What the graph is read from stays finite: the maps, the snapshots and   *)
(* the history.                                                            *)
(***************************************************************************)
SurfacesAre(surfaces) ==
    /\ surfaces = [r \in RootSet |-> surfaces[r]]
    /\ \A r \in RootSet : IsFiniteSet(DOMAIN surfaces[r])
MapsAre(m) ==
    /\ m = [r \in RootSet |-> m[r]]
    /\ \A r \in RootSet : IsMap(m[r])
EcosystemIsFinite ==
    /\ MapsAre(maps)
    /\ SurfacesAre(snapshots)
    /\ SurfacesAre(code)
    /\ IsLog(commits)

LEMMA LogsJoin ==
    ASSUME NEW log, NEW other, IsLog(log), IsLog(other)
    PROVE  IsLog(log \o other)
<1> DEFINE S == Range(log) \cup Range(other)
           both == log \o other
<1>1. log \in Seq(S) /\ other \in Seq(S)
  <2>1. log \in Seq(Range(log)) /\ other \in Seq(Range(other))
    BY ONLY IsLog(log), IsLog(other) DEF IsLog
  <2>2. Range(log) \subseteq S /\ Range(other) \subseteq S
    OBVIOUS
  <2> HIDE DEF S
  <2>3. QED
    BY ONLY <2>1, <2>2
<1> HIDE DEF S
<1>2. /\ both \in Seq(S) /\ Len(both) = Len(log) + Len(other)
      /\ \A i \in 1 .. Len(log) + Len(other) : both[i] = IF i <= Len(log) THEN log[i] ELSE other[i - Len(log)]
  BY ONLY <1>1, ConcatProperties, Zenon
<1>3. Len(log) \in Nat /\ DOMAIN log = 1 .. Len(log) /\ Len(other) \in Nat /\ DOMAIN other = 1 .. Len(other)
  BY ONLY <1>1
<1> HIDE DEF both
<1>4. DOMAIN both = 1 .. Len(log) + Len(other)
  BY ONLY <1>2
<1>5. both \in Seq(Range(both))
  BY ONLY <1>2 DEF Range
<1>6. ASSUME NEW k \in DOMAIN both PROVE IsFiniteSet(both[k].files)
  <2>1. CASE k <= Len(log)
    <3>1. k \in DOMAIN log /\ both[k] = log[k]
      BY ONLY <1>2, <1>3, <1>4, <2>1, k \in DOMAIN both
    <3>2. QED
      BY ONLY <3>1, IsLog(log) DEF IsLog
  <2>2. CASE ~(k <= Len(log))
    <3>1. k - Len(log) \in DOMAIN other /\ both[k] = other[k - Len(log)]
      BY ONLY <1>2, <1>3, <1>4, <2>2, k \in DOMAIN both
    <3>2. QED
      BY ONLY <3>1, IsLog(other) DEF IsLog
  <2>3. QED
    BY ONLY <2>1, <2>2
<1>7. QED
  BY ONLY <1>5, <1>6 DEF IsLog, both

LEMMA OneCommit ==
    ASSUME NEW root, NEW day, NEW S, IsFiniteSet(S)
    PROVE  IsLog(<<[root |-> root, day |-> day, files |-> S]>>)
<1> DEFINE c == [root |-> root, day |-> day, files |-> S]
<1>1. c.files = S
  OBVIOUS
<1> HIDE DEF c
<1>2. <<c>> \in Seq(Range(<<c>>)) /\ \A k \in DOMAIN <<c>> : <<c>>[k] = c
  BY DEF Range
<1>3. IsLog(<<c>>)
  BY ONLY <1>1, <1>2, IsFiniteSet(S) DEF IsLog
<1>4. QED
  BY <1>3 DEF c

LEMMA CoChangesAreFinite ==
    ASSUME EcosystemIsFinite, NEW r
    PROVE  IsFiniteSet(CoChanges(r))
<1>1. IsLog(Log)
  <2>1. IsLog(History) /\ IsLog(commits)
    BY ONLY ImpactAssumption, EcosystemIsFinite DEF EcosystemIsFinite
  <2>2. QED
    BY ONLY <2>1, LogsJoin DEF Log
<1>2. IsFiniteSet(DOMAIN Log)
  <2>1. Log \in Seq(Range(Log))
    BY ONLY <1>1 DEF IsLog
  <2>2. DOMAIN Log = 1 .. Len(Log) /\ Len(Log) \in Nat
    BY ONLY <2>1
  <2>3. QED
    BY ONLY <2>2, FS_Interval
<1> DEFINE f == [k \in DOMAIN Log |-> PairsIn(Log[k].files)]
<1>3. IsFiniteSet(OfRoot(r)) /\ OfRoot(r) \subseteq DOMAIN Log
  BY <1>2, FS_Subset DEF OfRoot
<1>4. ASSUME NEW k \in OfRoot(r) PROVE IsFiniteSet(f[k])
  <2>1. IsFiniteSet(Log[k].files)
    BY ONLY <1>1, <1>3, k \in OfRoot(r) DEF IsLog
  <2> DEFINE S == Log[k].files
  <2> HIDE DEF S
  <2>2. IsFiniteSet(S \X S)
    BY ONLY <2>1, FS_Product DEF S
  <2>3. PairsIn(S) \subseteq S \X S
    BY DEF PairsIn
  <2>4. IsFiniteSet(PairsIn(S))
    BY ONLY <2>2, <2>3, FS_Subset
  <2>5. f[k] = PairsIn(S)
    BY <1>3 DEF S
  <2>6. QED
    BY ONLY <2>4, <2>5
<1>5. \A k \in OfRoot(r) : f[k] = PairsIn(Log[k].files)
  BY <1>3
<1> HIDE DEF f
<1>6. IsFiniteSet(UNION {f[k] : k \in OfRoot(r)})
  BY ONLY <1>3, <1>4, UnionIsFinite
<1>7. CoChanges(r) \subseteq UNION {f[k] : k \in OfRoot(r)}
  BY <1>5 DEF CoChanges
<1>8. QED
  BY <1>6, <1>7, FS_Subset

LEMMA MapWithModule ==
    ASSUME NEW map, IsMap(map), NEW f, NEW reqs, NEW deps, NEW inferred,
           IsFiniteSet(reqs), IsFiniteSet(deps)
    PROVE  IsMap([map EXCEPT !.modules =
                    With(@, f, [reqs |-> reqs, deps |-> deps, inferred |-> inferred])])
<1> DEFINE module == [reqs |-> reqs, deps |-> deps, inferred |-> inferred]
           grown  == With(map.modules, f, module)
           new    == [map EXCEPT !.modules = With(@, f, module)]
           Fine(m) == /\ m = [reqs |-> m.reqs, deps |-> m.deps, inferred |-> m.inferred]
                      /\ IsFiniteSet(m.reqs)
                      /\ IsFiniteSet(m.deps)
<1>1. /\ map = [project |-> map.project, modules |-> map.modules]
      /\ IsFiniteSet(DOMAIN map.modules)
      /\ \A g \in DOMAIN map.modules : Fine(map.modules[g])
  BY ONLY IsMap(map) DEF IsMap
<1>2. Fine(module)
  <2>1. module.reqs = reqs /\ module.deps = deps /\ module.inferred = inferred
    OBVIOUS
  <2>2. QED
    BY ONLY <2>1, IsFiniteSet(reqs), IsFiniteSet(deps)
<1> HIDE DEF Fine, module
<1>3. /\ DOMAIN grown = DOMAIN map.modules \cup {f}
      /\ \A g \in DOMAIN grown : grown[g] = IF g = f THEN module ELSE map.modules[g]
  BY DEF With
<1>4. IsFiniteSet(DOMAIN grown)
  BY ONLY <1>1, <1>3, FS_AddElement
<1>5. \A g \in DOMAIN grown : Fine(grown[g])
  BY ONLY <1>1, <1>2, <1>3
<1> DEFINE m == map.modules
           p == map.project
<1>6. new = [project |-> p, modules |-> grown]
  <2> HIDE DEF m, p
  <2>1. map = [project |-> p, modules |-> m]
    BY ONLY <1>1 DEF m, p
  <2>2. [map EXCEPT !.modules = With(@, f, module)] = [project |-> p, modules |-> With(m, f, module)]
    BY ONLY <2>1
  <2>3. QED
    BY ONLY <2>2 DEF m
<1> HIDE DEF grown, p, m, new
<1>7. new.project = p /\ new.modules = grown
  BY ONLY <1>6
<1>8. new = [project |-> new.project, modules |-> new.modules]
  BY ONLY <1>6, <1>7
<1>9. IsMap(new)
  BY ONLY <1>4, <1>5, <1>7, <1>8 DEF IsMap, Fine
<1>10. QED
  BY <1>9 DEF new, module

\* The steps of the ecosystem.
LEMMA MapInitStep ==
    ASSUME EcosystemIsFinite, NEW r \in RootSet, MapInit(r)
    PROVE  EcosystemIsFinite'
<1> DEFINE pairs == CoChanges(r)
           files1 == {p[1] : p \in pairs}
           files2 == {p[2] : p \in pairs}
           partners(f) == {p[1] : p \in {p \in pairs : p[2] = f}} \cup {p[2] : p \in {p \in pairs : p[1] = f}}
           module == [f \in files1 \cup files2 |-> [NoModule EXCEPT !.inferred = partners(f)]]
           new == [project |-> Names[r], modules |-> module]
<1>1. maps' = [maps EXCEPT ![r] = new] /\ UNCHANGED <<snapshots, code, commits>>
  BY DEF MapInit
<1>2. IsFiniteSet(pairs)
  BY CoChangesAreFinite
<1>3. IsFiniteSet(files1 \cup files2)
  <2> DEFINE f1 == [p \in pairs |-> p[1]]
             f2 == [p \in pairs |-> p[2]]
  <2>1. files1 = {f1[p] : p \in pairs} /\ files2 = {f2[p] : p \in pairs}
    OBVIOUS
  <2> HIDE DEF f1, f2, files1, files2, pairs
  <2>2. IsFiniteSet(files1) /\ IsFiniteSet(files2)
    BY ONLY <1>2, <2>1, ImageIsFinite
  <2>3. QED
    BY ONLY <2>2, FS_Union
<1>4. \A f \in files1 \cup files2 : module[f] = [reqs |-> {}, deps |-> {}, inferred |-> partners(f)]
  BY DEF NoModule
<1>5. DOMAIN module = files1 \cup files2
  OBVIOUS
<1> HIDE DEF module, partners, files1, files2
<1>6. new.project = Names[r] /\ new.modules = module /\ new = [project |-> new.project, modules |-> new.modules]
  OBVIOUS
<1> HIDE DEF new
<1>7. ASSUME NEW f \in DOMAIN module
      PROVE  /\ module[f] = [reqs |-> module[f].reqs, deps |-> module[f].deps, inferred |-> module[f].inferred]
             /\ IsFiniteSet(module[f].reqs) /\ IsFiniteSet(module[f].deps)
  <2>1. module[f] = [reqs |-> {}, deps |-> {}, inferred |-> partners(f)]
    BY ONLY <1>4, <1>5, f \in DOMAIN module
  <2>2. module[f].reqs = {} /\ module[f].deps = {} /\ module[f].inferred = partners(f)
    BY ONLY <2>1
  <2>3. QED
    BY ONLY <2>1, <2>2, FS_EmptySet
<1>8. IsMap(new)
  BY ONLY <1>3, <1>5, <1>6, <1>7 DEF IsMap
<1>9. MapsAre(maps')
  BY ONLY <1>1, <1>8, EcosystemIsFinite, r \in RootSet DEF EcosystemIsFinite, MapsAre
<1>10. QED
  BY ONLY <1>1, <1>9, EcosystemIsFinite DEF EcosystemIsFinite

\* A map whose modules grow by one is a map.
LEMMA GrownMaps ==
    ASSUME MapsAre(maps), NEW r, NEW f, NEW module, NEW reqs, NEW deps, NEW inferred,
           IsFiniteSet(reqs), IsFiniteSet(deps),
           module = [reqs |-> reqs, deps |-> deps, inferred |-> inferred],
           maps' = [maps EXCEPT ![r].modules = With(@, f, module)]
    PROVE  MapsAre(maps')
<1> DEFINE new == [maps[r] EXCEPT !.modules = With(@, f, module)]
<1>1. maps' = [maps EXCEPT ![r] = new]
  OBVIOUS
<1>2. r \in RootSet => IsMap(new)
  BY ONLY MapsAre(maps), IsFiniteSet(reqs), IsFiniteSet(deps),
          module = [reqs |-> reqs, deps |-> deps, inferred |-> inferred], MapWithModule DEF MapsAre
<1> HIDE DEF new
<1>3. QED
  BY ONLY <1>1, <1>2, MapsAre(maps) DEF MapsAre

LEMMA ModulesAreFinite ==
    ASSUME EcosystemIsFinite, NEW r \in RootSet, NEW f
    PROVE  /\ Module(r, f) = [reqs |-> Module(r, f).reqs, deps |-> Module(r, f).deps,
                              inferred |-> Module(r, f).inferred]
           /\ IsFiniteSet(Module(r, f).reqs) /\ IsFiniteSet(Module(r, f).deps)
<1>1. CASE f \in DOMAIN maps[r].modules
  <2>1. IsMap(maps[r])
    BY ONLY EcosystemIsFinite, r \in RootSet DEF EcosystemIsFinite, MapsAre
  <2>2. Module(r, f) = maps[r].modules[f]
    BY <1>1 DEF Module
  <2>3. QED
    BY ONLY <1>1, <2>1, <2>2 DEF IsMap
<1>2. CASE f \notin DOMAIN maps[r].modules
  BY <1>2, FS_EmptySet DEF Module, NoModule
<1>3. QED
  BY <1>1, <1>2

LEMMA MapPromoteStep ==
    ASSUME EcosystemIsFinite, NEW r, NEW f, NEW i, MapPromote(r, f, i)
    PROVE  EcosystemIsFinite'
<1> DEFINE m == Module(r, f)
           reqs == m.reqs \cup {i}
           inferred == m.inferred \ {ReqName(i)}
           module == [m EXCEPT !.reqs = @ \cup {i}, !.inferred = @ \ {ReqName(i)}]
<1>1. maps' = [maps EXCEPT ![r].modules = With(@, f, module)] /\ UNCHANGED <<snapshots, code, commits>>
  BY DEF MapPromote
<1>2. CASE r \in RootSet
  <2>1. m = [reqs |-> m.reqs, deps |-> m.deps, inferred |-> m.inferred] /\ IsFiniteSet(m.reqs) /\ IsFiniteSet(m.deps)
    BY <1>2, ModulesAreFinite
  <2> HIDE DEF m
  <2>2. module = [reqs |-> reqs, deps |-> m.deps, inferred |-> inferred]
    <3> DEFINE a == m.reqs
               b == m.deps
               c == m.inferred
    <3>1. m = [reqs |-> a, deps |-> b, inferred |-> c]
      BY ONLY <2>1
    <3> HIDE DEF a, b, c
    <3>2. [m EXCEPT !.reqs = @ \cup {i}, !.inferred = @ \ {ReqName(i)}]
            = [reqs |-> a \cup {i}, deps |-> b, inferred |-> c \ {ReqName(i)}]
      <4> DEFINE d == a \cup {i}
                 e == c \ {ReqName(i)}
      <4>1. m.reqs = a /\ m.inferred = c
        BY ONLY <3>1
      <4> HIDE DEF d, e
      <4>2. [m EXCEPT !.reqs = d, !.inferred = e] = [reqs |-> d, deps |-> b, inferred |-> e]
        <5>1. [m EXCEPT !.reqs = d] = [reqs |-> d, deps |-> b, inferred |-> c]
          BY ONLY <3>1
        <5> DEFINE x == [m EXCEPT !.reqs = d]
        <5>2. [m EXCEPT !.reqs = d, !.inferred = e] = [x EXCEPT !.inferred = e]
          BY ONLY TRUE
        <5> HIDE DEF x
        <5>3. x = [reqs |-> d, deps |-> b, inferred |-> c]
          BY ONLY <5>1 DEF x
        <5>4. [x EXCEPT !.inferred = e] = [reqs |-> d, deps |-> b, inferred |-> e]
          BY ONLY <5>3
        <5>5. QED
          BY ONLY <5>2, <5>4
      <4>3. QED
        BY ONLY <4>1, <4>2 DEF d, e
    <3>3. QED
      BY ONLY <3>2 DEF a, b, c
  <2>3. IsFiniteSet(reqs)
    BY ONLY <2>1, FS_AddElement
  <2> HIDE DEF module, reqs, inferred
  <2>4. MapsAre(maps')
    BY ONLY <1>1, <2>1, <2>2, <2>3, EcosystemIsFinite, GrownMaps DEF EcosystemIsFinite
  <2>5. QED
    BY ONLY <1>1, <2>4, EcosystemIsFinite DEF EcosystemIsFinite
<1>3. CASE r \notin RootSet
  <2>1. maps' = maps
    BY <1>1, <1>3 DEF EcosystemIsFinite, MapsAre
  <2>2. QED
    BY ONLY <1>1, <2>1, EcosystemIsFinite DEF EcosystemIsFinite
<1>4. QED
  BY <1>2, <1>3

LEMMA DeclareStep ==
    ASSUME EcosystemIsFinite, NEW r, NEW f, NEW declaration, Declare(r, f, declaration)
    PROVE  EcosystemIsFinite'
<1> DEFINE m == Module(r, f)
           deps == m.deps \cup {declaration}
           module == [m EXCEPT !.deps = @ \cup {declaration}]
<1>1. maps' = [maps EXCEPT ![r].modules = With(@, f, module)] /\ UNCHANGED <<snapshots, code, commits>>
  BY DEF Declare
<1>2. CASE r \in RootSet
  <2>1. m = [reqs |-> m.reqs, deps |-> m.deps, inferred |-> m.inferred] /\ IsFiniteSet(m.reqs) /\ IsFiniteSet(m.deps)
    BY <1>2, ModulesAreFinite
  <2> HIDE DEF m
  <2>2. module = [reqs |-> m.reqs, deps |-> deps, inferred |-> m.inferred]
    BY ONLY <2>1
  <2>3. IsFiniteSet(deps)
    BY ONLY <2>1, FS_AddElement
  <2> HIDE DEF module, deps
  <2>4. MapsAre(maps')
    BY ONLY <1>1, <2>1, <2>2, <2>3, EcosystemIsFinite, GrownMaps DEF EcosystemIsFinite
  <2>5. QED
    BY ONLY <1>1, <2>4, EcosystemIsFinite DEF EcosystemIsFinite
<1>3. CASE r \notin RootSet
  <2>1. maps' = maps
    BY <1>1, <1>3 DEF EcosystemIsFinite, MapsAre
  <2>2. QED
    BY ONLY <1>1, <2>1, EcosystemIsFinite DEF EcosystemIsFinite
<1>4. QED
  BY <1>2, <1>3

LEMMA EditCodeStep ==
    ASSUME EcosystemIsFinite, NEW edit \in Edits, EditCode(edit)
    PROVE  EcosystemIsFinite'
<1> DEFINE c == [root |-> edit.root, day |-> edit.day, files |-> edit.files]
<1>1. /\ code' = [code EXCEPT ![edit.root] = edit.surfaces]
      /\ commits' = Append(commits, c)
      /\ UNCHANGED <<maps, snapshots>>
  BY DEF EditCode
<1>2. IsFiniteSet(edit.files) /\ IsFiniteSet(DOMAIN edit.surfaces)
  BY ONLY ImpactAssumption, edit \in Edits
<1>3. IsLog(<<c>>)
  BY ONLY <1>2, OneCommit
<1> HIDE DEF c
<1>4. commits' = commits \o <<c>>
  <2>1. commits \in Seq(Range(commits))
    BY ONLY EcosystemIsFinite DEF EcosystemIsFinite, IsLog
  <2> DEFINE S == Range(commits) \cup {c}
  <2>2. commits \in Seq(S) /\ c \in S
    <3>1. Range(commits) \subseteq S
      OBVIOUS
    <3> HIDE DEF S
    <3>2. commits \in Seq(S)
      BY ONLY <2>1, <3>1
    <3>3. QED
      BY <3>2 DEF S
  <2> HIDE DEF S
  <2>3. Append(commits, c) = commits \o <<c>>
    BY ONLY <2>2, AppendIsConcat
  <2>4. QED
    BY ONLY <1>1, <2>3
<1>5. IsLog(commits')
  BY ONLY <1>3, <1>4, EcosystemIsFinite, LogsJoin DEF EcosystemIsFinite
<1>6. SurfacesAre(code')
  BY ONLY <1>1, <1>2, EcosystemIsFinite DEF EcosystemIsFinite, SurfacesAre
<1>7. QED
  BY ONLY <1>1, <1>5, <1>6, EcosystemIsFinite DEF EcosystemIsFinite

LEMMA GenerateContractStep ==
    ASSUME EcosystemIsFinite, NEW r \in RootSet, GenerateContract(r)
    PROVE  EcosystemIsFinite'
<1>1. snapshots' = [snapshots EXCEPT ![r] = code[r]] /\ UNCHANGED <<maps, code, commits>>
  BY DEF GenerateContract
<1>2. SurfacesAre(snapshots')
  BY ONLY <1>1, EcosystemIsFinite, r \in RootSet DEF EcosystemIsFinite, SurfacesAre
<1>3. QED
  BY ONLY <1>1, <1>2, EcosystemIsFinite DEF EcosystemIsFinite

LEMMA InitEcosystem == FlowFilesInit => EcosystemIsFinite
<1> SUFFICES ASSUME FlowFilesInit PROVE EcosystemIsFinite
  OBVIOUS
<1>1. maps = Maps /\ snapshots = Surfaces /\ code = Surfaces /\ commits = <<>>
  BY DEF FlowFilesInit, EcosystemInit
<1>2. IsLog(<<>>)
  BY DEF IsLog
<1>3. MapsAre(Maps) /\ SurfacesAre(Surfaces)
  BY ONLY ImpactAssumption DEF MapsAre, SurfacesAre
<1>4. QED
  BY ONLY <1>1, <1>2, <1>3 DEF EcosystemIsFinite

LEMMA NextEcosystem == EcosystemIsFinite /\ [FlowFilesNext]_allVars => EcosystemIsFinite'
<1> SUFFICES ASSUME EcosystemIsFinite, [FlowFilesNext]_allVars PROVE EcosystemIsFinite'
  OBVIOUS
<1>1. ASSUME UNCHANGED <<maps, snapshots, code, commits>> PROVE EcosystemIsFinite'
  BY ONLY <1>1, EcosystemIsFinite DEF EcosystemIsFinite
<1>2. ASSUME EcosystemStep PROVE EcosystemIsFinite'
  BY <1>2, MapInitStep, MapPromoteStep, DeclareStep, EditCodeStep, GenerateContractStep DEF EcosystemStep
<1>3. QED
  BY <1>1, <1>2 DEF FlowFilesNext, EcosystemNext, allVars, ecosystem

-----------------------------------------------------------------------------
(***************************************************************************)
(* The graph.                                                              *)
(***************************************************************************)
LEMMA RootsAreFinite == IsFiniteSet(RootSet)
<1>1. Roots \in Seq(RootSet)
  BY ONLY ImpactAssumption
<1>2. DOMAIN Roots = 1 .. Len(Roots) /\ Len(Roots) \in Nat
  BY ONLY <1>1
<1>3. IsFiniteSet(DOMAIN Roots)
  BY ONLY <1>2, FS_Interval
<1>4. RootSet = {Roots[k] : k \in DOMAIN Roots}
  BY ONLY TRUE DEF RootSet, Range
<1>5. QED
  BY ONLY <1>3, <1>4, ImageIsFinite

\* What is read of every root.
LEMMA OfEveryRoot ==
    ASSUME NEW f, \A r \in RootSet : IsFiniteSet(f[r])
    PROVE  IsFiniteSet(UNION {f[r] : r \in RootSet})
BY ONLY RootsAreFinite, UnionIsFinite, \A r \in RootSet : IsFiniteSet(f[r])

LEMMA ChangesAreFinite ==
    ASSUME NEW diff \in Diffs
    PROVE  IsFiniteSet(ChangedNodes(diff))
<1> DEFINE f == [r \in RootSet |-> {ProjectName(r)} \X diff[r]]
<1>1. ASSUME NEW r \in RootSet PROVE IsFiniteSet(f[r])
  <2>1. IsFiniteSet(diff[r])
    BY ONLY ImpactAssumption, diff \in Diffs, r \in RootSet
  <2>2. IsFiniteSet({ProjectName(r)})
    BY ONLY FS_Singleton
  <2>3. IsFiniteSet({ProjectName(r)} \X diff[r])
    BY ONLY <2>1, <2>2, FS_Product
  <2>4. f[r] = {ProjectName(r)} \X diff[r]
    BY ONLY r \in RootSet
  <2>5. QED
    BY ONLY <2>3, <2>4
<1>2. ChangedNodes(diff) = UNION {f[r] : r \in RootSet}
  BY ONLY TRUE DEF ChangedNodes
<1> HIDE DEF f
<1>3. QED
  BY ONLY <1>1, <1>2, OfEveryRoot

LEMMA MapsReadAreFinite ==
    ASSUME EcosystemIsFinite, NEW r \in RootSet
    PROVE  IsFiniteSet(ReadMap(r)) /\ IsFiniteSet(ReadDependencies(r))
<1> DEFINE mapped == DOMAIN maps[r].modules
           reqs == [f \in mapped |-> {f} \X maps[r].modules[f].reqs]
           deps == [f \in mapped |-> {f} \X maps[r].modules[f].deps]
<1>1. IsMap(maps[r])
  BY ONLY EcosystemIsFinite, r \in RootSet DEF EcosystemIsFinite, MapsAre
<1>2. IsFiniteSet(mapped)
  BY ONLY <1>1 DEF IsMap
<1>3. ASSUME NEW f \in mapped PROVE IsFiniteSet(reqs[f]) /\ IsFiniteSet(deps[f])
  <2>1. IsFiniteSet(maps[r].modules[f].reqs) /\ IsFiniteSet(maps[r].modules[f].deps)
    BY ONLY <1>1, f \in mapped DEF IsMap
  <2>2. IsFiniteSet({f})
    BY ONLY FS_Singleton
  <2>3. IsFiniteSet({f} \X maps[r].modules[f].reqs) /\ IsFiniteSet({f} \X maps[r].modules[f].deps)
    BY ONLY <2>1, <2>2, FS_Product
  <2>4. reqs[f] = {f} \X maps[r].modules[f].reqs /\ deps[f] = {f} \X maps[r].modules[f].deps
    BY ONLY f \in mapped
  <2>5. QED
    BY ONLY <2>3, <2>4
<1>4. ReadMap(r) = UNION {reqs[f] : f \in mapped} /\ ReadDependencies(r) = UNION {deps[f] : f \in mapped}
  BY ONLY TRUE DEF ReadMap, ReadDependencies
<1> HIDE DEF reqs, deps, mapped
<1>5. QED
  BY ONLY <1>2, <1>3, <1>4, UnionIsFinite

LEMMA DeclaredIsFinite ==
    ASSUME EcosystemIsFinite
    PROVE  IsFiniteSet(AllDeclared)
<1> DEFINE f == [r \in RootSet |-> {r} \X ReadDependencies(r)]
<1>1. ASSUME NEW r \in RootSet PROVE IsFiniteSet(f[r])
  <2>1. IsFiniteSet(ReadDependencies(r)) /\ IsFiniteSet({r})
    BY ONLY EcosystemIsFinite, r \in RootSet, MapsReadAreFinite, FS_Singleton
  <2>2. IsFiniteSet({r} \X ReadDependencies(r))
    BY ONLY <2>1, FS_Product
  <2>3. f[r] = {r} \X ReadDependencies(r)
    BY ONLY r \in RootSet
  <2>4. QED
    BY ONLY <2>2, <2>3
<1>2. AllDeclared = UNION {f[r] : r \in RootSet}
  BY ONLY TRUE DEF AllDeclared
<1> HIDE DEF f
<1>3. QED
  BY ONLY <1>1, <1>2, OfEveryRoot

LEMMA EdgesAreFinite ==
    ASSUME EcosystemIsFinite
    PROVE  IsFiniteSet(Edges)
<1>1. IsFiniteSet(AnnotatedEdges)
  <2> DEFINE edge(r, p) == Edge(<<ProjectName(r), p[1]>>, <<ProjectName(r), ReqName(p[2])>>, "annotated", FALSE)
             f == [r \in RootSet |-> {edge(r, p) : p \in ReadMap(r)}]
  <2>1. ASSUME NEW r \in RootSet PROVE IsFiniteSet(f[r])
    <3> DEFINE g == [p \in ReadMap(r) |-> edge(r, p)]
    <3>1. IsFiniteSet(ReadMap(r))
      BY ONLY EcosystemIsFinite, r \in RootSet, MapsReadAreFinite
    <3>2. f[r] = {g[p] : p \in ReadMap(r)}
      BY ONLY r \in RootSet
    <3> HIDE DEF g, f
    <3>3. QED
      BY ONLY <3>1, <3>2, ImageIsFinite
  <2>2. AnnotatedEdges = UNION {f[r] : r \in RootSet}
    BY ONLY TRUE DEF AnnotatedEdges
  <2> HIDE DEF f
  <2>3. QED
    BY ONLY <2>1, <2>2, OfEveryRoot
<1>2. IsFiniteSet(InferredEdges)
  <2> DEFINE edge(r, p) == Edge(<<ProjectName(r), p[1]>>, <<ProjectName(r), p[2]>>, "inferred", FALSE)
             f == [r \in RootSet |-> {edge(r, p) : p \in CoChanges(r)}]
  <2>1. ASSUME NEW r \in RootSet PROVE IsFiniteSet(f[r])
    <3> DEFINE g == [p \in CoChanges(r) |-> edge(r, p)]
    <3>1. IsFiniteSet(CoChanges(r))
      BY ONLY EcosystemIsFinite, CoChangesAreFinite
    <3>2. f[r] = {g[p] : p \in CoChanges(r)}
      BY ONLY r \in RootSet
    <3> HIDE DEF g, f
    <3>3. QED
      BY ONLY <3>1, <3>2, ImageIsFinite
  <2>2. InferredEdges = UNION {f[r] : r \in RootSet}
    BY ONLY TRUE DEF InferredEdges
  <2> HIDE DEF f
  <2>3. QED
    BY ONLY <2>1, <2>2, OfEveryRoot
<1>3. IsFiniteSet(ContractEdges)
  <2> DEFINE moved(r) == {s \in DOMAIN snapshots[r] : SurfaceOrigin(s, snapshots[r][s]) \notin {NoOrigin, s}}
             edge(r, s) == Edge(<<ProjectName(r), SurfaceOrigin(s, snapshots[r][s])>>, <<ProjectName(r), s>>, "contract", FALSE)
             f == [r \in RootSet |-> {edge(r, s) : s \in moved(r)}]
  <2>1. ASSUME NEW r \in RootSet PROVE IsFiniteSet(f[r])
    <3> DEFINE m == moved(r)
               g == [s \in m |-> edge(r, s)]
    <3>1. IsFiniteSet(DOMAIN snapshots[r])
      BY ONLY EcosystemIsFinite, r \in RootSet DEF EcosystemIsFinite, SurfacesAre
    <3>2. f[r] = {edge(r, s) : s \in m}
      BY ONLY r \in RootSet
    <3>3. m \subseteq DOMAIN snapshots[r]
      OBVIOUS
    <3> HIDE DEF m, f, edge
    <3>4. f[r] = {g[s] : s \in m}
      BY ONLY <3>2
    <3> HIDE DEF g
    <3>5. IsFiniteSet(m)
      BY ONLY <3>1, <3>3, FS_Subset
    <3>6. QED
      BY ONLY <3>4, <3>5, ImageIsFinite
  <2>2. ContractEdges = UNION {f[r] : r \in RootSet}
    BY ONLY TRUE DEF ContractEdges
  <2> HIDE DEF f
  <2>3. QED
    BY ONLY <2>1, <2>2, OfEveryRoot
<1>4. IsFiniteSet(DependencyEdges)
  <2> DEFINE edge(x) == Edge(<<x[2][2].project, x[2][2].surface>>, <<ProjectName(x[1]), x[2][1]>>, "dependency", TRUE)
             S == AllDeclared \ Unresolved
             g == [x \in S |-> edge(x)]
  <2>1. IsFiniteSet(S)
    BY ONLY EcosystemIsFinite, DeclaredIsFinite, FS_Difference
  <2>2. DependencyEdges = {edge(x) : x \in S}
    BY ONLY TRUE DEF DependencyEdges
  <2> HIDE DEF S, edge
  <2>3. DependencyEdges = {g[x] : x \in S}
    BY ONLY <2>2
  <2> HIDE DEF g
  <2>4. QED
    BY ONLY <2>1, <2>3, ImageIsFinite
<1>5. QED
  BY ONLY <1>1, <1>2, <1>3, <1>4, FS_Union DEF Edges

LEMMA NodesAreFinite ==
    ASSUME EcosystemIsFinite, NEW diff \in Diffs
    PROVE  IsFiniteSet(NodesOf(Edges, ChangedNodes(diff)))
<1> DEFINE f == [e \in Edges |-> e.from]
           g == [e \in Edges |-> e.to]
           from == {e.from : e \in Edges}
           to   == {e.to : e \in Edges}
           changed == ChangedNodes(diff)
<1>1. from = {f[e] : e \in Edges} /\ to = {g[e] : e \in Edges}
  OBVIOUS
<1>2. IsFiniteSet(Edges) /\ IsFiniteSet(changed)
  BY ONLY EcosystemIsFinite, EdgesAreFinite, diff \in Diffs, ChangesAreFinite
<1> HIDE DEF f, g, from, to, changed
<1>3. IsFiniteSet(from) /\ IsFiniteSet(to)
  BY ONLY <1>1, <1>2, ImageIsFinite
<1>4. IsFiniteSet(changed \cup from)
  BY ONLY <1>2, <1>3, FS_Union
<1>5. IsFiniteSet((changed \cup from) \cup to)
  BY ONLY <1>3, <1>4, FS_Union
<1>6. QED
  BY <1>5 DEF NodesOf, changed, from, to

\* An edge stays in its project, except from a provider to its consumer.
LEMMA EdgesBetweenProjects ==
    ASSUME NEW e \in Edges
    PROVE  \/ ~e.directed /\ e.from[1] = e.to[1]
           \/ /\ e.directed
              /\ \E x \in AllDeclared : e.from[1] = x[2][2].project /\ e.to[1] = ProjectName(x[1])
<1>1. CASE e \in AnnotatedEdges
  <2>1. PICK r \in RootSet : \E p \in ReadMap(r) :
          e = Edge(<<ProjectName(r), p[1]>>, <<ProjectName(r), ReqName(p[2])>>, "annotated", FALSE)
    BY ONLY <1>1 DEF AnnotatedEdges
  <2>2. PICK p \in ReadMap(r) :
          e = Edge(<<ProjectName(r), p[1]>>, <<ProjectName(r), ReqName(p[2])>>, "annotated", FALSE)
    BY ONLY <2>1
  <2>3. e.from[1] = ProjectName(r) /\ e.to[1] = ProjectName(r) /\ ~e.directed
    BY ONLY <2>2 DEF Edge
  <2>4. QED
    BY ONLY <2>3
<1>2. CASE e \in InferredEdges
  <2>1. PICK r \in RootSet : \E p \in CoChanges(r) :
          e = Edge(<<ProjectName(r), p[1]>>, <<ProjectName(r), p[2]>>, "inferred", FALSE)
    BY ONLY <1>2 DEF InferredEdges
  <2>2. PICK p \in CoChanges(r) :
          e = Edge(<<ProjectName(r), p[1]>>, <<ProjectName(r), p[2]>>, "inferred", FALSE)
    BY ONLY <2>1
  <2>3. e.from[1] = ProjectName(r) /\ e.to[1] = ProjectName(r) /\ ~e.directed
    BY ONLY <2>2 DEF Edge
  <2>4. QED
    BY ONLY <2>3
<1>3. CASE e \in ContractEdges
  <2>1. PICK r \in RootSet : \E s \in DOMAIN snapshots[r] :
          e = Edge(<<ProjectName(r), SurfaceOrigin(s, snapshots[r][s])>>, <<ProjectName(r), s>>, "contract", FALSE)
    BY ONLY <1>3 DEF ContractEdges
  <2>2. PICK s \in DOMAIN snapshots[r] :
          e = Edge(<<ProjectName(r), SurfaceOrigin(s, snapshots[r][s])>>, <<ProjectName(r), s>>, "contract", FALSE)
    BY ONLY <2>1
  <2>3. e.from[1] = ProjectName(r) /\ e.to[1] = ProjectName(r) /\ ~e.directed
    BY ONLY <2>2 DEF Edge
  <2>4. QED
    BY ONLY <2>3
<1>4. CASE e \in DependencyEdges
  <2>1. PICK x \in AllDeclared :
          e = Edge(<<x[2][2].project, x[2][2].surface>>, <<ProjectName(x[1]), x[2][1]>>, "dependency", TRUE)
    BY ONLY <1>4 DEF DependencyEdges
  <2>2. e.from[1] = x[2][2].project /\ e.to[1] = ProjectName(x[1]) /\ e.directed
    BY ONLY <2>1 DEF Edge
  <2>3. QED
    BY ONLY <2>2, x \in AllDeclared
<1>5. QED
  BY ONLY <1>1, <1>2, <1>3, <1>4, e \in Edges DEF Edges

\* One step along the edges.
LEMMA NeighboursOf ==
    ASSUME NEW edges, NEW n, NEW m
    PROVE  m \in Neighbours(edges, n) <=>
             \E e \in edges : (e.from = n /\ e.to = m) \/ (e.to = n /\ ~e.directed /\ e.from = m)
BY ONLY TRUE DEF Neighbours

\* What is reached lies in the projects that depend on those of the change.
LEMMA ReachedProjects ==
    ASSUME NEW changed, NEW w, Rings(Edges, changed, w), NEW S,
           \A n \in changed : n[1] \in S,
           \A x \in AllDeclared : x[2][2].project \in S => ProjectName(x[1]) \in S
    PROVE  \A n \in w[3] : n[1] \in S
<1>1. ASSUME NEW n, n[1] \in S, NEW m \in Neighbours(Edges, n) PROVE m[1] \in S
  <2>1. PICK e \in Edges : (e.from = n /\ e.to = m) \/ (e.to = n /\ ~e.directed /\ e.from = m)
    BY ONLY NeighboursOf, m \in Neighbours(Edges, n)
  <2>2. CASE ~e.directed /\ e.from[1] = e.to[1]
    BY ONLY <1>1, <2>1, <2>2
  <2>3. CASE e.directed /\ \E x \in AllDeclared : e.from[1] = x[2][2].project /\ e.to[1] = ProjectName(x[1])
    <3>1. PICK x \in AllDeclared : e.from[1] = x[2][2].project /\ e.to[1] = ProjectName(x[1])
      BY ONLY <2>3
    <3>2. e.from = n /\ e.to = m
      BY ONLY <2>1, <2>3
    <3>3. x[2][2].project \in S
      BY ONLY <1>1, <3>1, <3>2
    <3>4. ProjectName(x[1]) \in S
      BY ONLY <3>3, x \in AllDeclared,
              \A y \in AllDeclared : y[2][2].project \in S => ProjectName(y[1]) \in S
    <3>5. QED
      BY ONLY <3>1, <3>2, <3>4
  <2>4. QED
    BY ONLY <2>2, <2>3, e \in Edges, EdgesBetweenProjects
<1>2. /\ w[0] = changed
      /\ \A k \in 0 .. 2 : w[k + 1] = w[k] \cup UNION {Neighbours(Edges, m) : m \in w[k]}
  BY ONLY Rings(Edges, changed, w) DEF Rings
<1>3. \A n \in w[0] : n[1] \in S
  BY ONLY <1>2, \A n \in changed : n[1] \in S
<1> DEFINE inside(T) == \A n \in T : n[1] \in S
           near(T) == T \cup UNION {Neighbours(Edges, m) : m \in T}
<1>4. \A T : inside(T) => inside(near(T))
  BY ONLY <1>1
<1>5. w[1] = near(w[0]) /\ w[2] = near(w[1]) /\ w[3] = near(w[2])
  <2>1. \A k \in 0 .. 2 : w[k + 1] = near(w[k])
    BY ONLY <1>2
  <2> HIDE DEF near
  <2>2. QED
    BY ONLY <2>1
<1> HIDE DEF near
<1>6. inside(w[0])
  BY ONLY <1>3
<1> HIDE DEF inside
<1>7. inside(w[3])
  BY ONLY <1>4, <1>5, <1>6
<1>8. QED
  BY ONLY <1>7 DEF inside

LEMMA BlastFields ==
    ASSUME NEW edges, NEW changed, NEW v, v = Bfs(edges, changed), NEW blast, blast = BlastRadius(edges, changed)
    PROVE  /\ blast.visited = v
           /\ blast.requirements = {n \in v \ changed : n[2][1] = "req"}
           /\ blast.modules = {n \in v \ changed : HasSlash(n[2])}
           /\ blast.projects = {n[1] : n \in v \ changed}
           /\ blast.traversed = {e \in edges : {e.from, e.to} \subseteq v}
           /\ blast.cross = {e \in blast.traversed : e.from[1] # e.to[1]}
<1> DEFINE a == {n \in v \ changed : n[2][1] = "req"}
           b == {n \in v \ changed : HasSlash(n[2])}
           c == {n[1] : n \in v \ changed}
           d == {e \in edges : {e.from, e.to} \subseteq v}
           f == {e \in d : e.from[1] # e.to[1]}
<1>1. blast = [visited |-> v, requirements |-> a, modules |-> b, projects |-> c, traversed |-> d, cross |-> f]
  BY ONLY v = Bfs(edges, changed), blast = BlastRadius(edges, changed) DEF BlastRadius
<1> HIDE DEF a, b, c, d
<1>2. blast.traversed = d
  BY ONLY <1>1
<1>3. f = {e \in blast.traversed : e.from[1] # e.to[1]}
  BY ONLY <1>2
<1> HIDE DEF f
<1>4. blast.visited = v /\ blast.requirements = a /\ blast.modules = b /\ blast.projects = c /\ blast.cross = f
  BY ONLY <1>1
<1>5. QED
  BY ONLY <1>2, <1>3, <1>4 DEF a, b, c, d

LEMMA AnalysisFields ==
    ASSUME NEW edges, NEW diff, NEW analysis, analysis = CodeAnalysis(edges, diff),
           NEW blast, blast = BlastRadius(edges, ChangedNodes(diff)),
           NEW tests, tests = AffectedTests({n[2][2] : n \in blast.requirements})
    PROVE  /\ analysis.blast = blast
           /\ analysis.tests = tests
           /\ analysis.risk = (40 * BlastRisk(blast) + 150 * Capped(Cardinality(tests), 20)
                                 + 6 * EdgeFactor(blast) + 50) \div 100
<1> DEFINE risk == (40 * BlastRisk(blast) + 150 * Capped(Cardinality(tests), 20) + 6 * EdgeFactor(blast) + 50) \div 100
           byProject == TestsByProject(tests)
<1>1. analysis = [blast |-> blast, tests |-> tests, byProject |-> byProject, risk |-> risk]
  BY ONLY analysis = CodeAnalysis(edges, diff), blast = BlastRadius(edges, ChangedNodes(diff)),
          tests = AffectedTests({n[2][2] : n \in blast.requirements}) DEF CodeAnalysis
<1> HIDE DEF risk, byProject
<1>2. analysis.blast = blast /\ analysis.tests = tests /\ analysis.risk = risk
  BY ONLY <1>1
<1>3. QED
  BY ONLY <1>2 DEF risk

\* A change that nothing is reached from is of no risk.
LEMMA QuietChange ==
    ASSUME NEW edges, NEW diff, NEW changed, changed = ChangedNodes(diff),
           NEW analysis, analysis = CodeAnalysis(edges, diff),
           Bfs(edges, changed) \subseteq changed,
           {e \in edges : {e.from, e.to} \subseteq Bfs(edges, changed)} = {}
    PROVE  analysis.risk = 0 /\ ~Blocks(analysis)
<1> DEFINE blast == BlastRadius(edges, changed)
           tests == AffectedTests({n[2][2] : n \in blast.requirements})
           v == Bfs(edges, changed)
<1>1. /\ blast.requirements = {n \in v \ changed : n[2][1] = "req"}
      /\ blast.modules = {n \in v \ changed : HasSlash(n[2])}
      /\ blast.projects = {n[1] : n \in v \ changed}
      /\ blast.traversed = {e \in edges : {e.from, e.to} \subseteq v}
      /\ blast.cross = {e \in blast.traversed : e.from[1] # e.to[1]}
  BY ONLY BlastFields
<1>2. analysis.risk = (40 * BlastRisk(blast) + 150 * Capped(Cardinality(tests), 20) + 6 * EdgeFactor(blast) + 50) \div 100
  BY ONLY AnalysisFields, changed = ChangedNodes(diff), analysis = CodeAnalysis(edges, diff)
<1>3. v \ changed = {} /\ {e \in edges : {e.from, e.to} \subseteq v} = {}
  BY ONLY Bfs(edges, changed) \subseteq changed, {e \in edges : {e.from, e.to} \subseteq Bfs(edges, changed)} = {}
<1> HIDE DEF blast, v
<1>4. /\ blast.requirements = {} /\ blast.modules = {} /\ blast.projects = {}
      /\ blast.traversed = {} /\ blast.cross = {}
  BY ONLY <1>1, <1>3
<1>5. tests = {}
  <2>1. {n[2][2] : n \in blast.requirements} = {}
    BY ONLY <1>4
  <2>2. AffectedTests({}) = {}
    BY ONLY TRUE DEF AffectedTests, Expansion, Hierarchy
  <2>3. QED
    BY ONLY <2>1, <2>2
<1> HIDE DEF tests
<1>6. Cardinality({}) = 0
  BY ONLY FS_EmptySet
<1>7. \A n \in {5, 10, 20, 500} : Capped(0, n) = 0
  BY ONLY TRUE DEF Capped
<1>8. BlastRisk(blast) = 0
  BY ONLY <1>4, <1>6, <1>7 DEF BlastRisk
<1>9. EdgeFactor(blast) = 0
  <2>1. \A source : CountTraversed(blast, source) = 0
    <3>1. ASSUME NEW source PROVE CountTraversed(blast, source) = 0
      <4>1. {e \in blast.traversed : e.source = source} = {}
        BY ONLY <1>4
      <4>2. QED
        BY ONLY <1>6, <4>1 DEF CountTraversed
    <3>2. QED
      BY ONLY <3>1
  <2>2. QED
    BY ONLY <1>4, <1>6, <1>7, <2>1 DEF EdgeFactor
<1>10. Capped(Cardinality(tests), 20) = 0
  BY ONLY <1>5, <1>6, <1>7
<1>11. analysis.risk = 0
  BY ONLY <1>2, <1>8, <1>9, <1>10
<1>12. RiskLevel(analysis.risk) = "low"
  BY ONLY <1>11 DEF RiskLevel
<1>13. QED
  BY ONLY <1>11, <1>12 DEF Blocks

\* Where nothing leads out of the change, the search stays there.
LEMMA NothingNear ==
    ASSUME NEW edges, NEW changed, NEW w, Rings(edges, changed, w),
           \A n \in changed : Neighbours(edges, n) \subseteq changed
    PROVE  w[3] = changed
<1>1. /\ w[0] = changed
      /\ \A k \in 0 .. 2 : w[k + 1] = w[k] \cup UNION {Neighbours(edges, m) : m \in w[k]}
  BY ONLY Rings(edges, changed, w) DEF Rings
<1>2. changed \cup UNION {Neighbours(edges, m) : m \in changed} = changed
  BY ONLY \A n \in changed : Neighbours(edges, n) \subseteq changed
<1>3. \A k \in 0 .. 2 : w[k] = changed => w[k + 1] = changed
  BY ONLY <1>1, <1>2
<1>4. w[1] = changed
  BY ONLY <1>1, <1>3
<1>5. w[2] = changed
  BY ONLY <1>3, <1>4
<1>6. QED
  BY ONLY <1>3, <1>5

LEMMA RingsGrow ==
    ASSUME NEW edges, NEW changed, NEW w, Rings(edges, changed, w)
    PROVE  /\ changed \subseteq w[3]
           /\ \A n \in changed : Neighbours(edges, n) \subseteq w[3]
<1>1. /\ w[0] = changed
      /\ \A k \in 0 .. 2 : w[k + 1] = w[k] \cup UNION {Neighbours(edges, m) : m \in w[k]}
  BY ONLY Rings(edges, changed, w) DEF Rings
<1> DEFINE near(S) == S \cup UNION {Neighbours(edges, m) : m \in S}
<1>2. \A S : S \subseteq near(S) /\ \A n \in S : Neighbours(edges, n) \subseteq near(S)
  OBVIOUS
<1>3. \A k \in 0 .. 2 : w[k + 1] = near(w[k])
  BY ONLY <1>1
<1> HIDE DEF near
<1>4. w[1] = near(changed) /\ w[2] = near(w[1]) /\ w[3] = near(w[2])
  BY ONLY <1>1, <1>3
<1>5. QED
  BY ONLY <1>2, <1>4

\* An annotated edge leads from a mapped file to its requirement, and a
\* dependency edge from a surface to what has declared it.
LEMMA AnnotatedNeighbour ==
    ASSUME NEW r \in RootSet, NEW p \in ReadMap(r), p[2] \in Prefixed
    PROVE  <<ProjectName(r), <<"req", p[2]>>>> \in Neighbours(Edges, <<ProjectName(r), p[1]>>)
<1> DEFINE e == Edge(<<ProjectName(r), p[1]>>, <<ProjectName(r), ReqName(p[2])>>, "annotated", FALSE)
<1>1. e \in AnnotatedEdges
  <2> DEFINE own(q) == {Edge(<<ProjectName(q), d[1]>>, <<ProjectName(q), ReqName(d[2])>>, "annotated", FALSE) :
                          d \in ReadMap(q)}
  <2>1. e \in own(r)
    BY ONLY p \in ReadMap(r)
  <2>2. AnnotatedEdges = UNION {own(q) : q \in RootSet}
    BY ONLY TRUE DEF AnnotatedEdges
  <2> HIDE DEF own, e
  <2>3. QED
    BY ONLY <2>1, <2>2, r \in RootSet
<1>2. e \in Edges
  BY ONLY <1>1 DEF Edges
<1>3. ReqName(p[2]) = <<"req", p[2]>>
  BY ONLY p[2] \in Prefixed DEF ReqName
<1>4. e.from = <<ProjectName(r), p[1]>> /\ e.to = <<ProjectName(r), ReqName(p[2])>>
  BY ONLY TRUE DEF Edge
<1> HIDE DEF e
<1>5. e.to \in Neighbours(Edges, e.from)
  BY ONLY <1>2, NeighboursOf
<1>6. QED
  BY ONLY <1>3, <1>4, <1>5

LEMMA DeclaredNeighbour ==
    ASSUME NEW x \in AllDeclared, x[2][2].project \in ProjectNames
    PROVE  <<ProjectName(x[1]), x[2][1]>> \in Neighbours(Edges, <<x[2][2].project, x[2][2].surface>>)
<1> DEFINE e == Edge(<<x[2][2].project, x[2][2].surface>>, <<ProjectName(x[1]), x[2][1]>>, "dependency", TRUE)
<1>1. x \in AllDeclared \ Unresolved
  BY ONLY x \in AllDeclared, x[2][2].project \in ProjectNames DEF Unresolved
<1>2. e \in Edges
  BY ONLY <1>1 DEF Edges, DependencyEdges
<1>3. e.from = <<x[2][2].project, x[2][2].surface>> /\ e.to = <<ProjectName(x[1]), x[2][1]>>
  BY ONLY TRUE DEF Edge
<1> HIDE DEF e
<1>4. e.to \in Neighbours(Edges, e.from)
  BY ONLY <1>2, NeighboursOf
<1>5. QED
  BY ONLY <1>3, <1>4

LEMMA AnalysisIsExact ==
    ASSUME EcosystemIsFinite, NEW diff \in Diffs,
           NEW changed, changed = ChangedNodes(diff),
           NEW analysis, analysis = CodeAnalysis(Edges, diff),
           NEW blast, blast = analysis.blast
    PROVE  /\ blast.visited = Within(Edges, MaxDepth, changed)
           /\ blast.projects \subseteq DependentProjects({n[1] : n \in changed})
           /\ \A r \in RootSet : \A p \in ReadMap(r) :
                p[1] \in diff[r] /\ p[2] \in Prefixed
                    => {l[1] : l \in LinksOf(p[2])} \subseteq analysis.tests
           /\ \A x \in AllDeclared : <<x[2][2].project, x[2][2].surface>> \in changed
                    => <<ProjectName(x[1]), x[2][1]>> \in blast.visited
           /\ (\A e \in Edges : {e.from, e.to} \cap changed = {}) => analysis.risk = 0
           /\ Blocks(analysis) => blast.traversed # {}
<1> DEFINE v == Bfs(Edges, changed)
           tests == AffectedTests({n[2][2] : n \in blast.requirements})
<1>1. blast = BlastRadius(Edges, changed)
  <2>1. analysis.blast = BlastRadius(Edges, ChangedNodes(diff))
    <3> DEFINE b == BlastRadius(Edges, ChangedNodes(diff))
               t == AffectedTests({n[2][2] : n \in b.requirements})
    <3>1. b = BlastRadius(Edges, ChangedNodes(diff)) /\ t = AffectedTests({n[2][2] : n \in b.requirements})
      OBVIOUS
    <3> HIDE DEF b, t
    <3>2. analysis.blast = b
      BY ONLY <3>1, analysis = CodeAnalysis(Edges, diff), AnalysisFields
    <3>3. QED
      BY ONLY <3>1, <3>2
  <2>2. QED
    BY ONLY <2>1, changed = ChangedNodes(diff), blast = analysis.blast
<1>2. /\ blast.visited = v
      /\ blast.requirements = {n \in v \ changed : n[2][1] = "req"}
      /\ blast.projects = {n[1] : n \in v \ changed}
      /\ blast.traversed = {e \in Edges : {e.from, e.to} \subseteq v}
  BY ONLY <1>1, BlastFields
<1>3. analysis.tests = tests
  BY ONLY changed = ChangedNodes(diff), analysis = CodeAnalysis(Edges, diff), <1>1, AnalysisFields
<1>4. IsFiniteSet(NodesOf(Edges, changed))
  BY ONLY EcosystemIsFinite, diff \in Diffs, changed = ChangedNodes(diff), NodesAreFinite
<1>5. PICK w : /\ Rings(Edges, changed, w)
               /\ Within(Edges, MaxDepth, changed) = w[3]
               /\ v = w[3]
  BY ONLY <1>4, BfsIsExact
<1>6. changed \subseteq v /\ \A n \in changed : Neighbours(Edges, n) \subseteq v
  BY ONLY <1>5, RingsGrow
<1>7. changed = UNION {{ProjectName(r)} \X diff[r] : r \in RootSet}
  BY ONLY changed = ChangedNodes(diff) DEF ChangedNodes
<1> HIDE DEF v, tests
<1>8. blast.projects \subseteq DependentProjects({n[1] : n \in changed})
  <2> DEFINE P == {n[1] : n \in changed}
             declared == {<<ProjectName(x[1]), x[2][2].project>> : x \in AllDeclared}
             projects == P \cup {d[1] : d \in declared}
             closed(S) == P \subseteq S /\ \A d \in declared : d[2] \in S => d[1] \in S
  <2>1. DependentProjects(P) = {project \in projects : \A S \in SUBSET projects : closed(S) => project \in S}
    BY ONLY TRUE DEF DependentProjects
  <2>2. \A n \in changed : n[1] \in P
    OBVIOUS
  <2>3. \A x \in AllDeclared : <<ProjectName(x[1]), x[2][2].project>> \in declared
    OBVIOUS
  <2>4. \A a, b : <<a, b>>[1] = a /\ <<a, b>>[2] = b
    OBVIOUS
  <2> HIDE DEF P, declared
  <2>5. ASSUME NEW S, P \subseteq S, \A d \in declared : d[2] \in S => d[1] \in S
        PROVE  \A n \in v : n[1] \in S
    <3>1. \A n \in changed : n[1] \in S
      BY ONLY <2>2, <2>5
    <3>2. \A x \in AllDeclared : x[2][2].project \in S => ProjectName(x[1]) \in S
      BY ONLY <2>3, <2>4, <2>5
    <3>3. QED
      BY ONLY <1>5, <3>1, <3>2, ReachedProjects
  <2>6. \A n \in v : n[1] \in projects
    <3>1. P \subseteq projects /\ \A d \in declared : d[2] \in projects => d[1] \in projects
      OBVIOUS
    <3> HIDE DEF projects
    <3>2. QED
      BY ONLY <2>5, <3>1
  <2>7. \A n \in v : \A S \in SUBSET projects : closed(S) => n[1] \in S
    BY ONLY <2>5
  <2> HIDE DEF closed, projects
  <2>8. \A n \in v : n[1] \in DependentProjects(P)
    BY ONLY <2>1, <2>6, <2>7
  <2>9. blast.projects \subseteq DependentProjects(P)
    BY ONLY <1>2, <2>8
  <2>10. QED
    BY <2>9 DEF P
<1>9. ASSUME NEW r \in RootSet, NEW p \in ReadMap(r), p[1] \in diff[r], p[2] \in Prefixed
      PROVE  {l[1] : l \in LinksOf(p[2])} \subseteq analysis.tests
  <2> DEFINE n == <<ProjectName(r), <<"req", p[2]>>>>
             S == {m[2][2] : m \in blast.requirements}
  <2>1. <<ProjectName(r), p[1]>> \in changed
    BY ONLY <1>7, <1>9
  <2>2. n \in v
    BY ONLY <1>6, <1>9, <2>1, AnnotatedNeighbour
  <2>3. n \notin changed
    <3>1. \A q \in RootSet : <<"req", p[2]>> \notin diff[q]
      <4>1. \A q \in RootSet : diff[q] \cap {ReqName(i) : i \in Prefixed} = {}
        BY ONLY ImpactAssumption, diff \in Diffs
      <4>2. ReqName(p[2]) = <<"req", p[2]>>
        BY ONLY <1>9 DEF ReqName
      <4>3. ReqName(p[2]) \in {ReqName(i) : i \in Prefixed}
        BY ONLY <1>9
      <4>4. QED
        BY ONLY <4>1, <4>2, <4>3
    <3>2. QED
      BY ONLY <1>7, <3>1
  <2>4. n[2][1] = "req" /\ n[2][2] = p[2]
    OBVIOUS
  <2>5. n \in blast.requirements
    BY ONLY <1>2, <2>2, <2>3, <2>4
  <2>6. p[2] \in S
    BY ONLY <2>4, <2>5
  <2> HIDE DEF S
  <2>7. {l[1] : l \in LinksOf(p[2])} \subseteq AffectedTests(S)
    BY ONLY <2>6 DEF LinksOf, AffectedTests, Expansion
  <2>8. QED
    BY ONLY <1>3, <2>7 DEF tests, S
<1>10. ASSUME NEW x \in AllDeclared, <<x[2][2].project, x[2][2].surface>> \in changed
       PROVE  <<ProjectName(x[1]), x[2][1]>> \in blast.visited
  <2>1. x[2][2].project \in ProjectNames
    BY ONLY <1>7, <1>10 DEF ProjectNames
  <2>2. QED
    BY ONLY <1>2, <1>6, <1>10, <2>1, DeclaredNeighbour
<1>11. ASSUME \A n \in changed : Neighbours(Edges, n) \subseteq changed, blast.traversed = {}
       PROVE  analysis.risk = 0 /\ ~Blocks(analysis)
  <2>1. v = changed
    BY ONLY <1>5, <1>11, NothingNear
  <2>2. {e \in Edges : {e.from, e.to} \subseteq v} = {}
    BY ONLY <1>2, <1>11
  <2>3. QED
    BY ONLY <2>1, <2>2, changed = ChangedNodes(diff), analysis = CodeAnalysis(Edges, diff), QuietChange DEF v
<1>12. ASSUME \A e \in Edges : {e.from, e.to} \cap changed = {} PROVE analysis.risk = 0
  <2>1. \A n \in changed : Neighbours(Edges, n) \subseteq changed
    BY ONLY <1>12, NeighboursOf
  <2>2. v = changed
    BY ONLY <1>5, <2>1, NothingNear
  <2>3. blast.traversed = {}
    BY ONLY <1>2, <1>12, <2>2
  <2>4. QED
    BY ONLY <1>11, <2>1, <2>3
<1>13. ASSUME blast.traversed = {} PROVE ~Blocks(analysis)
  <2>1. ASSUME NEW n \in changed, NEW m \in Neighbours(Edges, n) PROVE FALSE
    <3>1. PICK e \in Edges : (e.from = n /\ e.to = m) \/ (e.to = n /\ ~e.directed /\ e.from = m)
      BY ONLY NeighboursOf, m \in Neighbours(Edges, n)
    <3>2. m \in v /\ n \in v
      BY ONLY <1>6, n \in changed, m \in Neighbours(Edges, n)
    <3>3. e \in blast.traversed
      BY ONLY <1>2, <3>1, <3>2
    <3>4. QED
      BY ONLY <1>13, <3>3
  <2>2. \A n \in changed : Neighbours(Edges, n) \subseteq changed
    BY ONLY <2>1
  <2>3. QED
    BY ONLY <1>11, <1>13, <2>2
<1>14. blast.visited = Within(Edges, MaxDepth, changed)
  BY ONLY <1>2, <1>5
<1>15. QED
  BY ONLY <1>8, <1>9, <1>10, <1>12, <1>13, <1>14

LEMMA ExactBlasts == EcosystemIsFinite => BlastRadiusIsExact
<1> SUFFICES ASSUME EcosystemIsFinite PROVE BlastRadiusIsExact
  OBVIOUS
<1> DEFINE blast(diff) == CodeAnalysis(Edges, diff).blast
<1>1. ASSUME NEW diff \in Diffs
      PROVE  /\ blast(diff).visited = Within(Edges, MaxDepth, ChangedNodes(diff))
             /\ blast(diff).projects \subseteq DependentProjects({n[1] : n \in ChangedNodes(diff)})
             /\ \A r \in RootSet : \A p \in ReadMap(r) :
                  p[1] \in diff[r] /\ p[2] \in Prefixed
                      => {l[1] : l \in LinksOf(p[2])} \subseteq CodeAnalysis(Edges, diff).tests
             /\ \A x \in AllDeclared : <<x[2][2].project, x[2][2].surface>> \in ChangedNodes(diff)
                      => <<ProjectName(x[1]), x[2][1]>> \in blast(diff).visited
             /\ (\A e \in Edges : {e.from, e.to} \cap ChangedNodes(diff) = {}) => CodeAnalysis(Edges, diff).risk = 0
             /\ Blocks(CodeAnalysis(Edges, diff)) => blast(diff).traversed # {}
  BY ONLY EcosystemIsFinite, diff \in Diffs, AnalysisIsExact
<1>2. QED
  BY ONLY <1>1 DEF BlastRadiusIsExact

\* Of any maps, histories and snapshots, and after whatever edits: blast_radius
\* visits what is within three steps of the changed files and nothing else.
THEOREM BlastsStayExact == FlowFilesSpec => []BlastRadiusIsExact
<1>1. FlowFilesSpec => []EcosystemIsFinite
  BY InitEcosystem, NextEcosystem, PTL DEF FlowFilesSpec, allVars
<1>2. QED
  BY <1>1, ExactBlasts, PTL

-----------------------------------------------------------------------------
(***************************************************************************)
(* Searches inside searches.  A function that calls itself on what it has  *)
(* returned is a definition if the measure falls there too, and for that   *)
(* it takes a relation between where a call begins and what it returns,    *)
(* which each call inherits from the two that it makes.                    *)
(***************************************************************************)
\* Where it is done, where it needs no call for the next argument (flat) and
\* where it does (inner), the next argument, the measure and the relation.
IsNested(D, Out, Done, Flat, flat, inner, after, measure, R) ==
    /\ measure \in [D -> Nat]
    /\ \A d \in D : d \in Done => <<d, d>> \in R /\ d \in Out
    /\ \A d \in D : d \notin Done /\ d \notin Flat => inner[d] \in D /\ measure[inner[d]] < measure[d]
    /\ \A d \in D : d \notin Done /\ d \in Flat => flat[d] \in Out
    /\ \A d \in D : \A r \in Out :
         d \notin Done /\ (IF d \in Flat THEN r = flat[d] ELSE <<inner[d], r>> \in R) =>
           /\ after[<<d, r>>] \in D
           /\ measure[after[<<d, r>>]] < measure[d]
           /\ \A q \in Out : <<after[<<d, r>>], q>> \in R => <<d, q>> \in R

Nests(D, Done, Flat, flat, inner, after, f) ==
    f = [d \in D |-> IF d \in Done THEN d
                     ELSE f[after[<<d, IF d \in Flat THEN flat[d] ELSE f[inner[d]]>>]]]

\* What it returns is related to where it begins.
LEMMA NestedInduction ==
    ASSUME NEW D, NEW Out, NEW Done, NEW Flat, NEW flat, NEW inner, NEW after, NEW measure, NEW R,
           IsNested(D, Out, Done, Flat, flat, inner, after, measure, R),
           NEW f, Nests(D, Done, Flat, flat, inner, after, f)
    PROVE  \A d \in D : f[d] \in Out /\ <<d, f[d]>> \in R
<1> DEFINE bad == {d \in D : ~ (f[d] \in Out /\ <<d, f[d]>> \in R)}
           left == {measure[d] : d \in bad}
<1>0. IsNested(D, Out, Done, Flat, flat, inner, after, measure, R) /\ Nests(D, Done, Flat, flat, inner, after, f)
  OBVIOUS
<1>1. measure \in [D -> Nat]
  BY ONLY <1>0 DEF IsNested
<1>2. left \in SUBSET Nat
  BY ONLY <1>1
<1>3. SUFFICES ASSUME left # {} PROVE FALSE
  <2>1. \A d \in bad : measure[d] \in left
    BY ONLY TRUE
  <2>2. \A d \in D : d \in bad \/ (f[d] \in Out /\ <<d, f[d]>> \in R)
    BY ONLY TRUE
  <2> HIDE DEF left, bad
  <2>3. left = {} => \A d \in D : f[d] \in Out /\ <<d, f[d]>> \in R
    BY ONLY <2>1, <2>2
  <2>4. QED
    BY <2>3
<1>4. PICK k \in left : \A j \in left : k <= j
  <2> HIDE DEF left
  <2>1. QED
    BY ONLY <1>2, <1>3, LeastNumber
<1>5. PICK d \in D : d \in bad /\ k = measure[d]
  BY ONLY <1>4
<1>6. ASSUME NEW e \in D, measure[e] < measure[d] PROVE f[e] \in Out /\ <<e, f[e]>> \in R
  <2>1. measure[e] \in Nat /\ measure[d] \in Nat
    BY ONLY <1>1, e \in D, d \in D
  <2>2. e \in bad => measure[e] \in left
    BY ONLY e \in D
  <2>3. measure[e] \in left => measure[d] <= measure[e]
    BY ONLY <1>4, <1>5
  <2>4. e \notin bad
    BY ONLY <1>6, <2>1, <2>2, <2>3
  <2>5. QED
    BY ONLY <2>4, e \in D
<1>7. f[d] = IF d \in Done THEN d ELSE f[after[<<d, IF d \in Flat THEN flat[d] ELSE f[inner[d]]>>]]
  BY ONLY <1>0, d \in D DEF Nests
<1>8. ~ (f[d] \in Out /\ <<d, f[d]>> \in R)
  BY ONLY <1>5
<1>9. d \notin Done
  BY ONLY <1>0, <1>7, <1>8 DEF IsNested
<1> DEFINE r == IF d \in Flat THEN flat[d] ELSE f[inner[d]]
<1>10. r \in Out /\ (IF d \in Flat THEN r = flat[d] ELSE <<inner[d], r>> \in R)
  <2>1. CASE d \in Flat
    BY ONLY <1>0, <1>9, <2>1 DEF IsNested
  <2>2. CASE d \notin Flat
    <3>1. inner[d] \in D /\ measure[inner[d]] < measure[d]
      BY ONLY <1>0, <1>9, <2>2 DEF IsNested
    <3>2. QED
      BY ONLY <1>6, <2>2, <3>1
  <2>3. QED
    BY ONLY <2>1, <2>2
<1>11. f[d] = f[after[<<d, r>>]]
  BY ONLY <1>7, <1>9
<1> HIDE DEF r
<1>12. /\ after[<<d, r>>] \in D
       /\ measure[after[<<d, r>>]] < measure[d]
       /\ \A q \in Out : <<after[<<d, r>>], q>> \in R => <<d, q>> \in R
  BY ONLY <1>0, <1>9, <1>10, d \in D DEF IsNested
<1>13. f[after[<<d, r>>]] \in Out /\ <<after[<<d, r>>], f[after[<<d, r>>]]>> \in R
  BY ONLY <1>6, <1>12
<1>14. QED
  BY ONLY <1>8, <1>11, <1>12, <1>13

\* Among the points whose measure is below n the same holds.
LEMMA NestedBelow ==
    ASSUME NEW D, NEW Out, NEW Done, NEW Flat, NEW flat, NEW inner, NEW after, NEW measure, NEW R,
           IsNested(D, Out, Done, Flat, flat, inner, after, measure, R), NEW n \in Nat
    PROVE  \E m : /\ \A d \in Below(D, measure, n) : m[d] = measure[d]
                  /\ IsNested(Below(D, measure, n), Out, Done, Flat, flat, inner, after, m, R)
<1> DEFINE B == Below(D, measure, n)
           m == [d \in B |-> measure[d]]
<1>0. IsNested(D, Out, Done, Flat, flat, inner, after, measure, R) /\ n \in Nat
  OBVIOUS
<1>1. \A d \in D : measure[d] \in Nat
  BY ONLY <1>0 DEF IsNested
<1>2. \A d : d \in B <=> d \in D /\ measure[d] < n
  BY ONLY TRUE DEF Below
<1>3. m \in [B -> Nat] /\ \A d \in B : m[d] = measure[d]
  BY ONLY <1>1, <1>2
<1>4. ASSUME NEW d \in B, NEW e \in D, measure[e] < measure[d] PROVE e \in B
  BY ONLY <1>0, <1>1, <1>2, d \in B, e \in D, <1>4
<1> HIDE DEF B, m
<1>5. \A d \in B : d \in Done => <<d, d>> \in R /\ d \in Out
  BY ONLY <1>0, <1>2 DEF IsNested
<1>6. ASSUME NEW d \in B, d \notin Done, d \notin Flat PROVE inner[d] \in B /\ m[inner[d]] < m[d]
  <2>1. inner[d] \in D /\ measure[inner[d]] < measure[d]
    BY ONLY <1>0, <1>2, <1>6 DEF IsNested
  <2>2. QED
    BY ONLY <1>3, <1>4, <2>1, d \in B
<1>7. \A d \in B : d \notin Done /\ d \in Flat => flat[d] \in Out
  BY ONLY <1>0, <1>2 DEF IsNested
<1>8. ASSUME NEW d \in B, NEW r \in Out, d \notin Done,
             IF d \in Flat THEN r = flat[d] ELSE <<inner[d], r>> \in R
      PROVE  /\ after[<<d, r>>] \in B
             /\ m[after[<<d, r>>]] < m[d]
             /\ \A q \in Out : <<after[<<d, r>>], q>> \in R => <<d, q>> \in R
  <2>1. /\ after[<<d, r>>] \in D
        /\ measure[after[<<d, r>>]] < measure[d]
        /\ \A q \in Out : <<after[<<d, r>>], q>> \in R => <<d, q>> \in R
    BY ONLY <1>0, <1>2, <1>8, r \in Out, d \in B DEF IsNested
  <2>2. QED
    BY ONLY <1>3, <1>4, <2>1, d \in B
<1>9. IsNested(B, Out, Done, Flat, flat, inner, after, m, R)
  BY ONLY <1>3, <1>5, <1>6, <1>7, <1>8 DEF IsNested
<1>10. QED
  BY ONLY <1>3, <1>9 DEF B

\* Two functions that do so for numbers m and n agree where both are defined.
LEMMA NestedAlike ==
    ASSUME NEW D, NEW Out, NEW Done, NEW Flat, NEW flat, NEW inner, NEW after, NEW measure, NEW R,
           IsNested(D, Out, Done, Flat, flat, inner, after, measure, R),
           NEW m \in Nat, NEW n \in Nat, NEW g, NEW h,
           Nests(Below(D, measure, m), Done, Flat, flat, inner, after, g),
           Nests(Below(D, measure, n), Done, Flat, flat, inner, after, h)
    PROVE  \A d \in Below(D, measure, m) \cap Below(D, measure, n) : g[d] = h[d]
<1> DEFINE M == Below(D, measure, m)
           N == Below(D, measure, n)
           Alike == {x \in N \X Out : /\ <<x[1], x[2]>> \in R
                                      /\ x[1] \in M => x[2] = g[x[1]]}
<1>0. /\ IsNested(D, Out, Done, Flat, flat, inner, after, measure, R) /\ m \in Nat /\ n \in Nat
      /\ Nests(M, Done, Flat, flat, inner, after, g) /\ Nests(N, Done, Flat, flat, inner, after, h)
  OBVIOUS
<1>1. PICK k : /\ \A d \in N : k[d] = measure[d]
               /\ IsNested(N, Out, Done, Flat, flat, inner, after, k, R)
  BY ONLY <1>0, NestedBelow
<1>2. PICK l : /\ \A d \in M : l[d] = measure[d]
               /\ IsNested(M, Out, Done, Flat, flat, inner, after, l, R)
  BY ONLY <1>0, NestedBelow
<1>3. \A d : /\ d \in M <=> d \in D /\ measure[d] < m
             /\ d \in N <=> d \in D /\ measure[d] < n
  BY ONLY TRUE DEF Below
<1>4. \A d \in D : measure[d] \in Nat
  BY ONLY <1>0 DEF IsNested
<1>5. ASSUME NEW d \in M, NEW e \in D, measure[e] < measure[d] PROVE e \in M
  BY ONLY <1>0, <1>3, <1>4, d \in M, e \in D, <1>5
<1>6. \A d \in M : g[d] = IF d \in Done THEN d ELSE g[after[<<d, IF d \in Flat THEN flat[d] ELSE g[inner[d]]>>]]
  BY ONLY <1>0 DEF Nests
<1>7. \A d \in N, r \in Out : <<d, r>> \in Alike <=> <<d, r>> \in R /\ (d \in M => r = g[d])
  BY ONLY TRUE
<1>8. \A d, r : <<d, r>> \in Alike => d \in N /\ r \in Out
  BY ONLY TRUE
<1> HIDE DEF M, N, Alike
<1>9. \A d \in N : d \in Done => <<d, d>> \in Alike /\ d \in Out
  <2> TAKE d \in N
  <2>1. d \in Done => <<d, d>> \in R /\ d \in Out
    BY ONLY <1>1, d \in N DEF IsNested
  <2>2. d \in Done /\ d \in M => g[d] = d
    BY ONLY <1>6
  <2>3. QED
    BY ONLY <1>7, <2>1, <2>2, d \in N
<1>10. ASSUME NEW d \in N, NEW r \in Out, d \notin Done,
              IF d \in Flat THEN r = flat[d] ELSE <<inner[d], r>> \in Alike
       PROVE  /\ after[<<d, r>>] \in N
              /\ k[after[<<d, r>>]] < k[d]
              /\ \A q \in Out : <<after[<<d, r>>], q>> \in Alike => <<d, q>> \in Alike
  <2>1. d \notin Flat => inner[d] \in N /\ inner[d] \in D /\ d \in D /\ measure[inner[d]] < measure[d]
    BY ONLY <1>0, <1>1, <1>3, <1>10, d \in N DEF IsNested
  <2>2. IF d \in Flat THEN r = flat[d] ELSE <<inner[d], r>> \in R
    BY ONLY <1>7, <1>10, <2>1, r \in Out
  <2>3. /\ after[<<d, r>>] \in N
        /\ k[after[<<d, r>>]] < k[d]
        /\ \A q \in Out : <<after[<<d, r>>], q>> \in R => <<d, q>> \in R
    BY ONLY <1>1, <1>10, <2>2, d \in N, r \in Out DEF IsNested
  <2>4. after[<<d, r>>] \in D /\ measure[after[<<d, r>>]] < measure[d]
    BY ONLY <1>1, <1>3, <2>3, d \in N
  <2>5. d \in M /\ d \notin Flat => inner[d] \in M
    BY ONLY <1>5, <2>1
  <2>6. d \in M => r = IF d \in Flat THEN flat[d] ELSE g[inner[d]]
    BY ONLY <1>7, <1>10, <2>1, <2>5, r \in Out
  <2>7. d \in M => after[<<d, r>>] \in M
    BY ONLY <1>5, <2>4
  <2>8. d \in M => g[d] = g[after[<<d, r>>]]
    BY ONLY <1>6, <1>10, <2>6
  <2>9. QED
    BY ONLY <1>7, <2>3, <2>7, <2>8, d \in N
<1>11. IsNested(N, Out, Done, Flat, flat, inner, after, k, Alike)
  <2>1. k \in [N -> Nat]
    BY ONLY <1>1 DEF IsNested
  <2>2. \A d \in N : d \notin Done /\ d \notin Flat => inner[d] \in N /\ k[inner[d]] < k[d]
    BY ONLY <1>1 DEF IsNested
  <2>3. \A d \in N : d \notin Done /\ d \in Flat => flat[d] \in Out
    BY ONLY <1>1 DEF IsNested
  <2>4. QED
    BY ONLY <1>9, <1>10, <2>1, <2>2, <2>3 DEF IsNested
<1>12. \A d \in N : h[d] \in Out /\ <<d, h[d]>> \in Alike
  BY ONLY <1>0, <1>11, NestedInduction
<1>13. \A d \in N : d \in M => h[d] = g[d]
  BY ONLY <1>7, <1>12
<1>14. QED
  BY ONLY <1>13 DEF M, N

LEMMA NestedExist ==
    ASSUME NEW D, NEW Out, NEW Done, NEW Flat, NEW flat, NEW inner, NEW after, NEW measure, NEW R,
           IsNested(D, Out, Done, Flat, flat, inner, after, measure, R), NEW n \in Nat
    PROVE  \E g : Nests(Below(D, measure, n), Done, Flat, flat, inner, after, g)
<1> DEFINE B(k) == Below(D, measure, k)
           without == {k \in Nat : ~ \E g : Nests(B(k), Done, Flat, flat, inner, after, g)}
<1>0. IsNested(D, Out, Done, Flat, flat, inner, after, measure, R)
  OBVIOUS
<1>1. SUFFICES ASSUME without # {} PROVE FALSE
  OBVIOUS
<1>2. PICK k \in without : \A j \in without : k <= j
  <2> HIDE DEF without
  <2>1. without \in SUBSET Nat
    BY ONLY TRUE DEF without
  <2>2. QED
    BY ONLY <1>1, <2>1, LeastNumber
<1>3. k \in Nat /\ \A g : ~ Nests(B(k), Done, Flat, flat, inner, after, g)
  BY ONLY <1>2
<1>4. measure \in [D -> Nat]
  BY ONLY <1>0 DEF IsNested
<1>5. CASE k = 0
  <2> DEFINE g == [d \in {} |-> 0]
  <2>1. B(k) = {}
    BY ONLY <1>4, <1>5 DEF Below
  <2>2. Nests(B(k), Done, Flat, flat, inner, after, g)
    BY ONLY <2>1 DEF Nests
  <2>3. QED
    BY ONLY <1>3, <2>2
<1>6. CASE k # 0
  <2>1. k - 1 \in Nat /\ ~ (k <= k - 1)
    BY ONLY <1>3, <1>6
  <2>2. PICK g : Nests(B(k - 1), Done, Flat, flat, inner, after, g)
    BY ONLY <1>2, <2>1
  <2> DEFINE L == B(k - 1)
             K == B(k)
             h == [d \in K |-> IF d \in Done THEN d
                               ELSE g[after[<<d, IF d \in Flat THEN flat[d] ELSE g[inner[d]]>>]]]
  <2>3. \A d : /\ d \in L <=> d \in D /\ measure[d] < k - 1
               /\ d \in K <=> d \in D /\ measure[d] < k
    BY ONLY TRUE DEF Below
  <2>4. ASSUME NEW d \in K, NEW e \in D, measure[e] < measure[d] PROVE e \in L
    <3>1. measure[e] \in Nat /\ measure[d] \in Nat /\ measure[d] < k
      BY ONLY <1>4, <2>3, d \in K, e \in D
    <3>2. measure[e] < k - 1
      BY ONLY <1>3, <2>4, <3>1
    <3>3. QED
      BY ONLY <2>3, <3>2, e \in D
  <2>5. \A d \in L : d \in K
    BY ONLY <1>3, <1>4, <2>3
  <2>6. \A d \in K : h[d] = IF d \in Done THEN d
                            ELSE g[after[<<d, IF d \in Flat THEN flat[d] ELSE g[inner[d]]>>]]
    BY ONLY TRUE
  <2>7. Nests(L, Done, Flat, flat, inner, after, g)
    BY ONLY <2>2
  <2>8. \A d \in L : g[d] = IF d \in Done THEN d
                            ELSE g[after[<<d, IF d \in Flat THEN flat[d] ELSE g[inner[d]]>>]]
    BY ONLY <2>7 DEF Nests
  <2>9. h = [d \in K |-> h[d]]
    BY ONLY TRUE
  <2>10. PICK l : IsNested(L, Out, Done, Flat, flat, inner, after, l, R)
    BY ONLY <1>0, <2>1, NestedBelow
  <2> HIDE DEF h, L, K
  <2>11. \A d \in L : h[d] = g[d]
    BY ONLY <2>5, <2>6, <2>8
  <2>12. \A d \in L : g[d] \in Out /\ <<d, g[d]>> \in R
    BY ONLY <2>7, <2>10, NestedInduction
  <2>13. ASSUME NEW d \in K
         PROVE  h[d] = IF d \in Done THEN d ELSE h[after[<<d, IF d \in Flat THEN flat[d] ELSE h[inner[d]]>>]]
    <3>1. CASE d \notin Done
      <4> DEFINE r == IF d \in Flat THEN flat[d] ELSE g[inner[d]]
      <4>1. d \in D
        BY ONLY <2>3, d \in K
      <4>2. d \notin Flat => inner[d] \in D /\ measure[inner[d]] < measure[d]
        BY ONLY <1>0, <3>1, <4>1 DEF IsNested
      <4>3. d \notin Flat => inner[d] \in L
        BY ONLY <2>4, <4>2, d \in K
      <4>4. d \in Flat => flat[d] \in Out
        BY ONLY <1>0, <3>1, <4>1 DEF IsNested
      <4>5. r \in Out /\ (IF d \in Flat THEN r = flat[d] ELSE <<inner[d], r>> \in R)
        BY ONLY <2>12, <4>3, <4>4
      <4>6. r = IF d \in Flat THEN flat[d] ELSE h[inner[d]]
        BY ONLY <2>11, <4>3
      <4> HIDE DEF r
      <4>7. after[<<d, r>>] \in D /\ measure[after[<<d, r>>]] < measure[d]
        BY ONLY <1>0, <3>1, <4>1, <4>5 DEF IsNested
      <4>8. after[<<d, r>>] \in L
        BY ONLY <2>4, <4>7, d \in K
      <4>9. h[after[<<d, r>>]] = g[after[<<d, r>>]]
        BY ONLY <2>11, <4>8
      <4>10. h[d] = g[after[<<d, r>>]]
        BY ONLY <2>6, <3>1, d \in K DEF r
      <4>11. QED
        BY ONLY <3>1, <4>6, <4>9, <4>10
    <3>2. QED
      BY ONLY <2>6, <3>1, d \in K
  <2>14. h = [d \in K |-> IF d \in Done THEN d
                          ELSE h[after[<<d, IF d \in Flat THEN flat[d] ELSE h[inner[d]]>>]]]
    BY ONLY <2>9, <2>13
  <2>15. Nests(K, Done, Flat, flat, inner, after, h)
    BY ONLY <2>14 DEF Nests
  <2>16. QED
    BY ONLY <1>3, <2>15 DEF K
<1>7. QED
  BY ONLY <1>5, <1>6

\* So there is a function that does so everywhere.
LEMMA NestedYields ==
    ASSUME NEW D, NEW Out, NEW Done, NEW Flat, NEW flat, NEW inner, NEW after, NEW measure, NEW R,
           IsNested(D, Out, Done, Flat, flat, inner, after, measure, R)
    PROVE  \E f : Nests(D, Done, Flat, flat, inner, after, f)
<1> DEFINE B(n) == Below(D, measure, n)
           g(n) == CHOOSE g : Nests(B(n), Done, Flat, flat, inner, after, g)
           f    == [d \in D |-> g(measure[d] + 1)[d]]
<1>0. IsNested(D, Out, Done, Flat, flat, inner, after, measure, R)
  OBVIOUS
<1>1. \A n \in Nat : Nests(B(n), Done, Flat, flat, inner, after, g(n))
  BY ONLY <1>0, NestedExist
<1>2. \A d \in D : f[d] = g(measure[d] + 1)[d]
  BY ONLY TRUE
<1>3. f = [d \in D |-> f[d]]
  BY ONLY TRUE
<1>4. measure \in [D -> Nat]
  BY ONLY <1>0 DEF IsNested
<1>5. \A n, d : d \in B(n) <=> d \in D /\ measure[d] < n
  BY ONLY TRUE DEF Below
<1>6. ASSUME NEW n \in Nat, NEW d \in D, measure[d] < n PROVE g(n)[d] = f[d]
  <2>1. measure[d] + 1 \in Nat /\ measure[d] < measure[d] + 1
    BY ONLY <1>4, d \in D
  <2> DEFINE m == measure[d] + 1
  <2>2. m \in Nat /\ d \in B(m) /\ d \in B(n)
    BY ONLY <1>5, <1>6, <2>1, d \in D
  <2>3. f[d] = g(m)[d]
    BY ONLY <1>2, d \in D
  <2> HIDE DEF m, f
  <2>4. Nests(B(m), Done, Flat, flat, inner, after, g(m)) /\ Nests(B(n), Done, Flat, flat, inner, after, g(n))
    BY ONLY <1>1, <2>2, n \in Nat
  <2> HIDE DEF g
  <2>5. \A e \in B(m) \cap B(n) : g(m)[e] = g(n)[e]
    BY ONLY <1>0, <2>2, <2>4, n \in Nat, NestedAlike
  <2>6. QED
    BY ONLY <2>2, <2>3, <2>5
<1> HIDE DEF g, f
<1>7. ASSUME NEW d \in D
      PROVE  f[d] = IF d \in Done THEN d ELSE f[after[<<d, IF d \in Flat THEN flat[d] ELSE f[inner[d]]>>]]
  <2> DEFINE n == measure[d] + 1
             r == IF d \in Flat THEN flat[d] ELSE g(n)[inner[d]]
  <2>1. n \in Nat /\ measure[d] \in Nat /\ measure[d] < n
    BY ONLY <1>4, d \in D
  <2>2. \A e \in D : measure[e] < measure[d] => measure[e] < n
    BY ONLY <1>4, d \in D
  <2> HIDE DEF n
  <2>3. \A e \in D : measure[e] < n => e \in B(n) /\ g(n)[e] = f[e]
    BY ONLY <1>5, <1>6, <2>1
  <2>4. Nests(B(n), Done, Flat, flat, inner, after, g(n))
    BY ONLY <1>1, <2>1
  <2>5. \A e \in B(n) : g(n)[e] = IF e \in Done THEN e
                                  ELSE g(n)[after[<<e, IF e \in Flat THEN flat[e] ELSE g(n)[inner[e]]>>]]
    BY ONLY <2>4 DEF Nests
  <2>6. CASE d \notin Done
    <3>1. d \in B(n) /\ f[d] = g(n)[d]
      BY ONLY <2>1, <2>3, d \in D
    <3>2. g(n)[d] = g(n)[after[<<d, r>>]]
      BY ONLY <2>5, <2>6, <3>1
    <3>3. d \notin Flat => inner[d] \in D /\ measure[inner[d]] < measure[d]
      BY ONLY <1>0, <2>6, d \in D DEF IsNested
    <3>4. d \notin Flat => g(n)[inner[d]] = f[inner[d]] /\ inner[d] \in B(n)
      BY ONLY <2>2, <2>3, <3>3
    <3>5. r = IF d \in Flat THEN flat[d] ELSE f[inner[d]]
      BY ONLY <3>4
    <3>6. PICK l : IsNested(B(n), Out, Done, Flat, flat, inner, after, l, R)
      BY ONLY <1>0, <2>1, NestedBelow
    <3>7. \A e \in B(n) : g(n)[e] \in Out /\ <<e, g(n)[e]>> \in R
      BY ONLY <2>4, <3>6, NestedInduction
    <3>8. d \in Flat => flat[d] \in Out
      BY ONLY <1>0, <2>6, d \in D DEF IsNested
    <3>9. r \in Out /\ (IF d \in Flat THEN r = flat[d] ELSE <<inner[d], r>> \in R)
      BY ONLY <3>4, <3>7, <3>8
    <3> HIDE DEF r
    <3>10. after[<<d, r>>] \in D /\ measure[after[<<d, r>>]] < measure[d]
      BY ONLY <1>0, <2>6, <3>9, d \in D DEF IsNested
    <3>11. g(n)[after[<<d, r>>]] = f[after[<<d, r>>]]
      BY ONLY <2>2, <2>3, <3>10
    <3>12. QED
      BY ONLY <2>6, <3>1, <3>2, <3>5, <3>11
  <2>7. CASE d \in Done
    <3>1. d \in B(n) /\ f[d] = g(n)[d]
      BY ONLY <2>1, <2>3, d \in D
    <3>2. g(n)[d] = d
      BY ONLY <2>5, <2>7, <3>1
    <3>3. QED
      BY ONLY <2>7, <3>1, <3>2
  <2>8. QED
    BY ONLY <2>6, <2>7
<1>8. f = [d \in D |-> IF d \in Done THEN d ELSE f[after[<<d, IF d \in Flat THEN flat[d] ELSE f[inner[d]]>>]]]
  BY ONLY <1>3, <1>7
<1>9. Nests(D, Done, Flat, flat, inner, after, f)
  BY ONLY <1>8 DEF Nests
<1>10. QED
  BY ONLY <1>9

LEMMA RangeOfTail ==
    ASSUME NEW N, NEW q \in Seq(N), q # <<>>
    PROVE  /\ Len(q) \in Nat /\ Len(q) > 0 /\ Head(q) = q[1] /\ q[1] \in N
           /\ Tail(q) \in Seq(N) /\ Len(Tail(q)) = Len(q) - 1
           /\ Range(q) = {q[1]} \cup Range(Tail(q))
           /\ Range(q) \subseteq N
<1> DEFINE r == Tail(q)
<1>1. /\ Len(q) \in Nat /\ Len(q) > 0 /\ Head(q) = q[1] /\ q[1] \in N
      /\ r \in Seq(N) /\ Len(r) = Len(q) - 1
      /\ \A k \in 1 .. Len(r) : r[k] = q[k + 1]
      /\ DOMAIN q = 1 .. Len(q) /\ DOMAIN r = 1 .. Len(r)
      /\ \A k \in 1 .. Len(q) : q[k] \in N
  BY ONLY q \in Seq(N), q # <<>>
<1> HIDE DEF r
<1>2. \A k \in 1 .. Len(q) : k = 1 \/ (k - 1 \in 1 .. Len(r) /\ r[k - 1] = q[k])
  BY ONLY <1>1
<1>3. \A k \in 1 .. Len(r) : k + 1 \in 1 .. Len(q) /\ r[k] = q[k + 1]
  BY ONLY <1>1
<1>4. Range(q) = {q[1]} \cup Range(r)
  <2>1. \A x \in Range(q) : x = q[1] \/ x \in Range(r)
    BY ONLY <1>1, <1>2 DEF Range
  <2>2. \A x \in Range(r) : x \in Range(q)
    BY ONLY <1>1, <1>3 DEF Range
  <2>3. q[1] \in Range(q)
    BY ONLY <1>1 DEF Range
  <2>4. QED
    BY ONLY <2>1, <2>2, <2>3
<1>5. Range(q) \subseteq N
  BY ONLY <1>1 DEF Range
<1>6. QED
  BY ONLY <1>1, <1>4, <1>5 DEF r

LEMMA RangeOfConcat ==
    ASSUME NEW N, NEW q \in Seq(N), NEW r \in Seq(N)
    PROVE  /\ q \o r \in Seq(N) /\ Len(q \o r) = Len(q) + Len(r)
           /\ Range(q \o r) = Range(q) \cup Range(r)
<1> DEFINE s == q \o r
<1>1. /\ s \in Seq(N) /\ Len(s) = Len(q) + Len(r)
      /\ \A i \in 1 .. Len(q) + Len(r) : s[i] = IF i <= Len(q) THEN q[i] ELSE r[i - Len(q)]
  BY ONLY q \in Seq(N), r \in Seq(N), ConcatProperties, Zenon
<1> HIDE DEF s
<1>2. /\ Len(q) \in Nat /\ Len(r) \in Nat /\ DOMAIN q = 1 .. Len(q) /\ DOMAIN r = 1 .. Len(r)
      /\ DOMAIN s = 1 .. Len(s)
  BY ONLY <1>1, q \in Seq(N), r \in Seq(N)
<1>3. \A i \in DOMAIN s : s[i] \in Range(q) \cup Range(r)
  <2>1. ASSUME NEW i \in DOMAIN s PROVE s[i] \in Range(q) \cup Range(r)
    <3>1. CASE i <= Len(q)
      <4>1. i \in DOMAIN q /\ s[i] = q[i]
        BY ONLY <1>1, <1>2, <3>1, i \in DOMAIN s
      <4>2. QED
        BY ONLY <4>1 DEF Range
    <3>2. CASE ~ (i <= Len(q))
      <4>1. i - Len(q) \in DOMAIN r /\ s[i] = r[i - Len(q)]
        BY ONLY <1>1, <1>2, <3>2, i \in DOMAIN s
      <4>2. QED
        BY ONLY <4>1 DEF Range
    <3>3. QED
      BY ONLY <3>1, <3>2
  <2>2. QED
    BY ONLY <2>1
<1>4. \A i \in DOMAIN q : i \in DOMAIN s /\ s[i] = q[i]
  BY ONLY <1>1, <1>2
<1>5. \A i \in DOMAIN r : i + Len(q) \in DOMAIN s /\ s[i + Len(q)] = r[i]
  BY ONLY <1>1, <1>2
<1>6. Range(s) = Range(q) \cup Range(r)
  BY ONLY <1>3, <1>4, <1>5 DEF Range
<1>7. QED
  BY ONLY <1>1, <1>6 DEF s

LEMMA RangeOfSet ==
    ASSUME NEW S, IsFiniteSet(S)
    PROVE  /\ SetToSeq(S) \in Seq(S) /\ Len(SetToSeq(S)) = Cardinality(S)
           /\ Cardinality(S) \in Nat /\ Range(SetToSeq(S)) = S
<1> DEFINE q == SetToSeq(S)
<1>1. /\ q \in Seq(S) /\ Len(q) = Cardinality(S) /\ Cardinality(S) \in Nat
      /\ \A x \in S : \E k \in 1 .. Cardinality(S) : q[k] = x
  BY ONLY IsFiniteSet(S), SeqOfSet
<1> HIDE DEF q
<1>2. DOMAIN q = 1 .. Cardinality(S) /\ \A k \in DOMAIN q : q[k] \in S
  BY ONLY <1>1
<1>3. Range(q) = S
  BY ONLY <1>1, <1>2 DEF Range
<1>4. QED
  BY ONLY <1>1, <1>3 DEF q

-----------------------------------------------------------------------------
(***************************************************************************)
(* The walk over dependencies: it returns the least set that is closed     *)
(* under them.                                                             *)
(***************************************************************************)
ClosedUnder(next, S) == \A x \in S : next[x] \subseteq S
Reach(next, first) ==
    {y \in DOMAIN next : \A S \in SUBSET DOMAIN next : first \subseteq S /\ ClosedUnder(next, S) => y \in S}
IsGraph(next) == IsFiniteSet(DOMAIN next) /\ ClosedUnder(next, DOMAIN next)

Walks(N) == [queue : Seq(N), seen : SUBSET N]
Walked(N) == {at \in Walks(N) : at.queue = <<>>}
FoundNext(next, at) == next[Head(at.queue)] \ (at.seen \cup {Head(at.queue)})
Ahead(next, at) ==
    IF Head(at.queue) \in at.seen THEN [queue |-> Tail(at.queue), seen |-> at.seen]
    ELSE [queue |-> Tail(at.queue) \o SetToSeq(FoundNext(next, at)), seen |-> at.seen \cup {Head(at.queue)}]
AheadOf(next, N) == [at \in Walks(N) |-> IF at.queue = <<>> THEN at ELSE Ahead(next, at)]
ToWalk(N) == [at \in Walks(N) |-> Cardinality(N \ at.seen) * (Cardinality(N) + 1) + Len(at.queue)]

LEMMA WalkRound ==
    ASSUME NEW next, IsGraph(next), NEW N, N = DOMAIN next, NEW at \in Walks(N), at.queue # <<>>,
           NEW q, q = at.queue, NEW seen, seen = at.seen, NEW t, t = Ahead(next, at)
    PROVE  /\ t \in Walks(N)
           /\ q \in Seq(N) /\ q[1] \in N /\ q[1] \in Range(q)
           /\ t.seen = seen \cup {q[1]}
           /\ t.seen \cup Range(t.queue)
                = seen \cup Range(q) \cup (IF q[1] \in seen THEN {} ELSE next[q[1]])
           /\ IF q[1] \in seen THEN Len(t.queue) < Len(q)
              ELSE Len(t.queue) < Len(q) + Cardinality(N)
<1> DEFINE found == FoundNext(next, at)
           e == SetToSeq(found)
           tail == Tail(q)
<1>1. q \in Seq(N) /\ seen \subseteq N
  BY ONLY at \in Walks(N), q = at.queue, seen = at.seen DEF Walks
<1>2. /\ Len(q) \in Nat /\ Len(q) > 0 /\ Head(q) = q[1] /\ q[1] \in N
      /\ tail \in Seq(N) /\ Len(tail) = Len(q) - 1
      /\ Range(q) = {q[1]} \cup Range(tail)
      /\ Range(q) \subseteq N
  BY ONLY <1>1, at.queue # <<>>, q = at.queue, RangeOfTail
<1>3. IsFiniteSet(N) /\ next[q[1]] \subseteq N
  BY ONLY <1>2, IsGraph(next), N = DOMAIN next DEF IsGraph, ClosedUnder
<1>4. found = next[q[1]] \ (seen \cup {q[1]})
  BY ONLY <1>2, q = at.queue, seen = at.seen DEF FoundNext
<1>5. t = IF q[1] \in seen THEN [queue |-> tail, seen |-> seen]
          ELSE [queue |-> tail \o e, seen |-> seen \cup {q[1]}]
  BY ONLY <1>2, q = at.queue, seen = at.seen, t = Ahead(next, at) DEF Ahead
<1> HIDE DEF tail, found
<1>6. CASE q[1] \in seen
  <2>1. t.queue = tail /\ t.seen = seen /\ t = [queue |-> tail, seen |-> seen]
    BY ONLY <1>5, <1>6
  <2>2. t \in Walks(N)
    BY ONLY <1>1, <1>2, <2>1 DEF Walks
  <2>3. Len(t.queue) < Len(q)
    BY ONLY <1>2, <2>1
  <2>4. QED
    BY ONLY <1>1, <1>2, <1>6, <2>1, <2>2, <2>3
<1>7. CASE q[1] \notin seen
  <2>1. t.queue = tail \o e /\ t.seen = seen \cup {q[1]} /\ t = [queue |-> tail \o e, seen |-> seen \cup {q[1]}]
    BY ONLY <1>5, <1>7
  <2>2. found \subseteq N
    BY ONLY <1>3, <1>4
  <2>3. IsFiniteSet(found) /\ Cardinality(found) <= Cardinality(N) /\ Cardinality(N) \in Nat
    BY ONLY <1>3, <2>2, FS_Subset, FS_CardinalityType
  <2>4. e \in Seq(found) /\ Len(e) = Cardinality(found) /\ Cardinality(found) \in Nat /\ Range(e) = found
    BY ONLY <2>3, RangeOfSet
  <2> HIDE DEF e
  <2>5. e \in Seq(N)
    BY ONLY <2>2, <2>4
  <2>6. tail \o e \in Seq(N) /\ Len(tail \o e) = Len(tail) + Len(e) /\ Range(tail \o e) = Range(tail) \cup Range(e)
    BY ONLY <1>2, <2>5, RangeOfConcat
  <2>7. t \in Walks(N)
    BY ONLY <1>1, <1>2, <2>1, <2>6 DEF Walks
  <2>8. Len(t.queue) < Len(q) + Cardinality(N)
    BY ONLY <1>2, <2>1, <2>3, <2>4, <2>6
  <2>9. t.seen \cup Range(t.queue) = seen \cup Range(q) \cup next[q[1]]
    BY ONLY <1>2, <1>4, <2>1, <2>4, <2>6
  <2>10. QED
    BY ONLY <1>1, <1>2, <1>7, <2>1, <2>7, <2>8, <2>9
<1>8. QED
  BY ONLY <1>6, <1>7

LEMMA Heavier ==
    ASSUME NEW u \in Nat, NEW c \in Nat, NEW l \in Nat, NEW m \in Nat, u > 0, m < l + c
    PROVE  (u - 1) * (c + 1) + m < u * (c + 1) + l
<1>1. (u - 1) * (c + 1) = u * (c + 1) - (c + 1)
  BY ONLY u \in Nat, c \in Nat
<1>2. u * (c + 1) \in Nat
  BY ONLY u \in Nat, c \in Nat
<1> DEFINE p == u * (c + 1)
<1> HIDE DEF p
<1>3. p - (c + 1) + m < p + l
  BY ONLY <1>2, c \in Nat, l \in Nat, m \in Nat, m < l + c DEF p
<1>4. QED
  BY ONLY <1>1, <1>3 DEF p

LEMMA WalksAreLoops ==
    ASSUME NEW next, IsGraph(next), NEW N, N = DOMAIN next
    PROVE  IsLoop(Walks(N), Walked(N), AheadOf(next, N), ToWalk(N))
<1>1. IsFiniteSet(N)
  BY ONLY IsGraph(next), N = DOMAIN next DEF IsGraph
<1> DEFINE c == Cardinality(N)
<1>2. c \in Nat
  BY ONLY <1>1, FS_CardinalityType
<1> HIDE DEF c
<1>3. \A at \in Walks(N) : Len(at.queue) \in Nat /\ at.seen \subseteq N
  BY ONLY TRUE DEF Walks
<1>4. ASSUME NEW at \in Walks(N) PROVE IsFiniteSet(N \ at.seen) /\ Cardinality(N \ at.seen) \in Nat
  BY ONLY <1>1, FS_Difference, FS_CardinalityType
<1>5. ASSUME NEW at \in Walks(N)
      PROVE  /\ ToWalk(N)[at] = Cardinality(N \ at.seen) * (c + 1) + Len(at.queue)
             /\ ToWalk(N)[at] \in Nat
  <2> DEFINE u == Cardinality(N \ at.seen)
             l == Len(at.queue)
  <2>1. ToWalk(N)[at] = u * (c + 1) + l
    BY ONLY at \in Walks(N) DEF ToWalk, c
  <2>2. u \in Nat /\ l \in Nat
    BY ONLY <1>3, <1>4, at \in Walks(N)
  <2> HIDE DEF u, l
  <2>3. u * (c + 1) + l \in Nat
    BY ONLY <1>2, <2>2
  <2>4. QED
    BY ONLY <2>1, <2>3 DEF u, l
<1>6. ToWalk(N) \in [Walks(N) -> Nat]
  <2>1. ToWalk(N) = [at \in Walks(N) |-> ToWalk(N)[at]]
    BY ONLY TRUE DEF ToWalk
  <2>2. QED
    BY ONLY <1>5, <2>1
<1>7. ASSUME NEW at \in Walks(N), at.queue # <<>> PROVE Ahead(next, at) \in Walks(N)
  BY ONLY <1>7, IsGraph(next), N = DOMAIN next, WalkRound
<1>8. AheadOf(next, N) \in [Walks(N) -> Walks(N)]
  BY ONLY <1>7 DEF AheadOf
<1>9. ASSUME NEW at \in Walks(N) \ Walked(N)
      PROVE  ToWalk(N)[AheadOf(next, N)[at]] < ToWalk(N)[at]
  <2> DEFINE t == Ahead(next, at)
             q == at.queue
             seen == at.seen
  <2>1. at \in Walks(N) /\ q # <<>> /\ AheadOf(next, N)[at] = t
    BY ONLY at \in Walks(N) \ Walked(N) DEF Walked, AheadOf
  <2>2. /\ t \in Walks(N) /\ q[1] \in N
        /\ t.seen = seen \cup {q[1]}
        /\ IF q[1] \in seen THEN Len(t.queue) < Len(q)
           ELSE Len(t.queue) < Len(q) + Cardinality(N)
    BY ONLY <2>1, IsGraph(next), N = DOMAIN next, WalkRound
  <2>3. Len(q) \in Nat /\ Len(t.queue) \in Nat
    BY ONLY <1>3, <2>1, <2>2
  <2> DEFINE u == Cardinality(N \ seen)
             v == Cardinality(N \ t.seen)
             l == Len(q)
             m == Len(t.queue)
  <2>4. ToWalk(N)[t] = v * (c + 1) + m /\ ToWalk(N)[at] = u * (c + 1) + l
    BY ONLY <1>5, <2>1, <2>2
  <2>5. u \in Nat /\ v \in Nat
    BY ONLY <1>4, <2>1, <2>2
  <2>6. CASE q[1] \in seen
    <3>1. t.seen = seen /\ m < l
      BY ONLY <2>2, <2>6
    <3>2. v = u
      BY ONLY <3>1
    <3> HIDE DEF u, v, l, m
    <3>3. u * (c + 1) \in Nat
      BY ONLY <1>2, <2>5
    <3> DEFINE p == u * (c + 1)
    <3>4. ToWalk(N)[t] = p + m /\ ToWalk(N)[at] = p + l /\ p \in Nat
      BY ONLY <2>4, <3>2, <3>3
    <3> HIDE DEF p
    <3>5. l \in Nat /\ m \in Nat
      BY ONLY <2>3 DEF l, m
    <3>6. ToWalk(N)[t] < ToWalk(N)[at]
      BY ONLY <3>1, <3>4, <3>5
    <3>7. QED
      BY ONLY <2>1, <3>6
  <2>7. CASE q[1] \notin seen
    <3>1. t.seen = seen \cup {q[1]} /\ m < l + c
      BY ONLY <2>2, <2>7 DEF c
    <3>2. u > 0 /\ v = u - 1
      <4> DEFINE left == N \ seen
      <4>1. IsFiniteSet(left) /\ q[1] \in left /\ N \ t.seen = left \ {q[1]}
        BY ONLY <1>4, <2>1, <2>2, <2>7, <3>1
      <4>0. u = Cardinality(left)
        BY ONLY TRUE
      <4> HIDE DEF left
      <4>2. Cardinality(left \ {q[1]}) = Cardinality(left) - 1
        BY ONLY <4>1, FS_RemoveElement
      <4>3. Cardinality(left) # 0
        BY ONLY <4>1, FS_EmptySet
      <4>4. v = Cardinality(left \ {q[1]})
        BY ONLY <4>1
      <4> HIDE DEF u, v
      <4>5. QED
        BY ONLY <2>5, <4>0, <4>2, <4>3, <4>4
    <3> HIDE DEF u, v, l, m
    <3>3. l \in Nat /\ m \in Nat
      BY ONLY <2>3 DEF l, m
    <3>4. (u - 1) * (c + 1) + m < u * (c + 1) + l
      BY ONLY <1>2, <2>5, <3>1, <3>2, <3>3, Heavier
    <3>5. ToWalk(N)[t] < ToWalk(N)[at]
      BY ONLY <2>4, <3>2, <3>4
    <3>6. QED
      BY ONLY <2>1, <3>5
  <2>8. QED
    BY ONLY <2>6, <2>7
<1>10. Walked(N) \subseteq Walks(N)
  BY ONLY TRUE DEF Walked
<1>11. QED
  BY ONLY <1>6, <1>8, <1>9, <1>10 DEF IsLoop

IsWalk(f, next, N) ==
    f = [at \in Walks(N) |-> IF at.queue = <<>> THEN at.seen ELSE f[Ahead(next, at)]]

LEMMA WalkExists ==
    ASSUME NEW next, IsGraph(next), NEW N, N = DOMAIN next
    PROVE  \E f : IsWalk(f, next, N)
<1> DEFINE D == Walks(N)
           Done == Walked(N)
           step == AheadOf(next, N)
           measure == ToWalk(N)
           out == [at \in D |-> at.seen]
<1>1. IsLoop(D, Done, step, measure)
  BY ONLY IsGraph(next), N = DOMAIN next, WalksAreLoops
<1>2. \E f : f = [at \in D |-> IF at \in Done THEN out[at] ELSE f[step[at]]]
  <2> HIDE DEF D, Done, step, measure, out
  <2>1. QED
    BY ONLY <1>1, LoopYields
<1>3. PICK f : f = [at \in D |-> IF at \in Done THEN out[at] ELSE f[step[at]]]
  BY ONLY <1>2
<1>4. ASSUME NEW at \in D
      PROVE  (IF at \in Done THEN out[at] ELSE f[step[at]])
               = (IF at.queue = <<>> THEN at.seen ELSE f[Ahead(next, at)])
  BY ONLY at \in D DEF Walked, AheadOf
<1>5. f = [at \in D |-> IF at.queue = <<>> THEN at.seen ELSE f[Ahead(next, at)]]
  BY ONLY <1>3, <1>4
<1>6. QED
  BY ONLY <1>5 DEF IsWalk

LEMMA WalkIsAWalk ==
    ASSUME NEW next, IsGraph(next), NEW first
    PROVE  \E f : /\ IsWalk(f, next, DOMAIN next)
                  /\ Walk(first, next) = f[[queue |-> SetToSeq(first), seen |-> {}]]
<1> DEFINE walk == CHOOSE f : IsWalk(f, next, DOMAIN next)
<1>1. IsWalk(walk, next, DOMAIN next)
  <2>1. \E f : IsWalk(f, next, DOMAIN next)
    BY ONLY IsGraph(next), WalkExists
  <2>2. QED
    BY ONLY <2>1
<1>2. Walk(first, next) = walk[[queue |-> SetToSeq(first), seen |-> {}]]
  BY ONLY TRUE DEF Walk, IsWalk, Walks, Ahead, FoundNext
<1>3. QED
  BY ONLY <1>1, <1>2

\* Every node that was seen has its neighbours seen or in the queue.
WalkedTo(next, at) == \A x \in at.seen : next[x] \subseteq at.seen \cup Range(at.queue)

WalkEnds(next, N, at, seen) ==
    /\ seen \in SUBSET N
    /\ at.seen \cup Range(at.queue) \subseteq seen
    /\ ClosedUnder(next, seen)
    /\ \A S \in SUBSET N : ClosedUnder(next, S) /\ at.seen \cup Range(at.queue) \subseteq S => seen \subseteq S

LEMMA WalkIsClosed ==
    ASSUME NEW next, IsGraph(next), NEW N, N = DOMAIN next, NEW f, IsWalk(f, next, N),
           NEW start \in Walks(N), WalkedTo(next, start)
    PROVE  WalkEnds(next, N, start, f[start])
<1> DEFINE D == Walks(N)
           Done == Walked(N)
           step == AheadOf(next, N)
           measure == ToWalk(N)
           Good == {at \in D : WalkedTo(next, at) => WalkEnds(next, N, at, f[at])}
<1>1. IsLoop(D, Done, step, measure)
  BY ONLY IsGraph(next), N = DOMAIN next, WalksAreLoops
<1>2. ASSUME NEW at \in D \cap Done, WalkedTo(next, at) PROVE WalkEnds(next, N, at, f[at])
  <2>1. f[at] = at.seen /\ at.queue = <<>> /\ at.seen \in SUBSET N
    BY ONLY at \in D \cap Done, IsWalk(f, next, N) DEF IsWalk, Walked, Walks
  <2>2. Range(at.queue) = {}
    BY ONLY <2>1 DEF Range
  <2>3. QED
    BY ONLY <1>2, <2>1, <2>2 DEF WalkedTo, WalkEnds, ClosedUnder
<1>3. ASSUME NEW at \in D \ Done, step[at] \in Good, WalkedTo(next, at) PROVE WalkEnds(next, N, at, f[at])
  <2> DEFINE t == Ahead(next, at)
             q == at.queue
             seen == at.seen
             more == IF q[1] \in seen THEN {} ELSE next[q[1]]
  <2>1. at \in D /\ q # <<>> /\ step[at] = t /\ f[at] = f[t]
    BY ONLY at \in D \ Done, IsWalk(f, next, N) DEF IsWalk, Walked, AheadOf
  <2>2. /\ t \in Walks(N) /\ q[1] \in N /\ q[1] \in Range(q)
        /\ t.seen = seen \cup {q[1]}
        /\ t.seen \cup Range(t.queue) = seen \cup Range(q) \cup more
    BY ONLY <2>1, IsGraph(next), N = DOMAIN next, WalkRound
  <2>3. t \in Good
    BY ONLY <1>3, <2>1
  <2> HIDE DEF t, q, seen, more
  <2>4. WalkedTo(next, t)
    <3>1. ASSUME NEW x \in t.seen PROVE next[x] \subseteq t.seen \cup Range(t.queue)
      <4>1. \A y \in seen : next[y] \subseteq seen \cup Range(q)
        BY ONLY <1>3 DEF WalkedTo, seen, q
      <4>2. CASE x \in seen
        BY ONLY <2>2, <4>1, <4>2
      <4>3. CASE x \notin seen
        <5>1. x = q[1] /\ more = next[x]
          BY ONLY <2>2, <4>3, x \in t.seen DEF more
        <5>2. QED
          BY ONLY <2>2, <5>1
      <4>4. QED
        BY ONLY <4>2, <4>3
    <3>2. QED
      BY ONLY <3>1 DEF WalkedTo
  <2>5. WalkEnds(next, N, t, f[t])
    BY ONLY <2>3, <2>4
  <2>6. seen \cup Range(q) \subseteq t.seen \cup Range(t.queue)
    BY ONLY <2>2
  <2>7. ASSUME NEW S \in SUBSET N, ClosedUnder(next, S), seen \cup Range(q) \subseteq S
        PROVE  t.seen \cup Range(t.queue) \subseteq S
    <3>1. q[1] \in S
      BY ONLY <2>2, <2>7
    <3>2. more \subseteq S
      BY ONLY <2>7, <3>1 DEF more, ClosedUnder
    <3>3. QED
      BY ONLY <2>2, <2>7, <3>2
  <2>8. at.seen = seen /\ at.queue = q
    BY ONLY TRUE DEF seen, q
  <2>9. QED
    BY ONLY <2>1, <2>5, <2>6, <2>7, <2>8 DEF WalkEnds
<1>4. Good \in SUBSET D /\ (\A at \in D \cap Done : at \in Good) /\ (\A at \in D \ Done : step[at] \in Good => at \in Good)
  BY ONLY <1>2, <1>3
<1> HIDE DEF Good, D, Done, step, measure
<1>5. D \subseteq Good
  BY ONLY <1>1, <1>4, LoopInduction
<1>6. start \in D
  BY ONLY start \in Walks(N) DEF D
<1>7. start \in Good
  BY ONLY <1>5, <1>6
<1>8. QED
  BY ONLY <1>7, WalkedTo(next, start) DEF Good

LEMMA WalkIsReach ==
    ASSUME NEW next, IsGraph(next), NEW first \in SUBSET DOMAIN next
    PROVE  Walk(first, next) = Reach(next, first)
<1> DEFINE N == DOMAIN next
           q == SetToSeq(first)
           start == [queue |-> q, seen |-> {}]
<1>1. PICK f : IsWalk(f, next, DOMAIN next) /\ Walk(first, next) = f[[queue |-> SetToSeq(first), seen |-> {}]]
  BY ONLY IsGraph(next), WalkIsAWalk
<1>2. IsFiniteSet(first)
  BY ONLY IsGraph(next), first \in SUBSET DOMAIN next, FS_Subset DEF IsGraph
<1>3. q \in Seq(first) /\ Range(q) = first
  BY ONLY <1>2, RangeOfSet
<1>4. f[start] = Walk(first, next)
  BY ONLY <1>1
<1> HIDE DEF q
<1>5. q \in Seq(N)
  BY ONLY <1>3, first \in SUBSET DOMAIN next
<1>6. start \in Walks(N)
  BY ONLY <1>5 DEF Walks
<1>7. start.queue = q /\ start.seen = {}
  BY ONLY TRUE
<1>8. N = DOMAIN next
  BY ONLY TRUE
<1> HIDE DEF start, N
<1>9. WalkedTo(next, start)
  BY ONLY <1>7 DEF WalkedTo
<1>10. IsWalk(f, next, N)
  BY ONLY <1>1, <1>8
<1>11. WalkEnds(next, N, start, f[start])
  BY ONLY <1>6, <1>8, <1>9, <1>10, IsGraph(next), WalkIsClosed
<1> DEFINE r == f[start]
<1>12. /\ r \in SUBSET N /\ first \subseteq r /\ ClosedUnder(next, r)
       /\ \A S \in SUBSET N : ClosedUnder(next, S) /\ first \subseteq S => r \subseteq S
  BY ONLY <1>3, <1>7, <1>11 DEF WalkEnds
<1> HIDE DEF r
<1>13. \A y \in r : y \in Reach(next, first)
  BY ONLY <1>8, <1>12 DEF Reach
<1>14. \A y \in Reach(next, first) : y \in r
  BY ONLY <1>8, <1>12 DEF Reach
<1>15. QED
  BY ONLY <1>4, <1>13, <1>14 DEF r

\* What is reached is closed, and what is reached from a part of a closed set
\* is in it.
LEMMA ReachIsClosed ==
    ASSUME NEW next, IsGraph(next), NEW first \in SUBSET DOMAIN next
    PROVE  /\ first \subseteq Reach(next, first)
           /\ Reach(next, first) \subseteq DOMAIN next
           /\ ClosedUnder(next, Reach(next, first))
           /\ \A S \in SUBSET DOMAIN next :
                ClosedUnder(next, S) /\ first \subseteq S => Reach(next, first) \subseteq S
<1> DEFINE N == DOMAIN next
<1>1. first \subseteq Reach(next, first)
  BY ONLY first \in SUBSET DOMAIN next DEF Reach
<1>2. Reach(next, first) \subseteq N
  BY ONLY TRUE DEF Reach
<1>3. ASSUME NEW x \in Reach(next, first), NEW y \in next[x] PROVE y \in Reach(next, first)
  <2>1. x \in N
    BY ONLY <1>2, <1>3
  <2>2. y \in N
    BY ONLY <1>3, <2>1, IsGraph(next) DEF IsGraph, ClosedUnder
  <2>3. ASSUME NEW S \in SUBSET N, first \subseteq S, ClosedUnder(next, S) PROVE y \in S
    <3>1. x \in S
      BY ONLY <1>3, <2>3 DEF Reach
    <3>2. QED
      BY ONLY <1>3, <2>3, <3>1 DEF ClosedUnder
  <2>4. QED
    BY ONLY <2>2, <2>3 DEF Reach
<1>4. ClosedUnder(next, Reach(next, first))
  BY ONLY <1>3 DEF ClosedUnder
<1>5. \A S \in SUBSET N : ClosedUnder(next, S) /\ first \subseteq S => Reach(next, first) \subseteq S
  BY ONLY TRUE DEF Reach
<1>6. QED
  BY ONLY <1>1, <1>2, <1>4, <1>5

LEMMA ReachOfReached ==
    ASSUME NEW next, IsGraph(next), NEW first \in SUBSET DOMAIN next, NEW x \in Reach(next, first)
    PROVE  Reach(next, next[x]) \subseteq Reach(next, first)
<1> DEFINE R == Reach(next, first)
<1>1. R \subseteq DOMAIN next /\ ClosedUnder(next, R)
  BY ONLY IsGraph(next), first \in SUBSET DOMAIN next, ReachIsClosed
<1>2. x \in R
  BY ONLY x \in Reach(next, first)
<1> HIDE DEF R
<1>3. next[x] \subseteq R /\ next[x] \in SUBSET DOMAIN next
  BY ONLY <1>1, <1>2 DEF ClosedUnder
<1>4. Reach(next, next[x]) \subseteq R
  BY ONLY <1>1, <1>3, IsGraph(next), ReachIsClosed
<1>5. QED
  BY ONLY <1>4 DEF R

\* Going back: what is reached along a graph reaches back along its reverse.
LEMMA ReachBack ==
    ASSUME NEW N, NEW next, NEW back, IsGraph(next), IsGraph(back), DOMAIN next = N, DOMAIN back = N,
           \A x \in N : \A y \in N : y \in next[x] => x \in back[y],
           NEW i \in N, NEW j \in Reach(next, next[i])
    PROVE  i \in Reach(back, back[j])
<1> DEFINE S == {y \in N : i \in Reach(back, back[y])}
<1>1. \A x \in N : next[x] \subseteq N /\ back[x] \subseteq N
  BY ONLY IsGraph(next), IsGraph(back), DOMAIN next = N, DOMAIN back = N DEF IsGraph, ClosedUnder
<1>2. ASSUME NEW y \in next[i] PROVE y \in S
  <2>1. y \in N /\ i \in back[y] /\ back[y] \in SUBSET DOMAIN back
    BY ONLY <1>1, <1>2, i \in N, DOMAIN back = N, \A x \in N : \A z \in N : z \in next[x] => x \in back[z]
  <2>2. back[y] \subseteq Reach(back, back[y])
    BY ONLY <2>1, IsGraph(back), ReachIsClosed
  <2>3. QED
    BY ONLY <2>1, <2>2
<1>3. ASSUME NEW y \in S, NEW z \in next[y] PROVE z \in S
  <2>1. y \in N /\ i \in Reach(back, back[y])
    BY ONLY <1>3
  <2>2. z \in N /\ y \in back[z] /\ back[z] \in SUBSET DOMAIN back
    BY ONLY <1>1, <1>3, <2>1, DOMAIN back = N, \A x \in N : \A w \in N : w \in next[x] => x \in back[w]
  <2>3. back[z] \subseteq Reach(back, back[z])
    BY ONLY <2>2, IsGraph(back), ReachIsClosed
  <2>4. y \in Reach(back, back[z])
    BY ONLY <2>2, <2>3
  <2>5. Reach(back, back[y]) \subseteq Reach(back, back[z])
    BY ONLY <2>2, <2>4, IsGraph(back), ReachOfReached
  <2>6. QED
    BY ONLY <2>1, <2>2, <2>5
<1>4. ClosedUnder(next, S) /\ next[i] \subseteq S /\ S \in SUBSET DOMAIN next
  BY ONLY <1>2, <1>3, DOMAIN next = N DEF ClosedUnder
<1> HIDE DEF S
<1>5. next[i] \in SUBSET DOMAIN next
  BY ONLY <1>1, i \in N, DOMAIN next = N
<1>6. Reach(next, next[i]) \subseteq S
  BY ONLY <1>4, <1>5, IsGraph(next), ReachIsClosed
<1>7. QED
  BY ONLY <1>6, j \in Reach(next, next[i]) DEF S

-----------------------------------------------------------------------------
(***************************************************************************)
(* The search for cycles.  Of the nodes it has visited, those that are not *)
(* on the path are through: while no cycle was found they have their       *)
(* dependencies among themselves, and none of them is in its own chain.    *)
(***************************************************************************)
IsPath(next, p)  == \A n \in 1 .. Len(p) - 1 : p[n + 1] \in next[p[n]]
IsCycle(next, c) ==
    /\ c \in Seq(DOMAIN next)
    /\ Len(c) > 1
    /\ c[1] = c[Len(c)]
    /\ IsPath(next, c)

\* A node on the path with an edge from its end closes a cycle.
LEMMA ClosesACycle ==
    ASSUME NEW next, NEW N, N = DOMAIN next, NEW path \in Seq(N), IsPath(next, path),
           NEW n \in DOMAIN path, NEW node \in N, path[n] = node, node \in next[path[Len(path)]],
           NEW c, c = SubSeq(path, n, Len(path)) \o <<node>>
    PROVE  IsCycle(next, c)
<1> DEFINE l == Len(path)
           s == SubSeq(path, n, l)
           o == <<node>>
<1>1. l \in Nat /\ n \in 1 .. l /\ DOMAIN path = 1 .. l /\ \A k \in 1 .. l : path[k] \in N
  BY ONLY path \in Seq(N), n \in DOMAIN path
<1>2. s \in Seq(N) /\ Len(s) = l - n + 1 /\ \A k \in 1 .. l - n + 1 : s[k] = path[n + k - 1]
  <2>1. n \in 1 .. l + 1 /\ l \in n - 1 .. l
    BY ONLY <1>1
  <2>2. s = [k \in 1 .. l - n + 1 |-> path[n + k - 1]]
    BY ONLY TRUE
  <2>3. \A k \in 1 .. l - n + 1 : n + k - 1 \in 1 .. l
    BY ONLY <1>1
  <2>4. l - n + 1 \in Nat
    BY ONLY <1>1
  <2> HIDE DEF s
  <2>5. \A k \in 1 .. l - n + 1 : s[k] = path[n + k - 1] /\ s[k] \in N
    BY ONLY <1>1, <2>2, <2>3
  <2>6. s \in Seq(N) /\ Len(s) = l - n + 1
    <3> DEFINE m == l - n + 1
    <3>1. m \in Nat /\ s = [k \in 1 .. m |-> s[k]] /\ \A k \in 1 .. m : s[k] \in N
      BY ONLY <2>2, <2>4, <2>5
    <3> HIDE DEF m
    <3>2. s \in [1 .. m -> N]
      BY ONLY <3>1
    <3>3. s \in Seq(N) /\ Len(s) = m
      BY ONLY <3>1, <3>2
    <3>4. QED
      BY ONLY <3>3 DEF m
  <2>7. QED
    BY ONLY <2>5, <2>6
<1>3. o \in Seq(N) /\ Len(o) = 1 /\ o[1] = node
  BY ONLY node \in N
<1>4. c = s \o o
  BY ONLY c = SubSeq(path, n, Len(path)) \o <<node>>
<1> HIDE DEF s, o
<1>5. /\ c \in Seq(N) /\ Len(c) = Len(s) + Len(o)
      /\ \A i \in 1 .. Len(s) + Len(o) : c[i] = IF i <= Len(s) THEN s[i] ELSE o[i - Len(s)]
  <2>1. /\ s \o o \in Seq(N) /\ Len(s \o o) = Len(s) + Len(o)
        /\ \A i \in 1 .. Len(s) + Len(o) : (s \o o)[i] = IF i <= Len(s) THEN s[i] ELSE o[i - Len(s)]
    BY ONLY <1>2, <1>3, ConcatProperties, Zenon
  <2>2. QED
    BY ONLY <1>4, <2>1
<1> HIDE DEF l
<1>6. Len(c) = l - n + 2 /\ Len(c) \in Nat /\ Len(c) > 1
  BY ONLY <1>1, <1>2, <1>3, <1>5
<1>7. \A k \in 1 .. l - n + 1 : c[k] = path[n + k - 1]
  BY ONLY <1>1, <1>2, <1>3, <1>5
<1>8. c[l - n + 2] = node
  <2>1. l - n + 2 \in 1 .. Len(s) + Len(o) /\ ~ (l - n + 2 <= Len(s)) /\ l - n + 2 - Len(s) = 1
    BY ONLY <1>1, <1>2, <1>3
  <2>2. QED
    BY ONLY <1>3, <1>5, <2>1
<1>9. c[1] = node
  <2>1. 1 \in 1 .. l - n + 1 /\ n + 1 - 1 = n
    BY ONLY <1>1
  <2>2. QED
    BY ONLY <1>7, <2>1, path[n] = node
<1>10. ASSUME NEW k \in 1 .. Len(c) - 1 PROVE c[k + 1] \in next[c[k]]
  <2>1. k \in 1 .. l - n + 1 /\ c[k] = path[n + k - 1]
    BY ONLY <1>1, <1>6, <1>7, k \in 1 .. Len(c) - 1
  <2>2. CASE k = l - n + 1
    <3>1. k + 1 = l - n + 2 /\ n + k - 1 = l
      BY ONLY <1>1, <2>2
    <3>2. QED
      BY ONLY <1>8, <2>1, <3>1, node \in next[path[Len(path)]] DEF l
  <2>3. CASE k # l - n + 1
    <3> DEFINE m == n + k - 1
    <3>1. k + 1 \in 1 .. l - n + 1 /\ n + (k + 1) - 1 = m + 1 /\ m \in 1 .. l - 1
      BY ONLY <1>1, <2>1, <2>3
    <3> HIDE DEF m
    <3>2. c[k + 1] = path[m + 1]
      BY ONLY <1>7, <3>1
    <3>3. path[m + 1] \in next[path[m]]
      BY ONLY <3>1, IsPath(next, path) DEF IsPath, l
    <3>4. QED
      BY ONLY <2>1, <3>2, <3>3 DEF m
  <2>4. QED
    BY ONLY <2>2, <2>3
<1>11. QED
  BY ONLY <1>5, <1>6, <1>8, <1>9, <1>10, N = DOMAIN next DEF IsCycle, IsPath

\* What is on a cycle is in its own chain.
LEMMA CycleReturns ==
    ASSUME NEW next, IsGraph(next), NEW c, IsCycle(next, c)
    PROVE  c[1] \in DOMAIN next /\ c[1] \in Reach(next, next[c[1]])
<1> DEFINE N == DOMAIN next
           R == Reach(next, next[c[1]])
           away == {k \in Nat : k \in 2 .. Len(c) /\ c[k] \notin R}
<1>1. Len(c) \in Nat /\ Len(c) > 1 /\ c[1] = c[Len(c)] /\ \A k \in 1 .. Len(c) : c[k] \in N
  BY ONLY IsCycle(next, c) DEF IsCycle
<1>2. \A k \in 1 .. Len(c) - 1 : c[k + 1] \in next[c[k]]
  BY ONLY IsCycle(next, c) DEF IsCycle, IsPath
<1>3. c[1] \in N
  BY ONLY <1>1
<1>4. next[c[1]] \in SUBSET N
  BY ONLY <1>3, IsGraph(next) DEF IsGraph, ClosedUnder
<1>5. next[c[1]] \subseteq R /\ ClosedUnder(next, R)
  BY ONLY <1>4, IsGraph(next), ReachIsClosed
<1>6. ASSUME away # {} PROVE FALSE
  <2> HIDE DEF R
  <2>1. away \in SUBSET Nat
    BY ONLY TRUE
  <2>2. \E k \in away : \A j \in away : k <= j
    <3> HIDE DEF away
    <3>1. QED
      BY ONLY <1>6, <2>1, LeastNumber
  <2>3. PICK k \in Nat : k \in away /\ \A j \in away : k <= j
    BY ONLY <2>1, <2>2
  <2>4. k \in 2 .. Len(c) /\ c[k] \notin R
    BY ONLY <2>3
  <2>5. k - 1 \in 1 .. Len(c) - 1 /\ (k - 1) + 1 = k /\ k - 1 \in Nat /\ ~ (k <= k - 1)
    BY ONLY <1>1, <2>3, <2>4
  <2>6. c[k] \in next[c[k - 1]]
    BY ONLY <1>2, <2>5
  <2>7. CASE k = 2
    <3>1. k - 1 = 1
      BY ONLY <2>7
    <3>2. QED
      BY ONLY <1>5, <2>4, <2>6, <3>1
  <2>8. CASE k # 2
    <3>1. k - 1 \in 2 .. Len(c)
      BY ONLY <1>1, <2>3, <2>4, <2>8
    <3>2. c[k - 1] \in R
      BY ONLY <2>3, <2>5, <3>1
    <3>3. QED
      BY ONLY <1>5, <2>4, <2>6, <3>2 DEF ClosedUnder
  <2>9. QED
    BY ONLY <2>7, <2>8
<1>7. Len(c) \in 2 .. Len(c)
  BY ONLY <1>1
<1>8. c[Len(c)] \in R
  BY ONLY <1>1, <1>6, <1>7
<1>9. QED
  BY ONLY <1>1, <1>3, <1>8

Black(at) == at.visited \ Range(at.path)
BlackIsSafe(next, at) ==
    \A b \in Black(at) : next[b] \subseteq Black(at) /\ b \notin Reach(next, next[b])

\* What a search may begin with.
Legal(next, at) ==
    /\ Range(at.path) \subseteq at.visited
    /\ IsPath(next, at.path)
    /\ at.path # <<>> => Range(at.nodes) \subseteq next[at.path[Len(at.path)]]
    /\ \A c \in at.cycles : IsCycle(next, c)

\* What it returns then.
Searched(next, at, r) ==
    /\ at.visited \subseteq r.visited
    /\ at.cycles \subseteq r.cycles
    /\ r.path = at.path
    /\ Legal(next, at) =>
         /\ \A c \in r.cycles : IsCycle(next, c)
         /\ r.cycles = {} /\ BlackIsSafe(next, at) =>
              BlackIsSafe(next, r) /\ Range(at.nodes) \subseteq Black(r)

VisitsOf(N) == [nodes : Seq(N), visited : SUBSET N, path : Seq(N), cycles : SUBSET Seq(N)]

LEMMA VisitFields ==
    ASSUME NEW N, NEW at \in VisitsOf(N)
    PROVE  /\ at.nodes \in Seq(N) /\ at.visited \subseteq N /\ at.path \in Seq(N) /\ at.cycles \subseteq Seq(N)
BY ONLY at \in VisitsOf(N) DEF VisitsOf

LEMMA VisitHead ==
    ASSUME NEW N, NEW at \in VisitsOf(N), at.nodes # <<>>, NEW node, node = Head(at.nodes)
    PROVE  /\ node \in N
           /\ Tail(at.nodes) \in Seq(N)
           /\ Len(at.nodes) \in Nat /\ Len(Tail(at.nodes)) = Len(at.nodes) - 1
           /\ Range(at.nodes) = {node} \cup Range(Tail(at.nodes))
<1> DEFINE q == at.nodes
<1>1. q \in Seq(N) /\ q # <<>> /\ node = Head(q)
  BY ONLY at \in VisitsOf(N), at.nodes # <<>>, node = Head(at.nodes), VisitFields
<1> HIDE DEF q
<1>2. /\ Len(q) \in Nat /\ Head(q) = q[1] /\ q[1] \in N
      /\ Tail(q) \in Seq(N) /\ Len(Tail(q)) = Len(q) - 1
      /\ Range(q) = {q[1]} \cup Range(Tail(q))
  BY ONLY <1>1, RangeOfTail
<1>3. QED
  BY ONLY <1>1, <1>2 DEF q

\* A neighbour that was visited before.
LEMMA ClosedStep ==
    ASSUME NEW next, NEW N, N = DOMAIN next, NEW at \in VisitsOf(N), at.nodes # <<>>,
           NEW node, node = Head(at.nodes), NEW t, t = Closed(at)
    PROVE  /\ t \in VisitsOf(N)
           /\ t.nodes = at.nodes /\ t.visited = at.visited /\ t.path = at.path
           /\ t.cycles = at.cycles \cup ClosedBy(node, at.path)
           /\ ClosedBy(node, at.path) = {} => node \notin Range(at.path)
           /\ Legal(next, at) => \A c \in t.cycles : IsCycle(next, c)
<1> DEFINE path == at.path
           more == ClosedBy(node, path)
           all == at.cycles \cup more
<1>1. /\ at = [nodes |-> at.nodes, visited |-> at.visited, path |-> at.path, cycles |-> at.cycles]
      /\ at.nodes \in Seq(N) /\ at.visited \subseteq N /\ path \in Seq(N) /\ at.cycles \subseteq Seq(N)
  BY ONLY at \in VisitsOf(N) DEF VisitsOf
<1>2. node \in N /\ Range(at.nodes) = {node} \cup Range(Tail(at.nodes))
  BY ONLY at \in VisitsOf(N), at.nodes # <<>>, node = Head(at.nodes), VisitHead
<1>3. t = [nodes |-> at.nodes, visited |-> at.visited, path |-> at.path, cycles |-> all]
  <2>1. t = [at EXCEPT !.cycles = at.cycles \cup ClosedBy(node, at.path)]
    BY ONLY t = Closed(at), node = Head(at.nodes) DEF Closed
  <2>2. t = [at EXCEPT !.cycles = all]
    BY ONLY <2>1
  <2> HIDE DEF all
  <2>3. QED
    BY ONLY <1>1, <2>2
<1>4. ASSUME NEW n \in DOMAIN path PROVE SubSeq(path, n, Len(path)) \o <<node>> \in Seq(N)
  <2> DEFINE s == SubSeq(path, n, Len(path))
             o == <<node>>
  <2>1. path \in Seq(N) /\ n \in 1 .. Len(path) /\ Len(path) \in Nat
    BY ONLY <1>1, n \in DOMAIN path
  <2> HIDE DEF path
  <2>2. s \in Seq(N)
    BY ONLY <2>1
  <2>3. o \in Seq(N)
    BY ONLY <1>2
  <2> HIDE DEF s, o
  <2>4. s \o o \in Seq(N)
    BY ONLY <2>2, <2>3, RangeOfConcat
  <2>5. QED
    BY ONLY <2>4 DEF s, o
<1>5. \A c \in more : \E n \in DOMAIN path : path[n] = node /\ c = SubSeq(path, n, Len(path)) \o <<node>>
  BY ONLY TRUE DEF ClosedBy
<1>6. more \subseteq Seq(N)
  <2> HIDE DEF more
  <2>1. \A c \in more : c \in Seq(N)
    BY ONLY <1>4, <1>5
  <2>2. QED
    BY ONLY <2>1
<1>7. \A n \in DOMAIN path : path[n] = node => more # {}
  BY ONLY TRUE DEF ClosedBy
<1>8. more = {} => node \notin Range(path)
  BY ONLY <1>7 DEF Range
<1>9. ASSUME Legal(next, at), NEW c \in more PROVE IsCycle(next, c)
  <2> HIDE DEF more
  <2>1. \E n \in DOMAIN path : path[n] = node /\ c = SubSeq(path, n, Len(path)) \o <<node>>
    BY ONLY <1>5, <1>9
  <2>2. PICK n \in DOMAIN path : path[n] = node /\ c = SubSeq(path, n, Len(path)) \o <<node>>
    BY ONLY <2>1
  <2>3. path # <<>>
    BY ONLY n \in DOMAIN path
  <2>4. IsPath(next, path) /\ Range(at.nodes) \subseteq next[path[Len(path)]]
    BY ONLY <1>9, <2>3 DEF Legal
  <2>5. node \in next[path[Len(path)]]
    BY ONLY <1>2, <2>4
  <2> HIDE DEF path
  <2>6. QED
    BY ONLY <1>1, <1>2, <2>2, <2>4, <2>5, N = DOMAIN next, ClosesACycle
<1>10. all \subseteq Seq(N) /\ (Legal(next, at) => \A c \in all : IsCycle(next, c))
  BY ONLY <1>1, <1>6, <1>9 DEF Legal
<1>11. all = at.cycles \cup ClosedBy(node, at.path)
  BY ONLY TRUE
<1> HIDE DEF all
<1>12. /\ t.nodes = at.nodes /\ t.visited = at.visited /\ t.path = at.path /\ t.cycles = all
  BY ONLY <1>3
<1>13. t \in VisitsOf(N)
  BY ONLY <1>1, <1>3, <1>10 DEF VisitsOf
<1>14. QED
  BY ONLY <1>8, <1>10, <1>11, <1>12, <1>13

\* And one that was not: the search inside begins at it.
LEMMA InsideStep ==
    ASSUME NEW next, next = Graph, IsGraph(next), NEW N, N = DOMAIN next,
           NEW at \in VisitsOf(N), at.nodes # <<>>,
           NEW node, node = Head(at.nodes), NEW t, t = Inside(at)
    PROVE  /\ t \in VisitsOf(N)
           /\ t.visited = at.visited \cup {node}
           /\ t.cycles = at.cycles
           /\ Range(t.nodes) = next[node]
           /\ Len(t.nodes) <= Cardinality(N) /\ Len(t.nodes) \in Nat /\ Cardinality(N) \in Nat
           /\ Range(t.path) = Range(at.path) \cup {node}
           /\ Legal(next, at) => Legal(next, t)
<1> DEFINE deps == next[node]
           q == SetToSeq(deps)
           p == Append(at.path, node)
<1>1. at.nodes \in Seq(N) /\ at.visited \subseteq N /\ at.path \in Seq(N) /\ at.cycles \subseteq Seq(N)
  BY ONLY at \in VisitsOf(N), VisitFields
<1>2. node \in N /\ Range(at.nodes) = {node} \cup Range(Tail(at.nodes))
  BY ONLY at \in VisitsOf(N), at.nodes # <<>>, node = Head(at.nodes), VisitHead
<1>3. DependsOn(node) = deps
  BY ONLY <1>2, next = Graph, N = DOMAIN next DEF Graph
<1>4. t = [nodes |-> q, visited |-> at.visited \cup {node}, path |-> p, cycles |-> at.cycles]
  BY ONLY <1>3, t = Inside(at), node = Head(at.nodes) DEF Inside
<1>5. deps \subseteq N /\ IsFiniteSet(N)
  BY ONLY <1>2, IsGraph(next), N = DOMAIN next DEF IsGraph, ClosedUnder
<1> HIDE DEF deps
<1>6. IsFiniteSet(deps) /\ Cardinality(deps) <= Cardinality(N) /\ Cardinality(N) \in Nat
  BY ONLY <1>5, FS_Subset, FS_CardinalityType
<1>7. q \in Seq(deps) /\ Len(q) = Cardinality(deps) /\ Cardinality(deps) \in Nat /\ Range(q) = deps
  BY ONLY <1>6, RangeOfSet
<1> HIDE DEF q
<1>8. q \in Seq(N)
  BY ONLY <1>5, <1>7
<1> DEFINE l == Len(at.path)
<1>9. /\ p \in Seq(N) /\ Len(p) = l + 1 /\ l \in Nat /\ p[l + 1] = node /\ \A k \in 1 .. l : p[k] = at.path[k]
      /\ DOMAIN p = 1 .. l + 1 /\ DOMAIN at.path = 1 .. l
  BY ONLY <1>1, <1>2
<1> HIDE DEF p
<1>10. Range(p) = Range(at.path) \cup {node}
  <2>1. \A k \in DOMAIN p : p[k] = node \/ (k \in DOMAIN at.path /\ p[k] = at.path[k])
    BY ONLY <1>9
  <2>2. \A k \in DOMAIN at.path : k \in DOMAIN p /\ p[k] = at.path[k]
    BY ONLY <1>9
  <2>3. l + 1 \in DOMAIN p /\ p[l + 1] = node
    BY ONLY <1>9
  <2>4. QED
    BY ONLY <2>1, <2>2, <2>3 DEF Range
<1>11. t \in VisitsOf(N)
  BY ONLY <1>1, <1>2, <1>4, <1>8, <1>9 DEF VisitsOf
<1>12. t.nodes = q /\ t.visited = at.visited \cup {node} /\ t.path = p /\ t.cycles = at.cycles
  BY ONLY <1>4
<1>13. ASSUME Legal(next, at) PROVE Legal(next, t)
  <2>1. /\ Range(at.path) \subseteq at.visited /\ IsPath(next, at.path)
        /\ at.path # <<>> => Range(at.nodes) \subseteq next[at.path[l]]
        /\ \A c \in at.cycles : IsCycle(next, c)
    BY ONLY <1>13 DEF Legal
  <2>2. ASSUME NEW k \in 1 .. Len(p) - 1 PROVE p[k + 1] \in next[p[k]]
    <3> HIDE DEF l
    <3>1. k \in 1 .. l /\ p[k] = at.path[k]
      BY ONLY <1>9, k \in 1 .. Len(p) - 1
    <3>2. CASE k = l
      <4>1. p[k + 1] = node
        BY ONLY <1>9, <3>2
      <4>2. at.path # <<>>
        BY ONLY <1>9, <3>1
      <4>3. node \in next[at.path[l]]
        BY ONLY <1>2, <2>1, <4>2
      <4>4. QED
        BY ONLY <3>1, <3>2, <4>1, <4>3
    <3>3. CASE k # l
      <4>1. k \in 1 .. l - 1 /\ k + 1 \in 1 .. l
        BY ONLY <1>9, <3>1, <3>3
      <4>2. at.path[k + 1] \in next[at.path[k]]
        BY ONLY <2>1, <4>1 DEF IsPath, l
      <4>3. p[k + 1] = at.path[k + 1]
        BY ONLY <1>9, <4>1
      <4>4. QED
        BY ONLY <3>1, <4>2, <4>3
    <3>4. QED
      BY ONLY <3>2, <3>3
  <2>3. p[Len(p)] = node
    BY ONLY <1>9
  <2>4. Range(q) = next[node]
    BY ONLY <1>7 DEF deps
  <2>5. IsPath(next, p)
    BY ONLY <2>2 DEF IsPath
  <2>6. Range(p) \subseteq at.visited \cup {node}
    BY ONLY <1>10, <2>1
  <2>7. QED
    BY ONLY <1>12, <2>1, <2>3, <2>4, <2>5, <2>6 DEF Legal
<1>14. Range(q) = next[node]
  BY ONLY <1>7 DEF deps
<1>15. QED
  BY ONLY <1>6, <1>7, <1>10, <1>11, <1>12, <1>13, <1>14

LEMMA OnwardStep ==
    ASSUME NEW N, NEW at \in VisitsOf(N), at.nodes # <<>>, NEW r \in VisitsOf(N), NEW o, o = Onward(at, r)
    PROVE  /\ o \in VisitsOf(N)
           /\ o.nodes = Tail(at.nodes) /\ o.visited = r.visited /\ o.path = at.path /\ o.cycles = r.cycles
<1>1. o = [nodes |-> Tail(at.nodes), visited |-> r.visited, path |-> at.path, cycles |-> r.cycles]
  BY ONLY o = Onward(at, r) DEF Onward
<1>2. Tail(at.nodes) \in Seq(N)
  BY ONLY at \in VisitsOf(N), at.nodes # <<>>, VisitHead
<1>3. at.path \in Seq(N) /\ r.visited \subseteq N /\ r.cycles \subseteq Seq(N)
  BY ONLY at \in VisitsOf(N), r \in VisitsOf(N), VisitFields
<1> DEFINE tail == Tail(at.nodes)
<1> HIDE DEF tail
<1>4. o = [nodes |-> tail, visited |-> r.visited, path |-> at.path, cycles |-> r.cycles] /\ tail \in Seq(N)
  BY ONLY <1>1, <1>2 DEF tail
<1>5. o \in VisitsOf(N)
  BY ONLY <1>3, <1>4 DEF VisitsOf
<1>6. o.nodes = tail /\ o.visited = r.visited /\ o.path = at.path /\ o.cycles = r.cycles
  BY ONLY <1>4
<1>7. QED
  BY ONLY <1>5, <1>6 DEF tail

LEMMA VisitedBefore ==
    ASSUME NEW next, NEW N, N = DOMAIN next, NEW at \in VisitsOf(N), at.nodes # <<>>,
           Head(at.nodes) \in at.visited, NEW t, t = Closed(at), NEW o, o = Onward(at, t),
           NEW q \in VisitsOf(N), Searched(next, o, q)
    PROVE  Searched(next, at, q)
<1> DEFINE node == Head(at.nodes)
           more == ClosedBy(node, at.path)
<1>1. /\ t \in VisitsOf(N)
      /\ t.visited = at.visited
      /\ t.cycles = at.cycles \cup more
      /\ more = {} => node \notin Range(at.path)
      /\ Legal(next, at) => \A c \in t.cycles : IsCycle(next, c)
  BY ONLY N = DOMAIN next, at \in VisitsOf(N), at.nodes # <<>>, t = Closed(at), ClosedStep
<1>2. o.nodes = Tail(at.nodes) /\ o.visited = t.visited /\ o.path = at.path /\ o.cycles = t.cycles
  BY ONLY <1>1, at \in VisitsOf(N), at.nodes # <<>>, o = Onward(at, t), OnwardStep
<1>3. Range(at.nodes) = {node} \cup Range(Tail(at.nodes))
  BY ONLY at \in VisitsOf(N), at.nodes # <<>>, VisitHead
<1>4. node \in at.visited
  BY ONLY Head(at.nodes) \in at.visited
<1> DEFINE tail == Tail(at.nodes)
<1> HIDE DEF node, more, tail
<1>5. /\ o.visited \subseteq q.visited /\ o.cycles \subseteq q.cycles /\ q.path = o.path
      /\ Legal(next, o) =>
           /\ \A c \in q.cycles : IsCycle(next, c)
           /\ q.cycles = {} /\ BlackIsSafe(next, o) =>
                BlackIsSafe(next, q) /\ Range(o.nodes) \subseteq Black(q)
  BY ONLY Searched(next, o, q) DEF Searched
<1>6. Range(o.nodes) = Range(tail) /\ Range(at.nodes) = {node} \cup Range(tail)
  BY ONLY <1>2, <1>3 DEF tail
<1>7. Legal(next, at) => Legal(next, o)
  <2> SUFFICES ASSUME Legal(next, at) PROVE Legal(next, o)
    OBVIOUS
  <2>1. /\ Range(at.path) \subseteq at.visited /\ IsPath(next, at.path)
        /\ at.path # <<>> => Range(at.nodes) \subseteq next[at.path[Len(at.path)]]
    BY ONLY Legal(next, at) DEF Legal
  <2>2. Range(o.nodes) \subseteq Range(at.nodes)
    BY ONLY <1>6
  <2>3. \A c \in o.cycles : IsCycle(next, c)
    BY ONLY <1>1, <1>2, Legal(next, at)
  <2>4. o.path = at.path /\ o.visited = at.visited
    BY ONLY <1>1, <1>2
  <2>5. QED
    BY ONLY <2>1, <2>2, <2>3, <2>4 DEF Legal
<1>8. ASSUME Legal(next, at), q.cycles = {}, BlackIsSafe(next, at)
      PROVE  BlackIsSafe(next, q) /\ Range(at.nodes) \subseteq Black(q)
  <2>1. Black(o) = Black(at)
    BY ONLY <1>1, <1>2 DEF Black
  <2>2. BlackIsSafe(next, o)
    BY ONLY <1>8, <2>1 DEF BlackIsSafe
  <2>3. BlackIsSafe(next, q) /\ Range(tail) \subseteq Black(q)
    BY ONLY <1>5, <1>6, <1>7, <1>8, <2>2
  <2>4. more = {}
    BY ONLY <1>1, <1>2, <1>5, <1>8
  <2>5. node \in Black(q)
    BY ONLY <1>1, <1>2, <1>4, <1>5, <2>4 DEF Black
  <2>6. QED
    BY ONLY <1>6, <2>3, <2>5
<1>9. at.visited \subseteq q.visited /\ at.cycles \subseteq q.cycles /\ q.path = at.path
  BY ONLY <1>1, <1>2, <1>5
<1>10. Legal(next, at) => \A c \in q.cycles : IsCycle(next, c)
  BY ONLY <1>5, <1>7
<1>11. QED
  BY ONLY <1>8, <1>9, <1>10 DEF Searched

LEMMA VisitedInside ==
    ASSUME NEW next, next = Graph, IsGraph(next), NEW N, N = DOMAIN next,
           NEW at \in VisitsOf(N), at.nodes # <<>>, Head(at.nodes) \notin at.visited,
           NEW t, t = Inside(at), NEW r \in VisitsOf(N), Searched(next, t, r),
           NEW o, o = Onward(at, r), NEW q \in VisitsOf(N), Searched(next, o, q)
    PROVE  Searched(next, at, q)
<1> DEFINE node == Head(at.nodes)
<1>1. /\ t \in VisitsOf(N)
      /\ t.visited = at.visited \cup {node}
      /\ t.cycles = at.cycles
      /\ Range(t.nodes) = next[node]
      /\ Range(t.path) = Range(at.path) \cup {node}
      /\ Legal(next, at) => Legal(next, t)
  BY ONLY next = Graph, IsGraph(next), N = DOMAIN next, at \in VisitsOf(N), at.nodes # <<>>, t = Inside(at),
          InsideStep
<1>2. o.nodes = Tail(at.nodes) /\ o.visited = r.visited /\ o.path = at.path /\ o.cycles = r.cycles
  BY ONLY at \in VisitsOf(N), at.nodes # <<>>, r \in VisitsOf(N), o = Onward(at, r), OnwardStep
<1>3. Range(at.nodes) = {node} \cup Range(Tail(at.nodes)) /\ node \in N
  BY ONLY at \in VisitsOf(N), at.nodes # <<>>, VisitHead
<1>4. node \notin at.visited
  BY ONLY Head(at.nodes) \notin at.visited
<1> DEFINE tail == Tail(at.nodes)
<1> HIDE DEF node, tail
<1>5. /\ t.visited \subseteq r.visited /\ t.cycles \subseteq r.cycles /\ r.path = t.path
      /\ Legal(next, t) =>
           /\ \A c \in r.cycles : IsCycle(next, c)
           /\ r.cycles = {} /\ BlackIsSafe(next, t) =>
                BlackIsSafe(next, r) /\ Range(t.nodes) \subseteq Black(r)
  BY ONLY Searched(next, t, r) DEF Searched
<1>6. /\ o.visited \subseteq q.visited /\ o.cycles \subseteq q.cycles /\ q.path = o.path
      /\ Legal(next, o) =>
           /\ \A c \in q.cycles : IsCycle(next, c)
           /\ q.cycles = {} /\ BlackIsSafe(next, o) =>
                BlackIsSafe(next, q) /\ Range(o.nodes) \subseteq Black(q)
  BY ONLY Searched(next, o, q) DEF Searched
<1>7. Range(o.nodes) = Range(tail) /\ Range(at.nodes) = {node} \cup Range(tail)
  BY ONLY <1>2, <1>3 DEF tail
<1>8. Legal(next, at) => Legal(next, o)
  <2> SUFFICES ASSUME Legal(next, at) PROVE Legal(next, o)
    OBVIOUS
  <2>1. /\ Range(at.path) \subseteq at.visited /\ IsPath(next, at.path)
        /\ at.path # <<>> => Range(at.nodes) \subseteq next[at.path[Len(at.path)]]
    BY ONLY Legal(next, at) DEF Legal
  <2>2. Range(o.nodes) \subseteq Range(at.nodes)
    BY ONLY <1>7
  <2>3. \A c \in o.cycles : IsCycle(next, c)
    BY ONLY <1>1, <1>2, <1>5, Legal(next, at)
  <2>4. o.path = at.path /\ at.visited \subseteq o.visited
    BY ONLY <1>1, <1>2, <1>5
  <2>5. QED
    BY ONLY <2>1, <2>2, <2>3, <2>4 DEF Legal
<1>9. ASSUME Legal(next, at), q.cycles = {}, BlackIsSafe(next, at)
      PROVE  BlackIsSafe(next, q) /\ Range(at.nodes) \subseteq Black(q)
  <2>1. r.cycles = {}
    BY ONLY <1>2, <1>6, <1>9
  <2>2. Black(t) = Black(at)
    BY ONLY <1>1, <1>4 DEF Black
  <2>3. BlackIsSafe(next, t)
    BY ONLY <1>9, <2>2 DEF BlackIsSafe
  <2>4. BlackIsSafe(next, r) /\ next[node] \subseteq Black(r)
    BY ONLY <1>1, <1>5, <1>9, <2>1, <2>3
  <2>5. Range(at.path) \subseteq at.visited
    BY ONLY <1>9 DEF Legal
  <2>6. Black(o) = Black(r) \cup {node} /\ node \notin Black(r)
    BY ONLY <1>1, <1>2, <1>4, <1>5, <2>5 DEF Black
  <2>7. Black(r) \in SUBSET DOMAIN next
    BY ONLY N = DOMAIN next, r \in VisitsOf(N), VisitFields DEF Black
  <2>8. ClosedUnder(next, Black(r))
    BY ONLY <2>4 DEF BlackIsSafe, ClosedUnder
  <2>9. Reach(next, next[node]) \subseteq Black(r)
    <3>1. next[node] \in SUBSET DOMAIN next
      BY ONLY <2>4, <2>7
    <3> DEFINE B == Black(r)
               first == next[node]
    <3>2. B \in SUBSET DOMAIN next /\ ClosedUnder(next, B) /\ first \subseteq B /\ first \in SUBSET DOMAIN next
      BY ONLY <2>4, <2>7, <2>8, <3>1
    <3> HIDE DEF B, first
    <3>3. Reach(next, first) \subseteq B
      BY ONLY <3>2, IsGraph(next), ReachIsClosed
    <3>4. QED
      BY ONLY <3>3 DEF B, first
  <2>10. ASSUME NEW b \in Black(o) PROVE next[b] \subseteq Black(o) /\ b \notin Reach(next, next[b])
    <3>1. CASE b \in Black(r)
      BY ONLY <2>4, <2>6, <3>1 DEF BlackIsSafe
    <3>2. CASE b = node
      BY ONLY <2>4, <2>6, <2>9, <3>2
    <3>3. QED
      BY ONLY <2>6, <2>10, <3>1, <3>2
  <2>11. BlackIsSafe(next, o)
    BY ONLY <2>10 DEF BlackIsSafe
  <2>12. BlackIsSafe(next, q) /\ Range(tail) \subseteq Black(q)
    BY ONLY <1>6, <1>7, <1>8, <1>9, <2>11
  <2>13. node \in Black(q)
    BY ONLY <1>1, <1>2, <1>4, <1>5, <1>6, <2>5 DEF Black
  <2>14. QED
    BY ONLY <1>7, <2>12, <2>13
<1>10. at.visited \subseteq q.visited /\ at.cycles \subseteq q.cycles /\ q.path = at.path
  BY ONLY <1>1, <1>2, <1>5, <1>6
<1>11. Legal(next, at) => \A c \in q.cycles : IsCycle(next, c)
  BY ONLY <1>6, <1>8
<1>12. QED
  BY ONLY <1>9, <1>10, <1>11 DEF Searched

VisitedAll(N)   == {at \in VisitsOf(N) : at.nodes = <<>>}
KnownHead(N)    == {at \in VisitsOf(N) : at.nodes # <<>> /\ Head(at.nodes) \in at.visited}
ClosedAt(N)     == [at \in VisitsOf(N) |-> Closed(at)]
InsideAt(N)     == [at \in VisitsOf(N) |-> Inside(at)]
OnwardFrom(N)   == [x \in VisitsOf(N) \X VisitsOf(N) |-> Onward(x[1], x[2])]
ToVisit(N)      == [at \in VisitsOf(N) |-> Cardinality(N \ at.visited) * (Cardinality(N) + 1) + Len(at.nodes)]
SearchedPairs(next, N) == {x \in VisitsOf(N) \X VisitsOf(N) : Searched(next, x[1], x[2])}

\* A later visit with a node more has less to do, however many it looks at.
LEMMA LessToVisit ==
    ASSUME NEW N, IsFiniteSet(N), NEW at \in VisitsOf(N), NEW t \in VisitsOf(N), at.visited \subseteq t.visited,
           NEW node \in N, node \notin at.visited, node \in t.visited,
           Len(t.nodes) < Len(at.nodes) + Cardinality(N)
    PROVE  ToVisit(N)[t] < ToVisit(N)[at]
<1> DEFINE c == Cardinality(N)
           left == N \ at.visited
           after == N \ t.visited
           u == Cardinality(left)
           v == Cardinality(after)
           l == Len(at.nodes)
           m == Len(t.nodes)
<1>1. ToVisit(N)[t] = v * (c + 1) + m /\ ToVisit(N)[at] = u * (c + 1) + l
  BY ONLY at \in VisitsOf(N), t \in VisitsOf(N) DEF ToVisit
<1>2. l \in Nat /\ m \in Nat
  BY ONLY at \in VisitsOf(N), t \in VisitsOf(N) DEF VisitsOf
<1>3. IsFiniteSet(left) /\ IsFiniteSet(after) /\ c \in Nat
  BY ONLY IsFiniteSet(N), FS_Difference, FS_CardinalityType
<1>4. after \subseteq left \ {node} /\ node \in left
  BY ONLY at.visited \subseteq t.visited, node \in N, node \notin at.visited, node \in t.visited
<1> HIDE DEF left, after
<1>5. u \in Nat /\ v \in Nat
  BY ONLY <1>3, FS_CardinalityType
<1>6. IsFiniteSet(left \ {node}) /\ Cardinality(left \ {node}) = Cardinality(left) - 1
  BY ONLY <1>3, <1>4, FS_RemoveElement
<1>7. v <= u - 1
  <2>1. Cardinality(after) <= Cardinality(left \ {node})
    BY ONLY <1>4, <1>6, FS_Subset
  <2>2. QED
    BY ONLY <1>6, <2>1
<1>8. m < l + c
  BY ONLY Len(t.nodes) < Len(at.nodes) + Cardinality(N)
<1> HIDE DEF u, v, l, m, c
<1>9. u > 0 /\ u - 1 \in Nat
  BY ONLY <1>5, <1>7
<1>10. (u - 1) * (c + 1) + m < u * (c + 1) + l
  BY ONLY <1>2, <1>3, <1>5, <1>8, <1>9, Heavier
<1>11. v * (c + 1) <= (u - 1) * (c + 1)
  <2>1. \A a, b \in Nat : a <= b => a * (c + 1) <= b * (c + 1)
    BY ONLY <1>3
  <2>2. QED
    BY ONLY <1>5, <1>7, <1>9, <2>1
<1>12. v * (c + 1) \in Nat /\ (u - 1) * (c + 1) \in Nat /\ u * (c + 1) \in Nat
  BY ONLY <1>3, <1>5, <1>9
<1> DEFINE a == v * (c + 1)
           b == (u - 1) * (c + 1)
           d == u * (c + 1)
<1>13. a \in Nat /\ b \in Nat /\ d \in Nat /\ a <= b /\ b + m < d + l
       /\ ToVisit(N)[t] = a + m /\ ToVisit(N)[at] = d + l
  BY ONLY <1>1, <1>10, <1>11, <1>12
<1> HIDE DEF a, b, d
<1>14. QED
  BY ONLY <1>2, <1>13

LEMMA VisitsAreNested ==
    ASSUME NEW next, next = Graph, IsGraph(next), NEW N, N = DOMAIN next
    PROVE  IsNested(VisitsOf(N), VisitsOf(N), VisitedAll(N), KnownHead(N), ClosedAt(N), InsideAt(N),
                    OnwardFrom(N), ToVisit(N), SearchedPairs(next, N))
<1> DEFINE V == VisitsOf(N)
           R == SearchedPairs(next, N)
<1>1. IsFiniteSet(N) /\ Cardinality(N) \in Nat
  BY ONLY IsGraph(next), N = DOMAIN next, FS_CardinalityType DEF IsGraph
<1>2. ASSUME NEW at \in V
      PROVE  /\ ToVisit(N)[at] = Cardinality(N \ at.visited) * (Cardinality(N) + 1) + Len(at.nodes)
             /\ ToVisit(N)[at] \in Nat
             /\ Cardinality(N \ at.visited) \in Nat /\ Len(at.nodes) \in Nat
  <2> DEFINE c == Cardinality(N)
             u == Cardinality(N \ at.visited)
             l == Len(at.nodes)
  <2>1. ToVisit(N)[at] = u * (c + 1) + l
    BY ONLY at \in V DEF ToVisit
  <2>2. IsFiniteSet(N \ at.visited)
    BY ONLY <1>1, FS_Difference
  <2>3. u \in Nat /\ c \in Nat
    BY ONLY <1>1, <2>2, FS_CardinalityType
  <2>4. l \in Nat
    BY ONLY at \in V DEF VisitsOf
  <2> HIDE DEF c, u, l
  <2>5. u * (c + 1) + l \in Nat
    BY ONLY <2>3, <2>4
  <2>6. QED
    BY ONLY <2>1, <2>3, <2>4, <2>5 DEF c, u, l
<1>3. ToVisit(N) \in [V -> Nat]
  <2>1. ToVisit(N) = [at \in V |-> ToVisit(N)[at]]
    BY ONLY TRUE DEF ToVisit
  <2>2. QED
    BY ONLY <1>2, <2>1
<1>4. \A at, r \in V : <<at, r>> \in R <=> Searched(next, at, r)
  BY ONLY TRUE DEF SearchedPairs
<1>5. ASSUME NEW at \in V, at \in VisitedAll(N) PROVE <<at, at>> \in R
  <2>1. at.nodes = <<>>
    BY ONLY <1>5 DEF VisitedAll
  <2>2. Range(at.nodes) = {}
    BY ONLY <2>1 DEF Range
  <2>3. Searched(next, at, at)
    BY ONLY <2>2 DEF Searched, Legal
  <2>4. QED
    BY ONLY <1>4, <2>3, at \in V
<1>6. \A at \in V : /\ at \notin VisitedAll(N) <=> at.nodes # <<>>
                    /\ at \in KnownHead(N) <=> at.nodes # <<>> /\ Head(at.nodes) \in at.visited
                    /\ ClosedAt(N)[at] = Closed(at)
                    /\ InsideAt(N)[at] = Inside(at)
  BY ONLY TRUE DEF VisitedAll, KnownHead, ClosedAt, InsideAt
<1>7. \A at, r \in V : OnwardFrom(N)[<<at, r>>] = Onward(at, r)
  BY ONLY TRUE DEF OnwardFrom
<1> HIDE DEF R
<1>8. ASSUME NEW at \in V, at.nodes # <<>>, Head(at.nodes) \notin at.visited
      PROVE  Inside(at) \in V /\ ToVisit(N)[Inside(at)] < ToVisit(N)[at]
  <2> DEFINE t == Inside(at)
             node == Head(at.nodes)
  <2>1. /\ t \in V /\ t.visited = at.visited \cup {node}
        /\ Len(t.nodes) <= Cardinality(N) /\ Len(t.nodes) \in Nat
    BY ONLY next = Graph, IsGraph(next), N = DOMAIN next, at \in V, <1>8, InsideStep
  <2>2. node \in N /\ Len(at.nodes) \in Nat /\ Len(at.nodes) > 0
    <3>1. node \in N /\ Len(at.nodes) \in Nat
      BY ONLY at \in V, <1>8, VisitHead
    <3>2. Len(at.nodes) # 0
      BY ONLY at \in V, <1>8 DEF VisitsOf
    <3>3. QED
      BY ONLY <3>1, <3>2
  <2> HIDE DEF t
  <2>3. at.visited \subseteq t.visited /\ node \in t.visited /\ node \notin at.visited
    BY ONLY <1>8, <2>1
  <2>4. Len(t.nodes) < Len(at.nodes) + Cardinality(N)
    BY ONLY <1>1, <2>1, <2>2
  <2> HIDE DEF node, V
  <2>5. ToVisit(N)[t] < ToVisit(N)[at]
    BY ONLY <1>1, <2>1, <2>2, <2>3, <2>4, at \in V, LessToVisit DEF V
  <2>6. QED
    BY ONLY <2>1, <2>5 DEF t
<1>9. ASSUME NEW at \in V, at.nodes # <<>>, Head(at.nodes) \in at.visited
      PROVE  /\ Closed(at) \in V /\ Onward(at, Closed(at)) \in V
             /\ ToVisit(N)[Onward(at, Closed(at))] < ToVisit(N)[at]
             /\ \A q \in V : Searched(next, Onward(at, Closed(at)), q) => Searched(next, at, q)
  <2> DEFINE t == Closed(at)
             o == Onward(at, t)
  <2>1. t \in V /\ t.visited = at.visited
    BY ONLY N = DOMAIN next, at \in V, <1>9, ClosedStep
  <2>2. o \in V /\ o.nodes = Tail(at.nodes) /\ o.visited = at.visited
    BY ONLY at \in V, <1>9, <2>1, OnwardStep
  <2>3. ASSUME NEW q \in V, Searched(next, o, q) PROVE Searched(next, at, q)
    BY ONLY N = DOMAIN next, at \in V, <1>9, <2>3, q \in V, VisitedBefore
  <2>4. Len(at.nodes) \in Nat /\ Len(Tail(at.nodes)) = Len(at.nodes) - 1
    BY ONLY at \in V, <1>9, VisitHead
  <2> HIDE DEF t, o
  <2>5. ToVisit(N)[o] < ToVisit(N)[at]
    <3> DEFINE c == Cardinality(N) + 1
               u == Cardinality(N \ at.visited)
    <3>1. ToVisit(N)[o] = Cardinality(N \ o.visited) * (Cardinality(N) + 1) + Len(o.nodes)
      BY ONLY <1>2, <2>2
    <3>2. ToVisit(N)[at] = Cardinality(N \ at.visited) * (Cardinality(N) + 1) + Len(at.nodes)
      BY ONLY <1>2, at \in V
    <3>3. u \in Nat /\ c \in Nat
      BY ONLY <1>1, <1>2, at \in V
    <3>4. ToVisit(N)[o] = u * c + Len(o.nodes) /\ ToVisit(N)[at] = u * c + Len(at.nodes)
      BY ONLY <2>2, <3>1, <3>2
    <3> HIDE DEF u, c
    <3>5. u * c \in Nat
      BY ONLY <3>3
    <3> DEFINE p == u * c
    <3>6. p \in Nat /\ ToVisit(N)[o] = p + Len(o.nodes) /\ ToVisit(N)[at] = p + Len(at.nodes)
      BY ONLY <3>4, <3>5
    <3> HIDE DEF p
    <3>7. Len(o.nodes) = Len(at.nodes) - 1
      BY ONLY <2>2, <2>4
    <3>8. QED
      BY ONLY <2>4, <3>6, <3>7
  <2>6. QED
    BY ONLY <2>1, <2>2, <2>3, <2>5 DEF t, o
<1>10. ASSUME NEW at \in V, at.nodes # <<>>, Head(at.nodes) \notin at.visited,
              NEW r \in V, Searched(next, Inside(at), r)
       PROVE  /\ Onward(at, r) \in V
              /\ ToVisit(N)[Onward(at, r)] < ToVisit(N)[at]
              /\ \A q \in V : Searched(next, Onward(at, r), q) => Searched(next, at, q)
  <2> DEFINE t == Inside(at)
             o == Onward(at, r)
             node == Head(at.nodes)
  <2>1. t.visited = at.visited \cup {node}
    BY ONLY next = Graph, IsGraph(next), N = DOMAIN next, at \in V, <1>10, InsideStep
  <2>2. o \in V /\ o.nodes = Tail(at.nodes) /\ o.visited = r.visited
    BY ONLY at \in V, r \in V, <1>10, OnwardStep
  <2>3. ASSUME NEW q \in V, Searched(next, o, q) PROVE Searched(next, at, q)
    BY ONLY next = Graph, IsGraph(next), N = DOMAIN next, at \in V, r \in V, <1>10, <2>3, q \in V, VisitedInside
  <2>4. Len(at.nodes) \in Nat /\ Len(Tail(at.nodes)) = Len(at.nodes) - 1 /\ node \in N
    BY ONLY at \in V, <1>10, VisitHead
  <2>5. t.visited \subseteq r.visited
    BY ONLY <1>10 DEF Searched
  <2> HIDE DEF t, o
  <2>6. at.visited \subseteq o.visited /\ node \in o.visited /\ node \notin at.visited
    BY ONLY <1>10, <2>1, <2>2, <2>5
  <2>7. Len(o.nodes) < Len(at.nodes) + Cardinality(N)
    BY ONLY <1>1, <2>2, <2>4
  <2> HIDE DEF node, V
  <2>8. ToVisit(N)[o] < ToVisit(N)[at]
    BY ONLY <1>1, <2>2, <2>4, <2>6, <2>7, at \in V, LessToVisit DEF V
  <2>9. QED
    BY ONLY <2>2, <2>3, <2>8 DEF o
<1> DEFINE Done == VisitedAll(N)
           Flat == KnownHead(N)
           flat == ClosedAt(N)
           inner == InsideAt(N)
           after == OnwardFrom(N)
           measure == ToVisit(N)
<1>11. \A at \in V : at \in Done => <<at, at>> \in R /\ at \in V
  BY ONLY <1>5
<1>12. \A at \in V : at \notin Done /\ at \notin Flat => inner[at] \in V /\ measure[inner[at]] < measure[at]
  BY ONLY <1>6, <1>8
<1>13. \A at \in V : at \notin Done /\ at \in Flat => flat[at] \in V
  BY ONLY <1>6, <1>9
<1>14. ASSUME NEW at \in V, NEW r \in V, at \notin Done,
              IF at \in Flat THEN r = flat[at] ELSE <<inner[at], r>> \in R
       PROVE  /\ after[<<at, r>>] \in V
              /\ measure[after[<<at, r>>]] < measure[at]
              /\ \A q \in V : <<after[<<at, r>>], q>> \in R => <<at, q>> \in R
  <2>1. at.nodes # <<>> /\ after[<<at, r>>] = Onward(at, r)
    BY ONLY <1>6, <1>7, <1>14, at \in V, r \in V
  <2>2. CASE at \in Flat
    <3>1. Head(at.nodes) \in at.visited /\ r = Closed(at)
      BY ONLY <1>6, <1>14, <2>2, at \in V
    <3>2. /\ Onward(at, r) \in V /\ ToVisit(N)[Onward(at, r)] < ToVisit(N)[at]
          /\ \A q \in V : Searched(next, Onward(at, r), q) => Searched(next, at, q)
      BY ONLY <1>9, <2>1, <3>1, at \in V
    <3>3. QED
      BY ONLY <1>4, <2>1, <3>2, at \in V
  <2>3. CASE at \notin Flat
    <3>1. Head(at.nodes) \notin at.visited /\ inner[at] = Inside(at) /\ <<Inside(at), r>> \in R
      BY ONLY <1>6, <1>14, <2>1, <2>3, at \in V
    <3>2. Inside(at) \in V
      BY ONLY <1>8, <2>1, <3>1, at \in V
    <3>3. Searched(next, Inside(at), r)
      BY ONLY <1>4, <3>1, <3>2, r \in V
    <3>4. /\ Onward(at, r) \in V /\ ToVisit(N)[Onward(at, r)] < ToVisit(N)[at]
          /\ \A q \in V : Searched(next, Onward(at, r), q) => Searched(next, at, q)
      BY ONLY <1>10, <2>1, <3>1, <3>3, at \in V, r \in V
    <3>5. QED
      BY ONLY <1>4, <2>1, <3>4, at \in V
  <2>4. QED
    BY ONLY <2>2, <2>3
<1> HIDE DEF V, Done, Flat, flat, inner, after, measure
<1>15. measure \in [V -> Nat]
  BY ONLY <1>3 DEF measure
<1>16. IsNested(V, V, Done, Flat, flat, inner, after, measure, R)
  BY ONLY <1>11, <1>12, <1>13, <1>14, <1>15 DEF IsNested
<1>17. QED
  BY ONLY <1>16 DEF V, Done, Flat, flat, inner, after, measure, R

\* Only what comes after a pair of D and Out matters.
LEMMA NestedAfter ==
    ASSUME NEW D, NEW Out, NEW Done, NEW Flat, NEW flat, NEW inner, NEW after, NEW measure, NEW R,
           IsNested(D, Out, Done, Flat, flat, inner, after, measure, R),
           NEW next, \A d \in D : \A r \in Out : next[<<d, r>>] = after[<<d, r>>]
    PROVE  IsNested(D, Out, Done, Flat, flat, inner, next, measure, R)
BY ONLY IsNested(D, Out, Done, Flat, flat, inner, after, measure, R),
        \A d \in D : \A r \in Out : next[<<d, r>>] = after[<<d, r>>] DEF IsNested

IsDfs(f, N) ==
    f = [at \in VisitsOf(N) |->
            IF at.nodes = <<>> THEN at
            ELSE f[Onward(at, IF Head(at.nodes) \in at.visited THEN Closed(at) ELSE f[Inside(at)])]]

LEMMA DfsIsADfs ==
    ASSUME NEW next, next = Graph, IsGraph(next), NEW N, N = DOMAIN rows, N = DOMAIN next
    PROVE  IsDfs(Dfs, N)
<1> DEFINE V == VisitsOf(N)
           Done == VisitedAll(N)
           Flat == KnownHead(N)
           flat == ClosedAt(N)
           inner == InsideAt(N)
           after == OnwardFrom(N)
           measure == ToVisit(N)
           R == SearchedPairs(next, N)
<1>1. IsNested(V, V, Done, Flat, flat, inner, after, measure, R)
  BY ONLY next = Graph, IsGraph(next), N = DOMAIN next, VisitsAreNested
<1>2. \E f : Nests(V, Done, Flat, flat, inner, after, f)
  <2> HIDE DEF V, Done, Flat, flat, inner, after, measure, R
  <2>1. QED
    BY ONLY <1>1, NestedYields
<1>3. PICK f : Nests(V, Done, Flat, flat, inner, after, f)
  BY ONLY <1>2
<1>4. \A at \in V : f[at] \in V
  <2> HIDE DEF V, Done, Flat, flat, inner, after, measure, R
  <2>1. QED
    BY ONLY <1>1, <1>3, NestedInduction
<1>5. \A at \in V : /\ at \in Done <=> at.nodes = <<>>
                    /\ at \notin Done => (at \in Flat <=> Head(at.nodes) \in at.visited)
                    /\ flat[at] = Closed(at)
                    /\ inner[at] = Inside(at)
  BY ONLY TRUE DEF VisitedAll, KnownHead, ClosedAt, InsideAt
<1>6. \A at, r \in V : after[<<at, r>>] = Onward(at, r)
  BY ONLY TRUE DEF OnwardFrom
<1>7. \A at \in V : f[at] = IF at \in Done THEN at
                            ELSE f[after[<<at, IF at \in Flat THEN flat[at] ELSE f[inner[at]]>>]]
  BY ONLY <1>3 DEF Nests
<1>8. f = [at \in V |-> f[at]]
  BY ONLY <1>3 DEF Nests
<1>9. \A at \in V : /\ at \notin Done /\ at \notin Flat => inner[at] \in V
                    /\ at \notin Done /\ at \in Flat => flat[at] \in V
  <2> HIDE DEF V, Done, Flat, flat, inner, after, measure, R
  <2>1. QED
    BY ONLY <1>1 DEF IsNested
<1> HIDE DEF V, Done, Flat, flat, inner, after, measure, R
<1>10. ASSUME NEW at \in V
       PROVE  f[at] = IF at.nodes = <<>> THEN at
                      ELSE f[Onward(at, IF Head(at.nodes) \in at.visited THEN Closed(at) ELSE f[Inside(at)])]
  <2>1. CASE at \in Done
    BY ONLY <1>5, <1>7, <2>1, at \in V
  <2>2. CASE at \notin Done
    <3> DEFINE r == IF at \in Flat THEN flat[at] ELSE f[inner[at]]
    <3>1. r \in V
      BY ONLY <1>4, <1>9, <2>2, at \in V
    <3>2. f[at] = f[after[<<at, r>>]]
      BY ONLY <1>7, <2>2, at \in V
    <3>3. r = IF Head(at.nodes) \in at.visited THEN Closed(at) ELSE f[Inside(at)]
      BY ONLY <1>5, <2>2, at \in V
    <3> HIDE DEF r
    <3>4. f[at] = f[Onward(at, r)]
      BY ONLY <1>6, <3>1, <3>2, at \in V
    <3>5. at.nodes # <<>>
      BY ONLY <1>5, <2>2, at \in V
    <3>6. QED
      BY ONLY <3>3, <3>4, <3>5
  <2>3. QED
    BY ONLY <2>1, <2>2
<1>11. f = [at \in V |-> IF at.nodes = <<>> THEN at
              ELSE f[Onward(at, IF Head(at.nodes) \in at.visited THEN Closed(at) ELSE f[Inside(at)])]]
  BY ONLY <1>8, <1>10
<1>12. IsDfs(f, N)
  BY ONLY <1>11 DEF IsDfs, V
<1> DEFINE dfs == CHOOSE g : IsDfs(g, N)
<1>13. IsDfs(dfs, N)
  BY ONLY <1>12
<1>14. Dfs = dfs
  BY ONLY N = DOMAIN rows DEF Dfs, IsDfs, Visits, VisitsOf
<1>15. QED
  BY ONLY <1>13, <1>14

LEMMA DfsSearches ==
    ASSUME NEW next, next = Graph, IsGraph(next), NEW N, N = DOMAIN rows, N = DOMAIN next,
           NEW at \in VisitsOf(N)
    PROVE  Dfs[at] \in VisitsOf(N) /\ Searched(next, at, Dfs[at])
<1> DEFINE V == VisitsOf(N)
           Done == VisitedAll(N)
           Flat == KnownHead(N)
           flat == ClosedAt(N)
           inner == InsideAt(N)
           on == OnwardFrom(N)
           measure == ToVisit(N)
           R == SearchedPairs(next, N)
           f == Dfs
           All == V \cup {f[d] : d \in V}
           after == [x \in V \X All |-> Onward(x[1], x[2])]
<1>1. IsNested(V, V, Done, Flat, flat, inner, on, measure, R)
  BY ONLY next = Graph, IsGraph(next), N = DOMAIN next, VisitsAreNested
<1>2. IsDfs(f, N)
  BY ONLY next = Graph, IsGraph(next), N = DOMAIN rows, N = DOMAIN next, DfsIsADfs
<1>3. \A d \in V : \A r \in V : after[<<d, r>>] = on[<<d, r>>]
  BY ONLY TRUE DEF OnwardFrom
<1>4. \A d \in V : \A r \in All : after[<<d, r>>] = Onward(d, r)
  BY ONLY TRUE
<1>5. \A d \in V : d \in All /\ f[d] \in All
  BY ONLY TRUE
<1>6. f = [d \in V |-> IF d.nodes = <<>> THEN d
              ELSE f[Onward(d, IF Head(d.nodes) \in d.visited THEN Closed(d) ELSE f[Inside(d)])]]
  BY ONLY <1>2 DEF IsDfs
<1>7. ASSUME NEW d \in V
      PROVE  /\ d \in Done <=> d.nodes = <<>>
             /\ d \notin Done => (d \in Flat <=> Head(d.nodes) \in d.visited)
             /\ flat[d] = Closed(d)
             /\ inner[d] = Inside(d)
  BY ONLY d \in V DEF VisitedAll, KnownHead, ClosedAt, InsideAt
<1>8. \A d, r \in V : <<d, r>> \in R => Searched(next, d, r)
  BY ONLY TRUE DEF SearchedPairs
<1> HIDE DEF V, Done, Flat, flat, inner, on, measure, R, f, All, after
<1>9. IsNested(V, V, Done, Flat, flat, inner, after, measure, R)
  BY ONLY <1>1, <1>3, NestedAfter
<1>10. \A d \in V : /\ d \notin Done /\ d \notin Flat => inner[d] \in V
                    /\ d \notin Done /\ d \in Flat => flat[d] \in V
  BY ONLY <1>1 DEF IsNested
<1>11. ASSUME NEW d \in V
       PROVE  (IF d.nodes = <<>> THEN d
               ELSE f[Onward(d, IF Head(d.nodes) \in d.visited THEN Closed(d) ELSE f[Inside(d)])])
                = (IF d \in Done THEN d ELSE f[after[<<d, IF d \in Flat THEN flat[d] ELSE f[inner[d]]>>]])
  <2> DEFINE c == Closed(d)
             in == Inside(d)
             known == Head(d.nodes) \in d.visited
  <2>0. /\ d \in Done <=> d.nodes = <<>>
        /\ d \notin Done => (d \in Flat <=> known)
        /\ flat[d] = c
        /\ inner[d] = in
    BY ONLY <1>7, d \in V
  <2> HIDE DEF c, in, known
  <2>1. CASE d \in Done
    BY ONLY <2>0, <2>1
  <2>2. CASE d \notin Done
    <3> DEFINE r == IF d \in Flat THEN flat[d] ELSE f[inner[d]]
    <3>1. r \in All
      BY ONLY <1>5, <1>10, <2>2, d \in V
    <3>2. r = IF known THEN c ELSE f[in]
      BY ONLY <2>0, <2>2
    <3>3. d.nodes # <<>>
      BY ONLY <2>0, <2>2
    <3> HIDE DEF r
    <3>4. after[<<d, r>>] = Onward(d, r)
      BY ONLY <1>4, <3>1, d \in V
    <3>5. QED
      BY ONLY <2>2, <3>2, <3>3, <3>4 DEF r, c, in, known
  <2>3. QED
    BY ONLY <2>1, <2>2
<1>12. f = [d \in V |-> IF d \in Done THEN d
                        ELSE f[after[<<d, IF d \in Flat THEN flat[d] ELSE f[inner[d]]>>]]]
  BY ONLY <1>6, <1>11
<1>13. Nests(V, Done, Flat, flat, inner, after, f)
  BY ONLY <1>12 DEF Nests
<1>14. \A d \in V : f[d] \in V /\ <<d, f[d]>> \in R
  BY ONLY <1>9, <1>13, NestedInduction
<1>15. f[at] \in V /\ Searched(next, at, f[at])
  BY ONLY <1>8, <1>14, at \in VisitsOf(N) DEF V
<1>16. QED
  BY ONLY <1>15 DEF f, V

\* What the search reports is a cycle, and if it reports none no requirement
\* is in its own chain.
LEMMA CyclesAreFound ==
    ASSUME NEW next, next = Graph, IsGraph(next), NEW N, N = DOMAIN rows, N = DOMAIN next
    PROVE  /\ \A c \in CircularDependencies : IsCycle(next, c)
           /\ CircularDependencies = {} => \A i \in N : i \notin Reach(next, next[i])
           /\ CircularDependencies # {} => \E i \in N : i \in Reach(next, next[i])
<1> DEFINE s == SetToSeq(N)
           start == [nodes |-> s, visited |-> {}, path |-> <<>>, cycles |-> {}]
           r == Dfs[start]
<1>1. CircularDependencies = r.cycles
  BY ONLY N = DOMAIN rows DEF CircularDependencies
<1>2. s \in Seq(N) /\ Range(s) = N
  BY ONLY IsGraph(next), N = DOMAIN next, RangeOfSet DEF IsGraph
<1> HIDE DEF s
<1>3. /\ start.nodes = s /\ start.visited = {} /\ start.path = <<>> /\ start.cycles = {}
      /\ start \in VisitsOf(N)
  BY ONLY <1>2 DEF VisitsOf
<1>4. Range(<<>>) = {} /\ Len(<<>>) = 0
  BY ONLY TRUE DEF Range
<1> HIDE DEF start
<1>5. r \in VisitsOf(N) /\ Searched(next, start, r)
  BY ONLY <1>3, next = Graph, IsGraph(next), N = DOMAIN rows, N = DOMAIN next, DfsSearches
<1>6. Legal(next, start)
  <2>1. IsPath(next, start.path)
    BY ONLY <1>3, <1>4 DEF IsPath
  <2>2. QED
    BY ONLY <1>3, <1>4, <2>1 DEF Legal
<1>7. BlackIsSafe(next, start)
  BY ONLY <1>3 DEF BlackIsSafe, Black
<1> HIDE DEF r
<1>8. \A c \in r.cycles : IsCycle(next, c)
  BY ONLY <1>5, <1>6 DEF Searched
<1>9. r.cycles = {} => BlackIsSafe(next, r) /\ N \subseteq Black(r)
  BY ONLY <1>2, <1>3, <1>5, <1>6, <1>7 DEF Searched
<1>10. r.cycles = {} => \A i \in N : i \notin Reach(next, next[i])
  BY ONLY <1>9 DEF BlackIsSafe
<1>11. ASSUME r.cycles # {} PROVE \E i \in N : i \in Reach(next, next[i])
  <2>1. PICK c \in r.cycles : TRUE
    BY ONLY <1>11
  <2>2. c[1] \in N /\ c[1] \in Reach(next, next[c[1]])
    BY ONLY <1>8, <2>1, IsGraph(next), N = DOMAIN next, CycleReturns
  <2>3. QED
    BY ONLY <2>2
<1>12. QED
  BY ONLY <1>1, <1>8, <1>10, <1>11

-----------------------------------------------------------------------------
(***************************************************************************)
(* The rows.  They are finitely many, and so are the links; a dependency   *)
(* is of a requirement that is stored, since a row that is deleted is      *)
(* taken out of the others, a row that comes back keeps none and set       *)
(* raises on one that is gone.                                             *)
(***************************************************************************)
DepsWithin(t, S) == \A i \in DOMAIN t : "deps" \in DOMAIN t[i] /\ t[i].deps \subseteq S
HaveDeps(t)      == \A i \in DOMAIN t : "deps" \in DOMAIN t[i]

ImporterIsSound ==
    /\ DOMAIN importer = Processes
    /\ \A p \in Processes : "existing" \in DOMAIN importer[p] /\ HaveDeps(importer[p].existing)

RowsAreSound ==
    /\ IsFiniteSet(DOMAIN rows) /\ IsFiniteSet(DOMAIN links)
    /\ DepsWithin(rows, DOMAIN rows)
    /\ ImporterIsSound

LEMMA NothingIsFinite == IsFiniteSet(DOMAIN <<>>) /\ DOMAIN <<>> = {}
<1>1. DOMAIN <<>> = {}
  BY ONLY TRUE
<1>2. QED
  BY ONLY <1>1, FS_EmptySet

LEMMA InitRows == FlowFilesInit => RowsAreSound
<1> SUFFICES ASSUME FlowFilesInit PROVE RowsAreSound
  OBVIOUS
<1>1. rows = <<>> /\ links = <<>> /\ importer = [p \in Processes |-> NoImport]
  BY ONLY FlowFilesInit DEF FlowFilesInit, EcosystemInit, Init
<1>2. "existing" \in DOMAIN NoImport /\ NoImport.existing = <<>>
  BY ONLY TRUE DEF NoImport
<1>3. DOMAIN importer = Processes /\ \A p \in Processes : importer[p] = NoImport
  BY ONLY <1>1
<1>4. HaveDeps(<<>>) /\ DepsWithin(<<>>, {})
  BY ONLY NothingIsFinite DEF HaveDeps, DepsWithin
<1>5. ImporterIsSound
  BY ONLY <1>2, <1>3, <1>4 DEF ImporterIsSound
<1>6. QED
  BY ONLY <1>1, <1>4, <1>5, NothingIsFinite DEF RowsAreSound

\* What a process takes into its copy.
LEMMA ImporterKeeps ==
    ASSUME ImporterIsSound, NEW p \in Processes, NEW new, "existing" \in DOMAIN new, HaveDeps(new.existing),
           importer' = [importer EXCEPT ![p] = new]
    PROVE  ImporterIsSound'
<1>1. DOMAIN importer' = Processes
  BY ONLY ImporterIsSound, importer' = [importer EXCEPT ![p] = new] DEF ImporterIsSound
<1>2. \A q \in Processes : importer'[q] = IF q = p THEN new ELSE importer[q]
  BY ONLY ImporterIsSound, importer' = [importer EXCEPT ![p] = new] DEF ImporterIsSound
<1>3. \A q \in Processes : "existing" \in DOMAIN importer'[q] /\ HaveDeps(importer'[q].existing)
  <2> TAKE q \in Processes
  <2>1. CASE q = p
    BY ONLY <1>2, <2>1, "existing" \in DOMAIN new, HaveDeps(new.existing), q \in Processes
  <2>2. CASE q # p
    BY ONLY <1>2, <2>2, ImporterIsSound, q \in Processes DEF ImporterIsSound
  <2>3. QED
    BY ONLY <2>1, <2>2
<1>4. QED
  BY ONLY <1>1, <1>3 DEF ImporterIsSound

LEMMA WithDeps ==
    ASSUME NEW t, HaveDeps(t), NEW i, NEW row, "deps" \in DOMAIN row
    PROVE  HaveDeps(With(t, i, row))
BY ONLY HaveDeps(t), "deps" \in DOMAIN row DEF With, HaveDeps

LEMMA WithFinite ==
    ASSUME NEW t, IsFiniteSet(DOMAIN t), NEW i, NEW row
    PROVE  /\ DOMAIN With(t, i, row) = DOMAIN t \cup {i}
           /\ IsFiniteSet(DOMAIN With(t, i, row))
<1>1. DOMAIN With(t, i, row) = DOMAIN t \cup {i}
  BY ONLY TRUE DEF With
<1>2. QED
  BY ONLY <1>1, IsFiniteSet(DOMAIN t), FS_AddElement

LEMMA FieldsKeepDeps ==
    ASSUME NEW p, NEW e, NEW row, "deps" \in DOMAIN row
    PROVE  LET new == FieldsOf(p, e, row) IN "deps" \in DOMAIN new /\ new.deps = row.deps
BY ONLY "deps" \in DOMAIN row DEF FieldsOf

\* A new row moves others and depends on nothing yet.
GrownBy(new, t, id) ==
    /\ DOMAIN new = DOMAIN t \cup {id}
    /\ HaveDeps(new)
    /\ \A i \in DOMAIN new : IF i = id THEN new[i].deps = {} ELSE i \in DOMAIN t /\ new[i].deps = t[i].deps

LEMMA AddedDeps ==
    ASSUME NEW t, HaveDeps(t), IsFiniteSet(DOMAIN t), NEW id, NEW parent, NEW fields,
           "deps" \in DOMAIN fields, fields.deps = {},
           NEW new, new = AddNode(t, id, parent, fields)
    PROVE  IsFiniteSet(DOMAIN new) /\ GrownBy(new, t, id)
<1> DEFINE base == IF parent = 0 THEN <<>> ELSE t[parent].path
           place == Place(t, id, base)
           moved == place.rows
           row == [fields EXCEPT !.path = place.path]
           grown == IF parent = 0 THEN moved ELSE [moved EXCEPT ![parent].numchild = @ + 1]
<1>1. new = With(grown, id, row)
  BY ONLY new = AddNode(t, id, parent, fields) DEF AddNode
<1>2. \E f : moved = [i \in DOMAIN t |-> [t[i] EXCEPT !.path = f[i]]]
  <2> DEFINE siblings == Children(t, base)
             later == {i \in siblings : i > id}
             to(q) == IF \E i \in later : IsPrefix(t[i].path, q)
                      THEN [q EXCEPT ![Len(base) + 1] = @ + 1] ELSE q
             f == [i \in DOMAIN t |-> to(t[i].path)]
  <2>1. moved = [i \in DOMAIN t |-> [t[i] EXCEPT !.path = to(@)]]
    BY ONLY TRUE DEF Place
  <2>2. \A i \in DOMAIN t : f[i] = to(t[i].path)
    BY ONLY TRUE
  <2> HIDE DEF f, to, moved
  <2>3. moved = [i \in DOMAIN t |-> [t[i] EXCEPT !.path = f[i]]]
    BY ONLY <2>1, <2>2
  <2>4. QED
    BY ONLY <2>3
<1>3. PICK f : moved = [i \in DOMAIN t |-> [t[i] EXCEPT !.path = f[i]]]
  BY ONLY <1>2
<1>4. "deps" \in DOMAIN row /\ row.deps = {}
  <2> DEFINE path == place.path
  <2>1. row = [fields EXCEPT !.path = path]
    BY ONLY TRUE
  <2> HIDE DEF path, row
  <2>2. QED
    BY ONLY <2>1, "deps" \in DOMAIN fields, fields.deps = {}
<1> HIDE DEF moved, row
<1>5. /\ DOMAIN moved = DOMAIN t
      /\ \A i \in DOMAIN t : "deps" \in DOMAIN moved[i] /\ moved[i].deps = t[i].deps
  BY ONLY <1>3, HaveDeps(t) DEF HaveDeps
<1>6. /\ DOMAIN grown = DOMAIN t
      /\ \A i \in DOMAIN t : "deps" \in DOMAIN grown[i] /\ grown[i].deps = t[i].deps
  <2>1. CASE parent = 0
    BY ONLY <1>5, <2>1
  <2>2. CASE parent # 0
    <3>1. grown = [moved EXCEPT ![parent].numchild = @ + 1]
      BY ONLY <2>2
    <3>2. DOMAIN grown = DOMAIN moved
      BY ONLY <3>1
    <3>3. \A i \in DOMAIN moved :
            grown[i] = IF i = parent THEN [moved[i] EXCEPT !.numchild = @ + 1] ELSE moved[i]
      BY ONLY <3>1
    <3> HIDE DEF grown
    <3>4. QED
      BY ONLY <1>5, <3>2, <3>3
  <2>3. QED
    BY ONLY <2>1, <2>2
<1> HIDE DEF grown
<1>7. DOMAIN new = DOMAIN t \cup {id} /\ IsFiniteSet(DOMAIN new)
  <2>1. IsFiniteSet(DOMAIN grown)
    BY ONLY <1>6, IsFiniteSet(DOMAIN t)
  <2>2. DOMAIN With(grown, id, row) = DOMAIN grown \cup {id} /\ IsFiniteSet(DOMAIN With(grown, id, row))
    BY ONLY <2>1, WithFinite
  <2>3. QED
    BY ONLY <1>1, <1>6, <2>2
<1>8. \A i \in DOMAIN new : new[i] = IF i = id THEN row ELSE grown[i]
  BY ONLY <1>1 DEF With
<1>9. ASSUME NEW i \in DOMAIN new
      PROVE  /\ "deps" \in DOMAIN new[i]
             /\ i = id => new[i].deps = {}
             /\ i # id => i \in DOMAIN t /\ new[i].deps = t[i].deps
  <2>1. CASE i = id
    BY ONLY <1>4, <1>8, <2>1, i \in DOMAIN new
  <2>2. CASE i # id
    <3>1. i \in DOMAIN t /\ new[i] = grown[i]
      BY ONLY <1>7, <1>8, <2>2, i \in DOMAIN new
    <3>2. QED
      BY ONLY <1>6, <2>2, <3>1
  <2>3. QED
    BY ONLY <2>1, <2>2
<1>10. QED
  BY ONLY <1>7, <1>9 DEF HaveDeps, GrownBy
LEMMA DeletedDeps ==
    ASSUME NEW t, DepsWithin(t, DOMAIN t), IsFiniteSet(DOMAIN t), NEW S, NEW new, new = Deleted(t, S)
    PROVE  /\ DOMAIN new \subseteq DOMAIN t /\ IsFiniteSet(DOMAIN new)
           /\ DepsWithin(new, DOMAIN new)
<1> DEFINE tops == {i \in S : ~\E j \in S : IsStrictPrefix(t[j].path, t[i].path)}
           gone == S \cup UNION {GetDescendants(t, i) : i \in tops}
           lost(i) == Cardinality({j \in tops : t[j].path # <<>> /\ Front(t[j].path) = t[i].path})
           left == [i \in DOMAIN t |-> IF lost(i) < t[i].numchild THEN t[i].numchild - lost(i) ELSE 0]
<1>1. new = [i \in DOMAIN t \ gone |->
               [t[i] EXCEPT !.deps = @ \ gone, !.numchild = IF lost(i) < @ THEN @ - lost(i) ELSE 0]]
  BY ONLY new = Deleted(t, S) DEF Deleted
<1>2. \A i \in DOMAIN t : left[i] = IF lost(i) < t[i].numchild THEN t[i].numchild - lost(i) ELSE 0
  BY ONLY TRUE
<1> HIDE DEF left, lost, gone
<1>3. new = [i \in DOMAIN t \ gone |-> [t[i] EXCEPT !.deps = t[i].deps \ gone, !.numchild = left[i]]]
  BY ONLY <1>1, <1>2
<1>4. DOMAIN new = DOMAIN t \ gone
  BY ONLY <1>3
<1>5. \A i \in DOMAIN new : "deps" \in DOMAIN new[i] /\ new[i].deps = t[i].deps \ gone
  BY ONLY <1>3, DepsWithin(t, DOMAIN t) DEF DepsWithin
<1>6. \A i \in DOMAIN new : new[i].deps \subseteq DOMAIN new
  BY ONLY <1>4, <1>5, DepsWithin(t, DOMAIN t) DEF DepsWithin
<1>7. IsFiniteSet(DOMAIN new)
  BY ONLY <1>4, IsFiniteSet(DOMAIN t), FS_Difference
<1>8. QED
  BY ONLY <1>4, <1>5, <1>6, <1>7 DEF DepsWithin
\* The copy is found where the importer stands; each step of an import.
LEMMA ClearRows ==
    ASSUME RowsAreSound, NEW p \in Processes, Clear(p)
    PROVE  RowsAreSound'
<1> DEFINE cleared == Cleared(p)
           imp == importer[p]
           new == [imp EXCEPT !.at = "reading"]
<1>0. IsFiniteSet(DOMAIN rows) /\ IsFiniteSet(DOMAIN links) /\ DepsWithin(rows, DOMAIN rows) /\ ImporterIsSound
  BY ONLY RowsAreSound DEF RowsAreSound
<1>1. /\ rows' = Deleted(rows, cleared)
      /\ links' = Restrict(links, {l \in DOMAIN links : l[2] \in DOMAIN rows'})
      /\ importer' = [importer EXCEPT ![p].at = "reading"]
  BY ONLY Clear(p) DEF Clear
<1> HIDE DEF cleared
<1>2. IsFiniteSet(DOMAIN rows') /\ DepsWithin(rows', DOMAIN rows')
  BY ONLY <1>0, <1>1, DeletedDeps
<1>3. DOMAIN links' \subseteq DOMAIN links
  BY ONLY <1>1 DEF Restrict
<1>4. IsFiniteSet(DOMAIN links')
  BY ONLY <1>0, <1>3, FS_Subset
<1>5. importer' = [importer EXCEPT ![p] = new]
  BY ONLY <1>1
<1>6. "existing" \in DOMAIN imp /\ HaveDeps(imp.existing)
  BY ONLY <1>0, p \in Processes DEF ImporterIsSound
<1>7. "existing" \in DOMAIN new /\ new.existing = imp.existing
  <2> HIDE DEF imp
  <2>1. QED
    BY ONLY <1>6
<1> HIDE DEF new, imp
<1>8. ImporterIsSound'
  BY ONLY <1>0, <1>5, <1>6, <1>7, p \in Processes, ImporterKeeps
<1>9. QED
  BY ONLY <1>2, <1>4, <1>8 DEF RowsAreSound

\* The copy with the row of an entry.
LEMMA KeptRows ==
    ASSUME ImporterIsSound, NEW p \in Processes, NEW row, "deps" \in DOMAIN row, importer' = Kept(p, row)
    PROVE  ImporterIsSound'
<1> DEFINE imp == importer[p]
           id == Entry(p).id
           ex == With(imp.existing, id, row)
           new == [imp EXCEPT !.i = @ + 1, !.existing = ex]
<1>1. importer' = [importer EXCEPT ![p] = new]
  BY ONLY importer' = Kept(p, row) DEF Kept
<1>2. "existing" \in DOMAIN imp /\ HaveDeps(imp.existing)
  BY ONLY ImporterIsSound, p \in Processes DEF ImporterIsSound
<1> HIDE DEF imp, id
<1>3. HaveDeps(ex)
  BY ONLY <1>2, "deps" \in DOMAIN row, WithDeps
<1> HIDE DEF ex
<1>4. "existing" \in DOMAIN new /\ new.existing = ex
  BY ONLY <1>2
<1> HIDE DEF new
<1>5. QED
  BY ONLY <1>1, <1>3, <1>4, ImporterIsSound, p \in Processes, ImporterKeeps

LEMMA UpdateRows ==
    ASSUME RowsAreSound, NEW p \in Processes, Update(p)
    PROVE  RowsAreSound'
<1> DEFINE e == Entry(p)
           id == e.id
           old == importer[p].existing[id]
           row == FieldsOf(p, e, old)
           deps == IF id \in DOMAIN rows THEN rows[id].deps ELSE {}
           new == [row EXCEPT !.deps = deps]
<1>0. /\ IsFiniteSet(DOMAIN rows) /\ IsFiniteSet(DOMAIN links)
      /\ DepsWithin(rows, DOMAIN rows) /\ ImporterIsSound
  BY ONLY RowsAreSound DEF RowsAreSound
<1>1. /\ id \in DOMAIN importer[p].existing
      /\ rows' = With(rows, id, new)
      /\ importer' = Kept(p, row)
      /\ links' = links
  BY ONLY Update(p) DEF Update
<1>2. "deps" \in DOMAIN old
  BY ONLY <1>0, <1>1, p \in Processes DEF ImporterIsSound, HaveDeps
<1> HIDE DEF old
<1>3. "deps" \in DOMAIN row
  BY ONLY <1>2, FieldsKeepDeps
<1> HIDE DEF row
<1>4. ImporterIsSound'
  BY ONLY <1>0, <1>1, <1>3, p \in Processes, KeptRows
<1>5. deps \subseteq DOMAIN rows
  BY ONLY <1>0 DEF DepsWithin
<1> HIDE DEF deps
<1>6. "deps" \in DOMAIN new /\ new.deps = deps
  BY ONLY <1>3
<1> HIDE DEF new, id
<1>7. DOMAIN With(rows, id, new) = DOMAIN rows \cup {id} /\ IsFiniteSet(DOMAIN With(rows, id, new))
  BY ONLY <1>0, WithFinite
<1>8. \A i \in DOMAIN rows' : rows'[i] = IF i = id THEN new ELSE rows[i]
  BY ONLY <1>1 DEF With
<1>9. DepsWithin(rows', DOMAIN rows')
  BY ONLY <1>0, <1>1, <1>5, <1>6, <1>7, <1>8 DEF DepsWithin
<1>10. QED
  BY ONLY <1>0, <1>1, <1>4, <1>7, <1>9 DEF RowsAreSound

LEMMA CreateRows ==
    ASSUME RowsAreSound, NEW p \in Processes, Create(p)
    PROVE  RowsAreSound'
<1> DEFINE e == Entry(p)
           id == e.id
           parent == ParentOf(p, e)
           fields == FieldsOf(p, e, NewRow)
           new == AddNode(rows, id, parent, fields)
<1>0. /\ IsFiniteSet(DOMAIN rows) /\ IsFiniteSet(DOMAIN links)
      /\ DepsWithin(rows, DOMAIN rows) /\ ImporterIsSound
  BY ONLY RowsAreSound DEF RowsAreSound
<1>1. /\ rows' = new
      /\ importer' = Kept(p, new[id])
      /\ links' = links
  BY ONLY Create(p) DEF Create
<1>2. "deps" \in DOMAIN NewRow /\ NewRow.deps = {}
  BY ONLY TRUE DEF NewRow
<1>3. "deps" \in DOMAIN fields /\ fields.deps = {}
  BY ONLY <1>2, FieldsKeepDeps
<1> HIDE DEF e, id, parent, fields
<1>4. HaveDeps(rows)
  BY ONLY <1>0 DEF DepsWithin, HaveDeps
<1>5. IsFiniteSet(DOMAIN new) /\ GrownBy(new, rows, id)
  <2>1. new = AddNode(rows, id, parent, fields)
    BY ONLY TRUE
  <2> HIDE DEF new
  <2>2. QED
    BY ONLY <1>0, <1>3, <1>4, <2>1, AddedDeps
<1> HIDE DEF new
<1>6. ImporterIsSound'
  <2>1. "deps" \in DOMAIN new[id]
    BY ONLY <1>5 DEF HaveDeps, GrownBy
  <2>2. QED
    BY ONLY <1>0, <1>1, <2>1, p \in Processes, KeptRows
<1>7. DepsWithin(new, DOMAIN new)
  BY ONLY <1>0, <1>5 DEF DepsWithin, HaveDeps, GrownBy
<1>8. QED
  BY ONLY <1>0, <1>1, <1>5, <1>6, <1>7 DEF RowsAreSound

\* A process that moves on, or gives up its copy.
LEMMA ImporterMoves ==
    ASSUME ImporterIsSound, NEW p \in Processes, NEW new,
           importer' = [importer EXCEPT ![p] = new],
           "existing" \in DOMAIN new,
           new.existing \in {importer[p].existing, <<>>}
    PROVE  ImporterIsSound'
<1>1. HaveDeps(importer[p].existing) /\ HaveDeps(<<>>)
  BY ONLY ImporterIsSound, p \in Processes, NothingIsFinite DEF ImporterIsSound, HaveDeps
<1>2. HaveDeps(new.existing)
  BY ONLY <1>1, new.existing \in {importer[p].existing, <<>>}
<1>3. QED
  BY ONLY <1>2, ImporterIsSound, p \in Processes, importer' = [importer EXCEPT ![p] = new],
          "existing" \in DOMAIN new, ImporterKeeps

LEMMA SetDependenciesRows ==
    ASSUME RowsAreSound, NEW p \in Processes, SetDependencies(p)
    PROVE  RowsAreSound'
<1> DEFINE imp == importer[p]
           id == Dependent(p).id
           deps == ValidDeps(p)
           on == [imp EXCEPT !.i = @ + 1]
           off == [imp EXCEPT !.at = "failed", !.existing = <<>>]
<1>0. /\ IsFiniteSet(DOMAIN rows) /\ IsFiniteSet(DOMAIN links)
      /\ DepsWithin(rows, DOMAIN rows) /\ ImporterIsSound
  BY ONLY RowsAreSound DEF RowsAreSound
<1>1. "existing" \in DOMAIN imp
  BY ONLY <1>0, p \in Processes DEF ImporterIsSound
<1>2. /\ links' = links
      /\ \/ /\ importer' = [importer EXCEPT ![p] = on]
            /\ \/ rows' = rows
               \/ deps \cup {id} \subseteq DOMAIN rows /\ rows' = [rows EXCEPT ![id].deps = deps]
         \/ importer' = [importer EXCEPT ![p] = off] /\ rows' = rows
  BY ONLY SetDependencies(p) DEF SetDependencies
<1> HIDE DEF imp, id, deps
<1>3. "existing" \in DOMAIN on /\ on.existing = imp.existing /\ "existing" \in DOMAIN off /\ off.existing = <<>>
  BY ONLY <1>1
<1> HIDE DEF on, off
<1>4. ImporterIsSound'
  <2>1. on.existing \in {importer[p].existing, <<>>} /\ off.existing \in {importer[p].existing, <<>>}
    BY ONLY <1>3 DEF imp
  <2>2. CASE importer' = [importer EXCEPT ![p] = on]
    BY ONLY <1>0, <1>3, <2>1, <2>2, p \in Processes, ImporterMoves
  <2>3. CASE importer' = [importer EXCEPT ![p] = off]
    BY ONLY <1>0, <1>3, <2>1, <2>3, p \in Processes, ImporterMoves
  <2>4. QED
    BY ONLY <1>2, <2>2, <2>3
<1>5. DOMAIN rows' = DOMAIN rows /\ DepsWithin(rows', DOMAIN rows')
  <2>1. CASE rows' = rows
    BY ONLY <1>0, <2>1
  <2>2. CASE deps \cup {id} \subseteq DOMAIN rows /\ rows' = [rows EXCEPT ![id].deps = deps]
    <3>1. DOMAIN rows' = DOMAIN rows
      BY ONLY <2>2
    <3>2. \A i \in DOMAIN rows : rows'[i] = IF i = id THEN [rows[id] EXCEPT !.deps = deps] ELSE rows[i]
      BY ONLY <2>2
    <3>3. "deps" \in DOMAIN [rows[id] EXCEPT !.deps = deps] /\ [rows[id] EXCEPT !.deps = deps].deps = deps
      BY ONLY <1>0, <2>2 DEF DepsWithin
    <3>4. QED
      BY ONLY <1>0, <2>2, <3>1, <3>2, <3>3 DEF DepsWithin
  <2>3. QED
    BY ONLY <1>2, <2>1, <2>2
<1>6. QED
  BY ONLY <1>0, <1>2, <1>4, <1>5 DEF RowsAreSound

\* The steps that leave the rows and the links.
LEMMA OtherImportSteps ==
    ASSUME RowsAreSound, NEW p \in Processes,
           \/ \E directory \in Directories[p], clear \in BOOLEAN : StartImport(p, directory, clear)
           \/ ReadOwned(p) \/ Raise(p) \/ EndOfPasses(p) \/ EndImport(p)
    PROVE  RowsAreSound'
<1> DEFINE imp == importer[p]
<1>0. /\ IsFiniteSet(DOMAIN rows) /\ IsFiniteSet(DOMAIN links)
      /\ DepsWithin(rows, DOMAIN rows) /\ ImporterIsSound
  BY ONLY RowsAreSound DEF RowsAreSound
<1>1. "existing" \in DOMAIN imp
  BY ONLY <1>0, p \in Processes DEF ImporterIsSound
<1>2. ASSUME UNCHANGED <<rows, links>>, ImporterIsSound' PROVE RowsAreSound'
  BY ONLY <1>0, <1>2 DEF RowsAreSound
<1>3. ASSUME NEW directory, NEW clear, StartImport(p, directory, clear) PROVE RowsAreSound'
  <2> DEFINE to == IF clear THEN "clearing" ELSE "reading"
             count == imp.count + 1
             entries == ParseDirectory(directory)
             new == [NoImport EXCEPT !.at = to, !.clear = clear, !.count = count, !.entries = entries]
  <2>1. importer' = [importer EXCEPT ![p] = new] /\ UNCHANGED <<rows, links>>
    BY ONLY <1>3 DEF StartImport
  <2> HIDE DEF to, count, entries
  <2>2. "existing" \in DOMAIN new /\ new.existing = <<>>
    BY ONLY TRUE DEF NoImport
  <2> HIDE DEF new
  <2>3. new.existing \in {importer[p].existing, <<>>}
    BY ONLY <2>2
  <2>4. ImporterIsSound'
    BY ONLY <1>0, <2>1, <2>2, <2>3, p \in Processes, ImporterMoves
  <2>5. QED
    BY ONLY <1>2, <2>1, <2>4
<1>4. CASE ReadOwned(p)
  <2> DEFINE own == Restrict(rows, Owned(p))
             new == [imp EXCEPT !.at = "saving", !.existing = own]
  <2>1. importer' = [importer EXCEPT ![p] = new] /\ UNCHANGED <<rows, links>>
    BY ONLY <1>4 DEF ReadOwned
  <2>2. HaveDeps(own)
    BY ONLY <1>0 DEF DepsWithin, HaveDeps, Restrict, Owned
  <2> HIDE DEF own, imp
  <2>3. "existing" \in DOMAIN new /\ new.existing = own
    BY ONLY <1>1
  <2> HIDE DEF new
  <2>4. ImporterIsSound'
    BY ONLY <1>0, <2>1, <2>2, <2>3, p \in Processes, ImporterKeeps
  <2>5. QED
    BY ONLY <1>2, <2>1, <2>4
<1>5. CASE EndOfPasses(p)
  <2> DEFINE new == [imp EXCEPT !.at = "depending", !.i = 0]
  <2>1. importer' = [importer EXCEPT ![p] = new] /\ UNCHANGED <<rows, links>>
    BY ONLY <1>5 DEF EndOfPasses
  <2>2. "existing" \in DOMAIN new /\ new.existing = imp.existing
    <3> HIDE DEF imp
    <3>1. QED
      BY ONLY <1>1
  <2> HIDE DEF new
  <2>3. new.existing \in {importer[p].existing, <<>>}
    BY ONLY <2>2
  <2>4. ImporterIsSound'
    BY ONLY <1>0, <2>1, <2>2, <2>3, p \in Processes, ImporterMoves
  <2>5. QED
    BY ONLY <1>2, <2>1, <2>4
<1>6. ASSUME NEW to, importer' = [importer EXCEPT ![p].at = to, ![p].existing = <<>>], UNCHANGED <<rows, links>>
      PROVE  RowsAreSound'
  <2> DEFINE new == [imp EXCEPT !.at = to, !.existing = <<>>]
  <2>1. importer' = [importer EXCEPT ![p] = new]
    BY ONLY <1>6
  <2>2. "existing" \in DOMAIN new /\ new.existing = <<>>
    <3> HIDE DEF imp
    <3>1. QED
      BY ONLY <1>1
  <2> HIDE DEF new
  <2>3. new.existing \in {importer[p].existing, <<>>}
    BY ONLY <2>2
  <2>4. ImporterIsSound'
    BY ONLY <1>0, <2>1, <2>2, <2>3, p \in Processes, ImporterMoves
  <2>5. QED
    BY ONLY <1>2, <1>6, <2>4
<1>7. CASE Raise(p)
  BY ONLY <1>6, <1>7 DEF Raise
<1>8. CASE EndImport(p)
  BY ONLY <1>6, <1>8 DEF EndImport
<1>9. QED
  BY <1>3, <1>4, <1>5, <1>7, <1>8

LEMMA ImportRows ==
    ASSUME RowsAreSound, NEW p \in Processes, ImportStep(p)
    PROVE  RowsAreSound'
BY ONLY RowsAreSound, p \in Processes, ImportStep(p), ClearRows, UpdateRows, CreateRows, SetDependenciesRows,
        OtherImportSteps DEF ImportStep

LEMMA LinkRows ==
    ASSUME RowsAreSound, LinkStep
    PROVE  RowsAreSound'
<1>0. /\ IsFiniteSet(DOMAIN rows) /\ IsFiniteSet(DOMAIN links)
      /\ DepsWithin(rows, DOMAIN rows) /\ ImporterIsSound
  BY ONLY RowsAreSound DEF RowsAreSound
<1>1. ASSUME NEW file \in LinkFiles, ImportTestLinks(file) PROVE RowsAreSound'
  <2> DEFINE known == {l \in file : l[2] \in DOMAIN rows}
  <2>1. UNCHANGED <<rows, importer>> /\ DOMAIN links' = DOMAIN links \cup known
    BY ONLY <1>1 DEF ImportTestLinks
  <2>2. IsFiniteSet(file) /\ known \subseteq file
    BY ONLY file \in LinkFiles, SpecTreeAssumption
  <2>3. IsFiniteSet(known)
    BY ONLY <2>2, FS_Subset
  <2>4. IsFiniteSet(DOMAIN links \cup known)
    BY ONLY <1>0, <2>3, FS_Union
  <2>5. QED
    BY ONLY <1>0, <2>1, <2>4 DEF RowsAreSound, ImporterIsSound
<1>2. ASSUME NEW outcomes \in TestOutcomes, RecordRun(outcomes) PROVE RowsAreSound'
  <2>1. UNCHANGED <<rows, importer>> /\ DOMAIN links' = DOMAIN links
    BY ONLY <1>2 DEF RecordRun
  <2>2. QED
    BY ONLY <1>0, <2>1 DEF RowsAreSound, ImporterIsSound
<1>3. QED
  BY ONLY <1>1, <1>2, LinkStep DEF LinkStep

LEMMA NextRows == RowsAreSound /\ [FlowFilesNext]_allVars => RowsAreSound'
<1> SUFFICES ASSUME RowsAreSound, [FlowFilesNext]_allVars PROVE RowsAreSound'
  OBVIOUS
<1>1. ASSUME UNCHANGED vars PROVE RowsAreSound'
  BY ONLY <1>1, RowsAreSound DEF vars, RowsAreSound, ImporterIsSound
<1>2. ASSUME Next PROVE RowsAreSound'
  BY ONLY <1>2, RowsAreSound, ImportRows, LinkRows DEF Next
<1>3. ASSUME NEW p \in Meanwhile, ImportMeanwhile(p) PROVE RowsAreSound'
  BY ONLY <1>3, RowsAreSound, FlowFilesAssumption, ImportRows DEF ImportMeanwhile
<1>4. QED
  BY <1>1, <1>2, <1>3 DEF FlowFilesNext, EcosystemNext, allVars

-----------------------------------------------------------------------------
(***************************************************************************)
(* The views of the dependency graph.  A chain is what can be reached, and *)
(* the dependents are what can be reached backwards.                       *)
(***************************************************************************)
LEMMA DependenciesAreGraphs ==
    ASSUME RowsAreSound
    PROVE  /\ IsGraph(Graph) /\ IsGraph(ReverseGraph)
           /\ DOMAIN Graph = DOMAIN rows /\ DOMAIN ReverseGraph = DOMAIN rows
           /\ \A i \in DOMAIN rows : /\ Graph[i] = DependsOn(i) /\ ReverseGraph[i] = DependedBy(i)
                                     /\ Graph[i] \subseteq DOMAIN rows /\ ReverseGraph[i] \subseteq DOMAIN rows
           /\ \A i, j \in DOMAIN rows : j \in Graph[i] <=> i \in ReverseGraph[j]
<1>1. DOMAIN Graph = DOMAIN rows /\ DOMAIN ReverseGraph = DOMAIN rows
  BY ONLY TRUE DEF Graph, ReverseGraph
<1>2. \A i \in DOMAIN rows : Graph[i] = DependsOn(i) /\ ReverseGraph[i] = DependedBy(i)
  BY ONLY TRUE DEF Graph, ReverseGraph
<1>3. \A i \in DOMAIN rows : DependsOn(i) \subseteq DOMAIN rows /\ DependedBy(i) \subseteq DOMAIN rows
  BY ONLY RowsAreSound DEF RowsAreSound, DepsWithin, DependsOn, DependedBy
<1>4. \A i, j \in DOMAIN rows : j \in DependsOn(i) <=> i \in DependedBy(j)
  BY ONLY TRUE DEF DependsOn, DependedBy
<1>5. IsFiniteSet(DOMAIN rows)
  BY ONLY RowsAreSound DEF RowsAreSound
<1>6. IsGraph(Graph) /\ IsGraph(ReverseGraph)
  BY ONLY <1>1, <1>2, <1>3, <1>5 DEF IsGraph, ClosedUnder
<1>7. QED
  BY ONLY <1>1, <1>2, <1>3, <1>4, <1>6

LEMMA ViewsAreReach ==
    ASSUME RowsAreSound, NEW i \in DOMAIN rows
    PROVE  /\ DependencyChain(i) = Reach(Graph, Graph[i]) /\ DependencyChain(i) \subseteq DOMAIN rows
           /\ Dependents(i) = Reach(ReverseGraph, ReverseGraph[i]) /\ Dependents(i) \subseteq DOMAIN rows
           /\ DependedBy(i) \subseteq Dependents(i)
<1>1. /\ IsGraph(Graph) /\ IsGraph(ReverseGraph)
      /\ DOMAIN Graph = DOMAIN rows /\ DOMAIN ReverseGraph = DOMAIN rows
      /\ Graph[i] = DependsOn(i) /\ ReverseGraph[i] = DependedBy(i)
      /\ Graph[i] \in SUBSET DOMAIN Graph /\ ReverseGraph[i] \in SUBSET DOMAIN ReverseGraph
  BY ONLY RowsAreSound, i \in DOMAIN rows, DependenciesAreGraphs
<1>2. Walk(Graph[i], Graph) = Reach(Graph, Graph[i])
  BY ONLY <1>1, WalkIsReach
<1>3. Walk(ReverseGraph[i], ReverseGraph) = Reach(ReverseGraph, ReverseGraph[i])
  BY ONLY <1>1, WalkIsReach
<1>4. Reach(Graph, Graph[i]) \subseteq DOMAIN Graph
  BY ONLY <1>1, ReachIsClosed
<1>5. /\ ReverseGraph[i] \subseteq Reach(ReverseGraph, ReverseGraph[i])
      /\ Reach(ReverseGraph, ReverseGraph[i]) \subseteq DOMAIN ReverseGraph
  BY ONLY <1>1, ReachIsClosed
<1>6. QED
  BY ONLY <1>1, <1>2, <1>3, <1>4, <1>5 DEF DependencyChain, Dependents

\* What is in the chain of a requirement has it as a dependent.
LEMMA ChainsTurnBack ==
    ASSUME RowsAreSound, NEW i \in DOMAIN rows, NEW j \in DOMAIN rows
    PROVE  j \in DependencyChain(i) <=> i \in Dependents(j)
<1> DEFINE N == DOMAIN rows
<1>1. /\ IsGraph(Graph) /\ IsGraph(ReverseGraph) /\ DOMAIN Graph = N /\ DOMAIN ReverseGraph = N
      /\ \A x \in N : \A y \in N : y \in Graph[x] => x \in ReverseGraph[y]
      /\ \A x \in N : \A y \in N : y \in ReverseGraph[x] => x \in Graph[y]
  BY ONLY RowsAreSound, DependenciesAreGraphs
<1>2. DependencyChain(i) = Reach(Graph, Graph[i]) /\ Dependents(j) = Reach(ReverseGraph, ReverseGraph[j])
  BY ONLY RowsAreSound, i \in N, j \in N, ViewsAreReach
<1> HIDE DEF N
<1>3. ASSUME j \in Reach(Graph, Graph[i]) PROVE i \in Reach(ReverseGraph, ReverseGraph[j])
  BY ONLY <1>1, <1>3, i \in DOMAIN rows, ReachBack DEF N
<1>4. ASSUME i \in Reach(ReverseGraph, ReverseGraph[j]) PROVE j \in Reach(Graph, Graph[i])
  BY ONLY <1>1, <1>4, j \in DOMAIN rows, ReachBack DEF N
<1>5. QED
  BY ONLY <1>2, <1>3, <1>4

\* What is in the chain of a member is in the chain.
LEMMA ChainsGoOn ==
    ASSUME RowsAreSound, NEW i \in DOMAIN rows, NEW j \in DependencyChain(i)
    PROVE  DependencyChain(j) \subseteq DependencyChain(i)
<1>1. DependencyChain(i) = Reach(Graph, Graph[i]) /\ j \in DOMAIN rows
  BY ONLY RowsAreSound, i \in DOMAIN rows, j \in DependencyChain(i), ViewsAreReach
<1>2. DependencyChain(j) = Reach(Graph, Graph[j])
  BY ONLY RowsAreSound, <1>1, ViewsAreReach
<1>3. IsGraph(Graph) /\ Graph[i] \in SUBSET DOMAIN Graph
  BY ONLY RowsAreSound, i \in DOMAIN rows, DependenciesAreGraphs
<1>4. j \in Reach(Graph, Graph[i])
  BY ONLY <1>1, j \in DependencyChain(i)
<1>5. Reach(Graph, Graph[j]) \subseteq Reach(Graph, Graph[i])
  BY ONLY <1>3, <1>4, ReachOfReached
<1>6. QED
  BY ONLY <1>1, <1>2, <1>5

\* A requirement is in its own chain exactly if the search for cycles reports
\* something, and that can be walked.
LEMMA CyclesAreChains ==
    ASSUME RowsAreSound
    PROVE  /\ (\E i \in DOMAIN rows : i \in DependencyChain(i)) <=> CircularDependencies # {}
           /\ \A cycle \in CircularDependencies :
                /\ Head(cycle) = Last(cycle)
                /\ \A n \in 1 .. Len(cycle) - 1 : cycle[n + 1] \in DependsOn(cycle[n])
<1> DEFINE N == DOMAIN rows
           g == Graph
<1>1. IsGraph(g) /\ DOMAIN g = N /\ \A i \in N : g[i] = DependsOn(i)
  BY ONLY RowsAreSound, DependenciesAreGraphs
<1>2. \A i \in N : DependencyChain(i) = Reach(g, g[i])
  BY ONLY RowsAreSound, ViewsAreReach
<1>3. g = Graph /\ N = DOMAIN rows
  BY ONLY TRUE
<1> HIDE DEF N, g
<1>4. /\ \A c \in CircularDependencies : IsCycle(g, c)
      /\ CircularDependencies = {} => \A i \in N : i \notin Reach(g, g[i])
      /\ CircularDependencies # {} => \E i \in N : i \in Reach(g, g[i])
  BY ONLY <1>1, <1>3, CyclesAreFound
<1>5. ASSUME NEW c \in CircularDependencies
      PROVE  /\ Head(c) = Last(c)
             /\ \A n \in 1 .. Len(c) - 1 : c[n + 1] \in DependsOn(c[n])
  <2>1. c \in Seq(N) /\ Len(c) > 1 /\ c[1] = c[Len(c)] /\ \A n \in 1 .. Len(c) - 1 : c[n + 1] \in g[c[n]]
    BY ONLY <1>1, <1>4, c \in CircularDependencies DEF IsCycle, IsPath
  <2>2. Len(c) \in Nat /\ \A n \in 1 .. Len(c) : c[n] \in N
    BY ONLY <2>1
  <2>3. Head(c) = c[1] /\ Last(c) = c[Len(c)]
    BY ONLY <2>1 DEF Last
  <2>4. \A n \in 1 .. Len(c) - 1 : g[c[n]] = DependsOn(c[n])
    BY ONLY <1>1, <2>2
  <2>5. QED
    BY ONLY <2>1, <2>3, <2>4
<1>6. QED
  BY ONLY <1>2, <1>3, <1>4, <1>5

\* Of two tasks that wait for each other one is reported.
LEMMA OneChainOfTwo ==
    ASSUME NEW pair \in DependencyChains
    PROVE  pair \notin {<<q[2], q[1]>> : q \in DependencyChains}
<1> SUFFICES ASSUME NEW q \in DependencyChains, pair = <<q[2], q[1]>> PROVE FALSE
  OBVIOUS
<1> DEFINE a == pair[1]
           b == pair[2]
<1>1. /\ a # b /\ DependsOnTask(b, a)
      /\ DependsOnTask(a, b) => FirstOf({a, b}) = a
  BY ONLY pair \in DependencyChains DEF DependencyChains, TaskPairs
<1>2. q[1] = b /\ q[2] = a
  BY ONLY pair = <<q[2], q[1]>>
<1>3. /\ DependsOnTask(q[2], q[1])
      /\ DependsOnTask(q[1], q[2]) => FirstOf({q[1], q[2]}) = q[1]
  BY ONLY q \in DependencyChains DEF DependencyChains
<1> HIDE DEF a, b
<1>4. DependsOnTask(a, b) /\ (DependsOnTask(b, a) => FirstOf({b, a}) = b)
  BY ONLY <1>2, <1>3
<1>5. {b, a} = {a, b}
  BY ONLY TRUE
<1>6. FirstOf({b, a}) = FirstOf({a, b})
  BY ONLY <1>5
<1>7. QED
  BY ONLY <1>1, <1>4, <1>6

\* A larger change reaches no less.
LEMMA ExpansionGrows ==
    ASSUME NEW S, NEW T, S \subseteq T
    PROVE  /\ Expansion(S) \subseteq Expansion(T)
           /\ AffectedTests(S) \subseteq AffectedTests(T)
<1>1. Hierarchy(S) \subseteq Hierarchy(T)
  BY ONLY S \subseteq T DEF Hierarchy
<1>2. Expansion(S) \subseteq Expansion(T)
  BY ONLY S \subseteq T, <1>1 DEF Expansion
<1>3. QED
  BY ONLY <1>2 DEF AffectedTests

LEMMA TestsAreFinite ==
    ASSUME IsFiniteSet(DOMAIN links), NEW S
    PROVE  IsFiniteSet(AffectedTests(S))
<1> DEFINE L == {l \in DOMAIN links : l[2] \in Expansion(S)}
           f == [l \in L |-> l[1]]
<1>1. L \subseteq DOMAIN links
  BY ONLY TRUE
<1>2. AffectedTests(S) = {f[l] : l \in L}
  BY ONLY TRUE DEF AffectedTests
<1> HIDE DEF L, f
<1>3. IsFiniteSet(L)
  BY ONLY <1>1, IsFiniteSet(DOMAIN links), FS_Subset
<1>4. IsFiniteSet({f[l] : l \in L})
  BY ONLY <1>3, ImageIsFinite
<1>5. QED
  BY ONLY <1>2, <1>4

\* More of each part is no less of the sum.
RiskOfCounts(reqs, tests, below, above) ==
    Capped(3 * reqs, 30) + Capped((3 * tests + 1) \div 2, 30) + Capped(2 * below, 20) + Capped(2 * above, 20)

LEMMA RiskOfParts ==
    ASSUME NEW a \in Nat, NEW b \in Nat, NEW c \in Nat, NEW d \in Nat,
           NEW e \in Nat, NEW f \in Nat, NEW g \in Nat, NEW h \in Nat,
           a <= e, b <= f, c <= g, d <= h
    PROVE  RiskOfCounts(a, b, c, d) <= RiskOfCounts(e, f, g, h)
<1> DEFINE half(n) == (3 * n + 1) \div 2
<1>1. half(b) \in Nat /\ half(f) \in Nat /\ half(b) <= half(f)
  BY ONLY b \in Nat, f \in Nat, b <= f
<1> HIDE DEF half
<1>2. ASSUME NEW m \in Nat, NEW n \in Nat, m <= n, NEW most \in Nat
      PROVE  /\ Capped(m, most) \in Nat /\ Capped(n, most) \in Nat
             /\ Capped(m, most) <= Capped(n, most)
  BY ONLY <1>2, m \in Nat, n \in Nat, most \in Nat DEF Capped
<1> DEFINE p == Capped(3 * a, 30)  q == Capped(half(b), 30) r == Capped(2 * c, 20) s == Capped(2 * d, 20)
           t == Capped(3 * e, 30)  u == Capped(half(f), 30) v == Capped(2 * g, 20) w == Capped(2 * h, 20)
<1>3. /\ 3 * a \in Nat /\ 3 * e \in Nat /\ 3 * a <= 3 * e
      /\ 2 * c \in Nat /\ 2 * g \in Nat /\ 2 * c <= 2 * g
      /\ 2 * d \in Nat /\ 2 * h \in Nat /\ 2 * d <= 2 * h
      /\ 30 \in Nat /\ 20 \in Nat
  BY ONLY a \in Nat, c \in Nat, d \in Nat, e \in Nat, g \in Nat, h \in Nat, a <= e, c <= g, d <= h
<1>4. p \in Nat /\ t \in Nat /\ p <= t
  BY ONLY <1>2, <1>3
<1>5. q \in Nat /\ u \in Nat /\ q <= u
  BY ONLY <1>1, <1>2, <1>3
<1>6. r \in Nat /\ v \in Nat /\ r <= v
  BY ONLY <1>2, <1>3
<1>7. s \in Nat /\ w \in Nat /\ s <= w
  BY ONLY <1>2, <1>3
<1> HIDE DEF p, q, r, s, t, u, v, w
<1>8. p + q + r + s <= t + u + v + w
  BY ONLY <1>4, <1>5, <1>6, <1>7
<1>9. QED
  BY ONLY <1>8 DEF RiskOfCounts, p, q, r, s, t, u, v, w, half

\* What the sum counts, of pairs of rows.
LEMMA PairsGrow ==
    ASSUME IsFiniteSet(DOMAIN rows), NEW f, \A i \in DOMAIN rows : f[i] \subseteq DOMAIN rows,
           NEW S, NEW T, S \subseteq T
    PROVE  LET of(X) == UNION {{i} \X f[i] : i \in X \cap DOMAIN rows}
           IN /\ Cardinality(of(S)) \in Nat /\ Cardinality(of(T)) \in Nat
              /\ Cardinality(of(S)) <= Cardinality(of(T))
<1> DEFINE N == DOMAIN rows
           of(X) == UNION {{i} \X f[i] : i \in X \cap N}
<1>1. of(S) \subseteq of(T)
  BY ONLY S \subseteq T
<1>2. of(T) \subseteq N \X N
  BY ONLY \A i \in DOMAIN rows : f[i] \subseteq DOMAIN rows
<1>3. IsFiniteSet(N \X N)
  BY ONLY IsFiniteSet(DOMAIN rows), FS_Product
<1> HIDE DEF of, N
<1>4. IsFiniteSet(of(T))
  BY ONLY <1>2, <1>3, FS_Subset
<1>5. IsFiniteSet(of(S)) /\ Cardinality(of(S)) <= Cardinality(of(T))
  BY ONLY <1>1, <1>4, FS_Subset
<1>6. Cardinality(of(S)) \in Nat /\ Cardinality(of(T)) \in Nat
  BY ONLY <1>4, <1>5, FS_CardinalityType
<1>7. QED
  BY ONLY <1>5, <1>6 DEF of, N

LEMMA RiskGrows ==
    ASSUME RowsAreSound, NEW i \in DOMAIN rows, NEW j \in DOMAIN rows
    PROVE  ImpactRisk({i}) <= ImpactRisk({i, j})
<1> DEFINE S == {i}
           T == {i, j}
           N == DOMAIN rows
           down == [k \in N |-> GetDescendants(rows, k)]
           up   == [k \in N |-> DependedBy(k)]
           below(X) == UNION {{k} \X down[k] : k \in X \cap N}
           above(X) == UNION {{k} \X up[k] : k \in X \cap N}
<1>1. S \subseteq T
  BY ONLY TRUE
<1>2. \A X : /\ below(X) = UNION {{k} \X GetDescendants(rows, k) : k \in X \cap N}
             /\ above(X) = UNION {{k} \X DependedBy(k) : k \in X \cap N}
  BY ONLY TRUE
<1>3. \A k \in N : down[k] \subseteq N /\ up[k] \subseteq N
  BY ONLY TRUE DEF GetDescendants, DependedBy
<1>4. IsFiniteSet(N) /\ IsFiniteSet(DOMAIN links)
  BY ONLY RowsAreSound DEF RowsAreSound
<1>5. IsFiniteSet(S) /\ IsFiniteSet(T)
  <2>1. IsFiniteSet(S)
    BY ONLY FS_Singleton
  <2>2. IsFiniteSet(S \cup {j})
    BY ONLY <2>1, FS_AddElement
  <2>3. T = S \cup {j}
    BY ONLY TRUE
  <2>4. QED
    BY ONLY <2>1, <2>2, <2>3
<1> HIDE DEF S, T
<1> DEFINE a == Cardinality(S)
           b == Cardinality(AffectedTests(S))
           c == Cardinality(below(S))
           d == Cardinality(above(S))
           e == Cardinality(T)
           f == Cardinality(AffectedTests(T))
           g == Cardinality(below(T))
           h == Cardinality(above(T))
<1>6. a \in Nat /\ e \in Nat /\ a <= e
  BY ONLY <1>1, <1>5, FS_Subset, FS_CardinalityType
<1>7. b \in Nat /\ f \in Nat /\ b <= f
  <2>1. AffectedTests(S) \subseteq AffectedTests(T)
    BY ONLY <1>1, ExpansionGrows
  <2>2. IsFiniteSet(AffectedTests(S)) /\ IsFiniteSet(AffectedTests(T))
    BY ONLY <1>4, TestsAreFinite
  <2>3. QED
    BY ONLY <2>1, <2>2, FS_Subset, FS_CardinalityType
<1>8. c \in Nat /\ g \in Nat /\ c <= g
  <2> HIDE DEF down
  <2>1. \A k \in DOMAIN rows : down[k] \subseteq DOMAIN rows
    BY ONLY <1>3
  <2>2. QED
    BY ONLY <1>1, <1>4, <2>1, PairsGrow
<1>9. d \in Nat /\ h \in Nat /\ d <= h
  <2> HIDE DEF up
  <2>1. \A k \in DOMAIN rows : up[k] \subseteq DOMAIN rows
    BY ONLY <1>3
  <2>2. QED
    BY ONLY <1>1, <1>4, <2>1, PairsGrow
<1>10. ASSUME NEW X
       PROVE  ImpactRisk(X) = RiskOfCounts(Cardinality(X), Cardinality(AffectedTests(X)),
                                           Cardinality(below(X)), Cardinality(above(X)))
  <2>1. /\ below(X) = UNION {{k} \X GetDescendants(rows, k) : k \in X \cap DOMAIN rows}
        /\ above(X) = UNION {{k} \X DependedBy(k) : k \in X \cap DOMAIN rows}
    BY ONLY <1>2
  <2> HIDE DEF below, above, N
  <2>2. QED
    BY ONLY <2>1 DEF ImpactRisk, RiskOfCounts
<1> HIDE DEF below, above
<1>11. ImpactRisk(S) = RiskOfCounts(a, b, c, d) /\ ImpactRisk(T) = RiskOfCounts(e, f, g, h)
  BY ONLY <1>10
<1> HIDE DEF a, b, c, d, e, f, g, h
<1>12. ImpactRisk(S) <= ImpactRisk(T)
  <2>1. /\ a \in Nat /\ b \in Nat /\ c \in Nat /\ d \in Nat
        /\ e \in Nat /\ f \in Nat /\ g \in Nat /\ h \in Nat
        /\ a <= e /\ b <= f /\ c <= g /\ d <= h
    BY ONLY <1>6, <1>7, <1>8, <1>9
  <2>2. RiskOfCounts(a, b, c, d) <= RiskOfCounts(e, f, g, h)
    BY ONLY <2>1, RiskOfParts
  <2>3. QED
    BY ONLY <1>11, <2>2
<1>13. QED
  BY ONLY <1>12 DEF S, T

\* The tests of a requirement, and what they are tests of.
LEMMA TestsReached ==
    ASSUME RowsAreSound, NEW i \in DOMAIN rows
    PROVE  LET tests == AffectedTests({i})
               reach == {i} \cup Hierarchy({i}) \cup Dependents(i)
           IN /\ \A l \in DOMAIN links :
                   l[2] = i \/ i \in DependsOn(l[2]) \/ l[2] \in GetDescendants(rows, i) => l[1] \in tests
              /\ \A t \in tests : \E l \in DOMAIN links : l[1] = t /\ l[2] \in reach
<1> DEFINE S == {i}
           tests == AffectedTests(S)
           reach == S \cup Hierarchy(S) \cup Dependents(i)
<1>1. Hierarchy(S) = GetDescendants(rows, i)
  BY ONLY i \in DOMAIN rows DEF Hierarchy
<1>2. Expansion(S) = S \cup Hierarchy(S) \cup DependedBy(i)
  BY ONLY TRUE DEF Expansion
<1>3. DependedBy(i) \subseteq Dependents(i)
  BY ONLY RowsAreSound, i \in DOMAIN rows, ViewsAreReach
<1>4. ASSUME NEW l \in DOMAIN links, l[2] = i \/ i \in DependsOn(l[2]) \/ l[2] \in GetDescendants(rows, i)
      PROVE  l[1] \in tests
  <2>1. l[2] \in Expansion(S)
    <3>1. i \in DependsOn(l[2]) => l[2] \in DependedBy(i)
      BY ONLY TRUE DEF DependsOn, DependedBy
    <3>2. QED
      BY ONLY <1>1, <1>2, <1>4, <3>1
  <2>2. QED
    BY ONLY <2>1, l \in DOMAIN links DEF AffectedTests
<1>5. ASSUME NEW t \in tests PROVE \E l \in DOMAIN links : l[1] = t /\ l[2] \in reach
  <2>1. \E l \in DOMAIN links : l[1] = t /\ l[2] \in Expansion(S)
    BY ONLY t \in tests DEF AffectedTests
  <2>2. Expansion(S) \subseteq reach
    BY ONLY <1>2, <1>3
  <2> HIDE DEF reach
  <2>3. QED
    BY ONLY <2>1, <2>2
<1>6. QED
  BY ONLY <1>4, <1>5

\* The report by project shows each test that has a link.
LEMMA EachTestHasAProject ==
    ASSUME NEW S
    PROVE  LET tests == AffectedTests(S)
           IN UNION {TestsByProject(tests)[project] : project \in DOMAIN TestsByProject(tests)} = tests
<1> DEFINE tests == AffectedTests(S)
           pairs == {l \in DOMAIN links : l[1] \in tests}
           projects == {rows[l[2]].project : l \in pairs}
           f == [project \in projects |-> {l[1] : l \in {l \in pairs : rows[l[2]].project = project}}]
<1>1. TestsByProject(tests) = f
  BY ONLY TRUE DEF TestsByProject
<1>2. \A t \in tests : \E l \in pairs : l[1] = t
  BY ONLY TRUE DEF AffectedTests
<1>3. \A l \in pairs : l[1] \in tests
  BY ONLY TRUE
<1> HIDE DEF pairs, tests
<1>4. DOMAIN f = projects
  BY ONLY TRUE
<1>5. \A l \in pairs : rows[l[2]].project \in projects /\ l[1] \in f[rows[l[2]].project]
  BY ONLY TRUE
<1>6. \A project \in projects : \A t \in f[project] : \E l \in pairs : l[1] = t
  BY ONLY TRUE
<1> HIDE DEF f, projects
<1>7. UNION {f[project] : project \in DOMAIN f} = tests
  <2>1. ASSUME NEW t \in tests PROVE t \in UNION {f[project] : project \in DOMAIN f}
    <3>1. PICK l \in pairs : l[1] = t
      BY ONLY <1>2, t \in tests
    <3>2. QED
      BY ONLY <1>4, <1>5, <3>1
  <2>2. ASSUME NEW project \in DOMAIN f, NEW t \in f[project] PROVE t \in tests
    BY ONLY <1>3, <1>4, <1>6, <2>2
  <2>3. QED
    BY ONLY <2>1, <2>2
<1>8. QED
  BY ONLY <1>1, <1>7 DEF tests

LEMMA ViewsAgree == RowsAreSound => DependencyViewsAgree
<1> SUFFICES ASSUME RowsAreSound PROVE DependencyViewsAgree
  OBVIOUS
<1>1. UNION {{i} \X DependencyChain(i) : i \in DOMAIN rows}
        = UNION {Dependents(j) \X {j} : j \in DOMAIN rows}
  <2>1. \A i \in DOMAIN rows : \A j \in DependencyChain(i) : j \in DOMAIN rows
    BY ONLY RowsAreSound, ViewsAreReach
  <2>2. \A j \in DOMAIN rows : \A i \in Dependents(j) : i \in DOMAIN rows
    BY ONLY RowsAreSound, ViewsAreReach
  <2>3. \A i, j \in DOMAIN rows : j \in DependencyChain(i) <=> i \in Dependents(j)
    BY ONLY RowsAreSound, ChainsTurnBack
  <2>4. QED
    BY ONLY <2>1, <2>2, <2>3
<1>2. \A i \in DOMAIN rows : LET chain == DependencyChain(i) IN
        \A j \in chain : DependencyChain(j) \subseteq chain
  BY ONLY RowsAreSound, ChainsGoOn
<1>3. /\ (\E i \in DOMAIN rows : i \in DependencyChain(i)) <=> CircularDependencies # {}
      /\ \A cycle \in CircularDependencies :
           /\ Head(cycle) = Last(cycle)
           /\ \A n \in 1 .. Len(cycle) - 1 : cycle[n + 1] \in DependsOn(cycle[n])
  BY ONLY RowsAreSound, CyclesAreChains
<1>4. \A pair \in DependencyChains : pair \notin {<<q[2], q[1]>> : q \in DependencyChains}
  BY ONLY OneChainOfTwo
<1>5. ASSUME NEW i \in DOMAIN rows
      PROVE  LET tests == AffectedTests({i})
                 reach == {i} \cup Hierarchy({i}) \cup Dependents(i)
                 risk  == ImpactRisk({i})
                 shown == TestsByProject(tests)
             IN /\ \A l \in DOMAIN links :
                     l[2] = i \/ i \in DependsOn(l[2]) \/ l[2] \in GetDescendants(rows, i) => l[1] \in tests
                /\ \A t \in tests : \E l \in DOMAIN links : l[1] = t /\ l[2] \in reach
                /\ \A j \in DOMAIN rows : /\ tests \subseteq AffectedTests({i, j})
                                          /\ risk <= ImpactRisk({i, j})
                /\ UNION {shown[project] : project \in DOMAIN shown} = tests
  <2>1. \A j : AffectedTests({i}) \subseteq AffectedTests({i, j})
    <3>1. \A j : {i} \subseteq {i, j}
      BY ONLY TRUE
    <3>2. QED
      BY ONLY <3>1, ExpansionGrows
  <2>2. \A j \in DOMAIN rows : ImpactRisk({i}) <= ImpactRisk({i, j})
    BY ONLY RowsAreSound, i \in DOMAIN rows, RiskGrows
  <2>3. QED
    BY ONLY RowsAreSound, i \in DOMAIN rows, <2>1, <2>2, TestsReached, EachTestHasAProject
<1>6. QED
  BY ONLY <1>1, <1>2, <1>3, <1>4, <1>5 DEF DependencyViewsAgree

\* Whatever is imported and linked, and however the imports interleave: the
\* views of dependency_validator.py and impact_analyzer.py agree.
THEOREM DependencyViewsAlwaysAgree == FlowFilesSpec => []DependencyViewsAgree
<1>1. FlowFilesSpec => []RowsAreSound
  BY InitRows, NextRows, PTL DEF FlowFilesSpec, allVars
<1>2. QED
  BY <1>1, ViewsAgree, PTL

-----------------------------------------------------------------------------
(***************************************************************************)
(* Imports.  An import takes turns with the others: Turns says what one    *)
(* does to the rows (Moves), what the import has in hand afterwards        *)
(* (InHand) and what it has stored so far (Stored).  The lists that it     *)
(* goes through come first.                                                *)
(***************************************************************************)
\* A list: its length is what it is defined for.
IsList(s) == Len(s) \in Nat /\ DOMAIN s = 1 .. Len(s)

\* The entry whose turn it is is one of the list, and every one has its turn.
LEMMA OrderedIsAPermutation ==
    ASSUME NEW es, IsList(es), NEW D, D = DOMAIN es
    PROVE  /\ DOMAIN Ordered(es) = D
           /\ \A k \in D : \E n \in D : Ordered(es)[k] = es[n]
           /\ \A n \in D : \E k \in D : Ordered(es)[k] = es[n]
<1> DEFINE N == Len(es)
           isRoot(n) == es[n].parent = 0
           upTo(n) == {m \in D : IF isRoot(m) = isRoot(n) THEN m <= n ELSE isRoot(m)}
           R == {n \in D : isRoot(n)}
           U == [n \in D |-> {m \in D : \/ m \in R /\ n \notin R
                                        \/ (m \in R <=> n \in R) /\ m <= n}]
           rank == [n \in D |-> Cardinality(U[n])]
<1>1. N \in Nat /\ D = 1 .. N
  BY ONLY IsList(es), D = DOMAIN es DEF IsList
<1>2. Ordered(es) = [k \in D |-> es[CHOOSE n \in D : Cardinality(upTo(n)) = k]]
  BY ONLY D = DOMAIN es DEF Ordered
<1>3. ASSUME NEW n \in D PROVE upTo(n) = U[n]
  <2>1. ASSUME NEW m \in D
        PROVE (IF isRoot(m) = isRoot(n) THEN m <= n ELSE isRoot(m))
                 <=> (m \in R /\ n \notin R) \/ ((m \in R <=> n \in R) /\ m <= n)
    <3> DEFINE a == isRoot(m)
               b == isRoot(n)
    <3>1. a \in BOOLEAN /\ b \in BOOLEAN
      BY ONLY TRUE
    <3>2. (m \in R <=> a) /\ (n \in R <=> b)
      BY ONLY m \in D, n \in D
    <3> HIDE DEF a, b, R
    <3>3. (IF a = b THEN m <= n ELSE a) <=> (a /\ ~b) \/ ((a <=> b) /\ m <= n)
      BY ONLY <3>1
    <3>4. (IF a = b THEN m <= n ELSE a)
             <=> (m \in R /\ n \notin R) \/ ((m \in R <=> n \in R) /\ m <= n)
      BY ONLY <3>2, <3>3
    <3>5. QED
      BY ONLY <3>4 DEF a, b
  <2>2. U[n] = {m \in D : (m \in R /\ n \notin R) \/ ((m \in R <=> n \in R) /\ m <= n)}
    BY ONLY n \in D
  <2> HIDE DEF isRoot, R, U
  <2>3. QED
    BY ONLY <2>1, <2>2
<1>4. \A n \in D : U[n] \subseteq D /\ n \in U[n]
  BY ONLY <1>1
<1>5. ASSUME NEW m \in D, NEW n \in D, m \in U[n], m # n PROVE U[m] \subseteq U[n] /\ n \notin U[m]
  <2> HIDE DEF R
  <2>1. QED
    BY ONLY <1>1, <1>5
<1>6. \A m, n \in D : m \in U[n] \/ n \in U[m]
  <2> HIDE DEF R
  <2>1. QED
    BY ONLY <1>1
<1>7. IsFiniteSet(D) /\ Cardinality(D) = N
  <2> HIDE DEF N
  <2>1. IsFiniteSet(1 .. N) /\ Cardinality(1 .. N) = IF 1 > N THEN 0 ELSE N - 1 + 1
    BY ONLY <1>1, FS_Interval
  <2>2. QED
    BY ONLY <1>1, <2>1
<1> HIDE DEF U
<1>8. ASSUME NEW n \in D PROVE IsFiniteSet(U[n]) /\ rank[n] = Cardinality(U[n]) /\ rank[n] \in D
  <2>1. IsFiniteSet(U[n]) /\ Cardinality(U[n]) <= Cardinality(D) /\ rank[n] = Cardinality(U[n])
    BY ONLY <1>4, <1>7, n \in D, FS_Subset
  <2>2. Cardinality(U[n]) \in Nat
    BY ONLY <2>1, FS_CardinalityType
  <2>3. Cardinality(U[n]) # 0
    BY ONLY <1>4, n \in D, <2>1, FS_EmptySet
  <2> HIDE DEF rank
  <2>4. QED
    BY ONLY <1>1, <1>7, <2>1, <2>2, <2>3
<1>9. ASSUME NEW m \in D, NEW n \in D, m \in U[n], m # n PROVE rank[m] # rank[n]
  <2>1. U[m] \subseteq U[n] /\ U[m] # U[n]
    BY ONLY <1>4, <1>5, <1>9
  <2>2. Cardinality(U[m]) # Cardinality(U[n])
    BY ONLY <1>8, <2>1, m \in D, n \in D, FS_Subset
  <2>3. QED
    BY ONLY <1>8, <2>2, m \in D, n \in D
<1>10. \A m, n \in D : rank[m] = rank[n] => m = n
  BY ONLY <1>6, <1>9
<1>11. rank \in [D -> D]
  <2>1. rank = [n \in D |-> rank[n]]
    BY ONLY TRUE
  <2> HIDE DEF rank
  <2>2. QED
    BY ONLY <1>8, <2>1
<1> HIDE DEF rank, upTo
<1>12. \A k \in D : \E n \in D : rank[n] = k
  <2>1. rank \in Injection(D, D)
    BY ONLY <1>10, <1>11 DEF Injection, IsInjective
  <2>2. rank \in Surjection(D, D)
    BY ONLY <1>7, <2>1, FS_Injection
  <2>3. QED
    BY ONLY <2>2 DEF Surjection
<1> DEFINE at == [k \in D |-> CHOOSE n \in D : Cardinality(upTo(n)) = k]
<1>13. ASSUME NEW k \in D PROVE at[k] \in D /\ rank[at[k]] = k
  <2>1. \E n \in D : Cardinality(upTo(n)) = k
    BY ONLY <1>3, <1>8, <1>12, k \in D
  <2>2. at[k] \in D /\ Cardinality(upTo(at[k])) = k
    BY ONLY <2>1, k \in D
  <2>3. QED
    BY ONLY <1>3, <1>8, <2>2
<1>14. DOMAIN Ordered(es) = D /\ \A k \in D : Ordered(es)[k] = es[at[k]]
  BY ONLY <1>2
<1> HIDE DEF at
<1>15. \A n \in D : rank[n] \in D /\ at[rank[n]] = n
  BY ONLY <1>8, <1>10, <1>13
<1>16. QED
  BY ONLY <1>13, <1>14, <1>15

\* What FlattenSeq makes of lists of entries is a list of them.
Joined(f, a, n) == f = [i \in 1 .. n |-> IF i = 1 THEN a[i] ELSE f[i - 1] \o a[i]]

LEMMA JoinedIsAList ==
    ASSUME NEW S, NEW n \in Nat, NEW a, \A i \in 1 .. n : a[i] \in Seq(S), NEW f, Joined(f, a, n)
    PROVE  \A i \in 1 .. n : f[i] \in Seq(S)
<1> DEFINE wrong == {i \in 1 .. n : f[i] \notin Seq(S)}
<1>0. \A i \in 1 .. n : f[i] = IF i = 1 THEN a[i] ELSE f[i - 1] \o a[i]
  BY ONLY Joined(f, a, n) DEF Joined
<1>1. ASSUME wrong # {} PROVE FALSE
  <2>0. wrong \in SUBSET Nat
    BY ONLY n \in Nat
  <2>1. PICK k \in wrong : \A j \in wrong : k <= j
    BY ONLY <1>1, <2>0, LeastNumber
  <2>2. k # 1 /\ k \in 1 .. n
    BY ONLY <1>0, <2>1, \A i \in 1 .. n : a[i] \in Seq(S)
  <2>3. k - 1 \in 1 .. n /\ k - 1 \notin wrong
    BY ONLY <2>1, <2>2, n \in Nat
  <2>4. f[k - 1] \in Seq(S) /\ a[k] \in Seq(S) /\ f[k] = f[k - 1] \o a[k]
    BY ONLY <1>0, <2>2, <2>3, \A i \in 1 .. n : a[i] \in Seq(S)
  <2>5. f[k] \in Seq(S)
    BY ONLY <2>4, ConcatProperties
  <2>6. QED
    BY ONLY <2>1, <2>5
<1>2. QED
  BY ONLY <1>1

LEMMA JoinedExists ==
    ASSUME NEW n \in Nat, NEW a
    PROVE  \E f : Joined(f, a, n)
<1> DEFINE without == {k \in Nat : ~\E f : Joined(f, a, k)}
<1>2. ASSUME without # {} PROVE FALSE
  <2>1. PICK k \in without : \A j \in without : k <= j
    BY ONLY <1>2, LeastNumber
  <2>2. k # 0
    <3>1. Joined([i \in 1 .. 0 |-> 0], a, 0)
      <4>1. 1 .. 0 = {}
        BY ONLY TRUE
      <4>2. \A f, g : [i \in {} |-> f[i]] = [i \in {} |-> g[i]]
        BY ONLY TRUE
      <4>3. QED
        BY ONLY <4>1 DEF Joined
    <3>2. QED
      BY ONLY <2>1, <3>1
  <2>3. k - 1 \in Nat /\ k \in Nat /\ k - 1 \notin without
    BY ONLY <2>1, <2>2
  <2>4. PICK g : Joined(g, a, k - 1)
    BY ONLY <2>3
  <2> DEFINE x == IF k = 1 THEN a[k] ELSE g[k - 1] \o a[k]
             h == [i \in 1 .. k |-> IF i = k THEN x ELSE g[i]]
  <2>5. ASSUME NEW i \in 1 .. k PROVE h[i] = IF i = 1 THEN a[i] ELSE h[i - 1] \o a[i]
    <3>1. CASE i = k
      <4>1. h[i] = x /\ (i # 1 => h[i - 1] = g[i - 1])
        <5> HIDE DEF x
        <5>1. QED
          BY ONLY <2>3, <3>1
      <4> HIDE DEF h
      <4>2. QED
        BY ONLY <3>1, <4>1
    <3>2. CASE i # k
      <4>1. i \in 1 .. k - 1 /\ (i # 1 => i - 1 \in 1 .. k - 1 /\ i - 1 # k)
        BY ONLY <2>3, <3>2
      <4>2. h[i] = g[i] /\ (i # 1 => h[i - 1] = g[i - 1])
        <5> HIDE DEF x
        <5>1. QED
          BY ONLY <2>3, <3>2, <4>1
      <4>3. g[i] = IF i = 1 THEN a[i] ELSE g[i - 1] \o a[i]
        BY ONLY <2>4, <4>1 DEF Joined
      <4> HIDE DEF h
      <4>4. QED
        BY ONLY <4>2, <4>3
    <3>3. QED
      BY ONLY <3>1, <3>2
  <2>6. h = [i \in 1 .. k |-> h[i]]
    <3> HIDE DEF x
    <3>1. QED
      BY ONLY TRUE
  <2> HIDE DEF h
  <2>7. Joined(h, a, k)
    BY ONLY <2>5, <2>6 DEF Joined
  <2>8. QED
    BY ONLY <2>1, <2>7
<1>3. n \notin without
  BY ONLY <1>2
<1>4. QED
  BY ONLY <1>3, n \in Nat

LEMMA FlatList ==
    ASSUME NEW S, NEW a \in Seq(Seq(S))
    PROVE  FlattenSeq(a) \in Seq(S)
<1> DEFINE n == Len(a)
           f == CHOOSE f : Joined(f, a, n)
<1>1. n \in Nat /\ \A i \in 1 .. n : a[i] \in Seq(S)
  BY ONLY a \in Seq(Seq(S)), LenProperties, ElementOfSeq
<1>2. CASE n = 0
  <2>1. FlattenSeq(a) = a /\ a = <<>>
    BY ONLY <1>2, a \in Seq(Seq(S)) DEF FlattenSeq
  <2>2. QED
    BY ONLY <2>1, EmptySeq
<1>3. CASE n # 0
  <2>1. FlattenSeq(a) = f[n]
    BY ONLY <1>3 DEF FlattenSeq, Joined
  <2>2. \E g : Joined(g, a, n)
    <3> HIDE DEF n
    <3>1. QED
      BY ONLY <1>1, JoinedExists
  <2>3. Joined(f, a, n)
    BY ONLY <2>2
  <2> HIDE DEF f, n
  <2>4. f[n] \in Seq(S)
    <3>1. n \in 1 .. n
      BY ONLY <1>1, <1>3
    <3>2. QED
      BY ONLY <1>1, <2>3, <3>1, JoinedIsAList
  <2>5. QED
    BY ONLY <2>1, <2>4
<1>4. QED
  BY ONLY <1>2, <1>3

LEMMA ListsAreLists ==
    ASSUME NEW S, NEW s \in Seq(S)
    PROVE  IsList(s)
BY ONLY s \in Seq(S), LenProperties DEF IsList

LEMMA FilesAreParsed ==
    ASSUME NEW directory \in Seq(Files)
    PROVE  IsList(ParseDirectory(directory))
<1> DEFINE D == 1 .. Len(directory)
           a == [n \in DOMAIN directory |->
                    IF directory[n].kind = "issue" THEN <<IssueToRequirement(directory[n])>>
                    ELSE ParseFile(directory[n])]
           S == UNION {{a[n][k] : k \in DOMAIN a[n]} : n \in D}
<1>1. Len(directory) \in Nat /\ DOMAIN directory = D /\ \A n \in D : directory[n] \in Files
  BY ONLY directory \in Seq(Files), LenProperties, ElementOfSeq
<1>2. ASSUME NEW n \in D PROVE a[n] \in Seq(S)
  <2> DEFINE f == directory[n]
  <2>0. /\ f \in Files /\ a[n] = IF f.kind = "issue" THEN <<IssueToRequirement(f)>> ELSE ParseFile(f)
        /\ \A k \in DOMAIN a[n] : a[n][k] \in S
    <3>1. a[n] = IF f.kind = "issue" THEN <<IssueToRequirement(f)>> ELSE ParseFile(f)
      BY ONLY <1>1, n \in D
    <3>2. f \in Files
      BY ONLY <1>1, n \in D
    <3> HIDE DEF a, f
    <3>3. \A k \in DOMAIN a[n] : a[n][k] \in S
      BY ONLY n \in D
    <3>4. QED
      BY ONLY <3>1, <3>2, <3>3
  <2> HIDE DEF f, a, S
  <2>1. f.ids \in Seq(Nat)
    BY ONLY <2>0 DEF Files
  <2>2. ASSUME NEW x, a[n] = <<x>> PROVE a[n] \in Seq(S)
    <3>1. a[n][1] = x /\ 1 \in DOMAIN a[n]
      BY ONLY <2>2
    <3>2. x \in S
      BY ONLY <2>0, <3>1
    <3>3. QED
      BY ONLY <2>2, <3>2
  <2>3. ASSUME a[n] = <<>> PROVE a[n] \in Seq(S)
    BY ONLY <2>3
  <2>4. ASSUME NEW m \in Nat, NEW g, a[n] = [k \in 1 .. m |-> g[k]] PROVE a[n] \in Seq(S)
    <3>1. a[n] \in [1 .. m -> S]
      BY ONLY <2>0, <2>4
    <3>2. QED
      BY ONLY <3>1, m \in Nat
  <2>5. \/ \E x : a[n] = <<x>>
        \/ a[n] = <<>>
        \/ \E g : a[n] = [k \in DOMAIN f.ids |-> g[k]]
    <3> DEFINE entry(id, parent) == [id |-> id, parent |-> parent, deps |-> f.deps, status |-> f.status,
                                     risk |-> f.risk, source |-> "specs"]
               all == [k \in DOMAIN f.ids |-> entry(f.ids[k], IF k = 1 THEN 0 ELSE f.ids[1])]
    <3>1. f.kind \in {"single", "multi", "bad", "issue"}
      BY ONLY <2>0 DEF Files
    <3>2. ParseFile(f) = CASE f.kind = "bad" -> <<>> [] f.kind = "multi" -> all
                           [] OTHER -> <<entry(f.ids[1], f.parent)>>
      BY ONLY TRUE DEF ParseFile
    <3>3. all = [k \in DOMAIN f.ids |-> all[k]]
      <4> HIDE DEF entry
      <4>1. QED
        BY ONLY TRUE
    <3> HIDE DEF entry, all
    <3>4. ParseFile(f) = <<>> \/ ParseFile(f) = all \/ ParseFile(f) = <<entry(f.ids[1], f.parent)>>
      BY ONLY <3>1, <3>2
    <3>5. QED
      BY ONLY <2>0, <3>3, <3>4
  <2>6. DOMAIN f.ids = 1 .. Len(f.ids) /\ Len(f.ids) \in Nat
    BY ONLY <2>1, LenProperties
  <2>7. QED
    BY ONLY <2>2, <2>3, <2>4, <2>5, <2>6
<1>3. a = [n \in D |-> a[n]] /\ Len(directory) \in Nat
  BY ONLY <1>1
<1>4. ParseDirectory(directory) = FlattenSeq(a)
  BY ONLY TRUE DEF ParseDirectory
<1> HIDE DEF a, S
<1>5. a \in Seq(Seq(S))
  <2>1. a \in [1 .. Len(directory) -> Seq(S)]
    BY ONLY <1>2, <1>3
  <2>2. QED
    BY ONLY <1>3, <2>1
<1>6. FlattenSeq(a) \in Seq(S)
  BY ONLY <1>5, FlatList
<1>7. QED
  BY ONLY <1>4, <1>6, ListsAreLists

-----------------------------------------------------------------------------
\* A row, and what an entry says of one.
IsRow(r)     == r = [project |-> r.project, status |-> r.status, risk |-> r.risk, source |-> r.source,
                     path |-> r.path, numchild |-> r.numchild, deps |-> r.deps]
AreRows(t)   == \A i \in DOMAIN t : IsRow(t[i])
Stated(p, e) == <<ProjectOf[p], e.status, RiskOf(e), e.source>>

\* A row at another place, with other dependencies, or with more children.
LEMMA RowElsewhere ==
    ASSUME NEW r, IsRow(r), NEW x
    PROVE  LET new == [r EXCEPT !.path = x] IN
           IsRow(new) /\ Fields(new) = Fields(r) /\ new.deps = r.deps
<1> DEFINE new == [r EXCEPT !.path = x]
<1>1. new = [project |-> r.project, status |-> r.status, risk |-> r.risk, source |-> r.source,
             path |-> x, numchild |-> r.numchild, deps |-> r.deps]
  BY ONLY IsRow(r) DEF IsRow
<1> HIDE DEF new
<1>2. QED
  BY ONLY <1>1 DEF IsRow, Fields, new

LEMMA RowGrown ==
    ASSUME NEW r, IsRow(r), NEW x
    PROVE  LET new == [r EXCEPT !.numchild = x] IN
           IsRow(new) /\ Fields(new) = Fields(r) /\ new.deps = r.deps
<1> DEFINE new == [r EXCEPT !.numchild = x]
<1>1. new = [project |-> r.project, status |-> r.status, risk |-> r.risk, source |-> r.source,
             path |-> r.path, numchild |-> x, deps |-> r.deps]
  BY ONLY IsRow(r) DEF IsRow
<1> HIDE DEF new
<1>2. QED
  BY ONLY <1>1 DEF IsRow, Fields, new

LEMMA RowDepending ==
    ASSUME NEW r, IsRow(r), NEW x
    PROVE  LET new == [r EXCEPT !.deps = x] IN
           IsRow(new) /\ Fields(new) = Fields(r) /\ new.deps = x
<1> DEFINE new == [r EXCEPT !.deps = x]
<1>1. new = [project |-> r.project, status |-> r.status, risk |-> r.risk, source |-> r.source,
             path |-> r.path, numchild |-> r.numchild, deps |-> x]
  BY ONLY IsRow(r) DEF IsRow
<1> HIDE DEF new
<1>2. QED
  BY ONLY <1>1 DEF IsRow, Fields, new

LEMMA RowStated ==
    ASSUME NEW p, NEW e, NEW r, IsRow(r)
    PROVE  LET new == FieldsOf(p, e, r) IN
           IsRow(new) /\ Fields(new) = Stated(p, e) /\ new.deps = r.deps
<1> DEFINE new == FieldsOf(p, e, r)
           a == ProjectOf[p]
           b == e.status
           c == RiskOf(e)
           d == e.source
<1>1. new = [r EXCEPT !.project = a, !.status = b, !.risk = c, !.source = d]
  BY ONLY TRUE DEF FieldsOf
<1>2. Stated(p, e) = <<a, b, c, d>>
  BY ONLY TRUE DEF Stated
<1> HIDE DEF new, a, b, c, d
<1>3. new = [project |-> a, status |-> b, risk |-> c, source |-> d,
             path |-> r.path, numchild |-> r.numchild, deps |-> r.deps]
  BY ONLY <1>1, IsRow(r) DEF IsRow
<1>4. QED
  BY ONLY <1>2, <1>3 DEF IsRow, Fields, new

LEMMA FieldsTell ==
    ASSUME NEW r, NEW s, Fields(r) = Fields(s)
    PROVE  r.project = s.project
BY ONLY Fields(r) = Fields(s) DEF Fields

\* An entry is saved: a row is as the entry has it, and the others are left.
EntrySaved(t, u, p, e) ==
    /\ DOMAIN u = DOMAIN t \cup {e.id}
    /\ AreRows(u)
    /\ Fields(u[e.id]) = Stated(p, e)
    /\ u[e.id].deps = IF e.id \in DOMAIN t THEN t[e.id].deps ELSE {}
    /\ \A j \in DOMAIN t : j # e.id => Fields(u[j]) = Fields(t[j]) /\ u[j].deps = t[j].deps

LEMMA UpdateSaves ==
    ASSUME NEW t, AreRows(t), NEW p, NEW e, NEW r, IsRow(r), NEW u,
           u = With(t, e.id, [FieldsOf(p, e, r) EXCEPT !.deps = IF e.id \in DOMAIN t THEN t[e.id].deps ELSE {}])
    PROVE  EntrySaved(t, u, p, e)
<1> DEFINE id == e.id
           row == FieldsOf(p, e, r)
           deps == IF id \in DOMAIN t THEN t[id].deps ELSE {}
           new == [row EXCEPT !.deps = deps]
<1>1. u = With(t, id, new)
  BY ONLY u = With(t, e.id, [FieldsOf(p, e, r) EXCEPT !.deps = IF e.id \in DOMAIN t THEN t[e.id].deps ELSE {}])
<1>2. IsRow(row) /\ Fields(row) = Stated(p, e)
  BY ONLY IsRow(r), RowStated
<1> HIDE DEF row
<1>3. IsRow(new) /\ Fields(new) = Stated(p, e) /\ new.deps = deps
  BY ONLY <1>2, RowDepending
<1> HIDE DEF new
<1>4. DOMAIN u = DOMAIN t \cup {id} /\ \A j \in DOMAIN u : u[j] = IF j = id THEN new ELSE t[j]
  BY ONLY <1>1 DEF With
<1>5. QED
  BY ONLY <1>3, <1>4, AreRows(t) DEF EntrySaved, AreRows

LEMMA CreateSaves ==
    ASSUME NEW t, AreRows(t), NEW p, NEW e, e.id \notin DOMAIN t, NEW parent, NEW u,
           u = AddNode(t, e.id, parent, FieldsOf(p, e, NewRow))
    PROVE  EntrySaved(t, u, p, e)
<1> DEFINE id == e.id
           fields == FieldsOf(p, e, NewRow)
           base == IF parent = 0 THEN <<>> ELSE t[parent].path
           place == Place(t, id, base)
           at == place.path
           moved == place.rows
           row == [fields EXCEPT !.path = at]
           grown == IF parent = 0 THEN moved ELSE [moved EXCEPT ![parent].numchild = @ + 1]
<1>1. u = With(grown, id, row)
  BY ONLY u = AddNode(t, e.id, parent, FieldsOf(p, e, NewRow)) DEF AddNode
<1>2. PICK f : moved = [i \in DOMAIN t |-> [t[i] EXCEPT !.path = f[i]]]
  <2> DEFINE siblings == Children(t, base)
             later == {i \in siblings : i > id}
             to(q) == IF \E i \in later : IsPrefix(t[i].path, q)
                      THEN [q EXCEPT ![Len(base) + 1] = @ + 1] ELSE q
             f == [i \in DOMAIN t |-> to(t[i].path)]
  <2>1. moved = [i \in DOMAIN t |-> [t[i] EXCEPT !.path = to(@)]]
    BY ONLY TRUE DEF Place
  <2>2. \A i \in DOMAIN t : f[i] = to(t[i].path)
    BY ONLY TRUE
  <2> HIDE DEF f, to, moved
  <2>3. moved = [i \in DOMAIN t |-> [t[i] EXCEPT !.path = f[i]]]
    BY ONLY <2>1, <2>2
  <2>4. QED
    BY ONLY <2>3
<1>3. IsRow(NewRow) /\ NewRow.deps = {}
  BY ONLY TRUE DEF NewRow, IsRow
<1>4. IsRow(fields) /\ Fields(fields) = Stated(p, e) /\ fields.deps = {}
  BY ONLY <1>3, RowStated
<1> HIDE DEF fields, at
<1>5. IsRow(row) /\ Fields(row) = Stated(p, e) /\ row.deps = {}
  BY ONLY <1>4, RowElsewhere
<1> HIDE DEF row, moved
<1>6. DOMAIN moved = DOMAIN t
  BY ONLY <1>2
<1>7. ASSUME NEW i \in DOMAIN t
      PROVE  IsRow(moved[i]) /\ Fields(moved[i]) = Fields(t[i]) /\ moved[i].deps = t[i].deps
  <2>1. moved[i] = [t[i] EXCEPT !.path = f[i]]
    BY ONLY <1>2, i \in DOMAIN t
  <2>2. IsRow(t[i])
    BY ONLY AreRows(t), i \in DOMAIN t DEF AreRows
  <2>3. QED
    BY ONLY <2>1, <2>2, RowElsewhere
<1>8. /\ DOMAIN grown = DOMAIN t
      /\ \A i \in DOMAIN t : IsRow(grown[i]) /\ Fields(grown[i]) = Fields(t[i]) /\ grown[i].deps = t[i].deps
  <2>1. CASE parent = 0
    BY ONLY <1>6, <1>7, <2>1
  <2>2. CASE parent # 0
    <3>1. grown = [moved EXCEPT ![parent].numchild = @ + 1]
      BY ONLY <2>2
    <3>2. DOMAIN grown = DOMAIN moved
      BY ONLY <3>1
    <3>3. \A i \in DOMAIN moved :
            grown[i] = IF i = parent THEN [moved[i] EXCEPT !.numchild = moved[i].numchild + 1] ELSE moved[i]
      BY ONLY <3>1
    <3> HIDE DEF grown
    <3>4. ASSUME NEW i \in DOMAIN t
          PROVE IsRow(grown[i]) /\ Fields(grown[i]) = Fields(t[i]) /\ grown[i].deps = t[i].deps
      <4> DEFINE n == moved[i].numchild + 1
      <4>1. grown[i] = moved[i] \/ grown[i] = [moved[i] EXCEPT !.numchild = n]
        BY ONLY <1>6, <3>3, i \in DOMAIN t
      <4> HIDE DEF n
      <4>2. CASE grown[i] = moved[i]
        BY ONLY <1>7, <4>2, i \in DOMAIN t
      <4>3. CASE grown[i] = [moved[i] EXCEPT !.numchild = n]
        <5>1. /\ IsRow(grown[i]) /\ Fields(grown[i]) = Fields(moved[i])
              /\ grown[i].deps = moved[i].deps
          BY ONLY <1>7, <4>3, i \in DOMAIN t, RowGrown
        <5>2. QED
          BY ONLY <1>7, <5>1, i \in DOMAIN t
      <4>4. QED
        BY ONLY <4>1, <4>2, <4>3
    <3>5. QED
      BY ONLY <1>6, <3>2, <3>4
  <2>3. QED
    BY ONLY <2>1, <2>2
<1> HIDE DEF grown
<1>9. DOMAIN u = DOMAIN t \cup {id} /\ \A j \in DOMAIN u : u[j] = IF j = id THEN row ELSE grown[j]
  BY ONLY <1>1, <1>8 DEF With
<1>10. QED
  BY ONLY <1>5, <1>8, <1>9, e.id \notin DOMAIN t DEF EntrySaved, AreRows

\* What the rows of a project may depend on, and what a step of one project
\* does to the rows.
DepsInside(t) == \A i \in DOMAIN t : \A d \in t[i].deps : d \in DOMAIN t /\ t[d].project = t[i].project

Moves(t, u, project) ==
    /\ AreRows(u) /\ DepsInside(u)
    /\ \A i \in DOMAIN u : i \in DOMAIN t => u[i].project = t[i].project
    /\ \A i \in DOMAIN u : i \notin DOMAIN t => u[i].project = project
    /\ \A i \in DOMAIN u : i \in DOMAIN t /\ t[i].project # project =>
         Fields(u[i]) = Fields(t[i]) /\ u[i].deps = t[i].deps \cap DOMAIN u

LEMMA NothingMoves ==
    ASSUME NEW t, AreRows(t), DepsInside(t), NEW project
    PROVE  Moves(t, t, project)
BY ONLY AreRows(t), DepsInside(t) DEF Moves, DepsInside

LEMMA SavingMoves ==
    ASSUME NEW t, AreRows(t), DepsInside(t), NEW p, NEW e, NEW u, EntrySaved(t, u, p, e),
           e.id \in DOMAIN t => t[e.id].project = ProjectOf[p]
    PROVE  Moves(t, u, ProjectOf[p])
<1> DEFINE id == e.id
<1>1. /\ DOMAIN u = DOMAIN t \cup {id} /\ AreRows(u)
      /\ Fields(u[id]) = Stated(p, e)
      /\ u[id].deps = IF id \in DOMAIN t THEN t[id].deps ELSE {}
      /\ \A j \in DOMAIN t : j # id => Fields(u[j]) = Fields(t[j]) /\ u[j].deps = t[j].deps
  BY ONLY EntrySaved(t, u, p, e) DEF EntrySaved
<1>2. u[id].project = ProjectOf[p]
  BY ONLY <1>1 DEF Fields, Stated
<1>3. id \in DOMAIN t => t[id].project = ProjectOf[p]
  BY ONLY e.id \in DOMAIN t => t[e.id].project = ProjectOf[p]
<1> HIDE DEF id
<1>4. \A i \in DOMAIN t : u[i].project = t[i].project /\ u[i].deps = t[i].deps
  BY ONLY <1>1, <1>2, <1>3, FieldsTell
<1>5. \A i \in DOMAIN t : \A d \in t[i].deps : d \in DOMAIN t /\ t[d].project = t[i].project
  BY ONLY DepsInside(t) DEF DepsInside
<1>6. DepsInside(u)
  <2>1. \A i \in DOMAIN u : \A d \in u[i].deps : i \in DOMAIN t /\ d \in t[i].deps
    BY ONLY <1>1, <1>4
  <2>2. QED
    BY ONLY <1>1, <1>4, <1>5, <2>1 DEF DepsInside
<1>7. \A i \in DOMAIN u : i \notin DOMAIN t => u[i].project = ProjectOf[p]
  BY ONLY <1>1, <1>2
<1>8. \A i \in DOMAIN u : i \in DOMAIN t /\ t[i].project # ProjectOf[p] =>
         Fields(u[i]) = Fields(t[i]) /\ u[i].deps = t[i].deps \cap DOMAIN u
  BY ONLY <1>1, <1>3, <1>4, <1>5
<1>9. QED
  BY ONLY <1>1, <1>4, <1>6, <1>7, <1>8 DEF Moves

LEMMA ClearingMoves ==
    ASSUME NEW t, AreRows(t), DepsInside(t), NEW S, NEW u, u = Deleted(t, S), NEW project
    PROVE  /\ Moves(t, u, project)
           /\ \A i \in DOMAIN u : i \in DOMAIN t /\ Fields(u[i]) = Fields(t[i])
<1> DEFINE tops == {i \in S : ~\E j \in S : IsStrictPrefix(t[j].path, t[i].path)}
           gone == S \cup UNION {GetDescendants(t, i) : i \in tops}
           lost(i) == Cardinality({j \in tops : t[j].path # <<>> /\ Front(t[j].path) = t[i].path})
           left == [i \in DOMAIN t |-> IF lost(i) < t[i].numchild THEN t[i].numchild - lost(i) ELSE 0]
<1>1. u = [i \in DOMAIN t \ gone |->
               [t[i] EXCEPT !.deps = @ \ gone, !.numchild = IF lost(i) < @ THEN @ - lost(i) ELSE 0]]
  BY ONLY u = Deleted(t, S) DEF Deleted
<1>2. \A i \in DOMAIN t : left[i] = IF lost(i) < t[i].numchild THEN t[i].numchild - lost(i) ELSE 0
  BY ONLY TRUE
<1> HIDE DEF left, lost, gone
<1>3. u = [i \in DOMAIN t \ gone |-> [t[i] EXCEPT !.deps = t[i].deps \ gone, !.numchild = left[i]]]
  BY ONLY <1>1, <1>2
<1>4. DOMAIN u = DOMAIN t \ gone
  BY ONLY <1>3
<1>5. ASSUME NEW i \in DOMAIN u
      PROVE  IsRow(u[i]) /\ Fields(u[i]) = Fields(t[i]) /\ u[i].deps = t[i].deps \ gone
  <2> DEFINE r == t[i]
             x == t[i].deps \ gone
             y == left[i]
  <2>1. u[i] = [r EXCEPT !.deps = x, !.numchild = y] /\ IsRow(r)
    BY ONLY <1>3, <1>4, AreRows(t), i \in DOMAIN u DEF AreRows
  <2> HIDE DEF r, x, y
  <2>2. u[i] = [project |-> r.project, status |-> r.status, risk |-> r.risk, source |-> r.source,
                path |-> r.path, numchild |-> y, deps |-> x]
    BY ONLY <2>1 DEF IsRow
  <2>3. IsRow(u[i]) /\ Fields(u[i]) = Fields(r) /\ u[i].deps = x
    BY ONLY <2>2 DEF IsRow, Fields
  <2>4. QED
    BY ONLY <2>3 DEF r, x
<1>6. \A i \in DOMAIN u : u[i].project = t[i].project
  BY ONLY <1>5, FieldsTell
<1>7. \A i \in DOMAIN t : \A d \in t[i].deps : d \in DOMAIN t /\ t[d].project = t[i].project
  BY ONLY DepsInside(t) DEF DepsInside
<1>8. \A i \in DOMAIN u : u[i].deps = t[i].deps \cap DOMAIN u
  BY ONLY <1>4, <1>5, <1>7
<1>9. AreRows(u) /\ DepsInside(u)
  BY ONLY <1>4, <1>5, <1>6, <1>7, <1>8 DEF AreRows, DepsInside
<1>10. QED
  BY ONLY <1>4, <1>5, <1>6, <1>8, <1>9 DEF Moves

\* An import: what it has read is a list, and it has nothing in hand before it
\* reads what its project owns.
IsImport(im) ==
    /\ im = [at |-> im.at, entries |-> im.entries, clear |-> im.clear, i |-> im.i,
             existing |-> im.existing, count |-> im.count]
    /\ IsList(im.entries) /\ im.i \in 0 .. Len(im.entries)
    /\ AreRows(im.existing)
    /\ im.at \in {"clearing", "reading"} => im.i = 0 /\ DOMAIN im.existing = {}

\* What it has in hand is stored for its project, and it has in hand what it
\* saved.
InHand(im, p, t) ==
    /\ IsImport(im)
    /\ \A i \in DOMAIN im.existing : i \in DOMAIN t /\ t[i].project = ProjectOf[p]
    /\ im.at = "saving" => \A m \in 1 .. im.i : Ordered(im.entries)[m].id \in DOMAIN im.existing
    /\ im.at = "depending" => \A m \in DOMAIN im.entries : im.entries[m].id \in DOMAIN im.existing

\* The first n entries are stored, each as the last of them describes it.
FieldsStored(im, p, t, n) ==
    LET order == Ordered(im.entries) IN
    \A m \in 1 .. n :
        (\A k \in m + 1 .. n : order[k].id # order[m].id) => Fields(t[order[m].id]) = Stated(p, order[m])
DepsStored(im, t, n) ==
    LET es == im.entries IN
    \A m \in 1 .. n :
        /\ es[m].deps # {}
        /\ \A k \in m + 1 .. n : es[k].id = es[m].id => es[k].deps = {}
        => t[es[m].id].deps = es[m].deps \cap DOMAIN im.existing

Stored(im, p, t) ==
    /\ im.at \in {"saving", "depending"} =>
         \A i \in DOMAIN t : t[i].project = ProjectOf[p] => i \in DOMAIN im.existing
    /\ im.at = "saving" => FieldsStored(im, p, t, im.i)
    /\ im.at = "depending" => /\ FieldsStored(im, p, t, Len(im.entries))
                              /\ DepsStored(im, t, im.i)

\* A turn of an import.
Turns(p, im, new, t, u) ==
    /\ Moves(t, u, ProjectOf[p])
    /\ InHand(new, p, u)
    /\ Stored(im, p, t) => Stored(new, p, u)
    /\ im.at = "depending" /\ new.at = "done" => im.i = Len(im.entries)
    /\ new = im => \A i \in DOMAIN u : i \in DOMAIN t => Fields(u[i]) = Fields(t[i])

LEMMA EntriesInHand ==
    ASSUME NEW im, NEW p, NEW t, InHand(im, p, t), NEW n, n = Len(im.entries)
    PROVE  /\ n \in Nat /\ DOMAIN im.entries = 1 .. n /\ im.i \in 0 .. n
           /\ \A k \in 1 .. n : \E m \in 1 .. n : Ordered(im.entries)[k] = im.entries[m]
           /\ \A m \in 1 .. n : \E k \in 1 .. n : Ordered(im.entries)[k] = im.entries[m]
           /\ im.at = "depending" => \A m \in 1 .. n : /\ im.entries[m].id \in DOMAIN im.existing
                                                       /\ Ordered(im.entries)[m].id \in DOMAIN im.existing
<1> DEFINE es == im.entries
<1>1. IsList(es) /\ n \in Nat /\ DOMAIN es = 1 .. n /\ im.i \in 0 .. n
  BY ONLY InHand(im, p, t), n = Len(im.entries) DEF InHand, IsImport, IsList
<1>2. /\ \A k \in 1 .. n : \E m \in 1 .. n : Ordered(es)[k] = es[m]
      /\ \A m \in 1 .. n : \E k \in 1 .. n : Ordered(es)[k] = es[m]
  <2> HIDE DEF es
  <2>1. PICK D : D = DOMAIN es
    BY ONLY TRUE
  <2>2. /\ DOMAIN Ordered(es) = D
        /\ \A k \in D : \E m \in D : Ordered(es)[k] = es[m]
        /\ \A m \in D : \E k \in D : Ordered(es)[k] = es[m]
    <3>1. IsList(es)
      BY ONLY <1>1
    <3>2. QED
      BY ONLY <2>1, <3>1, OrderedIsAPermutation
  <2>3. QED
    BY ONLY <1>1, <2>1, <2>2
<1>3. im.at = "depending" => \A m \in 1 .. n : es[m].id \in DOMAIN im.existing
  BY ONLY <1>1, InHand(im, p, t) DEF InHand
<1>4. QED
  BY ONLY <1>1, <1>2, <1>3

\* Another project's step leaves what is in hand, unless it takes a row away.
LEMMA OthersMove ==
    ASSUME NEW im, NEW p, NEW t, NEW u, NEW project, InHand(im, p, t), Moves(t, u, project),
           DOMAIN im.existing \subseteq DOMAIN u
    PROVE  /\ InHand(im, p, u)
           /\ project # ProjectOf[p] /\ Stored(im, p, t) => Stored(im, p, u)
<1>1. \A i \in DOMAIN im.existing : i \in DOMAIN t /\ i \in DOMAIN u /\ t[i].project = ProjectOf[p]
  BY ONLY InHand(im, p, t), DOMAIN im.existing \subseteq DOMAIN u DEF InHand
<1>2. \A i \in DOMAIN u : i \in DOMAIN t => u[i].project = t[i].project
  BY ONLY Moves(t, u, project) DEF Moves
<1>3. InHand(im, p, u)
  BY ONLY <1>1, <1>2, InHand(im, p, t) DEF InHand
<1>4. ASSUME project # ProjectOf[p], Stored(im, p, t) PROVE Stored(im, p, u)
  <2> DEFINE n == Len(im.entries)
             es == im.entries
             order == Ordered(es)
  <2>1. \A i \in DOMAIN im.existing :
           Fields(u[i]) = Fields(t[i]) /\ u[i].deps = t[i].deps \cap DOMAIN u
    BY ONLY <1>1, <1>4, Moves(t, u, project) DEF Moves
  <2>2. /\ n \in Nat /\ im.i \in 0 .. n
        /\ im.at = "depending" => \A m \in 1 .. n : /\ es[m].id \in DOMAIN im.existing
                                                    /\ order[m].id \in DOMAIN im.existing
    BY ONLY InHand(im, p, t), EntriesInHand
  <2>3. im.at = "saving" => \A m \in 1 .. im.i : order[m].id \in DOMAIN im.existing
    BY ONLY InHand(im, p, t) DEF InHand
  <2>4. ASSUME im.at \in {"saving", "depending"}
        PROVE  \A i \in DOMAIN u : u[i].project = ProjectOf[p] => i \in DOMAIN im.existing
    <3>1. \A i \in DOMAIN u : i \notin DOMAIN t => u[i].project = project
      BY ONLY Moves(t, u, project) DEF Moves
    <3>2. \A i \in DOMAIN t : t[i].project = ProjectOf[p] => i \in DOMAIN im.existing
      BY ONLY <1>4, <2>4 DEF Stored
    <3>3. QED
      BY ONLY <1>2, <1>4, <3>1, <3>2
  <2> HIDE DEF es, order, n
  <2>5. ASSUME NEW l, \A m \in 1 .. l : order[m].id \in DOMAIN im.existing, FieldsStored(im, p, t, l)
        PROVE  FieldsStored(im, p, u, l)
    BY ONLY <2>1, <2>5 DEF FieldsStored, order, es
  <2>6. ASSUME im.at = "depending", DepsStored(im, t, im.i) PROVE DepsStored(im, u, im.i)
    <3>1. \A m \in 1 .. im.i : es[m].id \in DOMAIN im.existing
      BY ONLY <2>2, <2>6
    <3>2. \A m \in 1 .. im.i : u[es[m].id].deps = t[es[m].id].deps \cap DOMAIN u
      BY ONLY <2>1, <3>1
    <3>3. \A x : x \cap DOMAIN im.existing = (x \cap DOMAIN im.existing) \cap DOMAIN u
      BY ONLY <1>1
    <3>4. QED
      BY ONLY <2>6, <3>2, <3>3 DEF DepsStored, es
  <2>7. im.at = "saving" => FieldsStored(im, p, u, im.i)
    BY ONLY <1>4, <2>3, <2>5 DEF Stored
  <2>8. im.at = "depending" => FieldsStored(im, p, u, Len(im.entries)) /\ DepsStored(im, u, im.i)
    BY ONLY <1>4, <2>2, <2>5, <2>6 DEF Stored, n
  <2>9. QED
    BY ONLY <2>4, <2>7, <2>8 DEF Stored
<1>5. QED
  BY ONLY <1>3, <1>4

\* An import that has nothing in hand.
LEMMA EmptyHands ==
    ASSUME NEW im, IsImport(im), DOMAIN im.existing = {}, im.at \notin {"saving", "depending"}, NEW p, NEW t
    PROVE  InHand(im, p, t) /\ Stored(im, p, t)
BY ONLY IsImport(im), DOMAIN im.existing = {}, im.at \notin {"saving", "depending"} DEF InHand, Stored

LEMMA EmptyTurns ==
    ASSUME NEW p, NEW im, NEW new, NEW t, NEW u, Moves(t, u, ProjectOf[p]),
           IsImport(new), DOMAIN new.existing = {}, new.at \notin {"saving", "depending"},
           im.at = "depending" /\ new.at = "done" => im.i = Len(im.entries),
           new = im => \A i \in DOMAIN u : i \in DOMAIN t => Fields(u[i]) = Fields(t[i])
    PROVE  Turns(p, im, new, t, u)
<1>1. InHand(new, p, u) /\ Stored(new, p, u)
  BY ONLY IsImport(new), DOMAIN new.existing = {}, new.at \notin {"saving", "depending"}, EmptyHands
<1>2. QED
  BY ONLY <1>1, Moves(t, u, ProjectOf[p]), im.at = "depending" /\ new.at = "done" => im.i = Len(im.entries),
          new = im => \A i \in DOMAIN u : i \in DOMAIN t => Fields(u[i]) = Fields(t[i]) DEF Turns

\* The turns that save an entry.
LEMMA SavingTurns ==
    ASSUME NEW p, NEW im, NEW t, AreRows(t), DepsInside(t), InHand(im, p, t), im.at = "saving",
           im.i < Len(im.entries), NEW e, e = Ordered(im.entries)[im.i + 1],
           NEW u, EntrySaved(t, u, p, e),
           e.id \in DOMAIN t => t[e.id].project = ProjectOf[p],
           NEW row, IsRow(row), NEW new,
           new = [im EXCEPT !.i = @ + 1, !.existing = With(@, e.id, row)]
    PROVE  Turns(p, im, new, t, u)
<1> DEFINE es == im.entries
           n == Len(es)
           i == im.i
           order == Ordered(es)
           id == e.id
           ex == With(im.existing, id, row)
<1>1. n \in Nat /\ i \in 0 .. n /\ i < n /\ IsImport(im)
  <2>1. n \in Nat /\ im.i \in 0 .. n
    BY ONLY InHand(im, p, t), EntriesInHand
  <2>2. IsImport(im)
    BY ONLY InHand(im, p, t) DEF InHand
  <2>3. QED
    BY ONLY <2>1, <2>2, im.i < Len(im.entries)
<1>2. DOMAIN ex = DOMAIN im.existing \cup {id} /\ AreRows(ex)
  BY ONLY <1>1, IsRow(row) DEF With, AreRows, IsImport
<1> HIDE DEF ex
<1>3. new = [at |-> "saving", entries |-> es, clear |-> im.clear, i |-> i + 1, existing |-> ex,
             count |-> im.count]
  BY ONLY <1>1, im.at = "saving", new = [im EXCEPT !.i = @ + 1, !.existing = With(@, e.id, row)] DEF IsImport, ex
<1>4. IsImport(new) /\ new # im
  <2>1. IsList(es)
    BY ONLY <1>1 DEF IsImport
  <2>2. i + 1 \in 0 .. n /\ i + 1 # i
    BY ONLY <1>1
  <2> HIDE DEF n
  <2>3. new.i = i + 1 /\ new.at = "saving" /\ new.existing = ex /\ new.entries = es
    BY ONLY <1>3
  <2> HIDE DEF i, es
  <2>4. IsImport(new)
    BY ONLY <1>2, <1>3, <2>1, <2>2 DEF IsImport, n
  <2>5. QED
    BY ONLY <2>2, <2>3, <2>4 DEF i
<1>5. Moves(t, u, ProjectOf[p])
  BY ONLY AreRows(t), DepsInside(t), EntrySaved(t, u, p, e),
          e.id \in DOMAIN t => t[e.id].project = ProjectOf[p], SavingMoves
<1>6. /\ DOMAIN u = DOMAIN t \cup {id}
      /\ Fields(u[id]) = Stated(p, e)
      /\ \A j \in DOMAIN t : j # id => Fields(u[j]) = Fields(t[j])
  BY ONLY EntrySaved(t, u, p, e) DEF EntrySaved
<1>7. u[id].project = ProjectOf[p]
  BY ONLY <1>6 DEF Fields, Stated
<1>8. \A j \in DOMAIN t : j # id => u[j].project = t[j].project
  BY ONLY <1>6, FieldsTell
<1>9. /\ \A j \in DOMAIN im.existing : j \in DOMAIN t /\ t[j].project = ProjectOf[p]
      /\ \A m \in 1 .. i : order[m].id \in DOMAIN im.existing
  BY ONLY InHand(im, p, t), im.at = "saving" DEF InHand
<1>10. /\ new.at = "saving" /\ new.i = i + 1 /\ new.existing = ex /\ new.entries = es
  BY ONLY <1>3
<1>11. order[i + 1] = e
  BY ONLY e = Ordered(im.entries)[im.i + 1]
<1>12. \A m \in 1 .. i + 1 : m = i + 1 \/ m \in 1 .. i
  BY ONLY <1>1
<1> HIDE DEF es, i, order, id, n
<1>13. InHand(new, p, u)
  <2>1. \A j \in DOMAIN ex : j \in DOMAIN u /\ u[j].project = ProjectOf[p]
    BY ONLY <1>2, <1>6, <1>7, <1>8, <1>9
  <2>2. \A m \in 1 .. i + 1 : order[m].id \in DOMAIN ex
    BY ONLY <1>2, <1>9, <1>11, <1>12 DEF id
  <2>3. \A m \in 1 .. new.i : Ordered(new.entries)[m].id \in DOMAIN new.existing
    BY ONLY <1>10, <2>2 DEF order
  <2>4. QED
    BY ONLY <1>4, <1>10, <2>1, <2>3 DEF InHand
<1>14. ASSUME Stored(im, p, t) PROVE Stored(new, p, u)
  <2>1. \A j \in DOMAIN t : t[j].project = ProjectOf[p] => j \in DOMAIN im.existing
    BY ONLY <1>14, im.at = "saving" DEF Stored
  <2>2. \A j \in DOMAIN u : u[j].project = ProjectOf[p] => j \in DOMAIN ex
    BY ONLY <1>2, <1>6, <1>8, <2>1
  <2>3. FieldsStored(im, p, t, i)
    BY ONLY <1>14, im.at = "saving" DEF Stored, i
  <2>4. ASSUME NEW m \in 1 .. i + 1, \A k \in m + 1 .. i + 1 : order[k].id # order[m].id
        PROVE  Fields(u[order[m].id]) = Stated(p, order[m])
    <3>1. CASE m = i + 1
      BY ONLY <1>6, <1>11, <3>1 DEF id
    <3>2. CASE m # i + 1
      <4>1. m \in 1 .. i /\ i + 1 \in m + 1 .. i + 1 /\ \A k \in m + 1 .. i : k \in m + 1 .. i + 1
        <5>1. i \in Nat
          BY ONLY <1>1
        <5>2. QED
          BY ONLY <5>1, <3>2, m \in 1 .. i + 1
      <4>2. order[m].id # id /\ order[m].id \in DOMAIN t
        BY ONLY <1>9, <1>11, <2>4, <4>1 DEF id
      <4>3. \A k \in m + 1 .. i : order[k].id # order[m].id
        BY ONLY <2>4, <4>1
      <4>4. Fields(t[order[m].id]) = Stated(p, order[m])
        BY ONLY <2>3, <4>1, <4>3 DEF FieldsStored, order, es
      <4>5. QED
        BY ONLY <1>6, <4>2, <4>4
    <3>3. QED
      BY ONLY <3>1, <3>2
  <2>5. FieldsStored(new, p, u, new.i)
    BY ONLY <1>10, <2>4 DEF FieldsStored, order
  <2>6. QED
    BY ONLY <1>10, <2>2, <2>5 DEF Stored
<1>15. QED
  BY ONLY <1>4, <1>5, <1>13, <1>14, im.at = "saving" DEF Turns

-----------------------------------------------------------------------------
ImportsAreSound ==
    /\ DOMAIN importer = Processes
    /\ AreRows(rows) /\ DepsInside(rows)
    /\ \A p \in Processes : InHand(importer[p], p, rows)

TakesATurn(p) ==
    \E new : importer' = [importer EXCEPT ![p] = new] /\ Turns(p, importer[p], new, rows, rows')

\* The rows stay, and nothing is in hand before or after.
LEMMA Pauses ==
    ASSUME ImportsAreSound, NEW p \in Processes, NEW new, importer' = [importer EXCEPT ![p] = new],
           UNCHANGED rows, IsImport(new), DOMAIN new.existing = {}, new.at \notin {"saving", "depending"},
           importer[p].at = "depending" /\ new.at = "done" => importer[p].i = Len(importer[p].entries)
    PROVE  TakesATurn(p)
<1> DEFINE im == importer[p]
           t == rows
           u == rows'
<1>1. AreRows(t) /\ DepsInside(t) /\ u = t
  BY ONLY ImportsAreSound, UNCHANGED rows DEF ImportsAreSound
<1>2. im.at = "depending" /\ new.at = "done" => im.i = Len(im.entries)
  BY ONLY importer[p].at = "depending" /\ new.at = "done" => importer[p].i = Len(importer[p].entries)
<1> HIDE DEF t, u, im
<1>3. Moves(t, u, ProjectOf[p])
  BY ONLY <1>1, NothingMoves
<1>4. new = im => \A i \in DOMAIN u : i \in DOMAIN t => Fields(u[i]) = Fields(t[i])
  BY ONLY <1>1
<1>5. Turns(p, im, new, t, u)
  BY ONLY <1>2, <1>3, <1>4, IsImport(new), DOMAIN new.existing = {}, new.at \notin {"saving", "depending"},
          EmptyTurns
<1>6. QED
  BY ONLY <1>5, importer' = [importer EXCEPT ![p] = new] DEF TakesATurn, im, t, u

LEMMA NothingIsRead == DOMAIN <<>> = {} /\ AreRows(<<>>) /\ Len(<<>>) = 0
BY ONLY TRUE DEF AreRows

LEMMA StartTurn ==
    ASSUME ImportsAreSound, NEW p \in Processes, NEW directory \in Directories[p], NEW clear \in BOOLEAN,
           StartImport(p, directory, clear)
    PROVE  TakesATurn(p)
<1> DEFINE at == IF clear THEN "clearing" ELSE "reading"
           count == importer[p].count + 1
           entries == ParseDirectory(directory)
           new == [NoImport EXCEPT !.at = at, !.clear = clear, !.count = count, !.entries = entries]
<1>1. importer' = [importer EXCEPT ![p] = new] /\ UNCHANGED rows
  BY ONLY StartImport(p, directory, clear) DEF StartImport
<1>2. at \in {"clearing", "reading"}
  BY ONLY TRUE
<1>3. IsList(entries)
  <2>1. directory \in Seq(Files)
    BY ONLY SpecTreeAssumption, p \in Processes, directory \in Directories[p]
  <2>2. QED
    BY ONLY <2>1, FilesAreParsed
<1> HIDE DEF at, count, entries
<1>0. new = [NoImport EXCEPT !.at = at, !.clear = clear, !.count = count, !.entries = entries]
  BY ONLY TRUE
<1> HIDE DEF new
<1>4. new = [at |-> at, entries |-> entries, clear |-> clear, i |-> 0, existing |-> <<>>, count |-> count]
  BY ONLY <1>0 DEF NoImport
<1>5. IsImport(new) /\ DOMAIN new.existing = {} /\ new.at = at
  <2>1. 0 \in 0 .. Len(entries)
    BY ONLY <1>3 DEF IsList
  <2>2. QED
    BY ONLY <1>3, <1>4, <2>1, NothingIsRead DEF IsImport
<1>6. QED
  BY ONLY <1>1, <1>2, <1>5, ImportsAreSound, p \in Processes, Pauses

\* It raises, or is through.
LEMMA EndTurn ==
    ASSUME ImportsAreSound, NEW p \in Processes, NEW at, at \in {"failed", "done"},
           importer' = [importer EXCEPT ![p].at = at, ![p].existing = <<>>], UNCHANGED rows,
           importer[p].at = "depending" /\ at = "done" => importer[p].i = Len(importer[p].entries)
    PROVE  TakesATurn(p)
<1> DEFINE im == importer[p]
           new == [im EXCEPT !.at = at, !.existing = <<>>]
<1>1. importer' = [importer EXCEPT ![p] = new]
  BY ONLY importer' = [importer EXCEPT ![p].at = at, ![p].existing = <<>>]
<1>2. IsImport(im)
  BY ONLY ImportsAreSound, p \in Processes DEF ImportsAreSound, InHand
<1>3. im.at = "depending" /\ at = "done" => im.i = Len(im.entries)
  BY ONLY importer[p].at = "depending" /\ at = "done" => importer[p].i = Len(importer[p].entries)
<1> HIDE DEF im
<1>0. new = [im EXCEPT !.at = at, !.existing = <<>>]
  BY ONLY TRUE
<1> HIDE DEF new
<1>4. new = [at |-> at, entries |-> im.entries, clear |-> im.clear, i |-> im.i, existing |-> <<>>,
             count |-> im.count]
  BY ONLY <1>0, <1>2 DEF IsImport
<1>5. IsImport(new) /\ DOMAIN new.existing = {} /\ new.at = at
  BY ONLY <1>2, <1>4, at \in {"failed", "done"}, NothingIsRead DEF IsImport
<1>6. new.at \notin {"saving", "depending"} /\ (im.at = "depending" /\ new.at = "done" => im.i = Len(im.entries))
  BY ONLY <1>3, <1>5, at \in {"failed", "done"}
<1>7. QED
  BY ONLY <1>1, <1>5, <1>6, ImportsAreSound, p \in Processes, UNCHANGED rows, Pauses DEF im

LEMMA ClearTurn ==
    ASSUME ImportsAreSound, NEW p \in Processes, Clear(p)
    PROVE  TakesATurn(p)
<1> DEFINE im == importer[p]
           new == [im EXCEPT !.at = "reading"]
           cleared == Cleared(p)
           t == rows
           u == rows'
<1>1. importer' = [importer EXCEPT ![p] = new] /\ u = Deleted(t, cleared) /\ im.at = "clearing"
  BY ONLY Clear(p) DEF Clear
<1>2. IsImport(im) /\ AreRows(t) /\ DepsInside(t)
  BY ONLY ImportsAreSound, p \in Processes DEF ImportsAreSound, InHand
<1> HIDE DEF im, cleared, t, u
<1>3. new = [at |-> "reading", entries |-> im.entries, clear |-> im.clear, i |-> im.i,
             existing |-> im.existing, count |-> im.count]
  BY ONLY <1>2 DEF IsImport
<1>4. im.i = 0 /\ DOMAIN im.existing = {}
  BY ONLY <1>1, <1>2 DEF IsImport
<1> HIDE DEF new
<1>5. IsImport(new) /\ DOMAIN new.existing = {} /\ new.at = "reading"
  BY ONLY <1>2, <1>3, <1>4 DEF IsImport
<1>6. /\ Moves(t, u, ProjectOf[p])
      /\ \A i \in DOMAIN u : i \in DOMAIN t /\ Fields(u[i]) = Fields(t[i])
  BY ONLY <1>1, <1>2, ClearingMoves
<1>7. Turns(p, im, new, t, u)
  <2>1. new = im => \A i \in DOMAIN u : i \in DOMAIN t => Fields(u[i]) = Fields(t[i])
    BY ONLY <1>6
  <2>2. im.at = "depending" /\ new.at = "done" => im.i = Len(im.entries)
    BY ONLY <1>1
  <2>3. new.at \notin {"saving", "depending"}
    BY ONLY <1>5
  <2>4. QED
    BY ONLY <1>5, <1>6, <2>1, <2>2, <2>3, EmptyTurns
<1>8. QED
  BY ONLY <1>1, <1>7 DEF TakesATurn, im, t, u

LEMMA ReadTurn ==
    ASSUME ImportsAreSound, NEW p \in Processes, ReadOwned(p)
    PROVE  TakesATurn(p)
<1> DEFINE im == importer[p]
           own == Restrict(rows, Owned(p))
           new == [im EXCEPT !.at = "saving", !.existing = own]
           t == rows
           u == rows'
<1>1. importer' = [importer EXCEPT ![p] = new] /\ im.at = "reading" /\ u = t
  BY ONLY ReadOwned(p) DEF ReadOwned
<1>2. IsImport(im) /\ AreRows(t) /\ DepsInside(t)
  BY ONLY ImportsAreSound, p \in Processes DEF ImportsAreSound, InHand
<1>3. DOMAIN own = {i \in DOMAIN t : t[i].project = ProjectOf[p]} /\ \A i \in DOMAIN own : own[i] = t[i]
  BY ONLY TRUE DEF Restrict, Owned
<1> HIDE DEF im, own, t, u
<1>4. AreRows(own)
  BY ONLY <1>2, <1>3 DEF AreRows
<1>0. new = [im EXCEPT !.at = "saving", !.existing = own]
  BY ONLY TRUE
<1> HIDE DEF new
<1>5. new = [at |-> "saving", entries |-> im.entries, clear |-> im.clear, i |-> im.i,
             existing |-> own, count |-> im.count]
  BY ONLY <1>0, <1>2 DEF IsImport
<1>6. IsImport(new) /\ new.existing = own /\ new.at = "saving" /\ new.i = 0
  BY ONLY <1>1, <1>2, <1>4, <1>5 DEF IsImport
<1>7. \A m \in 1 .. 0 : FALSE
  BY ONLY TRUE
<1>8. InHand(new, p, u)
  BY ONLY <1>1, <1>3, <1>6, <1>7 DEF InHand
<1>9. Stored(new, p, u)
  BY ONLY <1>1, <1>3, <1>6, <1>7 DEF Stored, FieldsStored
<1>10. Moves(t, u, ProjectOf[p])
  BY ONLY <1>1, <1>2, NothingMoves
<1>11. Turns(p, im, new, t, u)
  BY ONLY <1>1, <1>6, <1>8, <1>9, <1>10 DEF Turns
<1>12. QED
  BY ONLY <1>1, <1>11 DEF TakesATurn, im, t, u

LEMMA UpdateTurn ==
    ASSUME ImportsAreSound, NEW p \in Processes, Update(p) \/ Create(p)
    PROVE  TakesATurn(p)
<1> DEFINE im == importer[p]
           e == Entry(p)
           t == rows
           u == rows'
           old == im.existing[e.id]
           taken(row) == [im EXCEPT !.i = @ + 1, !.existing = With(@, e.id, row)]
<1>1. /\ im.at = "saving" /\ im.i < Len(im.entries) /\ e = Ordered(im.entries)[im.i + 1]
      /\ AreRows(t) /\ DepsInside(t) /\ InHand(im, p, t)
  BY ONLY ImportsAreSound, p \in Processes, Update(p) \/ Create(p)
     DEF ImportsAreSound, Update, Create, HasEntry, Entry
<1>2. ASSUME NEW row, importer' = Kept(p, row), IsRow(row), EntrySaved(t, u, p, e),
             e.id \in DOMAIN t => t[e.id].project = ProjectOf[p]
      PROVE  TakesATurn(p)
  <2> DEFINE new == taken(row)
  <2>1. importer' = [importer EXCEPT ![p] = new]
    BY ONLY <1>2 DEF Kept
  <2>2. new = [im EXCEPT !.i = @ + 1, !.existing = With(@, e.id, row)]
    BY ONLY TRUE
  <2> HIDE DEF new, im, e, t, u
  <2>3. Turns(p, im, new, t, u)
    BY ONLY <1>1, <1>2, <2>2, SavingTurns
  <2>4. QED
    BY ONLY <2>1, <2>3 DEF TakesATurn, im, t, u
<1>3. CASE Update(p)
  <2> DEFINE row == FieldsOf(p, e, old)
  <2>1. /\ e.id \in DOMAIN im.existing /\ importer' = Kept(p, row)
        /\ u = With(t, e.id, [row EXCEPT !.deps = IF e.id \in DOMAIN t THEN t[e.id].deps ELSE {}])
    BY ONLY <1>3 DEF Update
  <2>2. IsRow(old)
    BY ONLY <1>1, <2>1 DEF InHand, IsImport, AreRows
  <2>3. \A i \in DOMAIN im.existing : i \in DOMAIN t /\ t[i].project = ProjectOf[p]
    BY ONLY <1>1 DEF InHand
  <2> HIDE DEF e, im, t, u, old
  <2>4. IsRow(row)
    BY ONLY <2>2, RowStated
  <2>5. EntrySaved(t, u, p, e)
    BY ONLY <1>1, <2>1, <2>2, UpdateSaves
  <2>6. QED
    BY ONLY <1>2, <2>1, <2>3, <2>4, <2>5
<1>4. CASE Create(p)
  <2> DEFINE parent == ParentOf(p, e)
             fields == FieldsOf(p, e, NewRow)
             added == AddNode(t, e.id, parent, fields)
  <2>1. importer' = Kept(p, added[e.id]) /\ u = added /\ e.id \notin DOMAIN t
    BY ONLY <1>4 DEF Create, CanAdd
  <2> HIDE DEF e, im, t, u, parent
  <2>2. EntrySaved(t, u, p, e)
    BY ONLY <1>1, <2>1, CreateSaves
  <2>3. IsRow(added[e.id])
    BY ONLY <2>1, <2>2 DEF EntrySaved, AreRows
  <2>4. QED
    BY ONLY <1>2, <2>1, <2>2, <2>3
<1>5. QED
  BY ONLY <1>3, <1>4, Update(p) \/ Create(p)

LEMMA PassesTurn ==
    ASSUME ImportsAreSound, NEW p \in Processes, EndOfPasses(p)
    PROVE  TakesATurn(p)
<1> DEFINE im == importer[p]
           es == im.entries
           n == Len(es)
           order == Ordered(es)
           new == [im EXCEPT !.at = "depending", !.i = 0]
           t == rows
           u == rows'
<1>1. importer' = [importer EXCEPT ![p] = new] /\ im.at = "saving" /\ ~(im.i < n) /\ u = t
  BY ONLY EndOfPasses(p) DEF EndOfPasses, HasEntry
<1>2. InHand(im, p, t) /\ AreRows(t) /\ DepsInside(t)
  BY ONLY ImportsAreSound, p \in Processes DEF ImportsAreSound
<1> HIDE DEF im, t, u
<1>3. /\ n \in Nat /\ DOMAIN es = 1 .. n /\ im.i \in 0 .. n
      /\ \A m \in 1 .. n : \E k \in 1 .. n : order[k] = es[m]
  BY ONLY <1>2, EntriesInHand
<1>4. im.i = n
  <2> HIDE DEF n
  <2>1. QED
    BY ONLY <1>1, <1>3
<1>5. IsImport(im) /\ \A m \in 1 .. n : order[m].id \in DOMAIN im.existing
  <2>1. \A m \in 1 .. im.i : order[m].id \in DOMAIN im.existing
    BY ONLY <1>1, <1>2 DEF InHand
  <2>2. IsImport(im)
    BY ONLY <1>2 DEF InHand
  <2>3. QED
    BY ONLY <1>4, <2>1, <2>2
<1>0. new = [im EXCEPT !.at = "depending", !.i = 0]
  BY ONLY TRUE
<1> HIDE DEF new
<1>6. new = [at |-> "depending", entries |-> es, clear |-> im.clear, i |-> 0,
             existing |-> im.existing, count |-> im.count]
  BY ONLY <1>0, <1>5 DEF IsImport
<1>7. /\ IsImport(new) /\ new.existing = im.existing /\ new.at = "depending" /\ new.i = 0
      /\ new.entries = es
  <2>1. 0 \in 0 .. n
    BY ONLY <1>3
  <2>2. QED
    BY ONLY <1>5, <1>6, <2>1 DEF IsImport
<1>8. \A m \in 1 .. n : es[m].id \in DOMAIN im.existing
  <2> HIDE DEF es, n, order
  <2>1. QED
    BY ONLY <1>3, <1>5
<1> HIDE DEF es, n, order
<1>9. InHand(new, p, u)
  BY ONLY <1>1, <1>2, <1>3, <1>7, <1>8 DEF InHand
<1>10. ASSUME Stored(im, p, t) PROVE Stored(new, p, u)
  <2>1. FieldsStored(im, p, t, n) /\ \A i \in DOMAIN t : t[i].project = ProjectOf[p] => i \in DOMAIN im.existing
    BY ONLY <1>1, <1>4, <1>10 DEF Stored
  <2>2. FieldsStored(new, p, u, Len(new.entries))
    BY ONLY <1>1, <1>7, <2>1 DEF FieldsStored, es, n
  <2>3. DepsStored(new, u, new.i)
    <3>1. \A m \in 1 .. 0 : FALSE
      BY ONLY TRUE
    <3>2. QED
      BY ONLY <1>7, <3>1 DEF DepsStored
  <2>4. QED
    BY ONLY <1>1, <1>7, <2>1, <2>2, <2>3 DEF Stored
<1>11. Moves(t, u, ProjectOf[p])
  BY ONLY <1>1, <1>2, NothingMoves
<1>12. Turns(p, im, new, t, u)
  BY ONLY <1>1, <1>7, <1>9, <1>10, <1>11 DEF Turns
<1>13. QED
  BY ONLY <1>1, <1>12 DEF TakesATurn, im, t, u

\* The dependencies of an entry are stored.
LEMMA DependingTurns ==
    ASSUME NEW p, NEW im, NEW t, AreRows(t), DepsInside(t), InHand(im, p, t), im.at = "depending",
           im.i < Len(im.entries), NEW e, e = im.entries[im.i + 1],
           NEW u, u = IF e.deps = {} THEN t
                      ELSE [t EXCEPT ![e.id].deps = e.deps \cap DOMAIN im.existing],
           NEW new, new = [im EXCEPT !.i = @ + 1]
    PROVE  Turns(p, im, new, t, u)
<1> DEFINE es == im.entries
           n == Len(es)
           i == im.i
           order == Ordered(es)
           held == DOMAIN im.existing
           id == e.id
           deps == e.deps \cap held
<1>1. /\ n \in Nat /\ DOMAIN es = 1 .. n /\ i \in 0 .. n
      /\ \A m \in 1 .. n : es[m].id \in held /\ order[m].id \in held
  BY ONLY InHand(im, p, t), im.at = "depending", EntriesInHand
<1>2. IsImport(im) /\ \A j \in held : j \in DOMAIN t /\ t[j].project = ProjectOf[p]
  BY ONLY InHand(im, p, t) DEF InHand
<1>3. new = [at |-> "depending", entries |-> es, clear |-> im.clear, i |-> i + 1,
             existing |-> im.existing, count |-> im.count]
  BY ONLY <1>2, im.at = "depending", new = [im EXCEPT !.i = @ + 1] DEF IsImport
<1>4. i + 1 \in 1 .. n /\ i \in Nat /\ es[i + 1] = e
  <2>1. i < n /\ es[i + 1] = e
    BY ONLY im.i < Len(im.entries), e = im.entries[im.i + 1]
  <2> HIDE DEF i, n
  <2>2. QED
    BY ONLY <1>1, <2>1
<1>5. u = IF e.deps = {} THEN t ELSE [t EXCEPT ![id].deps = deps]
  BY ONLY u = IF e.deps = {} THEN t ELSE [t EXCEPT ![e.id].deps = e.deps \cap DOMAIN im.existing]
<1>6. id \in held
  <2>1. es[i + 1].id \in held
    BY ONLY <1>1, <1>4
  <2>2. QED
    BY ONLY <1>4, <2>1
<1>7. new.entries = es /\ new.at = "depending" /\ new.i = i + 1 /\ new.existing = im.existing
  BY ONLY <1>3
<1>8. IsImport(new) /\ new # im
  <2>1. i + 1 \in 0 .. n /\ i + 1 # i
    <3> HIDE DEF i, n
    <3>1. QED
      BY ONLY <1>1, <1>4
  <2>2. IsImport(new)
    BY ONLY <1>2, <1>3, <2>1 DEF IsImport
  <2>3. QED
    BY ONLY <1>7, <2>1, <2>2
<1> HIDE DEF es, n, order, held, id, deps
\* What is changed of the rows.
<1>9. /\ DOMAIN u = DOMAIN t
      /\ \A j \in DOMAIN t : /\ IsRow(u[j]) /\ Fields(u[j]) = Fields(t[j])
                             /\ j # id \/ e.deps = {} => u[j].deps = t[j].deps
      /\ e.deps # {} => u[id].deps = deps
  <2>1. CASE e.deps = {}
    BY ONLY <1>5, <2>1, AreRows(t) DEF AreRows
  <2>2. CASE e.deps # {}
    <3>1. u = [t EXCEPT ![id].deps = deps]
      BY ONLY <1>5, <2>2
    <3>2. DOMAIN u = DOMAIN t /\ \A j \in DOMAIN t : u[j] = IF j = id THEN [t[j] EXCEPT !.deps = deps] ELSE t[j]
      BY ONLY <3>1
    <3>3. ASSUME NEW j \in DOMAIN t, j = id
          PROVE  IsRow(u[j]) /\ Fields(u[j]) = Fields(t[j]) /\ u[j].deps = deps
      <4>1. u[j] = [t[j] EXCEPT !.deps = deps] /\ IsRow(t[j])
        BY ONLY <3>2, <3>3, AreRows(t), j \in DOMAIN t DEF AreRows
      <4>2. QED
        BY ONLY <4>1, RowDepending
    <3>4. QED
      BY ONLY <1>2, <1>6, <2>2, <3>2, <3>3, AreRows(t) DEF AreRows
  <2>3. QED
    BY ONLY <2>1, <2>2
<1>10. \A j \in DOMAIN t : u[j].project = t[j].project
  BY ONLY <1>9, FieldsTell
<1>11. \A j \in DOMAIN t : \A d \in t[j].deps : d \in DOMAIN t /\ t[d].project = t[j].project
  BY ONLY DepsInside(t) DEF DepsInside
<1>12. deps \subseteq held
  BY ONLY TRUE DEF deps
<1>13. Moves(t, u, ProjectOf[p])
  <2>1. AreRows(u)
    BY ONLY <1>9 DEF AreRows
  <2>2. ASSUME NEW j \in DOMAIN u PROVE \A d \in u[j].deps : d \in DOMAIN u /\ u[d].project = u[j].project
    <3>1. CASE j # id \/ e.deps = {}
      BY ONLY <1>9, <1>10, <1>11, <3>1, j \in DOMAIN u
    <3>2. CASE j = id /\ e.deps # {}
      BY ONLY <1>2, <1>6, <1>9, <1>10, <1>12, <3>2
    <3>3. QED
      BY ONLY <3>1, <3>2
  <2>3. DepsInside(u)
    BY ONLY <2>2 DEF DepsInside
  <2>4. \A j \in DOMAIN t : t[j].project # ProjectOf[p] => j # id
    BY ONLY <1>2, <1>6
  <2>5. \A j \in DOMAIN t : t[j].deps = t[j].deps \cap DOMAIN u
    BY ONLY <1>9, <1>11
  <2>6. QED
    BY ONLY <1>9, <1>10, <2>1, <2>3, <2>4, <2>5 DEF Moves
<1>14. InHand(new, p, u)
  <2>1. \A j \in held : j \in DOMAIN u /\ u[j].project = ProjectOf[p]
    BY ONLY <1>2, <1>9, <1>10
  <2>2. \A m \in DOMAIN new.entries : new.entries[m].id \in DOMAIN new.existing
    BY ONLY <1>1, <1>7 DEF held
  <2>3. QED
    BY ONLY <1>7, <1>8, <2>1, <2>2 DEF InHand, held
<1>15. ASSUME Stored(im, p, t) PROVE Stored(new, p, u)
  <2>1. /\ \A j \in DOMAIN t : t[j].project = ProjectOf[p] => j \in held
        /\ FieldsStored(im, p, t, n) /\ DepsStored(im, t, i)
    BY ONLY <1>15, im.at = "depending" DEF Stored, held, n, es
  <2>2. \A j \in DOMAIN u : u[j].project = ProjectOf[p] => j \in held
    BY ONLY <1>9, <1>10, <2>1
  <2>3. FieldsStored(new, p, u, Len(new.entries))
    <3>1. \A m \in 1 .. n : Fields(u[order[m].id]) = Fields(t[order[m].id])
      BY ONLY <1>1, <1>2, <1>9
    <3>2. QED
      BY ONLY <1>7, <2>1, <3>1 DEF FieldsStored, n, es, order
  <2> HIDE DEF i
  <2>4. ASSUME NEW m \in 1 .. i + 1, es[m].deps # {},
               \A k \in m + 1 .. i + 1 : es[k].id = es[m].id => es[k].deps = {}
        PROVE  u[es[m].id].deps = es[m].deps \cap held
    <3>1. CASE m = i + 1
      BY ONLY <1>4, <1>9, <2>4, <3>1 DEF id, deps
    <3>2. CASE m # i + 1
      <4>1. m \in 1 .. i /\ i + 1 \in m + 1 .. i + 1 /\ (\A k \in m + 1 .. i : k \in m + 1 .. i + 1) /\ m \in 1 .. n
        BY ONLY <1>1, <1>4, <3>2, m \in 1 .. i + 1
      <4>2. es[m].id # id \/ e.deps = {}
        BY ONLY <1>4, <2>4, <4>1 DEF id
      <4>3. t[es[m].id].deps = es[m].deps \cap held
        BY ONLY <2>1, <2>4, <4>1 DEF DepsStored, es, held
      <4>4. es[m].id \in DOMAIN t
        BY ONLY <1>1, <1>2, <4>1
      <4>5. QED
        BY ONLY <1>9, <4>2, <4>3, <4>4
    <3>3. QED
      BY ONLY <3>1, <3>2
  <2>5. DepsStored(new, u, new.i)
    BY ONLY <1>7, <2>4 DEF DepsStored, held
  <2>6. QED
    BY ONLY <1>7, <2>2, <2>3, <2>5 DEF Stored, held
<1>16. QED
  BY ONLY <1>7, <1>8, <1>13, <1>14, <1>15 DEF Turns

LEMMA SetDependenciesTurn ==
    ASSUME ImportsAreSound, NEW p \in Processes, SetDependencies(p)
    PROVE  TakesATurn(p)
<1> DEFINE im == importer[p]
           e == Dependent(p)
           t == rows
           u == rows'
           new == [im EXCEPT !.i = @ + 1]
<1>1. /\ im.at = "depending" /\ im.i < Len(im.entries) /\ e = im.entries[im.i + 1]
      /\ AreRows(t) /\ DepsInside(t) /\ InHand(im, p, t)
  BY ONLY ImportsAreSound, p \in Processes, SetDependencies(p)
     DEF ImportsAreSound, SetDependencies, HasDependent, Dependent
<1>2. \/ /\ importer' = [importer EXCEPT ![p] = new]
         /\ u = IF e.deps = {} THEN t ELSE [t EXCEPT ![e.id].deps = e.deps \cap DOMAIN im.existing]
      \/ importer' = [importer EXCEPT ![p].at = "failed", ![p].existing = <<>>] /\ u = t
  BY ONLY SetDependencies(p) DEF SetDependencies, ValidDeps
<1>3. CASE importer' = [importer EXCEPT ![p].at = "failed", ![p].existing = <<>>] /\ u = t
  BY ONLY <1>3, ImportsAreSound, p \in Processes, EndTurn
<1>4. CASE /\ importer' = [importer EXCEPT ![p] = new]
           /\ u = IF e.deps = {} THEN t ELSE [t EXCEPT ![e.id].deps = e.deps \cap DOMAIN im.existing]
  <2>1. new = [im EXCEPT !.i = @ + 1]
    BY ONLY TRUE
  <2> HIDE DEF new, im, e, t, u
  <2>2. Turns(p, im, new, t, u)
    BY ONLY <1>1, <1>4, <2>1, DependingTurns
  <2>3. QED
    BY ONLY <1>4, <2>2 DEF TakesATurn, im, t, u
<1>5. QED
  BY ONLY <1>2, <1>3, <1>4

LEMMA ImportTurn ==
    ASSUME ImportsAreSound, NEW p \in Processes, ImportStep(p)
    PROVE  TakesATurn(p)
<1>1. CASE Raise(p)
  BY ONLY <1>1, ImportsAreSound, p \in Processes, EndTurn DEF Raise
<1>2. CASE EndImport(p)
  <2> DEFINE im == importer[p]
  <2>1. InHand(im, p, rows) /\ ~(im.i < Len(im.entries)) /\ im.at = "depending"
    BY ONLY <1>2, ImportsAreSound, p \in Processes DEF ImportsAreSound, EndImport, HasDependent
  <2>2. Len(im.entries) \in Nat /\ im.i \in 0 .. Len(im.entries)
    BY ONLY <2>1, EntriesInHand
  <2>3. im.i = Len(im.entries)
    <3> HIDE DEF im
    <3>1. QED
      BY ONLY <2>1, <2>2
  <2>4. /\ importer' = [importer EXCEPT ![p].at = "done", ![p].existing = <<>>]
        /\ UNCHANGED rows
    BY ONLY <1>2 DEF EndImport
  <2>5. QED
    BY ONLY <2>3, <2>4, ImportsAreSound, p \in Processes, EndTurn
<1>3. CASE \E directory \in Directories[p], clear \in BOOLEAN : StartImport(p, directory, clear)
  BY ONLY <1>3, ImportsAreSound, p \in Processes, StartTurn
<1>4. QED
  BY ONLY <1>1, <1>2, <1>3, ImportsAreSound, p \in Processes, ImportStep(p), ClearTurn, ReadTurn, UpdateTurn,
          PassesTurn, SetDependenciesTurn DEF ImportStep

-----------------------------------------------------------------------------
AllStored == \A p \in Processes : Stored(importer[p], p, rows)

LEMMA InitImports == FlowFilesInit => ImportsAreSound /\ AllStored
<1> SUFFICES ASSUME FlowFilesInit PROVE ImportsAreSound /\ AllStored
  OBVIOUS
<1>1. rows = <<>> /\ importer = [p \in Processes |-> NoImport]
  BY ONLY FlowFilesInit DEF FlowFilesInit, EcosystemInit, Init
<1>2. DOMAIN importer = Processes /\ \A p \in Processes : importer[p] = NoImport
  BY ONLY <1>1
<1>3. IsImport(NoImport) /\ DOMAIN NoImport.existing = {} /\ NoImport.at = "idle"
  <2>1. IsList(<<>>) /\ Len(<<>>) = 0
    BY ONLY TRUE DEF IsList
  <2>2. 0 \in 0 .. Len(<<>>)
    BY ONLY <2>1
  <2>3. QED
    BY ONLY <2>1, <2>2, NothingIsRead DEF IsImport, NoImport
<1>4. \A p : InHand(NoImport, p, rows) /\ Stored(NoImport, p, rows)
  <2>1. NoImport.at \notin {"saving", "depending"}
    BY ONLY <1>3
  <2>2. QED
    BY ONLY <1>3, <2>1, EmptyHands
<1>5. AreRows(rows) /\ DepsInside(rows)
  BY ONLY <1>1, NothingIsRead DEF DepsInside
<1>6. QED
  BY ONLY <1>2, <1>4, <1>5 DEF ImportsAreSound, AllStored

\* Only an import writes the rows, and only the importer that takes the turn.
LEMMA OnlyImportsMove ==
    ASSUME [FlowFilesNext]_allVars, ~ UNCHANGED <<rows, importer>>
    PROVE  \E p \in Processes : ImportStep(p)
<1>1. ASSUME LinkStep PROVE UNCHANGED <<rows, importer>>
  BY ONLY <1>1 DEF LinkStep, ImportTestLinks, RecordRun
<1>2. ASSUME UNCHANGED vars PROVE UNCHANGED <<rows, importer>>
  BY ONLY <1>2 DEF vars
<1>3. ASSUME NEW p \in Meanwhile, ImportMeanwhile(p) PROVE \E q \in Processes : ImportStep(q)
  BY ONLY <1>3, FlowFilesAssumption DEF ImportMeanwhile
<1>4. QED
  BY <1>1, <1>2, <1>3 DEF FlowFilesNext, EcosystemNext, Next, allVars

LEMMA ATurn ==
    ASSUME ImportsAreSound, HandsKept, NEW p \in Processes, ImportStep(p)
    PROVE  /\ ImportsAreSound'
           /\ Turns(p, importer[p], importer'[p], rows, rows')
           /\ \A q \in Processes : q # p => importer'[q] = importer[q]
           /\ \A q \in Processes : ProjectOf[q] # ProjectOf[p] /\ Stored(importer[q], q, rows)
                => q # p /\ Stored(importer[q], q, rows')
<1>1. TakesATurn(p)
  BY ONLY ImportsAreSound, p \in Processes, ImportStep(p), ImportTurn
<1>2. PICK new : importer' = [importer EXCEPT ![p] = new] /\ Turns(p, importer[p], new, rows, rows')
  BY ONLY <1>1 DEF TakesATurn
<1>3. /\ DOMAIN importer' = Processes /\ importer'[p] = new
      /\ \A q \in Processes : q # p => importer'[q] = importer[q]
  BY ONLY <1>2, ImportsAreSound, p \in Processes DEF ImportsAreSound
<1>4. Turns(p, importer[p], importer'[p], rows, rows')
  BY ONLY <1>2, <1>3
<1>5. Moves(rows, rows', ProjectOf[p]) /\ InHand(importer'[p], p, rows')
  BY ONLY <1>4 DEF Turns
<1>6. ASSUME NEW q \in Processes
      PROVE  /\ InHand(importer[q], q, rows')
             /\ ProjectOf[p] # ProjectOf[q] /\ Stored(importer[q], q, rows) => Stored(importer[q], q, rows')
  <2>1. InHand(importer[q], q, rows)
    BY ONLY ImportsAreSound, q \in Processes DEF ImportsAreSound
  <2>2. DOMAIN importer[q].existing \subseteq DOMAIN rows
    BY ONLY <2>1 DEF InHand
  <2>3. DOMAIN importer[q].existing \subseteq DOMAIN rows'
    BY ONLY <2>2, HandsKept, q \in Processes DEF HandsKept
  <2>4. QED
    BY ONLY <1>5, <2>1, <2>3, OthersMove
<1>7. \A q \in Processes : InHand(importer'[q], q, rows')
  BY ONLY <1>3, <1>5, <1>6
<1>8. AreRows(rows') /\ DepsInside(rows')
  BY ONLY <1>5 DEF Moves
<1>9. ImportsAreSound'
  <2>1. \A q \in Processes : InHand(importer[q], q, rows)'
    BY ONLY <1>7 DEF InHand
  <2>2. AreRows(rows)' /\ DepsInside(rows)'
    BY ONLY <1>8 DEF AreRows, DepsInside
  <2>3. QED
    BY ONLY <1>3, <2>1, <2>2 DEF ImportsAreSound
<1>10. QED
  BY ONLY <1>3, <1>4, <1>6, <1>9

LEMMA HandsAreKept == [HandsKept]_vars => HandsKept
<1>1. ASSUME UNCHANGED vars PROVE HandsKept
  BY ONLY <1>1 DEF vars, HandsKept
<1>2. QED
  BY ONLY <1>1

LEMMA NextImports ==
    ASSUME ImportsAreSound, HandsKept, [FlowFilesNext]_allVars
    PROVE  ImportsAreSound'
<1>1. ASSUME UNCHANGED <<rows, importer>> PROVE ImportsAreSound'
  <2>1. rows' = rows /\ importer' = importer
    BY ONLY <1>1
  <2>2. ImportsAreSound' <=> ImportsAreSound
    BY ONLY <2>1 DEF ImportsAreSound, AreRows, DepsInside, InHand
  <2>3. QED
    BY ONLY <2>2, ImportsAreSound
<1>2. CASE ~ UNCHANGED <<rows, importer>>
  BY ONLY <1>2, ImportsAreSound, HandsKept, [FlowFilesNext]_allVars, OnlyImportsMove, ATurn
<1>3. QED
  BY ONLY <1>1, <1>2

Apart ==
    \A i \in DOMAIN rows \cap DOMAIN rows' :
        /\ Fields(rows'[i]) # Fields(rows[i]) =>
             /\ rows'[i].project = rows[i].project
             /\ \E p \in Processes : /\ ProjectOf[p] = rows[i].project
                                     /\ importer'[p] # importer[p]
        /\ \A d \in rows'[i].deps : rows'[d].project = rows'[i].project

LEMMA StepsKeepApart ==
    ASSUME ImportsAreSound, HandsKept, [FlowFilesNext]_allVars
    PROVE  Apart
<1>1. ASSUME UNCHANGED <<rows, importer>> PROVE Apart
  <2>1. rows' = rows /\ DepsInside(rows)
    BY ONLY <1>1, ImportsAreSound DEF ImportsAreSound
  <2>2. QED
    BY ONLY <2>1 DEF Apart, DepsInside
<1>2. ASSUME ~ UNCHANGED <<rows, importer>> PROVE Apart
  <2>1. PICK p \in Processes : ImportStep(p)
    BY ONLY <1>2, [FlowFilesNext]_allVars, OnlyImportsMove
  <2>2. Turns(p, importer[p], importer'[p], rows, rows')
    BY ONLY <2>1, ImportsAreSound, HandsKept, ATurn
  <2>3. /\ DepsInside(rows')
        /\ \A i \in DOMAIN rows' : i \in DOMAIN rows => rows'[i].project = rows[i].project
        /\ \A i \in DOMAIN rows' : i \in DOMAIN rows /\ rows[i].project # ProjectOf[p] =>
             Fields(rows'[i]) = Fields(rows[i])
        /\ importer'[p] = importer[p] => \A i \in DOMAIN rows' : i \in DOMAIN rows => Fields(rows'[i]) = Fields(rows[i])
    BY ONLY <2>2 DEF Turns, Moves
  <2>4. ASSUME NEW i \in DOMAIN rows \cap DOMAIN rows', Fields(rows'[i]) # Fields(rows[i])
        PROVE  ProjectOf[p] = rows[i].project /\ importer'[p] # importer[p] /\ rows'[i].project = rows[i].project
    BY ONLY <2>3, <2>4
  <2>5. \A i \in DOMAIN rows' : \A d \in rows'[i].deps : rows'[d].project = rows'[i].project
    BY ONLY <2>3 DEF DepsInside
  <2>6. QED
    BY ONLY <2>4, <2>5 DEF Apart
<1>3. QED
  BY ONLY <1>1, <1>2

\* As long as no deletion takes away a row that an import has in hand (parser.py
\* saves copies of the rows it read, one by one and outside any transaction):
\* what an import writes stays inside its project, whatever its files name and
\* however many processes import for the same project or for others.
THEOREM ProjectsAlwaysKeepApart == FlowFilesSpec /\ RowsInHandStay => ProjectsKeepApart
<1>1. ImportsAreSound /\ [FlowFilesNext]_allVars /\ [HandsKept]_vars => ImportsAreSound'
  BY HandsAreKept, NextImports
<1>2. ImportsAreSound /\ [FlowFilesNext]_allVars /\ [HandsKept]_vars => [Apart]_vars
  BY HandsAreKept, StepsKeepApart
<1>3. FlowFilesSpec /\ RowsInHandStay => [][Apart]_vars
  BY <1>1, <1>2, InitImports, PTL DEF FlowFilesSpec, RowsInHandStay, allVars
<1>4. QED
  BY <1>3 DEF Apart, ProjectsKeepApart

-----------------------------------------------------------------------------
OneEach == \A p, q \in Processes : ProjectOf[p] = ProjectOf[q] => p = q

LEMMA NextStored ==
    ASSUME OneEach, ImportsAreSound, AllStored, HandsKept, [FlowFilesNext]_allVars
    PROVE  AllStored'
<1>1. ASSUME UNCHANGED <<rows, importer>> PROVE AllStored'
  <2>1. rows' = rows /\ importer' = importer
    BY ONLY <1>1
  <2>2. AllStored' <=> AllStored
    BY ONLY <2>1 DEF AllStored, Stored
  <2>3. QED
    BY ONLY <2>2, AllStored
<1>2. ASSUME ~ UNCHANGED <<rows, importer>> PROVE AllStored'
  <2>1. PICK p \in Processes : ImportStep(p)
    BY ONLY <1>2, [FlowFilesNext]_allVars, OnlyImportsMove
  <2>2. /\ Turns(p, importer[p], importer'[p], rows, rows')
        /\ \A q \in Processes : q # p => importer'[q] = importer[q]
        /\ \A q \in Processes : ProjectOf[q] # ProjectOf[p] /\ Stored(importer[q], q, rows)
             => q # p /\ Stored(importer[q], q, rows')
    BY ONLY <2>1, ImportsAreSound, HandsKept, ATurn
  <2>3. \A q \in Processes : Stored(importer[q], q, rows)
    BY ONLY AllStored DEF AllStored
  <2>4. Stored(importer'[p], p, rows')
    BY ONLY <2>2, <2>3 DEF Turns
  <2>5. \A q \in Processes : Stored(importer'[q], q, rows')
    BY ONLY <2>1, <2>2, <2>3, <2>4, OneEach DEF OneEach
  <2>6. \A q \in Processes : Stored(importer[q], q, rows)'
    BY ONLY <2>5 DEF Stored
  <2>7. QED
    BY ONLY <2>6 DEF AllStored
<1>3. QED
  BY ONLY <1>1, <1>2

AsNamed(p) ==
    LET entries == importer[p].entries
        order   == Ordered(entries)
    IN /\ \A n \in DOMAIN entries :
            /\ entries[n].id \in Owned(p)
            /\ /\ entries[n].deps # {}
               /\ \A k \in n + 1 .. Len(entries) :
                    entries[k].id = entries[n].id => entries[k].deps = {}
               => rows[entries[n].id].deps = entries[n].deps \cap Owned(p)
       /\ \A n \in DOMAIN order :
            (\A k \in n + 1 .. Len(order) : order[k].id # order[n].id)
                => Fields(rows[order[n].id]) =
                   <<ProjectOf[p], order[n].status, RiskOf(order[n]), order[n].source>>

EndsAsNamed ==
    \A p \in Processes : importer[p].at = "depending" /\ importer'[p].at = "done" => AsNamed(p)

LEMMA OrderedIsAsLong ==
    ASSUME NEW es, IsList(es)
    PROVE  DOMAIN Ordered(es) = 1 .. Len(es) /\ Len(Ordered(es)) = Len(es)
<1>1. DOMAIN es = 1 .. Len(es) /\ Len(es) \in Nat
  BY ONLY IsList(es) DEF IsList
<1>2. DOMAIN Ordered(es) = DOMAIN es
  BY ONLY TRUE DEF Ordered
<1> DEFINE order == Ordered(es)
           n == Len(es)
<1>3. DOMAIN order = 1 .. n /\ n \in Nat /\ \E f : order = [k \in 1 .. n |-> f[k]]
  <2>1. order = [k \in DOMAIN es |-> order[k]]
    BY ONLY TRUE DEF Ordered
  <2>2. order = [k \in 1 .. n |-> order[k]]
    <3> HIDE DEF order
    <3>1. QED
      BY ONLY <1>1, <2>1
  <2>3. QED
    BY ONLY <1>1, <1>2, <2>2
<1> HIDE DEF order, n
<1>4. Len(order) = n
  BY ONLY <1>3
<1>5. QED
  BY ONLY <1>3, <1>4 DEF order, n

LEMMA StepsStore ==
    ASSUME OneEach, ImportsAreSound, AllStored, HandsKept, [FlowFilesNext]_allVars
    PROVE  EndsAsNamed
<1> SUFFICES ASSUME NEW p \in Processes, importer[p].at = "depending", importer'[p].at = "done"
             PROVE  AsNamed(p)
  BY DEF EndsAsNamed
<1> DEFINE im == importer[p]
           es == im.entries
           order == Ordered(es)
           n == Len(es)
           held == DOMAIN im.existing
<1>1. im.i = n
  <2>1. importer'[p] # importer[p]
    BY ONLY importer[p].at = "depending", importer'[p].at = "done"
  <2>2. PICK q \in Processes : ImportStep(q)
    BY ONLY <2>1, [FlowFilesNext]_allVars, OnlyImportsMove
  <2>3. Turns(p, importer[p], importer'[p], rows, rows')
    BY ONLY <2>1, <2>2, ImportsAreSound, HandsKept, ATurn
  <2>4. QED
    BY ONLY <2>3, importer[p].at = "depending", importer'[p].at = "done" DEF Turns
<1>2. InHand(im, p, rows) /\ Stored(im, p, rows)
  BY ONLY ImportsAreSound, AllStored DEF ImportsAreSound, AllStored
<1>3. IsList(es) /\ n \in Nat /\ DOMAIN es = 1 .. n
  BY ONLY <1>2 DEF InHand, IsImport, IsList
<1>4. DOMAIN order = 1 .. n /\ Len(order) = n
  BY ONLY <1>3, OrderedIsAsLong
<1>5. Owned(p) = held /\ \A m \in 1 .. n : es[m].id \in held
  BY ONLY <1>2, <1>3, importer[p].at = "depending" DEF InHand, Stored, Owned
<1>6. FieldsStored(im, p, rows, n) /\ DepsStored(im, rows, n)
  BY ONLY <1>1, <1>2, importer[p].at = "depending" DEF Stored
<1>7. \A m \in 1 .. n :
        /\ es[m].deps # {}
        /\ \A k \in m + 1 .. n : es[k].id = es[m].id => es[k].deps = {}
        => rows[es[m].id].deps = es[m].deps \cap held
  BY ONLY <1>6 DEF DepsStored
<1>8. \A m \in 1 .. n :
        (\A k \in m + 1 .. n : order[k].id # order[m].id)
          => Fields(rows[order[m].id]) = <<ProjectOf[p], order[m].status, RiskOf(order[m]), order[m].source>>
  BY ONLY <1>6 DEF FieldsStored, Stated
<1> HIDE DEF im, es, order, n, held
<1>9. QED
  BY ONLY <1>3, <1>4, <1>5, <1>7, <1>8 DEF AsNamed, im, es, order, n

\* As long as no deletion takes away a row that an import has in hand, and one
\* process at a time imports for a project: an import that ends its three
\* passes without raising has stored what its files name, with dependencies,
\* whatever the order of the files and whoever else imports meanwhile.
THEOREM EndedImportsAlwaysAreStored ==
    ASSUME OneEach
    PROVE  FlowFilesSpec /\ RowsInHandStay => EndedImportsAreStored
<1> DEFINE Sound == ImportsAreSound /\ AllStored
<1>1. Sound /\ [FlowFilesNext]_allVars /\ [HandsKept]_vars => Sound'
  BY OneEach, HandsAreKept, NextImports, NextStored
<1>2. Sound /\ [FlowFilesNext]_allVars /\ [HandsKept]_vars => [EndsAsNamed]_vars
  BY OneEach, HandsAreKept, StepsStore
<1>3. FlowFilesInit => Sound
  BY InitImports
<1> HIDE DEF Sound
<1>4. FlowFilesSpec /\ RowsInHandStay => [][EndsAsNamed]_vars
  BY <1>1, <1>2, <1>3, PTL DEF FlowFilesSpec, RowsInHandStay, allVars
<1>5. QED
  BY <1>4 DEF AsNamed, EndsAsNamed, EndedImportsAreStored
=============================================================================

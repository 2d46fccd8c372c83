-------------------------------- MODULE FlowFiles -------------------------------
(***************************************************************************)
(* Flows that are written as YAML files: the editor that saves them, the   *)
(* parser, and the synchronisation that stores them, one statement after   *)
(* another, and links each flow to the requirements that its file names.   *)
(* The requirements are the rows of SpecTree, which imports may delete     *)
(* meanwhile.  The flows of FlowEngine are those stored here; what runs    *)
(* scenarios is the same package, and shares nothing with the files.       *)
(***************************************************************************)
EXTENDS ImpactGraphs, Scenarios

CONSTANTS
    FlowPaths,     \* the files, in the order of parse_directory: *.yaml, then *.yml
    FlowDocs,      \* their content at first
    Documents,     \* the mappings that may come up, closed under merging
    FormEdits,     \* what a user changes of the mapping that the form shows
    Editors,       \* requests to the flow editor
    CodeFlows,     \* names of REGISTERED_FLOWS
    Meanwhile,     \* the processes whose imports a synchronisation may meet
    Text,          \* a scalar where a list or a mapping is asked for
    MaxSyncs, MaxSaves    \* bounds

VARIABLES
    files,      \* the content of each file: a mapping, <<>> for nothing, or Text
    editor,     \* what each request of the editor holds
    flowRows,   \* VerificationFlow rows by name: the definition, and the requirements
    syncer,     \* the parse_flows or flow_sync_to_db that runs
    torn,       \* files that a crash or two writers at a time have left damaged
    saves       \* how many forms were posted

flowFiles == <<files, editor, flowRows, syncer, torn, saves>>

\* The mapping {**other, **doc}.
Merged(doc, other) ==
    [key \in DOMAIN doc \cup DOMAIN other |-> IF key \in DOMAIN doc THEN doc[key] ELSE other[key]]

ASSUME FlowFilesAssumption ==
    /\ Text \notin Documents /\ <<>> \in Documents
    /\ \A doc, other \in Documents : Merged(doc, other) \in Documents
    /\ \A doc \in Documents :
         "requirements" \in DOMAIN doc => doc["requirements"] \in Seq(Nat) \cup {Text}
    /\ FormEdits \subseteq Documents
    /\ FlowDocs \in [Range(FlowPaths) -> Documents \cup {Text}]
    /\ FlowPaths \in Seq(Range(FlowPaths))
    /\ Meanwhile \subseteq Processes

NoEditor == [at |-> "idle", path |-> Text, form |-> <<>>]
NoSync   == [at |-> "idle", paths |-> <<>>, todo |-> <<>>, clear |-> FALSE, i |-> 0,
             found |-> {}, named |-> 0, lost |-> FALSE, stored |-> {}, deleted |-> {}, count |-> 0]

FlowFilesInit ==
    /\ EcosystemInit /\ ScenarioInit
    /\ files    = FlowDocs
    /\ editor   = [e \in Editors |-> NoEditor]
    /\ flowRows = <<>>
    /\ syncer   = NoSync
    /\ torn     = {}
    /\ saves    = 0

-----------------------------------------------------------------------------
\* doc.get(key, default)
Get(doc, key, default) == IF key \in DOMAIN doc THEN doc[key] ELSE default

\* _build_step raises nothing.
ValidStep(step) ==
    /\ step # Text
    /\ {"name", "display_name"} \subseteq DOMAIN step
    /\ Get(step, "type", "handler") \in {"handler", "api_call", "assertion", "wait"}
    /\ Get(step, "type", "handler") = "handler" => Get(step, "handler", "") # ""
    /\ Get(step, "config", <<>>) # Text

\* _validate_and_build_flow raises nothing.
ValidFlow(doc) ==
    /\ {"id", "title", "steps"} \subseteq DOMAIN doc
    /\ doc["steps"] \notin {Text, <<>>}
    /\ \A n \in DOMAIN doc["steps"] : ValidStep(doc["steps"][n])
    /\ Get(doc, "requirements", <<>>) # Text

BuildFlow(doc) == [name |-> doc["id"], steps |-> doc["steps"], requirements |-> Get(doc, "requirements", <<>>)]

\* parse_file: what is no mapping with an id or steps is no flow, one with
\* errors raises.
IsFlow(content)      == content \notin {Text, <<>>} /\ DOMAIN content \cap {"id", "steps"} # {}
Raises(content)      == IsFlow(content) /\ ~ValidFlow(content)
ParseFlow(content)   == IF IsFlow(content) THEN <<BuildFlow(content)>> ELSE <<>>

-----------------------------------------------------------------------------
\* flow_editor_view shows the mapping of a file; a file without one is an error.
OpenForm(e, path) ==
    /\ editor[e].at = "idle"
    /\ files[path] \notin {Text, <<>>}
    /\ editor' = [editor EXCEPT ![e] = [at |-> "open", path |-> path, form |-> files[path]]]
    /\ UNCHANGED <<files, flowRows, syncer, torn, saves>>

\* Faulty variant of AcceptsForm: the form is stored as it comes.
AcceptsAnyForm(form) == TRUE

\* save_flow validates what is posted, not what it is merged into.
AcceptsForm(form) == ValidFlow(form)

\* save_flow up to the merge with the file as it is now; one that is empty or
\* no mapping raises.
PostForm(e, change) ==
    LET form == Merged(change, editor[e].form)
        old  == files[editor[e].path]
    IN /\ editor[e].at = "open" /\ saves < MaxSaves
       /\ saves' = saves + 1
       /\ editor' = [editor EXCEPT ![e] =
                       IF AcceptsForm(form) /\ old \notin {Text, <<>>}
                       THEN [@ EXCEPT !.at = "merged", !.form = Merged(form, old)] ELSE NoEditor]
       /\ UNCHANGED <<files, flowRows, syncer, torn>>

\* open(resolved, "w") empties the file.
OpenFile(e) ==
    /\ editor[e].at = "merged"
    /\ files'  = [files EXCEPT ![editor[e].path] = <<>>]
    /\ editor' = [editor EXCEPT ![e].at = "writing"]
    /\ UNCHANGED <<flowRows, syncer, torn, saves>>

\* yaml.dump; over what another has written meanwhile the two may mix.
WriteFile(e) ==
    LET path == editor[e].path IN
    /\ editor[e].at = "writing"
    /\ \/ files' = [files EXCEPT ![path] = editor[e].form] /\ UNCHANGED torn
       \/ files[path] # <<>> /\ files' = [files EXCEPT ![path] = Text] /\ torn' = torn \cup {path}
    /\ editor' = [editor EXCEPT ![e] = NoEditor]
    /\ UNCHANGED <<flowRows, syncer, saves>>

EditorCrash(e) ==
    /\ editor[e].at \in {"merged", "writing"}
    /\ torn'   = IF editor[e].at = "writing" THEN torn \cup {editor[e].path} ELSE torn
    /\ editor' = [editor EXCEPT ![e] = NoEditor]
    /\ UNCHANGED <<files, flowRows, syncer, saves>>

-----------------------------------------------------------------------------
Syncing == syncer.at \in {"parsing", "storing", "linking"}
Ended(how) == [NoSync EXCEPT !.at = how, !.count = syncer.count]

\* parse_flows of the directory, or flow_sync_to_db of one file.
StartSync(paths, clear) ==
    /\ ~Syncing /\ syncer.count < MaxSyncs
    /\ syncer' = [NoSync EXCEPT !.at = "parsing", !.paths = paths, !.clear = clear,
                                !.count = syncer.count + 1]
    /\ UNCHANGED <<files, editor, flowRows, torn, saves>>

\* parse_directory reads one file after another; FlowParseError ends it.
ParseNext ==
    LET content == files[syncer.paths[syncer.i + 1]] IN
    /\ syncer.at = "parsing" /\ syncer.i < Len(syncer.paths)
    /\ syncer' = IF Raises(content) THEN Ended("failed")
                 ELSE [syncer EXCEPT !.i = @ + 1, !.todo = @ \o ParseFlow(content)]
    /\ UNCHANGED <<files, editor, flowRows, torn, saves>>

FlowsNamed == {syncer.todo[n].name : n \in DOMAIN syncer.todo}

\* sync_yaml_flows_to_db begins; clear_existing deletes the flows by name.
BeginSync ==
    /\ syncer.at = "parsing" /\ syncer.i = Len(syncer.paths)
    /\ flowRows' = IF syncer.clear THEN Restrict(flowRows, DOMAIN flowRows \ FlowsNamed) ELSE flowRows
    /\ syncer' = [syncer EXCEPT !.at = "storing", !.i = 0, !.stored = DOMAIN rows]
    /\ UNCHANGED <<files, editor, torn, saves>>

FlowAtHand == syncer.todo[syncer.i + 1]

\* update_or_create keeps the requirements that a flow is linked to.
Linked(f) == IF f \in DOMAIN flowRows THEN flowRows[f].links ELSE {}

StoreFlow ==
    /\ syncer.at = "storing" /\ syncer.i < Len(syncer.todo)
    /\ LET f == FlowAtHand.name IN
       flowRows' = With(flowRows, f, [steps |-> FlowAtHand.steps, links |-> Linked(f)])
    /\ syncer' = [syncer EXCEPT !.at = "linking", !.lost = FALSE]
    /\ UNCHANGED <<files, editor, torn, saves>>

\* _sync_flow_requirements looks the requirements up one by one; an id without
\* a requirement is a warning.
LookUpRequirement ==
    LET id == FlowAtHand.requirements[syncer.named + 1] IN
    /\ syncer.at = "linking" /\ syncer.named < Len(FlowAtHand.requirements)
    /\ syncer' = [syncer EXCEPT !.named = @ + 1, !.found = @ \cup ({id} \cap DOMAIN rows)]
    /\ UNCHANGED <<files, editor, flowRows, torn, saves>>

\* Faulty variant of LinksSet: the old links stay.
LinksAdded(old) == old \cup syncer.found

\* requirements.set, or clear for none.
LinksSet(old) == syncer.found

\* It is one transaction, which fails on a flow or a requirement that is gone.
LinkRequirements ==
    /\ syncer.at = "linking" /\ syncer.named = Len(FlowAtHand.requirements)
    /\ IF syncer.lost /\ syncer.found # {}
       THEN syncer' = Ended("failed") /\ UNCHANGED flowRows
       ELSE /\ syncer' = [syncer EXCEPT !.at = "storing", !.i = @ + 1, !.named = 0, !.found = {}]
            /\ flowRows' = IF FlowAtHand.name \in DOMAIN flowRows /\ ~syncer.lost
                           THEN [flowRows EXCEPT ![FlowAtHand.name].links = LinksSet(@)]
                           ELSE flowRows
    /\ UNCHANGED <<files, editor, torn, saves>>

EndSync ==
    /\ syncer.at = "storing" /\ syncer.i = Len(syncer.todo)
    /\ syncer' = Ended("done")
    /\ UNCHANGED <<files, editor, flowRows, torn, saves>>

SyncCrash ==
    /\ Syncing
    /\ syncer' = Ended("failed")
    /\ UNCHANGED <<files, editor, flowRows, torn, saves>>

\* sync_flows_to_db of one flow when a process starts, whose definition Text
\* stands for: its links stay.  A bound: after the first parse_flows has begun.
SyncCodeFlow(f) ==
    /\ syncer.at # "idle"
    /\ flowRows' = With(flowRows, f, [steps |-> Text, links |-> Linked(f)])
    /\ UNCHANGED <<files, editor, syncer, torn, saves>>

\* The admin deletes a flow.
DeleteFlow(f) ==
    /\ f \in DOMAIN flowRows
    /\ flowRows' = Restrict(flowRows, DOMAIN flowRows \ {f})
    /\ syncer' = IF ~Syncing THEN syncer
                 ELSE [syncer EXCEPT !.deleted = @ \cup {f},
                                     !.lost = @ \/ (syncer.at = "linking" /\ FlowAtHand.name = f)]
    /\ UNCHANGED <<files, editor, torn, saves>>

SyncStep ==
    \/ \E clear \in BOOLEAN : StartSync(FlowPaths, clear)
    \/ \E path \in Range(FlowPaths) : StartSync(<<path>>, FALSE)
    \/ ParseNext \/ BeginSync \/ StoreFlow \/ LookUpRequirement \/ LinkRequirements \/ EndSync
    \/ SyncCrash
    \/ \E f \in CodeFlows : SyncCodeFlow(f)
    \/ \E f \in DOMAIN flowRows : DeleteFlow(f)

EditStep(e) ==
    \/ \E path \in Range(FlowPaths) : OpenForm(e, path)
    \/ \E change \in FormEdits : PostForm(e, change)
    \/ OpenFile(e) \/ WriteFile(e) \/ EditorCrash(e)

\* A step of an import: the links of the requirements that it deletes go.
ImportMeanwhile(p) ==
    /\ ImportStep(p)
    /\ flowRows' = [f \in DOMAIN flowRows |-> [flowRows[f] EXCEPT !.links = @ \cap DOMAIN rows']]
    /\ syncer' = [syncer EXCEPT !.stored = @ \cap DOMAIN rows',
                                !.lost = @ \/ ~(syncer.found \subseteq DOMAIN rows')]
    /\ syncer.at = "linking"
    /\ UNCHANGED <<files, editor, torn, saves>>

\* Bounds.  Files are edited while the first synchronisation parses them, before
\* any import, and what follows takes them as they are then.  A synchronisation
\* begins between two imports of Meanwhile, which may go on while it links, and
\* all that is before the links and everything else of SpecTree and
\* ImpactGraphs.  A scenario runs alone.
Begun     == {p \in Processes : importer[p].count > 0}
Between   == \A p \in Begun : importer[p].at \in {"done", "failed"}
Unedited  == editor = [e \in Editors |-> NoEditor] /\ saves = 0
Untouched == syncer = NoSync /\ Unedited
NoLinks   == edits = 0 /\ links = <<>> /\ Begun \subseteq Meanwhile

FlowFilesNext ==
    \/ scenario = NoScenario /\ Untouched /\ EcosystemNext /\ UNCHANGED <<flowFiles, scenario>>
    \/ /\ scenario = NoScenario /\ NoLinks /\ Unedited
       /\ \E p \in Meanwhile : ImportMeanwhile(p)
       /\ UNCHANGED <<ecosystem, scenario>>
    \/ /\ scenario = NoScenario /\ NoLinks
       /\ Syncing \/ Between
       /\ SyncStep
       /\ syncer'.count = 2 => Unedited
       /\ syncer'.at \in {"parsing", "failed"} \/ \A e \in Editors : editor[e] = NoEditor
       /\ UNCHANGED <<vars, ecosystem, scenario>>
    \/ /\ scenario = NoScenario /\ NoLinks /\ Begun = {} /\ flowRows = <<>>
       /\ syncer.at \in {"idle", "parsing"}
       /\ \E e \in Editors : EditStep(e)
       /\ UNCHANGED <<vars, ecosystem, scenario>>
    \/ /\ Begun = {} /\ Untouched
       /\ RunScenario
       /\ UNCHANGED <<vars, ecosystem, flowFiles>>

FlowFilesSpec == FlowFilesInit /\ [][FlowFilesNext]_<<vars, ecosystem, flowFiles, scenario>>

-----------------------------------------------------------------------------
\* The last of the files read that defines a flow.
LastDefined(f) == CHOOSE n \in DOMAIN syncer.todo :
                    /\ syncer.todo[n].name = f
                    /\ \A m \in n + 1 .. Len(syncer.todo) : syncer.todo[m].name # f

\* A synchronisation that ends has stored every flow of the files it read as
\* the last file that defines it has it, unless somebody deletes it or it is a
\* flow of the code too; the flow is linked to nothing that the file does not
\* name, whatever it was linked to before, and to all that it names which was
\* there all the time.
FlowsFollowTheirFiles ==
    [][syncer.at = "storing" /\ syncer'.at = "done" =>
         \A f \in FlowsNamed \ syncer.deleted :
            LET file == syncer.todo[LastDefined(f)] IN
            /\ f \in DOMAIN flowRows
            /\ flowRows[f].steps = file.steps \/ f \in CodeFlows
            /\ flowRows[f].links \subseteq Range(file.requirements)
            /\ Range(file.requirements) \cap syncer.stored \subseteq flowRows[f].links]_syncer

\* The editor leaves every file as a flow that the parser accepts: it is empty
\* only while it is being written, and damaged only where a write was cut off or
\* two went on at a time.
SavedFlowsAreReadable ==
    \A path \in Range(FlowPaths) :
        \/ files[path] = FlowDocs[path]
        \/ files[path] \notin {Text, <<>>} /\ ValidFlow(files[path])
        \/ files[path] = <<>> /\ \E e \in Editors : editor[e].at = "writing" /\ editor[e].path = path
        \/ path \in torn
=============================================================================

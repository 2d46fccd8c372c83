------------------------------- MODULE Conflicts -------------------------------
(***************************************************************************)
(* Conflicts between requirements, found by ConflictDetector in what the   *)
(* imports of test results leave in the link rows and in the fields of the *)
(* requirements, and logged and resolved through the API and the command   *)
(* detect_conflicts, while imports go on.                                  *)
(***************************************************************************)
EXTENDS WebhookIngestion, FiniteSets, FiniteSetsExt, SequencesExt

CONSTANTS
    Requirements,
    RequirementOf,   \* the requirement of each link
    Fields,          \* component, condition, timing and response of each
    Antonyms,        \* antonym_pairs
    MinRuns, MinOverlap,
    MaxLogged        \* bound on the ConflictLog rows

\* Conditions and responses are sets of words; of a condition, "variables" are
\* those it compares with its thresholds; of a response, "parts" are the words
\* of Antonyms that occur in it, inside of other words too.  Durations are in
\* milliseconds, an unparsable timing is NoTiming like none at all.
NoTiming == 0 - 1

ASSUME ConflictAssumption ==
    /\ RequirementOf \in [Links -> Requirements]
    /\ IsFiniteSet(Requirements) /\ DOMAIN Fields = Requirements
    /\ \A r \in Requirements :
         /\ DOMAIN Fields[r] = {"component", "condition", "timing", "response"}
         /\ Fields[r].timing \in Nat \cup {NoTiming}
    /\ MinRuns \in Nat /\ MinOverlap \in Nat \ {0} /\ MaxLogged \in Nat

VARIABLES
    conflicts,   \* ConflictLog rows, oldest first
    detector     \* the conflicts that were detected and have still to be logged

conflictVars == <<conflicts, detector>>

Pattern    == {"mutual_exclusion", "condition_overlap", "timing_conflict",
               "response_contradiction"}
Confidence == {"high", "medium", "low"}
NoConflict == "none"

ConflictInit == Init /\ conflicts = <<>> /\ detector = {}

-----------------------------------------------------------------------------
\* _get_run_requirement_statuses: a link only tells of the last run it was in.
LinksInRun(r, n) == {l \in Existing : RequirementOf[l] = r /\ link[l].run = n}

RunStatus(r, n) ==
    LET statuses == {link[l].status : l \in LinksInRun(r, n)} IN
    IF statuses \cap Failing # {} THEN "failed"
    ELSE IF statuses = {"skipped"} THEN "skipped"
    ELSE IF "passed" \in statuses THEN "passed" ELSE "unknown"

\* The runs detect_mutual_exclusion looks at: the newest MinRuns * 2.
RecentRuns == {n \in DOMAIN runs : n + MinRuns * 2 > Len(runs)}

\* _check_pair_for_mutual_exclusion: the confidence, or NoConflict.
Exclusion(a, b) ==
    LET together == {n \in RecentRuns : LinksInRun(a, n) # {} /\ LinksInRun(b, n) # {}}
        ended(s, t) == Cardinality({n \in together : RunStatus(a, n) = s /\ RunStatus(b, n) = t})
        inverse  == ended("passed", "failed") + ended("failed", "passed")
        tested   == Cardinality(together)
    IN IF \/ Cardinality(RecentRuns) < MinRuns \/ tested < MinOverlap
          \/ ended("passed", "passed") > 0 \/ inverse = 0
       THEN NoConflict
       ELSE IF 5 * inverse >= 4 * tested /\ tested >= 10 THEN "high"
       ELSE IF 2 * inverse >= tested /\ tested >= 5 THEN "medium" ELSE "low"

SameComponent(a, b) == Fields[a].component = Fields[b].component /\ Fields[a].component # ""

\* _check_condition_overlap and _calculate_condition_confidence
Overlap(a, b) ==
    LET x == Fields[a].condition
        y == Fields[b].condition
        common == x.variables \cap y.variables
    IN IF ~SameComponent(a, b) \/ common = {} THEN NoConflict
       ELSE IF /\ x.thresholds # {} /\ y.thresholds # {}
               /\ Max(x.thresholds) >= Min(y.thresholds)
               /\ Max(y.thresholds) >= Min(x.thresholds) THEN "high"
       ELSE IF Cardinality(common) > 1 THEN "medium" ELSE "low"

\* detect_timing_conflicts: by the ratio of the two.
TimingConflict(a, b) ==
    LET times == {Fields[a].timing, Fields[b].timing} IN
    IF ~SameComponent(a, b) \/ NoTiming \in times \/ Cardinality(times) = 1 THEN NoConflict
    ELSE IF Max(times) >= 5 * Min(times) THEN "high"
    ELSE IF Max(times) >= 2 * Min(times) THEN "medium" ELSE "low"

\* _conditions_similar and _check_response_contradiction, whatever the component.
Contradiction(a, b) ==
    LET x == Fields[a].condition.words
        y == Fields[b].condition.words
        u == Fields[a].response
        v == Fields[b].response
        opposed == \E w \in Antonyms : \/ w[1] \in u.parts /\ w[2] \in v.parts
                                       \/ w[2] \in u.parts /\ w[1] \in v.parts
    IN IF \/ {} \in {x, y, u.words, v.words}
          \/ 2 * Cardinality(x \cap y) < Min({Cardinality(x), Cardinality(y)}) THEN NoConflict
       ELSE IF opposed THEN "high"
       ELSE IF u.words # v.words /\ Cardinality(u.words \cap v.words) >= 2 THEN "low"
       ELSE NoConflict

\* The conflicts of one pattern, of which confidence tells for each two
\* requirements; a pair is met once, in the order of the rows.
Found(pattern, confidence, order) ==
    {[a |-> order[p[1]], b |-> order[p[2]], pattern |-> pattern,
      confidence |-> confidence[order[p[1]]][order[p[2]]]] :
        p \in {p \in (DOMAIN order) \X (DOMAIN order) :
                 p[1] < p[2] /\ confidence[order[p[1]]][order[p[2]]] # NoConflict}}

ExclusionConflicts(order) ==
    LET R == Requirements IN
    Found("mutual_exclusion", [a \in R |-> [b \in R |-> Exclusion(a, b)]], order)

StructuredConflicts(order) ==
    LET R == Requirements IN
    Found("condition_overlap", [a \in R |-> [b \in R |-> Overlap(a, b)]], order)
      \cup Found("timing_conflict", [a \in R |-> [b \in R |-> TimingConflict(a, b)]], order)
      \cup Found("response_contradiction", [a \in R |-> [b \in R |-> Contradiction(a, b)]], order)

\* The command looks for mutual exclusion only, the endpoint for the rest too
\* if it is not told otherwise.  A bound: after the last import.
DetectConflicts ==
    /\ detector = {}
    /\ Len(runs) = MaxRuns /\ \A p \in Processes : proc[p].at = "idle"
    /\ \E order \in SetToSeqs(Requirements), structured \in BOOLEAN :
         detector' = ExclusionConflicts(order)
                       \cup IF structured THEN StructuredConflicts(order) ELSE {}
    /\ UNCHANGED <<vars, conflicts>>

\* Faulty variant of SamePair: only this way round.
SameOrder(c, d) == c.a = d.a /\ c.b = d.b

\* In either direction.
SamePair(c, d) == {c.a, c.b} = {d.a, d.b}

\* log_conflicts: one of the conflicts detected.
LogConflict(c) ==
    LET open == \E n \in DOMAIN conflicts :
                  /\ SamePair(c, conflicts[n]) /\ conflicts[n].pattern = c.pattern
                  /\ ~conflicts[n].resolved
    IN /\ c \in detector
       /\ IF open THEN UNCHANGED conflicts
          ELSE /\ Len(conflicts) < MaxLogged
               /\ conflicts' = Append(conflicts,
                    [a |-> c.a, b |-> c.b, pattern |-> c.pattern,
                     confidence |-> c.confidence, resolved |-> FALSE])
       /\ detector' = detector \ {c}
       /\ UNCHANGED vars

\* resolve_conflict_view
ResolveConflict(n) ==
    /\ ~conflicts[n].resolved
    /\ conflicts' = [conflicts EXCEPT ![n].resolved = TRUE]
    /\ UNCHANGED <<vars, detector>>

\* The detection fails, or its process dies.
AbandonDetection ==
    /\ detector # {}
    /\ detector' = {}
    /\ UNCHANGED <<vars, conflicts>>

\* A bound: no import begins when conflicts have been found.
Import ==
    /\ detector = {} /\ conflicts = <<>>
    /\ \E p \in Processes : Begin(p) \/ Proceed(p)
    /\ UNCHANGED conflictVars

ConflictNext ==
    \/ DetectConflicts \/ AbandonDetection
    \/ \E c \in detector : LogConflict(c)
    \/ \E n \in DOMAIN conflicts : ResolveConflict(n)
    \/ Import

\* Processes run on once they have begun; nobody has to detect anything.
ConflictSpec ==
    /\ ConflictInit /\ [][ConflictNext]_<<vars, conflictVars>>
    /\ \A p \in Processes : WF_vars(Proceed(p))

-----------------------------------------------------------------------------
\* get_high_confidence_conflicts and list_conflicts_view: the rows, by number.
Open(confidence) ==
    {n \in DOMAIN conflicts : ~conflicts[n].resolved /\ conflicts[n].confidence \in confidence}

\* However often, and in whatever order of the rows, conflicts are detected,
\* resolved and detected again: a conflict has at most one row that is not
\* resolved, so each alert is for a conflict of its own; what is detected about
\* the fields is the same whichever way round the pair is met; and two
\* requirements are only ever reported as excluding each other on the strength
\* of links to both.
ConflictsAreLoggedOnce ==
    /\ \A m, n \in Open(Confidence) :
         LET c == conflicts[m]
             d == conflicts[n]
         IN {c.a, c.b} = {d.a, d.b} /\ c.pattern = d.pattern => m = n
    /\ \A n \in DOMAIN conflicts :
         LET c == conflicts[n] IN
         /\ c.a # c.b /\ c.pattern \in Pattern /\ c.confidence \in Confidence
         /\ c.pattern = "mutual_exclusion" =>
              \E k, l \in Existing : RequirementOf[k] = c.a /\ RequirementOf[l] = c.b
         /\ c.pattern # "mutual_exclusion" =>
              \E order \in SetToSeqs(Requirements) :
                \E d \in StructuredConflicts(order) :
                  d.a = c.b /\ d.b = c.a /\ d.pattern = c.pattern /\ d.confidence = c.confidence
=============================================================================

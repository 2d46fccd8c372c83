----------------------- MODULE VerificationStatusProofs -----------------------
(***************************************************************************)
(* Proofs about VerificationStatus, for any requirements, SLOs and         *)
(* validations and any number of concurrent processes.                     *)
(***************************************************************************)
EXTENDS VerificationStatus, SequenceTheorems, TLAPS

USE StatusAssumption

RowsListed == UNION {[L -> Row] : L \in SUBSET Requirements}

\* One of the results of a validation is the latest.
HasLatest(v) ==
    results[v] # {} => \E x \in results[v] : \A y \in results[v] : y.at <= x.at

\* The inductive invariant.
IInv ==
    /\ TypeOK
    /\ \A v \in Validations : HasLatest(v)
    /\ PassingHasEvidence

-----------------------------------------------------------------------------
\* The rule for test results: passing takes results that all passed.
LEMMA TestRule ==
    ASSUME NEW S
    PROVE  /\ TestStatus(S) \in Verification
           /\ TestStatus(S) = "passing" => S = {"passed"}
BY DEF TestStatus, Verification

\* The rule for validations: passing takes validations that all succeeded.
LEMMA InAppRule ==
    ASSUME NEW S
    PROVE  /\ InAppStatus(S) \in Verification
           /\ InAppStatus(S) = "passing" => S = {"success"}
BY DEF InAppStatus, Verification

\* The unified rule: passing takes what the verification method asks for, and
\* no breached SLO.
LEMMA UnifiedRule ==
    ASSUME NEW m \in Method, NEW t \in Verification, NEW i \in Verification, NEW s
    PROVE  /\ UnifiedStatus(m, t, i, s) \in Verification
           /\ s = "breached" => UnifiedStatus(m, t, i, s) = "failing"
           /\ UnifiedStatus(m, t, i, s) = "passing" =>
                CASE m = "test"  -> t = "passing"
                  [] m = "inapp" -> i = "passing"
                  [] m = "both"  -> t = "passing" /\ i = "passing"
                  [] OTHER       -> t = "passing" \/ i = "passing"
<1>1. CASE s = "breached"
  BY <1>1 DEF UnifiedStatus, Verification
<1>2. CASE s # "breached"
  <2>1. UnifiedStatus(m, t, i, s) = BaseStatus(m, t, i)
    BY <1>2 DEF UnifiedStatus
  <2>2. CASE m = "test"
    BY <1>2, <2>1, <2>2 DEF BaseStatus
  <2>3. CASE m = "inapp"
    BY <1>2, <2>1, <2>3 DEF BaseStatus
  <2>4. CASE m = "both"
    BY <1>2, <2>1, <2>4 DEF BaseStatus, Verification
  <2>5. CASE m = "unspecified"
    BY <1>2, <2>1, <2>5 DEF BaseStatus
  <2>6. QED
    BY <2>2, <2>3, <2>4, <2>5 DEF Method
<1>3. QED
  BY <1>1, <1>2

\* The rule for SLOs returns an SLO status.
LEMMA SLORule ==
    ASSUME NEW S
    PROVE  WorstSLO(S) \in SLOStatus
BY DEF WorstSLO, SLOStatus

\* A computed status is a status, and a computed "passing" has its evidence.
LEMMA ComputedRule ==
    ASSUME TypeOK, \A v \in Validations : HasLatest(v),
           NEW r \in Requirements, NEW row, NEW n \in Nat, n <= Len(runs)
    PROVE  /\ Computed(r, row, n) \in Verification
           /\ row.slo = "breached" => Computed(r, row, n) = "failing"
           /\ Computed(r, row, n) = "passing" => Supported(r)
<1> DEFINE own == {w \in Validations : RequirementOf[w] = r}
           t == TestStatus(ResultsOf(r, n))
           i == InAppStatus({LatestStatus(v) : v \in own})
<1>1. t \in Verification /\ i \in Verification
  BY TestRule, InAppRule
<1>2. t = "passing" => Tested(r)
  <2> SUFFICES ASSUME t = "passing" PROVE Tested(r)
    OBVIOUS
  <2>1. ResultsOf(r, n) = {"passed"}
    BY TestRule
  <2>2. CASE n = 0
    BY <2>1, <2>2 DEF ResultsOf, Tested
  <2>3. CASE n # 0
    BY <2>1, <2>3 DEF ResultsOf, Tested, TypeOK
  <2>4. QED
    BY <2>2, <2>3
<1>3. i = "passing" => Validated(r)
  <2> SUFFICES ASSUME i = "passing" PROVE Validated(r)
    OBVIOUS
  <2>1. {LatestStatus(v) : v \in own} = {"success"}
    BY InAppRule
  <2>2. PICK v \in own : LatestStatus(v) = "success"
    BY <2>1
  <2>3. results[v] # {} /\ HasLatest(v)
    BY <2>2 DEF LatestStatus
  <2>4. \E x \in results[v] : x.status = "success"
    BY <2>2, <2>3 DEF LatestStatus, HasLatest
  <2>5. QED
    BY <2>4 DEF Validated
<1>4. MethodOf[r] \in Method
  OBVIOUS
<1> DEFINE u == UnifiedStatus(MethodOf[r], t, i, row.slo)
<1>5. Computed(r, row, n) = u
  BY DEF Computed
<1> HIDE DEF t, i
<1>6. /\ u \in Verification
      /\ row.slo = "breached" => u = "failing"
      /\ u = "passing" =>
                CASE MethodOf[r] = "test"  -> t = "passing"
                  [] MethodOf[r] = "inapp" -> i = "passing"
                  [] MethodOf[r] = "both"  -> t = "passing" /\ i = "passing"
                  [] OTHER       -> t = "passing" \/ i = "passing"
  BY <1>1, <1>4, UnifiedRule
<1> HIDE DEF u
<1>7. u = "passing" => Supported(r)
  BY <1>2, <1>3, <1>4, <1>6 DEF Supported, Method
<1>8. QED
  BY <1>5, <1>6, <1>7

\* Visiting a row leaves rows that were listed.
LEMMA VisitedRows ==
    ASSUME TypeOK, NEW p \in Processes, NEW r
    PROVE  /\ Visited(p, r).rows \in RowsListed
           /\ Visited(p, r).rows = [q \in Listed(p) \ {r} |-> proc[p].rows[q]]
           /\ Visited(p, r).at = proc[p].at
           /\ Visited(p, r).run = proc[p].run
           /\ Visited(p, r) \in [at : Place, run : Nat, rows : RowsListed]
<1> DEFINE left == [q \in Listed(p) \ {r} |-> proc[p].rows[q]]
<1>1. proc[p] \in [at : Place, run : Nat, rows : RowsListed]
  BY DEF TypeOK, RowsListed
<1>2. PICK L \in SUBSET Requirements : proc[p].rows \in [L -> Row]
  BY <1>1 DEF RowsListed
<1>3. left \in [L \ {r} -> Row]
  BY <1>2 DEF Listed
<1>4. left \in RowsListed
  BY <1>3 DEF RowsListed
<1>5. QED
  BY <1>1, <1>4 DEF Visited

\* The rows that a loop lists are rows of requirements.
LEMMA ListedRows ==
    ASSUME req \in [Requirements -> Row]
    PROVE  /\ NoRows \in RowsListed
           /\ req \in RowsListed
           /\ \A S \in SUBSET Requirements : [r \in S |-> req[r]] \in RowsListed
<1>1. NoRows \in [{} -> Row]
  BY DEF NoRows
<1>2. ASSUME NEW S \in SUBSET Requirements
      PROVE  [r \in S |-> req[r]] \in RowsListed
  <2>1. [r \in S |-> req[r]] \in [S -> Row]
    OBVIOUS
  <2>2. QED
    BY <2>1 DEF RowsListed
<1>3. NoRows \in RowsListed
  BY <1>1 DEF RowsListed
<1>4. req \in RowsListed
  BY DEF RowsListed
<1>5. QED
  BY <1>2, <1>3, <1>4

\* Setting one process to a well-typed state keeps the processes well-typed.
LEMMA GoTyped ==
    ASSUME TypeOK, NEW p \in Processes, NEW state, Go(p, state),
           state \in [at : Place, run : Nat, rows : RowsListed],
           Len(runs) \in Nat, Len(runs') \in Nat,
           state.run <= Len(runs'), Len(runs) <= Len(runs')
    PROVE  /\ proc' \in [Processes -> [at : Place, run : Nat, rows : RowsListed]]
           /\ \A q \in Processes : proc'[q].run <= Len(runs')
<1>1. proc \in [Processes -> [at : Place, run : Nat, rows : RowsListed]]
  BY DEF TypeOK, RowsListed
<1>2. proc' = [proc EXCEPT ![p] = state]
  BY DEF Go
<1>3. proc' \in [Processes -> [at : Place, run : Nat, rows : RowsListed]]
  BY <1>1, <1>2
<1>4. ASSUME NEW q \in Processes PROVE proc'[q].run <= Len(runs')
  <2>1. CASE q = p
    BY <1>1, <1>2, <2>1
  <2>2. CASE q # p
    <3>1. proc'[q] = proc[q] /\ proc[q].run \in Nat /\ proc[q].run <= Len(runs)
      BY <1>1, <1>2, <2>2 DEF TypeOK
    <3>2. QED
      BY <3>1
  <2>3. QED
    BY <2>1, <2>2
<1>5. QED
  BY <1>3, <1>4

\* Evidence is never taken back.
LEMMA EvidenceGrows ==
    ASSUME TypeOK, runs' \in Seq([Requirements -> SUBSET Outcomes]),
           Len(runs) <= Len(runs'),
           \A k \in 1 .. Len(runs), r \in Requirements : runs[k][r] \subseteq runs'[k][r],
           \A v \in Validations : results[v] \subseteq results'[v]
    PROVE  \A r \in Requirements : Supported(r) => Supported(r)'
<1> SUFFICES ASSUME NEW r \in Requirements PROVE Supported(r) => Supported(r)'
  OBVIOUS
<1>1. Tested(r) => Tested(r)'
  <2>1. DOMAIN runs = 1 .. Len(runs) /\ DOMAIN runs' = 1 .. Len(runs')
    BY DEF TypeOK
  <2>2. Len(runs) \in Nat /\ Len(runs') \in Nat
    BY DEF TypeOK
  <2>3. QED
    BY <2>1, <2>2 DEF Tested
<1>2. Validated(r) => Validated(r)'
  BY DEF Validated
<1>3. QED
  BY <1>1, <1>2 DEF Supported

\* The actions that leave the requirement rows and the results alone.
LEMMA EvidenceStep ==
    ASSUME IInv, NEW p \in Processes, NEW state, Go(p, state),
           state \in [at : Place, run : Nat, rows : RowsListed],
           runs' \in Seq([Requirements -> SUBSET Outcomes]),
           Len(runs) <= Len(runs'), state.run <= Len(runs'),
           \A k \in 1 .. Len(runs), r \in Requirements : runs[k][r] \subseteq runs'[k][r],
           req' = req, slo' \in [SLOs -> SLOStatus], results' = results
    PROVE  IInv'
<1>1. Len(runs) \in Nat /\ Len(runs') \in Nat
  BY DEF IInv, TypeOK
<1>2. TypeOK'
  BY <1>1, GoTyped DEF IInv, TypeOK, RowsListed
<1>3. \A r \in Requirements : Supported(r) => Supported(r)'
  BY EvidenceGrows DEF IInv
<1>4. PassingHasEvidence'
  BY <1>3 DEF IInv, PassingHasEvidence
<1>5. (\A v \in Validations : HasLatest(v))'
  BY DEF IInv, HasLatest
<1>6. QED
  BY <1>2, <1>4, <1>5 DEF IInv

\* The rounds of the loops: one row is saved, with a status that has its
\* evidence if it is passing.
LEMMA SaveStep ==
    ASSUME IInv, NEW p \in Processes, NEW r \in Requirements, Go(p, Visited(p, r)),
           req' \in [Requirements -> Row],
           \A q \in Requirements : req'[q].verification = "passing" =>
               req[q].verification = "passing" \/ Supported(q),
           slo' = slo, runs' = runs, results' = results
    PROVE  IInv'
<1>1. Len(runs) \in Nat /\ proc[p].run <= Len(runs)
  BY DEF IInv, TypeOK
<1>2. TypeOK'
  <2>1. /\ Visited(p, r) \in [at : Place, run : Nat, rows : RowsListed]
        /\ Visited(p, r).run <= Len(runs')
    BY <1>1, VisitedRows DEF IInv
  <2>2. /\ proc' \in [Processes -> [at : Place, run : Nat, rows : RowsListed]]
        /\ \A q \in Processes : proc'[q].run <= Len(runs')
    BY <1>1, <2>1, GoTyped DEF IInv
  <2>3. QED
    BY <2>2 DEF IInv, TypeOK, RowsListed
<1>3. \A q \in Requirements : Supported(q) => Supported(q)'
  BY DEF Supported, Tested, Validated
<1>4. PassingHasEvidence'
  BY <1>3 DEF IInv, PassingHasEvidence
<1>5. (\A v \in Validations : HasLatest(v))'
  BY DEF IInv, HasLatest
<1>6. QED
  BY <1>2, <1>4, <1>5 DEF IInv

-----------------------------------------------------------------------------
(* Initially nothing is stored and every process is idle, so the invariant holds. *)
LEMMA InitIInv == Init => IInv
<1> SUFFICES ASSUME Init PROVE IInv
  OBVIOUS
<1>1. NewRequirement \in Row /\ NewRequirement.verification # "passing"
  BY DEF NewRequirement, Row, Verification, SLOStatus
<1>2. NoRows \in RowsListed
  BY <1>1, ListedRows DEF Init
<1>3. Idle \in [at : Place, run : Nat, rows : RowsListed] /\ Idle.run = 0
  BY <1>2 DEF Idle, At, Place
<1>4. req \in [Requirements -> Row] /\ slo \in [SLOs -> SLOStatus]
  BY <1>1 DEF Init, SLOStatus
<1>5. /\ runs \in Seq([Requirements -> SUBSET Outcomes]) /\ Len(runs) = 0
      /\ results \in [Validations -> SUBSET [at : CheckTimes, status : ValidationStatus]]
  BY DEF Init
<1>6. TypeOK
  BY <1>3, <1>4, <1>5 DEF Init, TypeOK, RowsListed
<1>7. PassingHasEvidence
  BY <1>1 DEF Init, PassingHasEvidence
<1>8. \A v \in Validations : HasLatest(v)
  BY DEF Init, HasLatest
<1>9. QED
  BY <1>6, <1>7, <1>8 DEF IInv

\* The inductive step.
LEMMA NextIInv == IInv /\ [Next]_vars => IInv'
<1> SUFFICES ASSUME IInv, [Next]_vars PROVE IInv'
  OBVIOUS
<1> DEFINE State == [at : Place, run : Nat, rows : RowsListed]
<1>t. /\ req \in [Requirements -> Row] /\ slo \in [SLOs -> SLOStatus]
      /\ runs \in Seq([Requirements -> SUBSET Outcomes])
      /\ Len(runs) \in Nat
      /\ proc \in [Processes -> State]
      /\ \A p \in Processes : proc[p].run \in Nat /\ proc[p].run <= Len(runs)
  BY DEF IInv, TypeOK, RowsListed
<1>r. /\ NoRows \in RowsListed /\ req \in RowsListed
      /\ \A S \in SUBSET Requirements : [r \in S |-> req[r]] \in RowsListed
  BY <1>t, ListedRows
<1>a. \A where \in Place, n \in Nat, rows \in RowsListed :
        At(where, n, rows) \in State /\ At(where, n, rows).run = n
  BY DEF At
<1>i. Idle \in State /\ Idle.run = 0
  BY <1>r DEF Idle, At, Place
<1>0. CASE UNCHANGED vars
  <2>1. UNCHANGED <<TypeOK, PassingHasEvidence, \A v \in Validations : HasLatest(v)>>
    BY <1>0 DEF vars, TypeOK, PassingHasEvidence, HasLatest, Supported, Tested, Validated, Listed
  <2>2. QED
    BY <2>1 DEF IInv
<1>1. ASSUME NEW p \in Processes, ImportRun(p) PROVE IInv'
  <2> DEFINE new == [r \in Requirements |-> {}]
  <2>1. runs' = Append(runs, new) /\ new \in [Requirements -> SUBSET Outcomes]
    BY <1>1 DEF ImportRun
  <2>2. /\ runs' \in Seq([Requirements -> SUBSET Outcomes])
        /\ Len(runs') = Len(runs) + 1
        /\ \A k \in 1 .. Len(runs) : runs'[k] = runs[k]
    BY <1>t, <2>1
  <2>3. At("importing", Len(runs) + 1, NoRows) \in State
    BY <1>t, <1>r, <1>a DEF Place
  <2>4. At("importing", Len(runs) + 1, NoRows).run = Len(runs')
    BY <2>2 DEF At
  <2>5. QED
    BY <1>1, <1>t, <2>2, <2>3, <2>4, EvidenceStep DEF ImportRun
<1>2. ASSUME NEW p \in Processes, NEW R \in SUBSET Requirements, NEW s \in Outcomes,
             LinkResult(p, R, s)
      PROVE IInv'
  <2> DEFINE k == proc[p].run
             old == runs[k]
             new == [r \in Requirements |-> IF r \in R THEN old[r] \cup {s} ELSE old[r]]
  <2>1. runs' = [runs EXCEPT ![k] = new]
    BY <1>2 DEF LinkResult
  <2>2. Len(runs') = Len(runs) /\ DOMAIN runs = 1 .. Len(runs)
    BY <1>t, <2>1
  <2>3. k \in 1 .. Len(runs) => old \in [Requirements -> SUBSET Outcomes]
    BY <1>t
  <2>4. k \in 1 .. Len(runs) => new \in [Requirements -> SUBSET Outcomes]
    BY <2>3
  <2>5. runs' \in Seq([Requirements -> SUBSET Outcomes])
    <3>1. CASE k \in 1 .. Len(runs)
      BY <1>t, <2>1, <2>4, <3>1, ExceptSeq
    <3>2. CASE k \notin 1 .. Len(runs)
      <4>1. runs' = runs
        BY <1>t, <2>1, <2>2, <3>2
      <4>2. QED
        BY <1>t, <4>1
    <3>3. QED
      BY <3>1, <3>2
  <2>6. \A j \in 1 .. Len(runs), r \in Requirements : runs[j][r] \subseteq runs'[j][r]
    <3> SUFFICES ASSUME NEW j \in 1 .. Len(runs), NEW r \in Requirements
                 PROVE  runs[j][r] \subseteq runs'[j][r]
      OBVIOUS
    <3>1. CASE j = k
      <4>1. runs'[j] = new /\ new[r] = IF r \in R THEN runs[j][r] \cup {s} ELSE runs[j][r]
        BY <2>1, <2>2, <3>1
      <4>2. QED
        BY <4>1
    <3>2. CASE j # k
      BY <2>1, <2>2, <3>2
    <3>3. QED
      BY <3>1, <3>2
  <2>7. proc[p] \in State /\ Go(p, proc[p])
    BY <1>2, <1>t DEF LinkResult, Go
  <2>8. /\ proc[p].run <= Len(runs') /\ Len(runs) <= Len(runs')
        /\ req' = req /\ results' = results /\ slo' \in [SLOs -> SLOStatus]
    BY <1>2, <1>t, <2>2 DEF LinkResult
  <2> HIDE DEF k, old, new
  <2>9. QED
    BY <2>5, <2>6, <2>7, <2>8, EvidenceStep
<1> DEFINE Stays == runs' = runs /\ req' = req /\ results' = results
<1>g. ASSUME NEW p \in Processes, NEW state \in State, state.run <= Len(runs),
             Go(p, state), Stays, slo' \in [SLOs -> SLOStatus]
      PROVE  IInv'
  BY <1>g, <1>t, EvidenceStep
<1> HIDE DEF State
<1>3. ASSUME NEW p \in Processes, ImportDone(p) PROVE IInv'
  <2>1. At("statuses", proc[p].run, req) \in State /\ At("statuses", proc[p].run, req).run <= Len(runs)
    BY <1>t, <1>r, <1>a DEF Place
  <2>2. Go(p, At("statuses", proc[p].run, req)) \/ Go(p, Idle)
    BY <1>3 DEF ImportDone
  <2>3. QED
    BY <1>3, <1>t, <1>g, <1>i, <2>1, <2>2 DEF ImportDone
<1>4. ASSUME NEW p \in Processes, NEW s \in SLOs, NEW status \in SLOStatus, SetSLO(p, s, status)
      PROVE IInv'
  <2>1. At("slos", 0, NoRows) \in State /\ At("slos", 0, NoRows).run <= Len(runs)
    BY <1>t, <1>r, <1>a DEF Place
  <2>2. slo' \in [SLOs -> SLOStatus]
    BY <1>4, <1>t DEF SetSLO
  <2>3. QED
    BY <1>4, <1>g, <2>1, <2>2 DEF SetSLO
<1>5. ASSUME NEW p \in Processes, SLOsDone(p) PROVE IInv'
  <2>1. At("slo_statuses", 0, req) \in State /\ At("slo_statuses", 0, req).run <= Len(runs)
    BY <1>t, <1>r, <1>a DEF Place
  <2>2. Go(p, At("slo_statuses", 0, req)) \/ Go(p, Idle)
    BY <1>5 DEF SLOsDone
  <2>3. QED
    BY <1>5, <1>t, <1>g, <1>i, <2>1, <2>2 DEF SLOsDone
<1>6. ASSUME NEW p \in Processes, NEW v \in Validations, NEW t \in CheckTimes,
             NEW status \in ValidationStatus \ {"not_run"}, Validate(p, v, t, status)
      PROVE IInv'
  <2> DEFINE x == [at |-> t, status |-> status]
  <2>1. results' = [results EXCEPT ![v] = @ \cup {x}]
    BY <1>6 DEF Validate
  <2>2. results \in [Validations -> SUBSET [at : CheckTimes, status : ValidationStatus]]
    BY DEF IInv, TypeOK
  <2>3. results' \in [Validations -> SUBSET [at : CheckTimes, status : ValidationStatus]]
    BY <2>1, <2>2
  <2>4. HasLatest(v)'
    <3>1. results'[v] = results[v] \cup {x} /\ x.at = t /\ t \in Nat
      BY <2>1, <2>2
    <3>2. \A y \in results[v] : y.at \in Nat
      <4>1. \A y \in results[v] : y \in [at : CheckTimes, status : ValidationStatus]
        BY <2>2
      <4>2. QED
        BY <4>1
    <3>3. CASE results[v] = {}
      BY <3>1, <3>3 DEF HasLatest
    <3>4. CASE results[v] # {}
      <4>1. PICK m \in results[v] : \A y \in results[v] : y.at <= m.at
        BY <3>4 DEF IInv, HasLatest
      <4>2. CASE m.at <= t
        <5>1. \A y \in results'[v] : y.at <= x.at
          BY <3>1, <3>2, <4>1, <4>2
        <5>2. QED
          BY <3>1, <5>1 DEF HasLatest
      <4>3. CASE t < m.at
        <5>1. \A y \in results'[v] : y.at <= m.at
          BY <3>1, <3>2, <4>1, <4>3
        <5>2. QED
          BY <3>1, <5>1 DEF HasLatest
      <4>4. QED
        BY <3>1, <3>2, <4>1, <4>2, <4>3
    <3>5. QED
      BY <3>3, <3>4
  <2>5. ASSUME NEW w \in Validations, w # v PROVE HasLatest(w)'
    BY <2>1, <2>2, <2>5 DEF IInv, HasLatest
  <2>6. At("validating", 0, NoRows) \in State /\ At("validating", 0, NoRows).run = 0
    BY <1>r, <1>a DEF Place
  <2>7. /\ proc' \in [Processes -> State]
        /\ \A q \in Processes : proc'[q].run <= Len(runs')
    BY <1>6, <1>t, <2>6, GoTyped DEF Validate, State, IInv
  <2>8. TypeOK'
    BY <1>6, <1>t, <2>3, <2>7 DEF Validate, TypeOK, State, RowsListed
  <2>9. \A r \in Requirements : Supported(r) => Supported(r)'
    <3>1. \A w \in Validations : results[w] \subseteq results'[w]
      BY <2>1, <2>2
    <3>2. QED
      BY <1>6, <1>t, <3>1, EvidenceGrows DEF Validate, IInv
  <2>10. QED
    BY <1>6, <2>4, <2>5, <2>8, <2>9 DEF Validate, IInv, PassingHasEvidence
<1>7. ASSUME NEW p \in Processes, ValidationsDone(p) PROVE IInv'
  <2>1. At("statuses", 0, req) \in State /\ At("statuses", 0, req).run <= Len(runs)
    BY <1>t, <1>r, <1>a DEF Place
  <2>2. Go(p, At("statuses", 0, req)) \/ Go(p, Idle)
    BY <1>7 DEF ValidationsDone
  <2>3. QED
    BY <1>7, <1>t, <1>g, <1>i, <2>1, <2>2 DEF ValidationsDone
<1>8. ASSUME NEW p \in Processes, CheckInvariants(p) PROVE IInv'
  <2>1. \E state \in State : state.run <= Len(runs) /\ Go(p, state)
    BY <1>8, <1>t, <1>r, <1>a DEF CheckInvariants, Place
  <2>2. QED
    BY <1>8, <1>t, <1>g, <2>1 DEF CheckInvariants
<1>9. ASSUME NEW p \in Processes, NEW r \in Requirements, SaveStatus(p, r) PROVE IInv'
  <2> DEFINE new == Computed(r, proc[p].rows[r], proc[p].run)
  <2>1. new \in Verification /\ (new = "passing" => Supported(r))
    BY <1>t, ComputedRule DEF IInv
  <2>2. req' = [req EXCEPT ![r].verification = new] \/ req' = req
    BY <1>9 DEF SaveStatus
  <2> HIDE DEF new
  <2>3. req' \in [Requirements -> Row]
    BY <1>t, <2>1, <2>2 DEF Row
  <2>4. \A q \in Requirements : req'[q].verification = "passing" =>
            req[q].verification = "passing" \/ Supported(q)
    BY SMTT(30), <1>t, <2>1, <2>2 DEF Row
  <2>5. QED
    BY <1>9, <2>3, <2>4, SaveStep DEF SaveStatus
<1>10. ASSUME NEW p \in Processes, NEW r \in Requirements, SaveSLOStatus(p, r) PROVE IInv'
  <2> DEFINE new == WorstSLO({slo[s] : s \in SLOsOf[r]})
  <2>1. new \in SLOStatus
    BY SLORule
  <2>2. req' = [req EXCEPT ![r].slo = new] \/ req' = req
    BY <1>10 DEF SaveSLOStatus
  <2> HIDE DEF new
  <2>3. /\ req' \in [Requirements -> Row]
        /\ \A q \in Requirements : req'[q].verification = req[q].verification
    BY SMTT(30), <1>t, <2>1, <2>2 DEF Row
  <2>4. QED
    BY <1>10, <2>3, SaveStep DEF SaveSLOStatus
<1>11. ASSUME NEW p \in Processes, NEW r \in Requirements, SaveBreach(p, r) PROVE IInv'
  <2>1. req' = [req EXCEPT ![r].verification = "failing"] \/ req' = req
    BY <1>11 DEF SaveBreach
  <2> DEFINE new == "failing"
  <2>a. new \in Verification /\ new # "passing"
    BY DEF Verification
  <2>b. req' = [req EXCEPT ![r].verification = new] \/ req' = req
    BY <2>1
  <2> HIDE DEF new
  <2>2. /\ req' \in [Requirements -> Row]
        /\ \A q \in Requirements : req'[q].verification = "passing" =>
              req[q].verification = "passing"
    <3>1. CASE req' = req
      BY <1>t, <3>1
    <3>2. CASE req' = [req EXCEPT ![r].verification = new]
      <4>1. req' \in [Requirements -> Row]
        BY <1>t, <2>a, <3>2 DEF Row
      <4>2. ASSUME NEW q \in Requirements, req'[q].verification = "passing"
            PROVE  req[q].verification = "passing"
        BY <1>t, <2>a, <3>2, <4>2 DEF Row
      <4>3. QED
        BY <4>1, <4>2
    <3>3. QED
      BY <2>b, <3>1, <3>2
  <2>3. QED
    BY <1>11, <2>2, SaveStep DEF SaveBreach
<1>12. ASSUME NEW p \in Processes, LoopDone(p) PROVE IInv'
  <2>1. proc[p] \in State
    BY <1>t
  <2>2. /\ [proc[p] EXCEPT !.at = "updated"] \in State
        /\ [proc[p] EXCEPT !.at = "fixed"] \in State
        /\ [proc[p] EXCEPT !.at = "updated"].run <= Len(runs)
        /\ [proc[p] EXCEPT !.at = "fixed"].run <= Len(runs)
    BY <1>t, <2>1 DEF State, Place
  <2>3. At("fixing_breached", proc[p].run,
           [r \in {q \in Requirements : req[q].slo = "breached"} |-> req[r]]) \in State
    BY <1>t, <1>r, <1>a DEF Place
  <2>4. At("statuses", 0, req) \in State
    BY <1>r, <1>a DEF Place
  <2>5. /\ At("statuses", 0, req).run <= Len(runs)
        /\ At("fixing_breached", proc[p].run,
              [r \in {q \in Requirements : req[q].slo = "breached"} |-> req[r]]).run
             <= Len(runs)
    BY <1>t DEF At
  <2>6. Stays /\ slo' \in [SLOs -> SLOStatus]
    BY <1>12, <1>t DEF LoopDone
  <2>7. CASE Go(p, [proc[p] EXCEPT !.at = "updated"])
    BY <1>g, <2>2, <2>6, <2>7
  <2>8. CASE Go(p, [proc[p] EXCEPT !.at = "fixed"])
    BY <1>g, <2>2, <2>6, <2>8
  <2>9. CASE Go(p, At("statuses", 0, req))
    BY <1>g, <2>4, <2>5, <2>6, <2>9
  <2>10. CASE Go(p, Idle)
    BY <1>t, <1>g, <1>i, <2>6, <2>10
  <2>11. CASE Go(p, At("fixing_breached", proc[p].run,
                       [r \in {q \in Requirements : req[q].slo = "breached"} |-> req[r]]))
    BY <1>g, <2>3, <2>5, <2>6, <2>11
  <2>12. QED
    BY <1>12, <2>7, <2>8, <2>9, <2>10, <2>11 DEF LoopDone
<1>13. ASSUME NEW p \in Processes, Crash(p) PROVE IInv'
  BY <1>13, <1>t, <1>i, <1>g DEF Crash
<1>14. QED
  BY <1>0, <1>1, <1>2, <1>3, <1>4, <1>5, <1>6, <1>7, <1>8, <1>9, <1>10, <1>11, <1>12, <1>13
     DEF Next, Evidence, Loop

\* IInv is an invariant of every execution.
THEOREM Invariance == Spec => []IInv
BY InitIInv, NextIInv, PTL DEF Spec

\* The rows and processes keep their types, whatever the writers do.
THEOREM TypeCorrect == Spec => []TypeOK
<1>1. IInv => TypeOK
  BY DEF IInv
<1>2. QED
  BY <1>1, Invariance, PTL

\* status.py never shows a requirement as passing that nothing vouches for:
\* for any number of concurrent imports, updates and crashes.
THEOREM PassingIsSupported == Spec => []PassingHasEvidence
<1>1. IInv => PassingHasEvidence
  BY DEF IInv
<1>2. QED
  BY <1>1, Invariance, PTL

-----------------------------------------------------------------------------
\* The stored status of a requirement is the one computed against run n.
Accurate(r, n) == req[r].verification = Computed(r, req[r], n)

\* What holds of the only process: the rows it listed are still those stored,
\* and the rows it has visited are accurate.
AloneInv(p) ==
    /\ proc[p].at \in {"statuses", "slo_statuses", "fixing", "fixing_breached"} =>
         \A r \in Listed(p) : proc[p].rows[r] = req[r]
    /\ proc[p].at \in {"statuses", "fixing"} =>
         \A r \in Requirements \ Listed(p) : Accurate(r, proc[p].run)
    /\ proc[p].at \in {"updated", "fixing_breached", "fixed"} =>
         \A r \in Requirements : Accurate(r, proc[p].run)
    /\ proc[p].at \in {"fixing", "fixing_breached", "fixed"} => proc[p].run = Len(runs)
    /\ proc[p].at = "fixing_breached" =>
         \A r \in Listed(p) : req[r].slo = "breached"

\* A computed status depends on the evidence, and of the row on slo_status only.
LEMMA ComputedFrame ==
    ASSUME NEW CONSTANT r, NEW CONSTANT n, runs' = runs, results' = results,
           req'[r].slo = req[r].slo
    PROVE  Computed(r, req[r], n)' = Computed(r, req[r], n)
BY DEF Computed, ResultsOf, LatestStatus

\* Where the only process does not list or visit rows, there is nothing to show.
LEMMA AloneElsewhere ==
    ASSUME NEW CONSTANT p,
           proc'[p].at \in {"idle", "importing", "slos", "validating"}
    PROVE  AloneInv(p)'
BY DEF AloneInv

\* A loop starts with the rows as they are stored.
LEMMA AloneLists ==
    ASSUME IInv, NEW p \in Processes, NEW where \in {"statuses", "slo_statuses", "fixing"},
           NEW n, where = "fixing" => n = Len(runs),
           Go(p, At(where, n, req)), req' = req, runs' = runs
    PROVE  AloneInv(p)'
<1>1. proc'[p] = At(where, n, req)
  BY DEF IInv, TypeOK, Go
<1>2. DOMAIN req = Requirements
  BY DEF IInv, TypeOK
<1>3. proc'[p].at = where /\ proc'[p].run = n /\ proc'[p].rows = req
  BY <1>1 DEF At
<1>4. Listed(p)' = Requirements
  BY <1>2, <1>3 DEF Listed
<1>5. QED
  BY <1>3, <1>4 DEF AloneInv

\* The invariant of the only process is preserved.
LEMMA AloneNext ==
    ASSUME NEW CONSTANT P, Processes = {P}, IInv, AloneInv(P), [Next]_vars
    PROVE  AloneInv(P)'
<1>t. /\ req \in [Requirements -> Row] /\ P \in Processes
      /\ proc \in [Processes -> [at : Place, run : Nat, rows : RowsListed]]
      /\ Listed(P) \subseteq Requirements
  <2>1. /\ req \in [Requirements -> Row]
        /\ proc \in [Processes -> [at : Place, run : Nat, rows : RowsListed]]
    BY DEF IInv, TypeOK, RowsListed
  <2>2. proc[P].rows \in RowsListed
    BY <2>1
  <2>3. Listed(P) \subseteq Requirements
    BY <2>2 DEF RowsListed, Listed
  <2>4. QED
    BY <2>1, <2>3
<1>go. \A state : Go(P, state) => proc'[P] = state
  BY <1>t DEF Go
<1>n. PICK n \in Nat : n = proc[P].run
  BY <1>t
<1>0. CASE UNCHANGED vars
  <2>1. \A r \in Requirements : Accurate(r, n)' <=> Accurate(r, n)
    BY <1>0, ComputedFrame DEF vars, Accurate
  <2>2. QED
    BY <1>0, <1>n, <1>t, <2>1 DEF vars, AloneInv, Listed
<1>1. CASE ImportRun(P)
  BY <1>1, <1>go, AloneElsewhere DEF ImportRun, At
<1>2. ASSUME NEW R, NEW s, LinkResult(P, R, s) PROVE AloneInv(P)'
  BY <1>2, AloneElsewhere DEF LinkResult
<1>3. CASE ImportDone(P)
  <2>1. CASE Go(P, At("statuses", proc[P].run, req))
    BY <1>3, <1>t, <2>1, AloneLists DEF ImportDone
  <2>2. CASE Go(P, Idle)
    BY <1>go, <2>2, AloneElsewhere DEF Idle, At
  <2>3. QED
    BY <1>3, <2>1, <2>2 DEF ImportDone
<1>4. ASSUME NEW s, NEW status, SetSLO(P, s, status) PROVE AloneInv(P)'
  BY <1>4, <1>go, AloneElsewhere DEF SetSLO, At
<1>5. CASE SLOsDone(P)
  <2>1. CASE Go(P, At("slo_statuses", 0, req))
    BY <1>5, <1>t, <2>1, AloneLists DEF SLOsDone
  <2>2. CASE Go(P, Idle)
    BY <1>go, <2>2, AloneElsewhere DEF Idle, At
  <2>3. QED
    BY <1>5, <2>1, <2>2 DEF SLOsDone
<1>6. ASSUME NEW v, NEW t, NEW status, Validate(P, v, t, status) PROVE AloneInv(P)'
  BY <1>6, <1>go, AloneElsewhere DEF Validate, At
<1>7. CASE ValidationsDone(P)
  <2>1. CASE Go(P, At("statuses", 0, req))
    BY <1>7, <1>t, <2>1, AloneLists DEF ValidationsDone
  <2>2. CASE Go(P, Idle)
    BY <1>go, <2>2, AloneElsewhere DEF Idle, At
  <2>3. QED
    BY <1>7, <2>1, <2>2 DEF ValidationsDone
<1>8. CASE CheckInvariants(P)
  BY <1>8, <1>t, AloneLists DEF CheckInvariants
<1>v. ASSUME NEW r, Go(P, Visited(P, r))
      PROVE  /\ proc'[P].at = proc[P].at /\ proc'[P].run = proc[P].run
             /\ Listed(P)' = Listed(P) \ {r}
             /\ \A q \in Listed(P)' : proc'[P].rows[q] = proc[P].rows[q]
  <2>1. proc'[P] = Visited(P, r)
    BY <1>v, <1>go
  <2>2. /\ proc'[P].rows = [q \in Listed(P) \ {r} |-> proc[P].rows[q]]
        /\ proc'[P].at = proc[P].at /\ proc'[P].run = proc[P].run
    BY <1>t, <2>1, VisitedRows DEF IInv
  <2>3. QED
    BY <2>2 DEF Listed
<1>9. ASSUME NEW r \in Requirements, SaveStatus(P, r) PROVE AloneInv(P)'
  <2> DEFINE new == Computed(r, proc[P].rows[r], proc[P].run)
  <2>1. /\ proc[P].at \in {"statuses", "fixing"} /\ r \in Listed(P)
        /\ runs' = runs /\ results' = results /\ Go(P, Visited(P, r))
    BY <1>9 DEF SaveStatus
  <2>2. proc[P].rows[r] = req[r]
    BY <2>1 DEF AloneInv
  <2>3. new \in Verification
    BY <1>t, ComputedRule DEF IInv, TypeOK
  <2>4. req' = IF new # req[r].verification
               THEN [req EXCEPT ![r].verification = new] ELSE req
    BY <1>9, <2>2 DEF SaveStatus
  <2>5. new = Computed(r, req[r], n)
    BY <1>n, <2>2
  <2> HIDE DEF new
  <2>6. /\ req'[r].verification = new
        /\ req'[r].slo = req[r].slo
        /\ \A q \in Requirements \ {r} : req'[q] = req[q]
    BY <1>t, <2>3, <2>4 DEF Row
  <2>7. Accurate(r, n)'
    BY <2>1, <2>5, <2>6, ComputedFrame DEF Accurate
  <2>8. ASSUME NEW q \in Requirements \ {r}, Accurate(q, n) PROVE Accurate(q, n)'
    BY <2>1, <2>6, <2>8, ComputedFrame DEF Accurate
  <2>9. /\ proc'[P].at = proc[P].at /\ proc'[P].run = n
        /\ Listed(P)' = Listed(P) \ {r}
        /\ \A q \in Listed(P)' : proc'[P].rows[q] = proc[P].rows[q]
    BY <1>n, <1>v, <2>1
  <2>10. \A q \in Requirements \ Listed(P)' : Accurate(q, n)'
    BY <1>n, <2>1, <2>7, <2>8, <2>9 DEF AloneInv
  <2>11. \A q \in Listed(P)' : proc'[P].rows[q] = req'[q]
    BY <1>t, <2>1, <2>6, <2>9 DEF AloneInv
  <2>12. proc[P].at = "fixing" => n = Len(runs')
    BY <1>n, <2>1 DEF AloneInv
  <2>13. QED
    BY <2>1, <2>9, <2>10, <2>11, <2>12 DEF AloneInv
<1>10. ASSUME NEW r \in Requirements, SaveSLOStatus(P, r) PROVE AloneInv(P)'
  <2>1. proc[P].at = "slo_statuses" /\ Go(P, Visited(P, r)) /\ r \in Listed(P)
    BY <1>10 DEF SaveSLOStatus
  <2>2. \A q \in Requirements \ {r} : req'[q] = req[q]
    BY <1>10, <1>t DEF SaveSLOStatus
  <2>3. /\ proc'[P].at = proc[P].at
        /\ Listed(P)' = Listed(P) \ {r}
        /\ \A q \in Listed(P)' : proc'[P].rows[q] = proc[P].rows[q]
    BY <1>v, <2>1
  <2>4. \A q \in Listed(P)' : proc'[P].rows[q] = req'[q]
    BY <1>t, <2>1, <2>2, <2>3 DEF AloneInv
  <2>5. QED
    BY <2>1, <2>3, <2>4 DEF AloneInv
<1>11. ASSUME NEW r \in Requirements, SaveBreach(P, r) PROVE AloneInv(P)'
  <2>1. /\ proc[P].at = "fixing_breached" /\ Go(P, Visited(P, r)) /\ r \in Listed(P)
        /\ runs' = runs /\ results' = results
    BY <1>11 DEF SaveBreach
  <2>2. proc[P].rows[r] = req[r] /\ n = Len(runs)
    BY <1>n, <2>1 DEF AloneInv
  <2>3. req[r].verification = "failing"
    <3>1. Accurate(r, n) /\ req[r].slo = "breached"
      BY <1>n, <2>1 DEF AloneInv
    <3>2. Computed(r, req[r], n) = "failing"
      BY <1>n, <2>2, <3>1, ComputedRule DEF IInv, TypeOK
    <3>3. QED
      BY <3>1, <3>2 DEF Accurate
  <2>4. req' = req
    BY <1>11, <2>2, <2>3 DEF SaveBreach
  <2>5. /\ proc'[P].at = "fixing_breached" /\ proc'[P].run = n
        /\ Listed(P)' = Listed(P) \ {r}
        /\ \A q \in Listed(P)' : proc'[P].rows[q] = proc[P].rows[q]
    BY <1>n, <1>v, <2>1
  <2>6. \A q \in Requirements : Accurate(q, n)'
    BY <1>n, <2>1, <2>4, ComputedFrame DEF AloneInv, Accurate
  <2>7. QED
    BY <2>1, <2>2, <2>4, <2>5, <2>6 DEF AloneInv
<1>12. CASE LoopDone(P)
  <2>1. Listed(P) = {} /\ req' = req /\ runs' = runs /\ results' = results
    BY <1>12 DEF LoopDone
  <2>2. \A r \in Requirements : Accurate(r, n) => Accurate(r, n)'
    BY <2>1, ComputedFrame DEF Accurate
  <2>3. CASE proc[P].at = "statuses" /\ Go(P, [proc[P] EXCEPT !.at = "updated"])
    <3>1. proc'[P].at = "updated" /\ proc'[P].run = n
      BY <1>n, <1>t, <1>go, <2>3
    <3>2. \A r \in Requirements : Accurate(r, n)
      BY <1>n, <2>1, <2>3 DEF AloneInv
    <3>3. QED
      BY <2>2, <3>1, <3>2 DEF AloneInv
  <2>4. CASE Go(P, At("statuses", 0, req))
    BY <1>t, <2>1, <2>4, AloneLists
  <2>5. CASE Go(P, Idle)
    BY <1>go, <2>5, AloneElsewhere DEF Idle, At
  <2>6. CASE /\ proc[P].at = "fixing"
             /\ Go(P, At("fixing_breached", proc[P].run,
                         [r \in {q \in Requirements : req[q].slo = "breached"} |-> req[r]]))
    <3> DEFINE breached == {q \in Requirements : req[q].slo = "breached"}
    <3>1. /\ proc'[P].at = "fixing_breached" /\ proc'[P].run = n
          /\ proc'[P].rows = [r \in breached |-> req[r]]
      BY <1>n, <1>go, <2>6 DEF At
    <3>2. Listed(P)' = breached /\ \A r \in breached : proc'[P].rows[r] = req[r]
      BY <3>1 DEF Listed
    <3>3. (\A r \in Requirements : Accurate(r, n)) /\ n = Len(runs)
      BY <1>n, <2>1, <2>6 DEF AloneInv
    <3>4. QED
      BY <2>1, <2>2, <3>1, <3>2, <3>3 DEF AloneInv
  <2>7. CASE proc[P].at = "fixing_breached" /\ Go(P, [proc[P] EXCEPT !.at = "fixed"])
    <3>1. proc'[P].at = "fixed" /\ proc'[P].run = n
      BY <1>n, <1>t, <1>go, <2>7
    <3>2. (\A r \in Requirements : Accurate(r, n)) /\ n = Len(runs)
      BY <1>n, <2>7 DEF AloneInv
    <3>3. QED
      BY <2>1, <2>2, <3>1, <3>2 DEF AloneInv
  <2>8. QED
    BY <1>12, <2>3, <2>4, <2>5, <2>6, <2>7 DEF LoopDone
<1>13. CASE Crash(P)
  BY <1>13, <1>go, AloneElsewhere DEF Crash, Idle, At
<1>14. QED
  BY <1>0, <1>1, <1>2, <1>3, <1>4, <1>5, <1>6, <1>7, <1>8, <1>9, <1>10, <1>11, <1>12, <1>13
     DEF Next, Evidence, Loop

\* What the only process leaves behind is accurate, and so satisfies INV-A
\* and INV-B.
LEMMA AloneMeans ==
    ASSUME NEW P, Processes = {P}, IInv, AloneInv(P)
    PROVE  UpdatedStatusIsComputed /\ FixRestoresInvariants
<1>1. ASSUME proc[P].at \in {"updated", "fixed"}, NEW r \in Requirements
      PROVE  /\ req[r].verification = Computed(r, req[r], proc[P].run)
             /\ req[r].slo = "breached" => req[r].verification = "failing"
  <2>1. Accurate(r, proc[P].run)
    BY <1>1 DEF AloneInv
  <2>2. proc[P].run \in Nat /\ proc[P].run <= Len(runs)
    BY DEF IInv, TypeOK
  <2>3. req[r].slo = "breached" => Computed(r, req[r], proc[P].run) = "failing"
    BY <2>2, ComputedRule DEF IInv
  <2>4. QED
    BY <2>1, <2>3 DEF Accurate
<1>2. proc[P].at = "fixed" => proc[P].run = Len(runs)
  BY DEF AloneInv
<1>3. QED
  BY <1>1, <1>2 DEF UpdatedStatusIsComputed, FixRestoresInvariants

\* For the only process, both invariants hold in every state.
LEMMA AloneInvariance ==
    ASSUME NEW CONSTANT P, Processes = {P}
    PROVE  Spec => [](UpdatedStatusIsComputed /\ FixRestoresInvariants)
<1>1. Init => AloneInv(P)
  BY DEF Init, Idle, At, AloneInv
<1>2. IInv /\ AloneInv(P) /\ [Next]_vars => AloneInv(P)'
  BY AloneNext
<1>3. IInv /\ AloneInv(P) => UpdatedStatusIsComputed /\ FixRestoresInvariants
  BY AloneMeans
<1>4. QED
  BY <1>1, <1>2, <1>3, Invariance, PTL DEF Spec

\* update_all_verification_statuses, undisturbed, makes every stored status the
\* computed one.
THEOREM UpdateIsAccurate ==
    ASSUME NEW CONSTANT P, Processes = {P}
    PROVE  Spec => []UpdatedStatusIsComputed
BY AloneInvariance, PTL

\* check_invariants --fix, undisturbed, restores INV-A and INV-B together.
THEOREM FixIsAccurate ==
    ASSUME NEW CONSTANT P, Processes = {P}
    PROVE  Spec => []FixRestoresInvariants
BY AloneInvariance, PTL

\* save(update_fields=[...]) of one status never writes the other back: with
\* any number of processes, slo_status changes in update_all_slo_statuses only.
THEOREM OneWriterOfSLOStatus == Spec => SLOStatusHasOneWriter
<1> DEFINE Written(r) == \E p \in Processes :
             proc[p].at = "slo_statuses" /\ r \in Listed(p) \ Listed(p)'
           OneWriter == \A r \in Requirements : req'[r].slo # req[r].slo => Written(r)
<1>1. ASSUME IInv, Next PROVE OneWriter
  <2> SUFFICES ASSUME NEW r \in Requirements, req'[r].slo # req[r].slo
               PROVE  Written(r)
    OBVIOUS
  <2>t. req \in [Requirements -> Row] /\ req' # req
    BY <1>1 DEF IInv, TypeOK
  <2>1. PICK p \in Processes : Evidence(p) \/ CheckInvariants(p) \/ Loop(p) \/ Crash(p)
    BY <1>1 DEF Next
  <2>2. Loop(p) /\ ~LoopDone(p)
    BY <2>1, <2>t DEF Evidence, ImportRun, LinkResult, ImportDone, SetSLO, SLOsDone,
       Validate, ValidationsDone, CheckInvariants, Crash, LoopDone
  <2>3. PICK q \in Requirements : SaveStatus(p, q) \/ SaveSLOStatus(p, q) \/ SaveBreach(p, q)
    BY <2>2 DEF Loop
  <2>4. CASE SaveStatus(p, q) \/ SaveBreach(p, q)
    <3>1. \E v : req' = [req EXCEPT ![q].verification = v]
      BY <2>4, <2>t DEF SaveStatus, SaveBreach
    <3>2. req'[r].slo = req[r].slo
      BY <2>t, <3>1 DEF Row
    <3>3. QED
      BY <3>2
  <2>5. CASE SaveSLOStatus(p, q)
    <3>1. r = q
      BY <2>5, <2>t DEF SaveSLOStatus
    <3>2. /\ proc[p].at = "slo_statuses" /\ r \in Listed(p)
          /\ Go(p, Visited(p, r))
      BY <2>5, <3>1 DEF SaveSLOStatus
    <3>3. proc'[p] = Visited(p, r)
      BY <1>1, <3>2 DEF Go, IInv, TypeOK
    <3>4. proc'[p].rows = [x \in Listed(p) \ {r} |-> proc[p].rows[x]]
      BY <1>1, <3>3, VisitedRows DEF IInv
    <3>5. r \notin Listed(p)'
      BY <3>4 DEF Listed
    <3>6. QED
      BY <3>2, <3>5
  <2>6. QED
    BY <2>3, <2>4, <2>5
<1>2. IInv /\ [Next]_vars => [OneWriter]_req
  BY <1>1 DEF vars
<1>3. QED
  BY <1>2, Invariance, PTL DEF Spec, SLOStatusHasOneWriter
=============================================================================

----------------------------- MODULE MCConflicts -----------------------------
EXTENDS TestReports
CONSTANTS t1, t2, l1, l2, q1, q2

\* One link for each test; two links of the one test if there is one only.
MCTestOf == [l \in Links |-> IF l = l2 /\ t2 \in Tests THEN t2 ELSE t1]

\* A run in which the first test passed and no other was run, and one in
\* which it is the only one that failed.
MCReports ==
    {[t \in Tests |-> IF t = t1 THEN "passed" ELSE "absent"],
     [t \in Tests |-> IF t = t1 THEN "error" ELSE "passed"]}

MCRequirementOf == [l \in Links |-> IF l = l2 THEN q2 ELSE q1]

\* The two requirements differ in time by a factor of 4; they compare no common
\* variable and share a word of their responses, but no more.
MCFields == [r \in Requirements |->
    [component |-> "lock",
     condition |-> [words |-> {"battery", IF r = q1 THEN "low" ELSE "full"},
                    variables |-> IF r = q1 THEN {"battery"} ELSE {},
                    thresholds |-> IF r = q1 THEN {20} ELSE {}],
     timing    |-> IF r = q1 THEN 2000 ELSE 500,
     response  |-> [words |-> {IF r = q1 THEN "show" ELSE "raise", "warning"},
                    parts |-> IF r = q1 THEN {"show"} ELSE {}]]]
MCReportOptions == {{"comments", "labels"}, {"labels", "closed"}}
MCAntonyms == {<<"show", "hide">>, <<"lock", "unlock">>}
=============================================================================

-------------------------- MODULE MCWebhookIngestion --------------------------
EXTENDS WebhookFetch, TLC
CONSTANTS t1, t2, l1, l2

\* One link for each test; two links of the one test if there is one only.
MCTestOf == [l \in Links |-> IF l = l2 /\ t2 \in Tests THEN t2 ELSE t1]

\* A run in which the first test passed and no other was run, and one in
\* which it is the only one that failed.
MCReports ==
    {[t \in Tests |-> IF t = t1 THEN "passed" ELSE "absent"],
     [t \in Tests |-> IF t = t1 THEN "error" ELSE "passed"]}

\* One payload that is fetched for, and one for each way to be turned down.
MCPayloads ==
    LET run == [type |-> "workflow_run", action |-> "completed",
                installation |-> TRUE, conclusion |-> "failure"]
    IN {run, [run EXCEPT !.action = "requested"], [run EXCEPT !.installation = FALSE],
        [run EXCEPT !.conclusion = "cancelled"]}

MCArtifact(artifactName, isExpired, holds, passes) ==
    [name |-> artifactName, expired |-> isExpired, content |-> holds,
     report |-> CHOOSE report \in MCReports : (report[t1] = "passed") <=> passes]

\* With pages of two: the results on the first page or behind an expired
\* artifact on the next page, only expired ones, and the files that cannot be
\* used.
MCListings ==
    LET good(passes) == MCArtifact("test-results", FALSE, "results", passes)
        old          == MCArtifact("test-results", TRUE, "results", FALSE)
        other        == MCArtifact("other", FALSE, "results", FALSE)
        bad(holds)   == MCArtifact("test-results", FALSE, holds, TRUE)
    IN {<<good(TRUE), good(FALSE)>>, <<old, other, good(TRUE)>>, <<old, other>>}
         \cup {<<bad(holds)>> : holds \in {"no junit", "broken"}}

ProcessSymmetry == Permutations(Processes)
=============================================================================

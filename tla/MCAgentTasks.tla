---------------------------- MODULE MCAgentTasks ----------------------------
EXTENDS TaskChecks, TLC
CONSTANTS t1, t2

\* t2 builds on t1.
MCDependsOn == [t \in Tasks |-> IF t = t2 THEN {t1} ELSE {}]

\* Tasks without dependencies, for the runs with one task.
MCNoDependencies == [t \in Tasks |-> {}]

AgentSymmetry == Permutations(Agents)
=============================================================================

--------------------------- MODULE MCAgentTasksRC ---------------------------
EXTENDS AgentTasksRC, TLC

CONSTANT MaxReviews    \* bound of the runs on the reviews a task collects

MCNoDependencies == [t \in Tasks |-> {}]

WorkerSymmetry == Permutations(Workers)

\* Lost updates let a task collect reviews without end.
ReviewBound == \A t \in Tasks : Len(reviews[t]) <= MaxReviews
=============================================================================

------------------------ MODULE MCVerificationStatus ------------------------
EXTENDS VerificationStatus, TLC
CONSTANTS q1, q2, s1, v1

\* q1 is verified by tests and validations, q2 by whatever there is; one SLO
\* is linked to both, one validation belongs to q1, or to q2 when it is alone.
MCMethodOf == [r \in Requirements |-> IF r = q1 THEN "both" ELSE "unspecified"]
MCSLOsOf == [r \in Requirements |-> SLOs]
MCRequirementOf == [v \in Validations |-> IF q1 \in Requirements THEN q1 ELSE q2]

ProcessSymmetry == Permutations(Processes)
=============================================================================

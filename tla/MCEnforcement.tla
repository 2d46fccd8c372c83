---------------------------- MODULE MCEnforcement ----------------------------
EXTENDS EnforcementReports, TLC

CONSTANTS b1, b2, r1, r0

\* "" is a name or a vendor that a submission leaves out.  The environment and
\* the caller overrule flags of the settings.
Reported == [name |-> "a", vendor |-> "v", flags |-> [old |-> FALSE, beta |-> TRUE]]
Bare     == [name |-> "",  vendor |-> "",  flags |-> <<>>]
NoFlags  == [django |-> <<>>, env |-> <<>>, model |-> <<>>, provided |-> <<>>]
Flags    == [django |-> [old |-> TRUE], env |-> [old |-> FALSE, beta |-> FALSE],
             model |-> <<>>, provided |-> [beta |-> TRUE]]
MCProfiles    == {Reported, Bare}
MCFlagSources == {Flags, NoFlags}

\* Two blocks on one requirement.
MCChecksOf == [b \in Blocks |->
    {IF b = b1 THEN [req |-> r1, profile |-> Reported, sources |-> Flags]
     ELSE [req |-> r1, profile |-> Bare, sources |-> NoFlags]}]

\* The first block has steps, the other one none; each may raise.
MCBodies == [b \in Blocks |->
    IF b = b1 THEN {[steps |-> <<TRUE, FALSE>>, raised |-> FALSE], [steps |-> <<TRUE>>, raised |-> TRUE]}
    ELSE [steps : {<<>>}, raised : BOOLEAN]]

\* A file without validations, and one with two entries of one validation, of
\* which the last has no checked_at.
MCBatches ==
    LET entry(r, s, t) == [req |-> r, profile |-> Reported, status |-> s, steps |-> <<>>,
                           at |-> t]
    IN {<<>>, <<entry(r0, "success", 1), entry(r1, "success", 1), entry(r1, "degraded", 0)>>}
=============================================================================

------------------------------ MODULE TaskBoard ------------------------------
(***************************************************************************)
(* What the blackboard promises the agents that use it, without leases,    *)
(* roles, history rows or attempts: a task is held by one agent at a time, *)
(* an agent holds one task at a time, work starts only on top of landed    *)
(* work, and nothing lands that somebody else has not accepted.            *)
(***************************************************************************)
CONSTANTS Tasks, Agents, NoAgent, DependsOn

VARIABLES
    phase,      \* where the task is
    holder,     \* whose work it is, from the moment it is taken
    acceptedBy  \* who accepted the work

boardVars == <<phase, holder, acceptedBy>>

Phase == {"waiting", "held", "submitted", "returned", "accepted", "landed", "dropped"}

Init ==
    /\ phase      = [t \in Tasks |-> "waiting"]
    /\ holder     = [t \in Tasks |-> NoAgent]
    /\ acceptedBy = [t \in Tasks |-> NoAgent]

Holds(a) == {t \in Tasks : phase[t] = "held" /\ holder[t] = a}

Take(t, a) ==
    /\ phase[t] = "waiting"
    /\ Holds(a) = {}
    /\ \A d \in DependsOn[t] : phase[d] = "landed"
    /\ phase'  = [phase EXCEPT ![t] = "held"]
    /\ holder' = [holder EXCEPT ![t] = a]
    /\ UNCHANGED acceptedBy

GiveBack(t) ==
    /\ phase[t] = "held"
    /\ phase'  = [phase EXCEPT ![t] = "waiting"]
    /\ holder' = [holder EXCEPT ![t] = NoAgent]
    /\ UNCHANGED acceptedBy

HandIn(t) ==
    /\ phase[t] \in {"held", "returned"}
    /\ phase' = [phase EXCEPT ![t] = "submitted"]
    /\ UNCHANGED <<holder, acceptedBy>>

Return(t) ==
    /\ phase[t] = "submitted"
    /\ phase' = [phase EXCEPT ![t] = "returned"]
    /\ UNCHANGED <<holder, acceptedBy>>

Accept(t, a) ==
    /\ phase[t] = "submitted"
    /\ a # holder[t]
    /\ phase'      = [phase EXCEPT ![t] = "accepted"]
    /\ acceptedBy' = [acceptedBy EXCEPT ![t] = a]
    /\ UNCHANGED holder

Land(t) ==
    /\ phase[t] = "accepted"
    /\ phase' = [phase EXCEPT ![t] = "landed"]
    /\ UNCHANGED <<holder, acceptedBy>>

Drop(t) ==
    /\ phase[t] \in {"waiting", "submitted", "returned"}
    /\ phase'  = [phase EXCEPT ![t] = "dropped"]
    /\ holder' = [holder EXCEPT ![t] = NoAgent]
    /\ UNCHANGED acceptedBy

Next ==
    \E t \in Tasks :
        \/ \E a \in Agents : Take(t, a) \/ Accept(t, a)
        \/ GiveBack(t) \/ HandIn(t) \/ Return(t) \/ Land(t) \/ Drop(t)

Spec == Init /\ [][Next]_boardVars
==============================================================================

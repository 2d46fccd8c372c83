------------------------------- MODULE MCCorpus -------------------------------
EXTENDS Corpus

CONSTANTS a1, a2, b1, r1, x, y

MCScope == [c \in Contents |-> {r1}]
MCFailing == [c \in Contents |-> IF c = a2 THEN {r1} ELSE {}]
MCConflicting == {{a2, b1}}
MCChecksOf == [c \in Contents |-> CASE c = a1 -> {x} [] c = a2 -> {y} [] c = b1 -> {}]
MCRenamedFrom == [c \in Contents |-> IF c = a2 THEN {x} ELSE {}]

File(e, n, c, target) ==
    [entry |-> e, number |-> n, content |-> c, status |-> "active",
     supersedes |-> target, retired |-> {}]

\* Entry 1 has two versions.  The second renames the check of the first; a
\* draft of it drops the check silently.  Entry 2 supersedes version 1 of
\* entry 1.
First  == File(1, 1, a1, None)
Second == File(1, 2, a2, None)
Draft  == File(1, 2, b1, None)
Successor(target) == File(2, 1, b1, target)

MCFiles == {First, Second, Draft, Successor(<<1, 1>>)}
MCCheckouts == {{Second}, {Draft}, {First, Successor(<<1, 1>>)}}
MCCitations == {{<<1, 1>>}, {<<1, 2>>, <<2, 1>>}}
=============================================================================

------------------------------ MODULE MCSpecGraph ------------------------------
EXTENDS FlowFiles, TLC

CONSTANTS pa, pb, t1, t2, k1, k2, y1, y2, e1, e2, fa, fb

File(kind, ids, parent, deps, risk) ==
    [kind |-> kind, ids |-> ids, parent |-> parent, deps |-> deps, status |-> "active", risk |-> risk]

\* Project A: two issues; then a file whose requirement sorts first, sits under
\* the second one and closes a dependency cycle with the others.
\* Project B: a file that does not parse, one that depends on project A, one
\* with the id of a requirement that project A may have, and one with a
\* misspelt risk level.
MCDirectories == [p \in Processes |->
    IF p = pa
    THEN {<<File("issue", <<2>>, 0, {}, ""), File("issue", <<3>>, 2, {}, "")>>,
          <<File("single", <<1>>, 3, {2, 9}, ""), File("multi", <<2, 3>>, 0, {1}, "high")>>}
    ELSE {<<File("bad", <<>>, 0, {}, ""), File("single", <<4>>, 0, {3}, "critical"),
            File("single", <<2>>, 4, {4}, ""), File("single", <<5>>, 4, {}, "severe")>>}]
MCProjectOf == [p \in Processes |-> IF p = pa THEN "A" ELSE "B"]
MCLinkFiles == {{<<t1, 2>>, <<t2, 2>>, <<t2, 3>>}}
MCOutcomes  == {[t \in {t1} |-> "failed"]}

\* Two tasks, whose scopes overlap.
MCTaskReqs  == [k \in Tasks |-> IF k = k1 THEN {1} ELSE {2}]
MCTaskScope == [k \in Tasks |-> IF k = k1 THEN {<<"src">>} ELSE {<<"src", "auth">>}]

\* A parent and its child; then a file before the child's that goes below it.
MCNestedDirectories == [p \in Processes |->
    {<<File("single", <<1>>, 0, {}, ""), File("single", <<3>>, 1, {}, "")>>,
     <<File("single", <<1>>, 0, {}, ""), File("single", <<2>>, 3, {}, ""),
       File("single", <<3>>, 1, {}, "")>>}]

\* The history of project A: five files in a ring of co-changes, of which one
\* pair has come together twice only.
a(n) == <<"path", n>>
Together(m, n, times) == [k \in 1 .. times |-> [root |-> "ka", day |-> 10 * k, files |-> {a(m), a(n)}]]
MCHistory == Together(11, 12, 3) \o Together(12, 13, 3) \o Together(13, 14, 3)
                \o Together(14, 15, 3) \o Together(11, 15, 2)

\* Project B has declared the table that project A publishes.
On(project, surface)    == [project |-> project, surface |-> surface]
Surface(origin, fields)   == [origin |-> origin, fields |-> fields]
Mapped(reqs, deps)      == [reqs |-> reqs, deps |-> deps, inferred |-> {}]
Table   == <<"path", 18>>
Tool    == <<"cli", 19>>
MCRoots == <<"ka", "kb">>
MCNames == [r \in {"ka", "kb"} |-> IF r = "ka" THEN "A" ELSE "B"]
MCMaps  == [r \in {"ka", "kb"} |->
              IF r = "ka" THEN [project |-> "A", modules |-> a(12) :> Mapped({1}, {})]
              ELSE [project |-> "B", modules |-> a(21) :> Mapped({4}, {On("A", Table)})]]
MCSurfaces == [r \in {"ka", "kb"} |->
                 IF r = "ka" THEN Table :> Surface(a(14), {"id"}) @@ Tool :> Surface(NoOrigin, {})
                 ELSE <<>>]

\* A third commit of the pair adds a column; another takes the table away.
MCEdits == {[root |-> "ka", day |-> 30, files |-> {a(11), a(15)},
             surfaces |-> [MCSurfaces["ka"] EXCEPT ![Table].fields = {"id", "name"}]],
            [root |-> "ka", day |-> 70, files |-> {a(11), Pyproject},
             surfaces |-> Tool :> Surface(NoOrigin, {})]}
MCPromotions   == {[root |-> "ka", file |-> a(15), req |-> 2]}
MCDeclarations == {[root |-> "kb", file |-> a(21), on |-> On("C", Table)],
                   [root |-> "ka", file |-> a(12), on |-> On("", Table)]}
Changed(A, B)  == [r \in {"ka", "kb"} |-> IF r = "ka" THEN A ELSE B]
MCDiffs        == {Changed({a(11)}, {}), Changed({Pyproject, a(18)}, {}), Changed({}, {a(21)})}

\* Two files: a flow, and one of the same id and another of whose steps the
\* second has no handler yet.
Step(type)      == "name" :> "check" @@ "display_name" :> "Check" @@ "type" :> type
Flow(id, steps) == "id" :> id @@ "title" :> "A flow" @@ "steps" :> steps
MCFlowPaths == <<y1, y2>>
MCFlowDocs  == y1 :> (Flow(fa, <<Step("wait")>>) @@ "requirements" :> <<2, 3>>)
               @@ y2 :> Flow(fa, <<Step("wait"), Step("api_call")>>)
MCFormEdits == {"id" :> fb @@ "requirements" :> <<2>>, "steps" :> <<Step("handler")>>}
Part(key, values) == {<<>>} \cup {key :> value : value \in values}
MCDocuments == {doc @@ title @@ steps @@ reqs :
                  doc   \in Part("id", {fa, fb}), title \in Part("title", {"A flow"}),
                  steps \in Part("steps", {<<Step("wait")>>, <<Step("wait"), Step("api_call")>>,
                                          <<Step("handler")>>}),
                  reqs  \in Part("requirements", {<<2, 3>>, <<2>>})}
MCFixtures   == <<"database", "user">>
MCAssertions == <<"assert_id", "assert_status">>
=============================================================================

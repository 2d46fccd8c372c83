-------------------------------- MODULE Scenarios -------------------------------
(***************************************************************************)
(* One Scenario.run of spectrace_flows: fixtures are set up in order, the  *)
(* scenario is prepared and executed, its assertions are checked, and      *)
(* whatever was set up is torn down again.  Everything but the bookkeeping *)
(* is code of the scenario's author, which may raise.                      *)
(***************************************************************************)
EXTENDS Naturals, Sequences

CONSTANTS
    Fixtures,     \* the fixture classes, in order
    Assertions    \* the assert_* methods, in alphabetical order

ASSUME ScenarioAssumption == Fixtures \in Seq(STRING) /\ Assertions \in Seq(STRING)

VARIABLE scenario    \* where run is, and the calls that it has made

\* How a call of the author's code ends.
Endings == {"returned", "raised"}

\* log are the calls made, with how they ended; ready is fixtures_ready, error is
\* catastrophic_error, checks are the outcomes of the assertions so far.
NoScenario == [at |-> "fixtures", ready |-> 0, error |-> "none", checks |-> <<>>,
               torn |-> 0, log |-> <<>>]

ScenarioInit == scenario = NoScenario

Call(name, ending) == Append(scenario.log, [name |-> name, ending |-> ending])

\* Where run goes on, unless the call raised.
GoesOn(ending, at) == IF ending = "returned" THEN at ELSE "ending"
Error(ending)      == IF ending = "returned" THEN "none" ELSE "raised"

\* Fixture.setup; the first that raises ends the phase.
SetUpFixture(ending) ==
    /\ scenario.at = "fixtures" /\ scenario.ready < Len(Fixtures)
    /\ scenario' = [scenario EXCEPT !.ready = IF ending = "returned" THEN @ + 1 ELSE @,
                                    !.error = Error(ending), !.at = GoesOn(ending, "fixtures"),
                                    !.log = Call(Fixtures[scenario.ready + 1], ending)]

\* setup, then execute.
SetUp(ending) ==
    /\ scenario.at = "fixtures" /\ scenario.ready = Len(Fixtures)
    /\ scenario' = [scenario EXCEPT !.at = GoesOn(ending, "executing"),
                                    !.error = Error(ending), !.log = Call("setup", ending)]

PerformAction(ending) ==
    /\ scenario.at = "executing"
    /\ scenario' = [scenario EXCEPT !.at = GoesOn(ending, "checking"),
                                    !.error = Error(ending), !.log = Call("execute", ending)]

\* One assert_* method: a check that did not pass, something that is no check
\* and an exception all count as a failure.
Check(outcome) ==
    /\ scenario.at = "checking" /\ Len(scenario.checks) < Len(Assertions)
    /\ scenario' = [scenario EXCEPT
                      !.checks = Append(@, IF outcome = "passed" THEN "passed" ELSE "failed"),
                      !.log = Call(Assertions[Len(scenario.checks) + 1],
                                   IF outcome = "raised" THEN "raised" ELSE "returned")]

EndChecks ==
    /\ scenario.at = "checking" /\ Len(scenario.checks) = Len(Assertions)
    /\ scenario' = [scenario EXCEPT !.at = "ending"]

\* teardown, of which an exception is swallowed.
TearDown(ending) ==
    /\ scenario.at = "ending"
    /\ scenario' = [scenario EXCEPT !.at = "releasing", !.log = Call("teardown", ending)]

\* Faulty variant of FixtureToRelease: the order of the set-up.
FixtureToReleaseInOrder == scenario.torn + 1

\* reversed(fixture_instances[:fixtures_ready])
FixtureToRelease == scenario.ready - scenario.torn

TearDownFixture(ending) ==
    /\ scenario.at = "releasing" /\ scenario.torn < scenario.ready
    /\ scenario' = [scenario EXCEPT !.torn = @ + 1,
                                    !.log = Call(Fixtures[FixtureToRelease], ending)]

\* The result: passed unless something raised or an assertion failed.
Finish ==
    /\ scenario.at = "releasing" /\ scenario.torn = scenario.ready
    /\ scenario' = [scenario EXCEPT
                      !.at = IF /\ scenario.error = "none"
                                /\ \A n \in DOMAIN scenario.checks : scenario.checks[n] = "passed"
                             THEN "passed" ELSE "failed"]

\* What is no Exception, an interrupt or an exit, leaves run at once, with
\* whatever was set up; so does a fixture class that cannot be constructed.
Interrupt ==
    /\ scenario.at \notin {"passed", "failed", "interrupted"}
    /\ scenario' = [scenario EXCEPT !.at = "interrupted"]

RunScenario ==
    \/ \E ending \in Endings : SetUpFixture(ending)
    \/ \E ending \in Endings : SetUp(ending)
    \/ \E ending \in Endings : PerformAction(ending)
    \/ \E outcome \in {"passed", "failed", "raised", "other"} : Check(outcome)
    \/ EndChecks
    \/ \E ending \in Endings : TearDown(ending)
    \/ \E ending \in Endings : TearDownFixture(ending)
    \/ Finish
    \/ Interrupt

ScenarioSpec == ScenarioInit /\ [][RunScenario]_scenario

-----------------------------------------------------------------------------
\* A run makes its calls in order: end is where teardown was called.  Of the
\* calls before it, the first n are the fixtures that were set up; the next, if
\* there is one, raised and was the last.  After it come those n, last first.
Body == Fixtures \o <<"setup", "execute">> \o Assertions

CleansUp(n, end) ==
    LET name(k)     == scenario.log[k].name
        returned(k) == scenario.log[k].ending = "returned"
    IN /\ name(end) = "teardown"
       /\ end - 1 <= Len(Body) /\ \A k \in 1 .. end - 1 : name(k) = Body[k]
       /\ n < end /\ \A k \in 1 .. n : returned(k)
       /\ n < Len(Fixtures) => end = n + 2 /\ ~returned(n + 1)
       /\ Len(scenario.log) = end + n /\ \A k \in 1 .. n : name(end + k) = Fixtures[n + 1 - k]
       /\ scenario.at = "passed" => end - 1 = Len(Body) /\ \A k \in 1 .. end - 1 : returned(k)
       /\ scenario.at = "failed" => \/ \E k \in 1 .. end - 1 : ~returned(k)
                                   \/ \E k \in DOMAIN scenario.checks : scenario.checks[k] = "failed"

\* A scenario that was not interrupted has torn down itself and then every
\* fixture that was set up, and no other, last first, whatever raised before or
\* during that; it passed only if every phase and every assertion was gone
\* through, and fails only if one of them went wrong.
ScenariosCleanUp ==
    scenario.at \in {"passed", "failed"} =>
        \E n \in 0 .. Len(Fixtures), end \in DOMAIN scenario.log : CleansUp(n, end)
=============================================================================

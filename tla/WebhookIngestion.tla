--------------------------- MODULE WebhookIngestion ---------------------------
(***************************************************************************)
(* How test results arrive: deliveries of the GitHub webhook, which may    *)
(* come twice, import_results, import_test_links and the INV-E fix of      *)
(* check_invariants.  They write WebhookEvent, TestRun, TestResult and     *)
(* TestRequirementLink rows one at a time, outside any transaction.        *)
(***************************************************************************)
EXTENDS Naturals, Sequences

CONSTANTS
    Deliveries,      \* X-GitHub-Delivery ids
    NoDelivery,      \* what runs of import_results came with
    Tests,
    Links, TestOf,   \* test-requirement pairs and the test of each
    Reports,         \* contents of junit.xml: statuses of the tests in it
    Processes,       \* concurrent requests and commands
    MaxRuns          \* bound on the test runs

EventStatus  == {"received", "processing", "success", "failed", "skipped"}
ResultStatus == {"passed", "failed", "error", "skipped"}
Failing      == {"failed", "error"}

\* A report, or the TestResult rows of a run: the status of each test.
Results == [Tests -> ResultStatus \cup {"absent"}]

ASSUME WebhookAssumption ==
    /\ NoDelivery \notin Deliveries
    /\ TestOf \in [Links -> Tests]
    /\ Reports \subseteq Results
    /\ MaxRuns \in Nat

VARIABLES
    event,   \* WebhookEvent row of each delivery
    runs,    \* TestRun rows with their results, oldest first
    link,    \* TestRequirementLink rows
    proc     \* the local state of each process

vars == <<event, runs, link, proc>>

\* run is 0 where the row refers to none; processed: processed_at is set.
EventRow == [status : EventStatus, run : Nat, processed : BOOLEAN]
NoEvent  == [status |-> "none", run |-> 0, processed |-> FALSE]

RunRow == [delivery : Deliveries \cup {NoDelivery}, results : Results,
           finished : BOOLEAN, linked : SUBSET Tests]

\* last_status; last_run_at, by the run it was taken from; needs_review.
LinkRow == [status : ResultStatus \cup {"unknown"}, run : 0 .. MaxRuns, review : BOOLEAN]
NoLink  == [status |-> "none", run |-> 0, review |-> FALSE]
NewLink == [status |-> "unknown", run |-> 0, review |-> FALSE]

NoResults == [t \in Tests |-> "absent"]
NoRows    == [l \in {} |-> NewLink]

\* rows: the links that a loop has still to visit, as they were listed.
At(where, d, n, report, listed) ==
    [at |-> where, delivery |-> d, run |-> n, report |-> report, rows |-> listed]

Idle == At("idle", NoDelivery, 0, NoResults, NoRows)

Init ==
    /\ event = [d \in Deliveries |-> NoEvent]
    /\ runs  = <<>>
    /\ link  = [l \in Links |-> NoLink]
    /\ proc  = [p \in Processes |-> Idle]

Go(p, state) == proc' = [proc EXCEPT ![p] = state]
GoTo(p, where) == Go(p, [proc[p] EXCEPT !.at = where])

\* The states of a process inside the try block of github_webhook.
Handling(p) ==
    /\ proc[p].at \in {"processing", "importing", "linking", "updating"}
    /\ proc[p].delivery # NoDelivery

\* The last save of the event by github_webhook.
EndEvent(p, status, n) ==
    /\ event' = [event EXCEPT ![proc[p].delivery] =
                   [status |-> status, run |-> n, processed |-> TRUE]]
    /\ Go(p, Idle)

-----------------------------------------------------------------------------
\* Faulty variant of Receive: an unprocessed event is taken up again.
ReceiveUnprocessed(p, d) ==
    /\ proc[p].at = "idle"
    /\ ~event[d].processed
    /\ event' = [event EXCEPT ![d] = [NoEvent EXCEPT !.status = "received"]]
    /\ Go(p, At("received", d, 0, NoResults, NoRows))
    /\ UNCHANGED <<runs, link>>

\* github_webhook, down to get_or_create.  A delivery that has its event
\* already is answered "duplicate", whatever became of the event.
Receive(p, d) ==
    /\ proc[p].at = "idle"
    /\ event[d] = NoEvent
    /\ event' = [event EXCEPT ![d] = [NoEvent EXCEPT !.status = "received"]]
    /\ Go(p, At("received", d, 0, NoResults, NoRows))
    /\ UNCHANGED <<runs, link>>

\* Faulty variant of Triage: what is skipped is not recorded as such.
TriageUnrecorded(p) ==
    /\ proc[p].at = "received"
    /\ \/ Go(p, Idle) /\ UNCHANGED event
       \/ EndEvent(p, "failed", 0)
       \/ /\ event' = [event EXCEPT ![proc[p].delivery].status = "processing"]
          /\ GoTo(p, "processing")
    /\ UNCHANGED <<runs, link>>

\* Only workflow_run.completed events of an installation are processed.
Triage(p) ==
    /\ proc[p].at = "received"
    /\ \/ EndEvent(p, "skipped", 0)
       \/ EndEvent(p, "failed", 0)
       \/ /\ event' = [event EXCEPT ![proc[p].delivery].status = "processing"]
          /\ GoTo(p, "processing")
    /\ UNCHANGED <<runs, link>>

\* process_workflow_run returns None: another conclusion than success or
\* failure, no artifact, or no junit.xml in it.
NothingToImport(p) ==
    /\ proc[p].at = "processing"
    /\ EndEvent(p, "success", 0)
    /\ UNCHANGED <<runs, link>>

\* import_junit_xml and import_junit_from_bytes, once the file is parsed.
CreateRun(p, report) ==
    /\ proc[p].at \in {"idle", "processing"}
    /\ Len(runs) < MaxRuns
    /\ runs' = Append(runs, [delivery |-> proc[p].delivery, results |-> NoResults,
                             finished |-> FALSE, linked |-> {}])
    /\ Go(p, At("importing", proc[p].delivery, Len(runs) + 1, report, NoRows))
    /\ UNCHANGED <<event, link>>

AddResult(p, t) ==
    LET n == proc[p].run IN
    /\ proc[p].at = "importing"
    /\ runs[n].results[t] # proc[p].report[t]
    /\ runs' = [runs EXCEPT ![n].results[t] = proc[p].report[t]]
    /\ UNCHANGED <<event, link, proc>>

FinishRun(p) ==
    /\ proc[p].at = "importing"
    /\ runs[proc[p].run].results = proc[p].report
    /\ runs' = [runs EXCEPT ![proc[p].run].finished = TRUE]
    /\ GoTo(p, "linking")
    /\ UNCHANGED <<event, link>>

\* link_results_to_requirements: the requirements of one result.
LinkResult(p, t) ==
    LET n == proc[p].run IN
    /\ proc[p].at = "linking"
    /\ runs[n].results[t] # "absent" /\ t \notin runs[n].linked
    /\ runs' = [runs EXCEPT ![n].linked = @ \cup {t}]
    /\ UNCHANGED <<event, link, proc>>

Existing == {l \in Links : link[l] # NoLink}

\* update_test_requirement_links lists the links: whatever results came to
\* be linked, as the webhook handler swallows the errors of linking.
ListLinks(p) ==
    /\ proc[p].at = "linking"
    /\ Go(p, [proc[p] EXCEPT !.at = "updating", !.rows = [l \in Existing |-> link[l]]])
    /\ UNCHANGED <<event, runs, link>>

Listed(p) == DOMAIN proc[p].rows

Visited(p, l) ==
    [proc[p] EXCEPT !.rows = [m \in Listed(p) \ {l} |-> proc[p].rows[m]]]

\* Faulty variant of UpdatedLink: an error is not taken for a regression.
UpdatedLinkFailuresOnly(row, n, status) ==
    [status |-> status, run |-> n,
     review |-> row.review \/ (row.status = "passed" /\ status = "failed")]

\* Faulty variant of UpdatedLink: last_run_at is set once.
UpdatedLinkFirstRun(row, n, status) ==
    [status |-> status, run |-> IF row.run = 0 THEN n ELSE row.run,
     review |-> row.review \/ (row.status = "passed" /\ status \in Failing)]

\* The row that a listed link is saved with, given the result of its test.
UpdatedLink(row, n, status) ==
    [status |-> status, run |-> n,
     review |-> row.review \/ (row.status = "passed" /\ status \in Failing)]

\* One round of the loop: the whole row is saved as it was listed, but for
\* the fields updated here.
UpdateLink(p, l) ==
    /\ proc[p].at = "updating"
    /\ l \in Listed(p)
    /\ LET n == proc[p].run
           status == runs[n].results[TestOf[l]]
       IN link' = IF status = "absent" THEN link
                  ELSE [link EXCEPT ![l] = UpdatedLink(proc[p].rows[l], n, status)]
    /\ Go(p, Visited(p, l))
    /\ UNCHANGED <<event, runs>>

\* The import is complete, and the event with it.
ImportDone(p) ==
    /\ proc[p].at = "updating"
    /\ Listed(p) = {}
    /\ IF proc[p].delivery # NoDelivery THEN EndEvent(p, "success", proc[p].run)
       ELSE Go(p, Idle) /\ UNCHANGED event
    /\ UNCHANGED <<runs, link>>

\* An exception inside the try block: what was written stays.
HandlerFails(p) ==
    /\ Handling(p)
    /\ EndEvent(p, "failed", 0)
    /\ UNCHANGED <<runs, link>>

\* PyJWT is not installed: the event is put back to RECEIVED, for good.
LibraryMissing(p) ==
    /\ proc[p].at = "processing"
    /\ EndEvent(p, "received", 0)
    /\ UNCHANGED <<runs, link>>

-----------------------------------------------------------------------------
\* import_test_links, one link: update_or_create clears the flag of an existing
\* link, and a new one is flagged by a second save, of the whole row.
ImportLink(p, l) ==
    /\ proc[p].at = "idle"
    /\ IF l \in Existing
       THEN link' = [link EXCEPT ![l].review = FALSE] /\ UNCHANGED proc
       ELSE /\ link' = [link EXCEPT ![l] = NewLink]
            /\ Go(p, At("new_link", NoDelivery, 0, NoResults, [m \in {l} |-> NewLink]))
    /\ UNCHANGED <<event, runs>>

FlagNewLink(p, l) ==
    /\ proc[p].at = "new_link"
    /\ l \in Listed(p)
    /\ link' = [link EXCEPT ![l] = [NewLink EXCEPT !.review = TRUE]]
    /\ Go(p, Idle)
    /\ UNCHANGED <<event, runs>>

\* check_invariants --fix: INV-E lists the failing links without the flag.
ListFailures(p) ==
    /\ proc[p].at = "idle"
    /\ LET failing == {l \in Existing : link[l].status \in Failing /\ ~link[l].review} IN
       Go(p, At("fixing", NoDelivery, 0, NoResults, [l \in failing |-> link[l]]))
    /\ UNCHANGED <<event, runs, link>>

SaveReview(p, l) ==
    /\ proc[p].at = "fixing"
    /\ l \in Listed(p)
    /\ link' = [link EXCEPT ![l].review = TRUE]
    /\ Go(p, Visited(p, l))
    /\ UNCHANGED <<event, runs>>

FixDone(p) ==
    /\ proc[p].at = "fixing"
    /\ Listed(p) = {}
    /\ Go(p, Idle)
    /\ UNCHANGED <<event, runs, link>>

\* The process is killed, or raises where nothing catches the exception.
Crash(p) ==
    /\ proc[p].at # "idle"
    /\ Go(p, Idle)
    /\ UNCHANGED <<event, runs, link>>

-----------------------------------------------------------------------------
BeginCommand(p) ==
    \/ proc[p].at = "idle" /\ \E report \in Reports : CreateRun(p, report)
    \/ \E l \in Links : ImportLink(p, l)
    \/ ListFailures(p)

Begin(p) == BeginCommand(p) \/ \E d \in Deliveries : Receive(p, d)

Proceed(p) ==
    \/ Triage(p)
    \/ NothingToImport(p)
    \/ proc[p].at = "processing" /\ \E report \in Reports : CreateRun(p, report)
    \/ \E t \in Tests : AddResult(p, t) \/ LinkResult(p, t)
    \/ FinishRun(p)
    \/ ListLinks(p)
    \/ \E l \in Links : UpdateLink(p, l) \/ FlagNewLink(p, l) \/ SaveReview(p, l)
    \/ ImportDone(p)
    \/ HandlerFails(p)
    \/ LibraryMissing(p)
    \/ FixDone(p)

Next == \E p \in Processes : Begin(p) \/ Proceed(p) \/ Crash(p)

Spec == Init /\ [][Next]_vars

-----------------------------------------------------------------------------
Place == {"idle", "received", "processing", "importing", "linking", "updating",
          "new_link", "fixing"}

\* The types of the rows and of the processes.
TypeOK ==
    /\ event \in [Deliveries -> EventRow \cup {NoEvent}]
    /\ runs \in Seq(RunRow)
    /\ link \in [Links -> LinkRow \cup {NoLink}]
    /\ proc \in [Processes -> [at : Place, delivery : Deliveries \cup {NoDelivery}, run : Nat,
                             report : Results,
                             rows : UNION {[L -> LinkRow] : L \in SUBSET Links}]]

\* Idempotence: a delivery makes at most one test run, however often it comes,
\* at the same time or after a crash of the process that took it; and an event
\* that succeeded with a run names the run of its own delivery, which is whole:
\* all of a report's results, none of them missing.
DeliveriesMakeOneWholeRun ==
    /\ \A k, n \in DOMAIN runs :
         runs[k].delivery = runs[n].delivery /\ runs[k].delivery # NoDelivery => k = n
    /\ \A d \in Deliveries : event[d].status = "success" /\ event[d].run # 0 =>
         /\ event[d].run \in DOMAIN runs
         /\ LET r == runs[event[d].run] IN
            r.delivery = d /\ r.finished /\ r.results \in Reports

\* last_status and last_run_at of a link are those of one and the same run,
\* whatever interleaving saved the row.
LinkShowsOneRun ==
    \A l \in Existing :
        IF link[l].run = 0 THEN link[l].status = "unknown"
        ELSE /\ link[l].run \in DOMAIN runs
             /\ link[l].status = runs[link[l].run].results[TestOf[l]]

\* Links follow the runs: none goes back to an older run, and one whose status
\* changes from passed to failed or error is then flagged for review (INV-E).
LinksFollowRuns ==
    [][\A l \in Links :
         /\ link'[l].run >= link[l].run
         /\ link[l].status = "passed" /\ link'[l].status \in Failing => link'[l].review]_link

\* Every delivery that was recorded is settled.
EventsAreSettled ==
    \A d \in Deliveries : event[d] # NoEvent ~> event[d].processed
=============================================================================

----------------------------- MODULE WebhookFetch -----------------------------
(***************************************************************************)
(* Where the webhook handler gets a report from: the payload is sorted     *)
(* out, an installation token is requested, the artifacts of the workflow  *)
(* run are listed page by page, and the first unexpired one of the right   *)
(* name is downloaded.  Each call to GitHub is retried on its own.  Every  *)
(* step here is a step of WebhookIngestion, or leaves its variables alone. *)
(***************************************************************************)
EXTENDS WebhookIngestion

CONSTANTS
    Payloads,     \* what deliveries may say
    Listings,     \* what artifacts a workflow run may have
    PageSize,     \* per_page, 100
    MaxRetries    \* DEFAULT_MAX_RETRIES

Payload ==
    [type : {"workflow_run", "push"}, action : {"completed", "requested"},
     installation : BOOLEAN, conclusion : {"success", "failure", "cancelled"}]

\* What is in an artifact's file; the report is that of its junit.xml.
Content  == {"results", "no junit", "broken", "too large"}
Artifact == [name : {"test-results", "other"}, expired : BOOLEAN,
             content : Content, report : Reports]

ASSUME FetchAssumption ==
    /\ Payloads \subseteq Payload
    /\ Listings \subseteq Seq(Artifact)
    /\ PageSize \in Nat \ {0}
    /\ MaxRetries \in Nat

VARIABLES
    payload,   \* the payload of each delivery
    call       \* the call to GitHub that each process makes, or made last

fetchVars == <<payload, call>>

\* tries: the retries made so far; last: how the last request was answered.
NoPayload == [type |-> "none", action |-> "none", installation |-> FALSE,
              conclusion |-> "none"]
NoCall == [to |-> "none", delivery |-> NoDelivery, tries |-> 0, page |-> 1,
           listing |-> <<>>, last |-> "none"]

FetchInit ==
    /\ Init
    /\ payload = [d \in Deliveries |-> NoPayload]
    /\ call = [p \in Processes |-> NoCall]

Set(p, c) == call' = [call EXCEPT ![p] = c]
CallTo(p, to) == Set(p, [call[p] EXCEPT !.to = to, !.tries = 0, !.last = "ok"])
Answered(p, answer) == Set(p, [call[p] EXCEPT !.last = answer])

Calling(p, to) == proc[p].at = "processing" /\ call[p].to = to

-----------------------------------------------------------------------------
\* parse_workflow_run_event and the checks around it.
Sorted(w) ==
    IF w.type # "workflow_run" \/ w.action # "completed" THEN "skipped"
    ELSE IF ~w.installation THEN "failed" ELSE "processing"

SortOut(p) ==
    /\ Triage(p)
    /\ event'[proc[p].delivery].status = Sorted(payload[proc[p].delivery])
    /\ Set(p, [NoCall EXCEPT !.delivery = proc[p].delivery])
    /\ UNCHANGED payload

\* process_workflow_run: only these runs are looked at.
Concluded(p) == payload[proc[p].delivery].conclusion \in {"success", "failure"}

Decline(p) ==
    /\ Calling(p, "none")
    /\ ~Concluded(p)
    /\ NothingToImport(p)
    /\ UNCHANGED fetchVars

\* _generate_jwt on a server without PyJWT, an ImportError, or without
\* credentials, a GitHubAuthError.
CannotSign(p) ==
    /\ Calling(p, "none")
    /\ Concluded(p)
    /\ LibraryMissing(p) \/ HandlerFails(p)
    /\ UNCHANGED fetchVars

BeginFetch(p) ==
    /\ Calling(p, "none")
    /\ Concluded(p)
    /\ \E listing \in Listings :
         Set(p, [call[p] EXCEPT !.to = "token", !.listing = listing])
    /\ UNCHANGED <<vars, payload>>

\* Faulty variant of MayRetry: the retries count the first request.
MayRetryOnce(c) == c.tries + 1 < MaxRetries

MayRetry(c) == c.tries < MaxRetries

\* retry_with_backoff: a connection that fails and the RETRYABLE_STATUS_CODES.
Retry(p) ==
    /\ proc[p].at = "processing" /\ call[p].to # "none"
    /\ MayRetry(call[p])
    /\ Set(p, [call[p] EXCEPT !.tries = @ + 1, !.last = "unavailable"])
    /\ UNCHANGED <<vars, payload>>

\* The retries are used up, or the status is not one to retry.
GiveUp(p) ==
    /\ proc[p].at = "processing" /\ call[p].to # "none"
    /\ HandlerFails(p)
    /\ \/ ~MayRetry(call[p]) /\ Answered(p, "unavailable")
       \/ Answered(p, "refused")
    /\ UNCHANGED payload

\* 404 "Not Found": from the token it is a GitHubAuthError, but a
\* GitHubArtifactError with "not found" in it passes for a missing artifact.
NotFound(p) ==
    /\ \/ Calling(p, "token") /\ HandlerFails(p)
       \/ (Calling(p, "list") \/ Calling(p, "download")) /\ NothingToImport(p)
    /\ Answered(p, "not found")
    /\ UNCHANGED payload

\* The token is kept for as long as the fetch may take.
GetToken(p) ==
    /\ Calling(p, "token")
    /\ CallTo(p, "list")
    /\ UNCHANGED <<vars, payload>>

-----------------------------------------------------------------------------
\* The places of the unexpired test-results artifacts in a listing.
Wanted(listing) ==
    {i \in DOMAIN listing : listing[i].name = "test-results" /\ ~listing[i].expired}

First(listing, places) == listing[CHOOSE i \in places : \A j \in places : i <= j]

\* Those on the pages that have been fetched.
Seen(c) == {i \in Wanted(c.listing) : i <= c.page * PageSize}

\* Faulty variant of LastPage: every page is taken for the last.
FirstPage(c) == c.page >= 1

\* A page that is not full is the last.
LastPage(c) == Len(c.listing) < c.page * PageSize

\* list_artifacts, and the search of fetch_test_artifacts through the result.
ListPage(p) ==
    /\ Calling(p, "list")
    /\ IF ~LastPage(call[p])
       THEN /\ Set(p, [call[p] EXCEPT !.page = @ + 1, !.tries = 0, !.last = "ok"])
            /\ UNCHANGED vars
       ELSE IF Seen(call[p]) = {}
       THEN NothingToImport(p) /\ Answered(p, "ok")
       ELSE CallTo(p, "download") /\ UNCHANGED vars
    /\ UNCHANGED payload

Chosen(c) == First(c.listing, Seen(c))

\* download_artifact, extract_files_from_artifact and what is made of them; a
\* file that is too large or broken is not asked for again.
Download(p) ==
    LET artifact == Chosen(call[p]) IN
    /\ Calling(p, "download")
    /\ \/ artifact.content = "results" /\ CreateRun(p, artifact.report)
       \/ artifact.content = "no junit" /\ NothingToImport(p)
       \/ artifact.content \in {"broken", "too large"} /\ HandlerFails(p)
    /\ Answered(p, "ok")
    /\ UNCHANGED payload

TakeIn(p) ==
    /\ \E d \in Deliveries, w \in Payloads :
         Receive(p, d) /\ payload' = [payload EXCEPT ![d] = w]
    /\ UNCHANGED call

ProceedWithFetch(p) ==
    \/ SortOut(p) \/ Decline(p) \/ CannotSign(p)
    \/ BeginFetch(p) \/ Retry(p) \/ GiveUp(p) \/ NotFound(p)
    \/ GetToken(p) \/ ListPage(p) \/ Download(p)

\* The steps of WebhookIngestion that make no call.
BeginElsewhere(p)   == BeginCommand(p) /\ UNCHANGED fetchVars
ProceedElsewhere(p) ==
    proc[p].at \notin {"received", "processing"} /\ Proceed(p) /\ UNCHANGED fetchVars
CrashAnywhere(p)    == Crash(p) /\ UNCHANGED fetchVars

FetchNext ==
    \E p \in Processes :
        \/ TakeIn(p) \/ BeginElsewhere(p) \/ ProceedElsewhere(p)
        \/ ProceedWithFetch(p) \/ CrashAnywhere(p)

FetchSpec == FetchInit /\ [][FetchNext]_<<vars, fetchVars>>

-----------------------------------------------------------------------------
\* The last call that was made for a delivery accounts for what became of the
\* event.  A run holds the report of the first unexpired test-results artifact
\* of all the pages; success without a run means that there is none, or that
\* GitHub answered 404 to the listing or the download; failure before a run,
\* that one request was refused, that one was made MaxRetries + 1 times in
\* vain, or that the file cannot be used.
FetchAccountsForEvent ==
    \A p \in Processes :
        LET c      == call[p]
            row    == event[c.delivery]
            wanted == Wanted(c.listing)
            made   == {n \in DOMAIN runs : runs[n].delivery = c.delivery}
        IN c.to # "none" /\ row.processed =>
            IF made # {} THEN
                row.status = "success" =>
                    wanted # {} /\ runs[row.run].results = First(c.listing, wanted).report
            ELSE IF row.status = "success" THEN
                \/ c.to \in {"list", "download"} /\ c.last = "not found"
                \/ c.last = "ok" /\ (wanted = {} \/ First(c.listing, wanted).content = "no junit")
            ELSE
                /\ row.status = "failed"
                /\ \/ c.last = "refused"
                   \/ c.last = "unavailable" /\ c.tries = MaxRetries
                   \/ c.last = "not found" /\ c.to = "token"
                   \/ c.last = "ok" /\ c.to = "download"
                        /\ First(c.listing, wanted).content \in {"broken", "too large"}
=============================================================================

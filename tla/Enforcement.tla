------------------------------ MODULE Enforcement ------------------------------
(***************************************************************************)
(* Enforcement results, from the application that checks itself to the     *)
(* rows that SpecTrace keeps: the with-blocks of spectrace_client, the one *)
(* POST of each, the endpoint submit_validation_result and the command     *)
(* import_inapp_validations.  The POST may be lost, rejected, answered     *)
(* late or never; the handlers run concurrently, statement by statement    *)
(* and outside any transaction, and may die.                               *)
(***************************************************************************)
EXTENDS Naturals, Sequences, FiniteSets

CONSTANTS
    Blocks,          \* with-blocks over a ValidationRun, each entered once
    ChecksOf,        \* what each may validate: an external id, a profile, flags
    Imports,         \* runs of import_inapp_validations
    Batches,         \* the lists of validations in the files they import
    Requirements,    \* external ids that have a row
    UnknownIds,      \* external ids that have none
    Profiles,        \* name, context["vendor"] and context["feature_flags"]
    FlagSources,     \* where with_feature_flags looks for flags
    Bodies,          \* what may happen in each: the steps, and an exception or none
    MaxFailures      \* bound on the handlers that fail before their end

\* The later dictionary wins.
Merged(f, g) == [k \in DOMAIN f \cup DOMAIN g |-> IF k \in DOMAIN g THEN g[k] ELSE f[k]]

\* extract_feature_flags: a flag of the model instance wins over one of the
\* environment, and that over one of the settings.
ExtractedFlags(sources) ==
    Merged(Merged(sources.django, sources.env), sources.model)

\* with_feature_flags: the flags that the caller passes win.
InjectedFlags(sources) == Merged(ExtractedFlags(sources), sources.provided)

\* The validation as its with-block describes it.
Context(check) == [check.profile EXCEPT !.flags = InjectedFlags(check.sources)]

ClientStatus == {"success", "degraded", "failure", "error"}
ServerStatus == {"success", "failure", "unknown"}
Handlers     == Blocks \cup Imports
StepsOf      == Seq(BOOLEAN)

\* One entry of "validations".  at = 0: no checked_at.
Items == [req : Requirements \cup UnknownIds, profile : Profiles, status : ClientStatus,
          steps : StepsOf, at : Nat]

ASSUME EnforcementAssumption ==
    /\ Blocks \cap Imports = {}
    /\ Requirements \cap UnknownIds = {}
    /\ Batches \subseteq Seq(Items)
    /\ \A p \in Profiles : p = [name |-> p.name, vendor |-> p.vendor, flags |-> p.flags]
    /\ ChecksOf \in [Blocks -> SUBSET [req : Requirements \cup UnknownIds, profile : Profiles,
                                      sources : FlagSources]]
    /\ \A b \in Blocks : \A check \in ChecksOf[b] : Context(check) \in Profiles
    /\ Bodies \in [Blocks -> SUBSET [steps : StepsOf, raised : BOOLEAN]]
    /\ MaxFailures \in Nat

VARIABLES
    block,         \* the application's side of each with-block
    handler,       \* the server's side of each submission or import
    validations,   \* InAppValidation rows, by id
    runs,          \* InAppValidationRun rows with their results, oldest first
    now            \* the clock; no two readings are equal

vars == <<block, handler, validations, runs, now>>

NewBlock == [at |-> "new", check |-> <<>>, item |-> <<>>, raised |-> FALSE, sent |-> FALSE, told |-> FALSE]

\* i counts the items handled, validation is the id at hand and row the copy
\* that get_or_create returned of it.
NoHandler == [at |-> "none", items |-> <<>>, i |-> 0, run |-> 0, validation |-> 0, row |-> <<>>]

Init ==
    /\ block       = [b \in Blocks |-> NewBlock]
    /\ handler     = [h \in Handlers |-> NoHandler]
    /\ validations = <<>>
    /\ runs        = <<>>
    /\ now         = 1

-----------------------------------------------------------------------------
\* ValidationRun._compute_status
StatusOfSteps(steps) ==
    LET passed == {n \in DOMAIN steps : steps[n]} IN
    IF passed = DOMAIN steps THEN "success"
    ELSE IF passed # {} THEN "degraded" ELSE "failure"

\* ValidationResult.overall_status, which to_dict submits for the status.
OverallStatus(status, steps) == IF steps = <<>> THEN status ELSE StatusOfSteps(steps)

Enter(b, check) ==
    /\ block[b].at = "new"
    /\ block' = [block EXCEPT ![b].at = "open", ![b].check = check,
                   ![b].item = [req |-> check.req, profile |-> Context(check),
                                status |-> "success", steps |-> <<>>, at |-> 0]]
    /\ UNCHANGED <<handler, validations, runs, now>>

\* ValidationRun.step
AddStep(b, ok) ==
    /\ block[b].at = "open"
    /\ LET steps == Append(block[b].item.steps, ok) IN
       \E body \in Bodies[b] : Len(steps) <= Len(body.steps)
                              /\ SubSeq(body.steps, 1, Len(steps)) = steps
    /\ block' = [block EXCEPT ![b].item.steps = Append(@, ok)]
    /\ UNCHANGED <<handler, validations, runs, now>>

\* __exit__, to submit_validation: the result is built, with the exception of
\* the block or the steps for its status.
Exit(b, raised) ==
    /\ block[b].at = "open"
    /\ [steps |-> block[b].item.steps, raised |-> raised] \in Bodies[b]
    /\ LET steps  == block[b].item.steps
           status == IF raised THEN "error" ELSE StatusOfSteps(steps)
       IN block' = [block EXCEPT ![b].at = "submitting", ![b].raised = raised,
                                 ![b].item.status = OverallStatus(status, steps),
                                 ![b].item.at = now]
    /\ now' = now + 1
    /\ UNCHANGED <<handler, validations, runs>>

Told(b, answer) == [block EXCEPT ![b].at = "told", ![b].told = answer]

\* submit_validation of a client that is not enabled.
SubmitDisabled(b) ==
    /\ block[b].at = "submitting"
    /\ block' = Told(b, TRUE)
    /\ UNCHANGED <<handler, validations, runs, now>>

\* session.post, and the request arrives.
Post(b) ==
    /\ block[b].at = "submitting"
    /\ block' = [block EXCEPT ![b].at = "waiting", ![b].sent = TRUE]
    /\ handler' = [handler EXCEPT ![b] = [NoHandler EXCEPT !.at = "received",
                                                           !.items = <<block[b].item>>]]
    /\ UNCHANGED <<validations, runs, now>>

\* RequestException before or after the request arrived: no connection, the
\* timeout of the client, a lost answer.  It is logged and swallowed.
GiveUp(b) ==
    /\ block[b].at \in {"submitting", "waiting"}
    /\ block' = Told(b, FALSE)
    /\ UNCHANGED <<handler, validations, runs, now>>

\* The answer arrives; raise_for_status turns an error into a warning.
Answer(b) ==
    /\ block[b].at = "waiting"
    /\ handler[b].at \in {"done", "failed"}
    /\ block' = Told(b, handler[b].at = "done")
    /\ UNCHANGED <<handler, validations, runs, now>>

-----------------------------------------------------------------------------
\* The command is started on a file.
Import(h, items) ==
    /\ h \in Imports
    /\ handler[h].at = "none"
    /\ handler' = [handler EXCEPT ![h] = [NoHandler EXCEPT !.at = "received", !.items = items]]
    /\ UNCHANGED <<block, validations, runs, now>>

Ended(h, how) == [handler EXCEPT ![h] = [NoHandler EXCEPT !.at = how]]

\* require_api_key, ratelimit and validate_request turn a request down, and
\* either entry an empty list, before anything is written.
Reject(h) ==
    /\ handler[h].at = "received"
    /\ h \in Blocks \/ handler[h].items = <<>>
    /\ handler' = Ended(h, "failed")
    /\ UNCHANGED <<block, validations, runs, now>>

CreateRun(h) ==
    /\ handler[h].at = "received"
    /\ handler[h].items # <<>>
    /\ runs' = Append(runs, [source |-> IF h \in Blocks THEN "spectrace-client" ELSE "file",
                             results |-> {}])
    /\ handler' = [handler EXCEPT ![h].at = "items", ![h].run = Len(runs) + 1]
    /\ UNCHANGED <<block, validations, now>>

Item(h) == handler[h].items[handler[h].i + 1]
HasItem(h) == handler[h].at = "items" /\ handler[h].i < Len(handler[h].items)

NameOf(item) == IF item.profile.name = "" THEN "Validation for" ELSE item.profile.name

\* The rows that get_or_create finds: the endpoint asks for the requirement,
\* the command for the name too.
Found(h) ==
    {v \in DOMAIN validations :
        /\ validations[v].req = Item(h).req
        /\ h \in Blocks \/ validations[v].name = NameOf(Item(h))}

\* Faulty variant of LookUp: what cannot be looked up is skipped.
LookUpOrSkip(h) ==
    /\ HasItem(h)
    /\ handler' =
         IF Item(h).req \in UnknownIds \/ Cardinality(Found(h)) > 1
         THEN [handler EXCEPT ![h].i = @ + 1]
         ELSE IF Found(h) = {} THEN [handler EXCEPT ![h].at = "creating"]
         ELSE LET v == CHOOSE v \in Found(h) : TRUE IN
              [handler EXCEPT ![h].at = "found", ![h].validation = v, ![h].row = validations[v]]
    /\ UNCHANGED <<block, validations, runs, now>>

\* Requirement.objects.get and the get of get_or_create: an unknown
\* requirement is skipped, more than one row raises MultipleObjectsReturned.
LookUp(h) ==
    /\ HasItem(h)
    /\ handler' =
         IF Item(h).req \in UnknownIds THEN [handler EXCEPT ![h].i = @ + 1]
         ELSE IF Cardinality(Found(h)) > 1 THEN Ended(h, "failed")
         ELSE IF Found(h) = {} THEN [handler EXCEPT ![h].at = "creating"]
         ELSE LET v == CHOOSE v \in Found(h) : TRUE IN
              [handler EXCEPT ![h].at = "found", ![h].validation = v, ![h].row = validations[v]]
    /\ UNCHANGED <<block, validations, runs, now>>

\* The create of get_or_create; no constraint keeps the row unique.
CreateValidation(h) ==
    /\ handler[h].at = "creating"
    /\ LET p == IF h \in Blocks THEN Item(h).profile ELSE [vendor |-> "", flags |-> <<>>] IN
       validations' = Append(validations, [req |-> Item(h).req, name |-> NameOf(Item(h)),
                                           vendor |-> p.vendor, flags |-> p.flags])
    /\ handler' = [handler EXCEPT ![h].at = "storing", ![h].validation = Len(validations) + 1]
    /\ UNCHANGED <<block, runs, now>>

\* The endpoint overwrites what the submission gives and saves the whole row
\* as it was read; the command leaves the row alone.
UpdateValidation(h) ==
    LET p == Item(h).profile IN
    /\ handler[h].at = "found"
    /\ validations' =
         IF h \in Imports THEN validations
         ELSE [validations EXCEPT ![handler[h].validation] =
                 [handler[h].row EXCEPT !.name   = IF p.name # "" THEN p.name ELSE @,
                                        !.vendor = IF p.vendor # "" THEN p.vendor ELSE @,
                                        !.flags  = IF p.flags # <<>> THEN p.flags ELSE @]]
    /\ handler' = [handler EXCEPT ![h].at = "storing"]
    /\ UNCHANGED <<block, runs, now>>

\* The status strings that either entry knows; the command does not know
\* "degraded".
ParsedStatus(h, status) ==
    IF status = "success" THEN "success"
    ELSE IF status = "failure" \/ (status = "degraded" /\ h \in Blocks) THEN "failure"
    ELSE "unknown"

\* InAppValidationResult.objects.create, and on to the next item.
StoreResult(h) ==
    LET item == Item(h) IN
    /\ handler[h].at = "storing"
    /\ runs' = [runs EXCEPT ![handler[h].run].results = @ \cup
                  {[validation |-> handler[h].validation, from |-> h,
                    status |-> ParsedStatus(h, item.status),
                    steps  |-> IF h \in Blocks THEN item.steps ELSE <<>>,
                    flags  |-> IF h \in Blocks THEN item.profile.flags ELSE <<>>,
                    at     |-> IF item.at > 0 THEN item.at ELSE now]}]
    /\ now' = IF item.at > 0 THEN now ELSE now + 1
    /\ handler' = [handler EXCEPT ![h].at = "items", ![h].i = @ + 1]
    /\ UNCHANGED <<block, validations>>

\* The answer, which counts the items that were not skipped as imported.
Finish(h) ==
    /\ handler[h].at = "items"
    /\ ~HasItem(h)
    /\ handler' = Ended(h, "done")
    /\ UNCHANGED <<block, validations, runs, now>>

\* The process is killed, or a database call raises: what is written stays.
Crash(h) ==
    /\ handler[h].at \notin {"none", "done", "failed"}
    /\ Cardinality({g \in Handlers : handler[g].at = "failed"}) < MaxFailures
    /\ handler' = Ended(h, "failed")
    /\ UNCHANGED <<block, validations, runs, now>>

-----------------------------------------------------------------------------
Submit(b) == SubmitDisabled(b) \/ Post(b) \/ GiveUp(b) \/ Answer(b)

Application(b) ==
    \/ \E check \in ChecksOf[b] : Enter(b, check)
    \/ \E ok \in BOOLEAN : AddStep(b, ok)
    \/ \E raised \in BOOLEAN : Exit(b, raised)

Handle(h) ==
    \/ Reject(h) \/ CreateRun(h) \/ LookUp(h) \/ CreateValidation(h)
    \/ UpdateValidation(h) \/ StoreResult(h) \/ Finish(h)

Next ==
    \/ \E b \in Blocks : Application(b) \/ Submit(b)
    \/ \E h \in Imports, items \in Batches : Import(h, items)
    \/ \E h \in Handlers : Handle(h) \/ Crash(h)

Spec == Init /\ [][Next]_vars

-----------------------------------------------------------------------------
Result == [validation : Nat \ {0}, from : Handlers, status : ServerStatus,
           steps : StepsOf, flags : {p.flags : p \in Profiles} \cup {<<>>}, at : Nat]

RowType == [req : Requirements,
            name   : {p.name : p \in Profiles} \cup {"Validation for"},
            vendor : {p.vendor : p \in Profiles} \cup {""},
            flags  : {p.flags : p \in Profiles} \cup {<<>>}]

AllChecks == UNION {ChecksOf[b] : b \in Blocks}

\* The types of the rows, the blocks and the handlers.
TypeOK ==
    /\ block \in [Blocks -> [at : {"new", "open", "submitting", "waiting", "told"},
                             check : AllChecks \cup {<<>>}, item : Items \cup {<<>>}, raised : BOOLEAN, sent : BOOLEAN,
                             told : BOOLEAN]]
    /\ handler \in [Handlers -> [at : {"none", "received", "items", "creating", "found",
                                       "storing", "done", "failed"},
                                 items : Seq(Items), i : Nat, run : Nat, validation : Nat,
                                 row : RowType \cup {<<>>}]]
    /\ validations \in Seq(RowType)
    /\ runs \in Seq([source : {"spectrace-client", "file"}, results : SUBSET Result])
    /\ now \in Nat

Results == UNION {runs[k].results : k \in DOMAIN runs}
From(h) == {x \in Results : x.from = h}

\* What a block submits is stored once at most, whatever is lost or late, for
\* a validation of its requirement and with the flags its caller passed; and if
\* the application was told that its submission succeeded, it is there, unless
\* the requirement is not.  No path leads from a failed step to a stored
\* success, through the status of the SDK, the string it is sent as and what the
\* server makes of it; and a block that raised before its first step is no
\* success either.
SubmissionsAreRecorded ==
    /\ \A b \in Blocks :
        /\ Cardinality(From(b)) <= 1
        /\ block[b].told /\ block[b].sent /\ block[b].item.req \in Requirements
             => From(b) # {}
    /\ \A x \in Results : x.from \in Blocks =>
        LET b        == block[x.from]
            provided == b.check.sources.provided
        IN /\ x.validation \in DOMAIN validations
           /\ validations[x.validation].req = b.item.req
           /\ x.steps = b.item.steps
           /\ \A f \in DOMAIN provided : x.flags[f] = provided[f]
           /\ x.status = "success" => \A n \in DOMAIN x.steps : x.steps[n]
           /\ x.status = "success" /\ b.raised => x.steps # <<>>

-----------------------------------------------------------------------------
=============================================================================

--------------------------- MODULE EnforcementProofs ---------------------------
(***************************************************************************)
(* Proofs about Enforcement, for any with-blocks, imports, requirements,   *)
(* profiles and sources of flags, and any number of failures.              *)
(***************************************************************************)
EXTENDS EnforcementReports, SequenceTheorems, FiniteSetTheorems, WellFoundedInduction, TLAPS

USE EnforcementAssumption

(***************************************************************************)
(* The inductive invariant.  The item of a with-block is fixed before it   *)
(* is posted, and its handler goes through it once; the requirement of a   *)
(* validation row is fixed for good, so what a handler looked up stays the *)
(* right one, however late it goes on.                                     *)
(***************************************************************************)
Answerable == {"submitting", "waiting", "told"}
Active     == {"items", "creating", "found", "storing"}

\* A with-block, by itself.
BlockIsSound(b, k) ==
    /\ k.at # "new" =>
         /\ k.check \in ChecksOf[b]
         /\ k.item \in Items
         /\ k.item.req = k.check.req
         /\ k.item.profile = Context(k.check)
    /\ k.at \in Answerable =>
         k.item.status =
           OverallStatus(IF k.raised THEN "error" ELSE StatusOfSteps(k.item.steps), k.item.steps)
    /\ k.at \in {"new", "open", "submitting"} => ~k.sent /\ ~k.told
    /\ k.at = "waiting" => k.sent

\* A handler in state s, of the tables as they are.
HandlerIsSound(s, rows, rs) ==
    /\ s.at = "received" => s.i = 0
    /\ s.at \in Active => s.run \in DOMAIN rs /\ s.i <= Len(s.items)
    /\ s.at \in {"creating", "found", "storing"} =>
         s.i < Len(s.items) /\ s.items[s.i + 1].req \in Requirements
    /\ s.at \in {"found", "storing"} =>
         s.validation \in DOMAIN rows /\ rows[s.validation].req = s.items[s.i + 1].req
    /\ s.at = "found" => s.row \in RowType /\ s.row.req = s.items[s.i + 1].req

\* The handler of a submission in state s, of a block in state k; stored tells
\* whether there is a result of it.
SubmissionIsSound(s, k, stored) ==
    /\ s.at # "none" => k.sent /\ k.at \in Answerable
    /\ s.at \in {"received"} \cup Active => s.items = <<k.item>>
    /\ stored => s.at \in Active \cup {"done", "failed"}
    /\ stored /\ s.at \in Active => s.i = 1
    /\ s.at \in Active /\ s.i = 1 /\ k.item.req \in Requirements => stored
    /\ s.at = "done" /\ k.item.req \in Requirements => stored
    /\ k.told /\ k.sent => s.at = "done"

\* A result of a submission says what its block submitted.
ResultIsSound(x, k, rows) ==
    /\ x.validation \in DOMAIN rows
    /\ rows[x.validation].req = k.item.req
    /\ x.steps = k.item.steps
    /\ x.flags = k.item.profile.flags
    /\ x.status = ParsedStatus(x.from, k.item.status)

SubmissionsAreSound ==
    /\ \A b \in Blocks :
         /\ BlockIsSound(b, block[b])
         /\ SubmissionIsSound(handler[b], block[b], From(b) # {})
    /\ \A h \in Handlers : HandlerIsSound(handler[h], validations, runs)
    /\ \A x \in Results : x.from \in Blocks => ResultIsSound(x, block[x.from], validations)
    /\ \A x, y \in Results : x.from = y.from /\ x.from \in Blocks => x = y

IInv == TypeOK /\ SubmissionsAreSound

-----------------------------------------------------------------------------
BlockType == [at : {"new", "open", "submitting", "waiting", "told"},
              check : AllChecks \cup {<<>>}, item : Items \cup {<<>>}, raised : BOOLEAN,
              sent : BOOLEAN, told : BOOLEAN]

HandlerType == [at : {"none", "received", "items", "creating", "found", "storing", "done", "failed"},
                items : Seq(Items), i : Nat, run : Nat, validation : Nat,
                row : RowType \cup {<<>>}]

RunType == [source : {"spectrace-client", "file"}, results : SUBSET Result]

\* The rows, the blocks and the handlers, one at a time.
LEMMA Types ==
    ASSUME TypeOK
    PROVE  /\ block \in [Blocks -> BlockType]
           /\ handler \in [Handlers -> HandlerType]
           /\ validations \in Seq(RowType)
           /\ runs \in Seq(RunType)
           /\ Len(validations) \in Nat /\ DOMAIN validations = 1 .. Len(validations)
           /\ Len(runs) \in Nat /\ DOMAIN runs = 1 .. Len(runs)
           /\ \A v \in DOMAIN validations : validations[v] \in RowType
           /\ \A k \in DOMAIN runs : runs[k] \in RunType
           /\ now \in Nat
<1>1. /\ block \in [Blocks -> BlockType]
      /\ handler \in [Handlers -> HandlerType]
      /\ validations \in Seq(RowType)
      /\ runs \in Seq(RunType)
      /\ now \in Nat
  BY DEF TypeOK, BlockType, HandlerType, RunType
<1>2. /\ Len(validations) \in Nat /\ DOMAIN validations = 1 .. Len(validations)
      /\ \A v \in DOMAIN validations : validations[v] \in RowType
  BY <1>1, LenProperties
<1>3. /\ Len(runs) \in Nat /\ DOMAIN runs = 1 .. Len(runs)
      /\ \A k \in DOMAIN runs : runs[k] \in RunType
  BY <1>1, LenProperties
<1>4. QED
  BY <1>1, <1>2, <1>3

\* What is known of one handler.
LEMMA OneHandler ==
    ASSUME IInv, NEW h \in Handlers
    PROVE  /\ handler[h] \in HandlerType
           /\ HandlerIsSound(handler[h], validations, runs)
           /\ Len(handler[h].items) \in Nat
           /\ h \in Blocks => /\ block[h] \in BlockType
                              /\ BlockIsSound(h, block[h])
                              /\ SubmissionIsSound(handler[h], block[h], From(h) # {})
           /\ \A g \in Handlers : g # h => handler[g] \in HandlerType
<1>1. handler[h] \in HandlerType
  BY Types DEF IInv
<1>2. handler[h].items \in Seq(Items)
  BY <1>1 DEF HandlerType
<1>3. Len(handler[h].items) \in Nat
  BY <1>2, LenProperties
<1>4. QED
  BY <1>1, <1>3, Types DEF IInv, SubmissionsAreSound, Handlers

\* A handler stays sound while rows are added, and the requirements of the rows
\* there are stay.
LEMMA HandlerStays ==
    ASSUME NEW s, NEW rows, NEW rs, NEW rows2, NEW rs2, HandlerIsSound(s, rows, rs),
           \A v \in DOMAIN rows : v \in DOMAIN rows2 /\ rows2[v].req = rows[v].req,
           DOMAIN rs \subseteq DOMAIN rs2
    PROVE  HandlerIsSound(s, rows2, rs2)
BY DEF HandlerIsSound

\* One handler moves on; it may store a result, if it is that of an import or
\* the first of its block.
LEMMA HandlerMoves ==
    ASSUME IInv, NEW h \in Handlers, NEW s \in HandlerType,
           handler' = [handler EXCEPT ![h] = s], block' = block,
           validations' \in Seq(RowType), runs' \in Seq(RunType), now' \in Nat,
           \A v \in DOMAIN validations :
             v \in DOMAIN validations' /\ validations'[v].req = validations[v].req,
           DOMAIN runs \subseteq DOMAIN runs',
           HandlerIsSound(s, validations', runs'),
           NEW new, \A x : x \in Results' <=> x \in Results \/ x \in new,
           \A x, y \in new : x = y,
           \A x \in new : x.from = h,
           h \in Blocks =>
             /\ SubmissionIsSound(s, block[h], From(h) # {} \/ new # {})
             /\ new # {} => From(h) = {}
             /\ \A x \in new : ResultIsSound(x, block[h], validations')
    PROVE  IInv'
<1>1. /\ \A g \in Handlers : handler'[g] = IF g = h THEN s ELSE handler[g]
      /\ handler' \in [Handlers -> HandlerType]
  BY Types DEF IInv
<1>2. TypeOK'
  BY <1>1 DEF IInv, TypeOK, HandlerType, RunType
<1>3. ASSUME NEW g \in Handlers PROVE HandlerIsSound(handler'[g], validations', runs')
  <2>1. HandlerIsSound(handler[g], validations, runs)
    BY OneHandler
  <2>2. HandlerIsSound(handler[g], validations', runs')
    BY <2>1, HandlerStays
  <2>3. QED
    BY <1>1, <2>2
<1>4. ASSUME NEW b \in Blocks, b # h PROVE From(b)' # {} <=> From(b) # {}
  BY <1>4 DEF From
<1>5. From(h)' # {} <=> (From(h) # {} \/ new # {})
  BY DEF From
<1>6. ASSUME NEW b \in Blocks
      PROVE  SubmissionIsSound(handler'[b], block'[b], From(b)' # {})
  <2>1. CASE b = h
    BY <1>1, <1>5, <2>1
  <2>2. CASE b # h
    <3>1. SubmissionIsSound(handler[b], block[b], From(b) # {})
      BY DEF IInv, SubmissionsAreSound
    <3>2. handler'[b] = handler[b]
      BY <1>1, <2>2 DEF Handlers
    <3>3. QED
      BY <1>4, <2>2, <3>1, <3>2 DEF SubmissionIsSound
  <2>3. QED
    BY <2>1, <2>2
<1>7. ASSUME NEW x \in Results', x.from \in Blocks
      PROVE  ResultIsSound(x, block'[x.from], validations')
  <2>1. CASE x \in Results
    BY <1>7, <2>1 DEF IInv, SubmissionsAreSound, ResultIsSound
  <2>2. CASE x \in new
    BY <1>7, <2>2
  <2>3. QED
    BY <2>1, <2>2
<1>8. ASSUME NEW x \in Results', NEW y \in Results', x.from = y.from, x.from \in Blocks
      PROVE  x = y
  <2>1. CASE x \in Results /\ y \in Results
    BY <1>8, <2>1 DEF IInv, SubmissionsAreSound
  <2>2. CASE x \in new \/ y \in new
    BY <1>8, <2>2 DEF From
  <2>3. QED
    BY <2>1, <2>2
<1>9. \A b \in Blocks : BlockIsSound(b, block'[b])
  BY DEF IInv, SubmissionsAreSound
<1>10. QED
  BY <1>2, <1>3, <1>6, <1>7, <1>8, <1>9 DEF IInv, SubmissionsAreSound

\* One block moves on, and its handler too if the request arrives; an item that
\* a result is stored of stays.
LEMMA BlockMoves ==
    ASSUME IInv, NEW b \in Blocks, NEW k \in BlockType, NEW s \in HandlerType,
           block' = [block EXCEPT ![b] = k], handler' = [handler EXCEPT ![b] = s],
           UNCHANGED <<validations, runs>>, now' \in Nat,
           BlockIsSound(b, k), HandlerIsSound(s, validations, runs),
           SubmissionIsSound(s, k, From(b) # {}),
           From(b) # {} => k.item = block[b].item
    PROVE  IInv'
<1>1. /\ \A c \in Blocks : block'[c] = IF c = b THEN k ELSE block[c]
      /\ \A g \in Handlers : handler'[g] = IF g = b THEN s ELSE handler[g]
      /\ block' \in [Blocks -> BlockType]
      /\ handler' \in [Handlers -> HandlerType]
  BY Types DEF IInv, Handlers
<1>2. TypeOK'
  BY <1>1 DEF IInv, TypeOK, HandlerType, BlockType
<1>3. Results' = Results /\ \A c \in Blocks : From(c)' = From(c)
  BY DEF Results, From
<1>4. ASSUME NEW c \in Blocks
      PROVE  /\ BlockIsSound(c, block'[c])
             /\ SubmissionIsSound(handler'[c], block'[c], From(c)' # {})
  BY <1>1, <1>3 DEF IInv, SubmissionsAreSound, Handlers
<1>5. \A g \in Handlers : HandlerIsSound(handler'[g], validations', runs')
  BY <1>1 DEF IInv, SubmissionsAreSound
<1>6. ASSUME NEW x \in Results, x.from \in Blocks
      PROVE  ResultIsSound(x, block'[x.from], validations')
  <2>1. ResultIsSound(x, block[x.from], validations) /\ x \in From(x.from)
    BY <1>6 DEF IInv, SubmissionsAreSound, From
  <2>2. block'[x.from].item = block[x.from].item
    BY <1>1, <1>6, <2>1
  <2>3. QED
    BY <2>1, <2>2 DEF ResultIsSound
<1>7. \A x, y \in Results : x.from = y.from /\ x.from \in Blocks => x = y
  BY DEF IInv, SubmissionsAreSound
<1>8. QED
  BY <1>2, <1>3, <1>4, <1>5, <1>6, <1>7 DEF IInv, SubmissionsAreSound

-----------------------------------------------------------------------------
\* A block whose item has not been posted has no handler and no result.
LEMMA NotPosted ==
    ASSUME IInv, NEW b \in Blocks, ~block[b].sent
    PROVE  /\ handler[b].at = "none" /\ From(b) = {}
           /\ handler[b] \in HandlerType /\ block[b] \in BlockType
           /\ HandlerIsSound(handler[b], validations, runs)
           /\ BlockIsSound(b, block[b])
           /\ handler' = handler => handler' = [handler EXCEPT ![b] = handler[b]]
<1>1. /\ b \in Handlers
      /\ handler[b] \in HandlerType /\ block[b] \in BlockType
      /\ HandlerIsSound(handler[b], validations, runs)
      /\ BlockIsSound(b, block[b])
      /\ SubmissionIsSound(handler[b], block[b], From(b) # {})
  BY OneHandler DEF Handlers
<1>2. handler[b].at = "none"
  BY <1>1 DEF SubmissionIsSound
<1>3. From(b) = {}
  BY <1>1, <1>2 DEF SubmissionIsSound, Active
<1>4. handler \in [Handlers -> HandlerType]
  BY Types DEF IInv
<1>5. QED
  BY <1>1, <1>2, <1>3, <1>4

LEMMA EnterKeeps ==
    ASSUME IInv, NEW b \in Blocks, NEW check \in ChecksOf[b], Enter(b, check)
    PROVE  IInv'
<1> DEFINE item == [req |-> check.req, profile |-> Context(check),
                    status |-> "success", steps |-> <<>>, at |-> 0]
           k == [block[b] EXCEPT !.at = "open", !.check = check, !.item = item]
<1>1. block[b].at = "new" /\ ~block[b].sent
  BY OneHandler DEF Enter, BlockIsSound, Handlers
<1>2. block' = [block EXCEPT ![b] = k] /\ UNCHANGED <<handler, validations, runs, now>>
  BY DEF Enter
<1>3. item \in Items /\ item.req = check.req /\ item.profile = Context(check)
  <2>1. check.req \in Requirements \cup UnknownIds /\ Context(check) \in Profiles
    OBVIOUS
  <2>2. <<>> \in StepsOf
    BY DEF StepsOf
  <2>3. QED
    BY <2>1, <2>2 DEF Items, ClientStatus
<1> HIDE DEF item
<1>4. /\ k \in BlockType
      /\ k.at = "open" /\ k.check = check /\ k.item = item /\ ~k.sent /\ ~k.told
  <2>1. check \in AllChecks
    BY DEF AllChecks
  <2>2. block[b] \in BlockType /\ ~block[b].sent /\ ~block[b].told
    BY <1>1, OneHandler DEF BlockIsSound, Handlers
  <2>3. QED
    BY <1>3, <2>1, <2>2 DEF BlockType
<1> HIDE DEF k
<1>5. BlockIsSound(b, k)
  BY <1>3, <1>4 DEF BlockIsSound, Answerable
<1>6. SubmissionIsSound(handler[b], k, From(b) # {})
  BY <1>1, <1>4, NotPosted DEF SubmissionIsSound, Active
<1>7. now' \in Nat
  BY <1>2, Types DEF IInv
<1>8. QED
  BY <1>1, <1>2, <1>4, <1>5, <1>6, <1>7, NotPosted, BlockMoves

LEMMA AddStepKeeps ==
    ASSUME IInv, NEW b \in Blocks, NEW ok \in BOOLEAN, AddStep(b, ok)
    PROVE  IInv'
<1> DEFINE item == [block[b].item EXCEPT !.steps = Append(@, ok)]
           k == [block[b] EXCEPT !.item = item]
<1>1. block[b].at = "open" /\ block[b] \in BlockType /\ BlockIsSound(b, block[b])
  BY OneHandler DEF AddStep, Handlers
<1>2. /\ ~block[b].sent /\ ~block[b].told
      /\ block[b].item \in Items
      /\ block[b].check \in ChecksOf[b]
      /\ block[b].item.req = block[b].check.req
      /\ block[b].item.profile = Context(block[b].check)
  BY <1>1 DEF BlockIsSound
<1>3. block' = [block EXCEPT ![b] = k] /\ UNCHANGED <<handler, validations, runs, now>>
  BY DEF AddStep
<1>4. item \in Items /\ item.req = block[b].item.req /\ item.profile = block[b].item.profile
  <2>1. block[b].item.steps \in Seq(BOOLEAN)
    BY <1>2 DEF Items, StepsOf
  <2>2. Append(block[b].item.steps, ok) \in Seq(BOOLEAN)
    BY <2>1
  <2>3. QED
    BY <1>2, <2>2 DEF Items, StepsOf
<1> HIDE DEF item
<1>5. /\ k \in BlockType
      /\ k.at = "open" /\ k.check = block[b].check /\ k.item = item /\ ~k.sent /\ ~k.told
  BY <1>1, <1>2, <1>4 DEF BlockType
<1> HIDE DEF k
<1>6. BlockIsSound(b, k)
  BY <1>2, <1>4, <1>5 DEF BlockIsSound, Answerable
<1>7. SubmissionIsSound(handler[b], k, From(b) # {})
  BY <1>2, <1>5, NotPosted DEF SubmissionIsSound, Active
<1>8. now' \in Nat
  BY <1>3, Types DEF IInv
<1>9. QED
  BY <1>2, <1>3, <1>5, <1>6, <1>7, <1>8, NotPosted, BlockMoves

LEMMA Statuses ==
    ASSUME NEW steps, NEW status \in ClientStatus
    PROVE  OverallStatus(status, steps) \in ClientStatus /\ StatusOfSteps(steps) \in ClientStatus
BY DEF OverallStatus, StatusOfSteps, ClientStatus

LEMMA ExitKeeps ==
    ASSUME IInv, NEW b \in Blocks, NEW raised \in BOOLEAN, Exit(b, raised)
    PROVE  IInv'
<1> DEFINE steps == block[b].item.steps
           status == IF raised THEN "error" ELSE StatusOfSteps(steps)
           item == [block[b].item EXCEPT !.status = OverallStatus(status, steps), !.at = now]
           k == [block[b] EXCEPT !.at = "submitting", !.raised = raised, !.item = item]
<1>1. block[b].at = "open" /\ block[b] \in BlockType /\ BlockIsSound(b, block[b])
  BY OneHandler DEF Exit, Handlers
<1>2. /\ ~block[b].sent /\ ~block[b].told
      /\ block[b].item \in Items
      /\ block[b].check \in ChecksOf[b]
      /\ block[b].item.req = block[b].check.req
      /\ block[b].item.profile = Context(block[b].check)
  BY <1>1 DEF BlockIsSound
<1>3. /\ block' = [block EXCEPT ![b] = k]
      /\ now' = now + 1 /\ UNCHANGED <<handler, validations, runs>>
  <2>1. /\ block' = [block EXCEPT ![b].at = "submitting", ![b].raised = raised,
                                  ![b].item.status = OverallStatus(status, steps),
                                  ![b].item.at = now]
        /\ now' = now + 1 /\ UNCHANGED <<handler, validations, runs>>
    BY DEF Exit
  <2>2. block \in [Blocks -> BlockType] /\ block[b].item \in Items
    BY <1>2, Types DEF IInv
  <2> HIDE DEF steps, status
  <2>3. QED
    BY ZenonT(30), <2>1, <2>2
<1>4. now \in Nat /\ now' \in Nat
  BY <1>3, Types DEF IInv
<1>5. status \in ClientStatus /\ OverallStatus(status, steps) \in ClientStatus
  BY Statuses DEF ClientStatus
<1> HIDE DEF status
<1>6. /\ item \in Items /\ item.req = block[b].item.req /\ item.profile = block[b].item.profile
      /\ item.status = OverallStatus(status, item.steps)
  BY <1>2, <1>4, <1>5 DEF Items
<1> HIDE DEF item
<1>7. /\ k \in BlockType /\ k.at = "submitting" /\ k.check = block[b].check
      /\ k.item = item /\ k.raised = raised /\ ~k.sent /\ ~k.told
  BY <1>1, <1>2, <1>6 DEF BlockType
<1>8. status = IF k.raised THEN "error" ELSE StatusOfSteps(k.item.steps)
  <2>1. item.steps = steps
    BY <1>2 DEF item, Items
  <2>2. QED
    BY <1>7, <2>1 DEF status
<1> HIDE DEF k
<1>9. BlockIsSound(b, k)
  BY <1>2, <1>6, <1>7, <1>8 DEF BlockIsSound, Answerable
<1>10. SubmissionIsSound(handler[b], k, From(b) # {})
  BY <1>2, <1>7, NotPosted DEF SubmissionIsSound, Active
<1>11. QED
  BY <1>2, <1>3, <1>4, <1>7, <1>9, <1>10, NotPosted, BlockMoves

\* The application is told what became of its submission; it is told that it
\* succeeded only of one that was not sent, or is done.
LEMMA ToldKeeps ==
    ASSUME IInv, NEW b \in Blocks, NEW answer \in BOOLEAN, block[b].at \in {"submitting", "waiting"},
           block' = Told(b, answer), UNCHANGED <<handler, validations, runs, now>>,
           answer => block[b].at = "submitting" \/ handler[b].at = "done"
    PROVE  IInv'
<1> DEFINE k == [block[b] EXCEPT !.at = "told", !.told = answer]
<1>1. /\ block[b] \in BlockType /\ BlockIsSound(b, block[b]) /\ handler[b] \in HandlerType
      /\ HandlerIsSound(handler[b], validations, runs)
      /\ SubmissionIsSound(handler[b], block[b], From(b) # {})
  BY OneHandler DEF Handlers
<1>2. block' = [block EXCEPT ![b] = k] /\ handler' = [handler EXCEPT ![b] = handler[b]]
  BY Types DEF Told, IInv
<1>3. /\ k \in BlockType /\ k.at = "told" /\ k.told = answer /\ k.check = block[b].check
      /\ k.item = block[b].item /\ k.raised = block[b].raised /\ k.sent = block[b].sent
  BY <1>1 DEF BlockType
<1> HIDE DEF k
<1>4. BlockIsSound(b, k)
  BY <1>1, <1>3 DEF BlockIsSound, Answerable
<1>5. block[b].at = "submitting" => ~block[b].sent
  BY <1>1 DEF BlockIsSound
<1>6. SubmissionIsSound(handler[b], k, From(b) # {})
  BY <1>1, <1>3, <1>5 DEF SubmissionIsSound, Answerable
<1>7. now' \in Nat
  BY Types DEF IInv
<1>8. QED
  BY <1>1, <1>2, <1>3, <1>4, <1>6, <1>7, BlockMoves

\* A handler that has done nothing yet, or has nothing more to do.
LEMMA NewHandler == NoHandler \in HandlerType /\ NoHandler.i = 0
<1> DEFINE none == <<>>
<1>1. NoHandler = [at |-> "none", items |-> none, i |-> 0, run |-> 0, validation |-> 0, row |-> none]
  BY DEF NoHandler
<1>2. none \in RowType \cup {<<>>} /\ none \in Seq(Items) /\ 0 \in Nat
  OBVIOUS
<1> HIDE DEF none
<1>3. QED
  BY <1>1, <1>2 DEF HandlerType

LEMMA ReceivedHandler ==
    ASSUME NEW items \in Seq(Items)
    PROVE  LET s == [NoHandler EXCEPT !.at = "received", !.items = items] IN
           s \in HandlerType /\ s.at = "received" /\ s.items = items /\ s.i = 0
BY NewHandler DEF HandlerType

LEMMA PostKeeps ==
    ASSUME IInv, NEW b \in Blocks, Post(b)
    PROVE  IInv'
<1> DEFINE k == [block[b] EXCEPT !.at = "waiting", !.sent = TRUE]
           s == [NoHandler EXCEPT !.at = "received", !.items = <<block[b].item>>]
<1>1. block[b].at = "submitting" /\ block[b] \in BlockType /\ BlockIsSound(b, block[b])
  BY OneHandler DEF Post, Handlers
<1>2. /\ block' = [block EXCEPT ![b] = k] /\ handler' = [handler EXCEPT ![b] = s]
      /\ UNCHANGED <<validations, runs, now>>
  BY DEF Post
<1>3. ~block[b].sent /\ ~block[b].told /\ block[b].item \in Items
  BY <1>1 DEF BlockIsSound
<1>4. /\ k \in BlockType /\ k.at = "waiting" /\ k.sent /\ ~k.told /\ k.check = block[b].check
      /\ k.item = block[b].item /\ k.raised = block[b].raised
  BY <1>1, <1>3 DEF BlockType
<1>5. s \in HandlerType /\ s.at = "received" /\ s.items = <<block[b].item>> /\ s.i = 0
  <2>1. <<block[b].item>> \in Seq(Items)
    BY <1>3
  <2>2. QED
    BY <2>1, ReceivedHandler
<1> HIDE DEF k, s
<1>6. BlockIsSound(b, k)
  BY <1>1, <1>4 DEF BlockIsSound, Answerable
<1>7. HandlerIsSound(s, validations, runs)
  BY <1>5 DEF HandlerIsSound, Active
<1>8. SubmissionIsSound(s, k, From(b) # {})
  BY <1>3, <1>4, <1>5, NotPosted DEF SubmissionIsSound, Active, Answerable
<1>9. now' \in Nat
  BY <1>2, Types DEF IInv
<1>10. QED
  BY <1>2, <1>4, <1>5, <1>6, <1>7, <1>8, <1>9, BlockMoves

LEMMA EndedHandler ==
    ASSUME NEW how \in {"done", "failed"}
    PROVE  LET s == [NoHandler EXCEPT !.at = how] IN s \in HandlerType /\ s.at = how
BY NewHandler DEF HandlerType

-----------------------------------------------------------------------------
\* A handler that only moves on.
LEMMA HandlerOnly ==
    ASSUME IInv, NEW h \in Handlers, NEW s \in HandlerType,
           handler' = [handler EXCEPT ![h] = s], UNCHANGED <<block, validations, runs, now>>,
           HandlerIsSound(s, validations, runs),
           h \in Blocks => SubmissionIsSound(s, block[h], From(h) # {})
    PROVE  IInv'
<1> DEFINE new == {}
<1>1. \A x : x \in Results' <=> x \in Results \/ x \in new
  BY DEF Results
<1>2. /\ validations' \in Seq(RowType) /\ runs' \in Seq(RunType) /\ now' \in Nat
      /\ \A v \in DOMAIN validations :
           v \in DOMAIN validations' /\ validations'[v].req = validations[v].req
      /\ DOMAIN runs \subseteq DOMAIN runs'
      /\ HandlerIsSound(s, validations', runs')
  BY Types DEF IInv
<1>3. h \in Blocks =>
        /\ SubmissionIsSound(s, block[h], From(h) # {} \/ new # {})
        /\ new # {} => From(h) = {}
        /\ \A x \in new : ResultIsSound(x, block[h], validations')
  OBVIOUS
<1> HIDE DEF new
<1>4. new = {}
  BY DEF new
<1>5. (\A x, y \in new : x = y) /\ (\A x \in new : x.from = h)
  BY <1>4
<1>6. QED
  BY <1>1, <1>2, <1>3, <1>5, HandlerMoves

\* What a handler that is at work says of its block: it has not been told yet
\* that the submission succeeded.
LEMMA AtWork ==
    ASSUME IInv, NEW h \in Blocks, handler[h].at \in {"received"} \cup Active
    PROVE  /\ handler[h].items = <<block[h].item>>
           /\ Len(handler[h].items) = 1
           /\ block[h].sent /\ ~block[h].told /\ block[h].at \in Answerable
           /\ From(h) # {} => handler[h].at \in Active /\ handler[h].i = 1
           /\ handler[h].at \in Active /\ handler[h].i = 1 /\ block[h].item.req \in Requirements
                => From(h) # {}
<1>1. SubmissionIsSound(handler[h], block[h], From(h) # {})
  BY OneHandler DEF Handlers
<1>2. block[h].told \in BOOLEAN
  BY OneHandler DEF Handlers, BlockType
<1>3. QED
  BY <1>1, <1>2 DEF SubmissionIsSound, Active

LEMMA EndedKeeps ==
    ASSUME IInv, NEW h \in Handlers, NEW how \in {"done", "failed"}, handler' = Ended(h, how),
           UNCHANGED <<block, validations, runs, now>>,
           handler[h].at \notin {"none", "done", "failed"},
           how = "done" /\ h \in Blocks => (block[h].item.req \in Requirements => From(h) # {})
    PROVE  IInv'
<1> DEFINE s == [NoHandler EXCEPT !.at = how]
<1>1. handler' = [handler EXCEPT ![h] = s]
  BY DEF Ended
<1>2. s \in HandlerType /\ s.at = how
  BY EndedHandler
<1>3. handler[h].at \in {"received"} \cup Active
  BY OneHandler DEF HandlerType, Active
<1> HIDE DEF s
<1>4. HandlerIsSound(s, validations, runs)
  BY <1>2 DEF HandlerIsSound, Active
<1>5. h \in Blocks => SubmissionIsSound(s, block[h], From(h) # {})
  BY <1>2, <1>3, AtWork DEF SubmissionIsSound, Active
<1>6. QED
  BY <1>1, <1>2, <1>4, <1>5, HandlerOnly

LEMMA ImportKeeps ==
    ASSUME IInv, NEW h \in Imports, NEW items \in Batches, Import(h, items)
    PROVE  IInv'
<1> DEFINE s == [NoHandler EXCEPT !.at = "received", !.items = items]
<1>1. /\ handler' = [handler EXCEPT ![h] = s]
      /\ UNCHANGED <<block, validations, runs, now>>
  BY DEF Import
<1>2. h \in Handlers /\ h \notin Blocks /\ items \in Seq(Items)
  BY DEF Handlers
<1>3. s \in HandlerType /\ s.at = "received" /\ s.i = 0
  BY <1>2, ReceivedHandler
<1> HIDE DEF s
<1>4. HandlerIsSound(s, validations, runs)
  BY <1>3 DEF HandlerIsSound, Active
<1>5. QED
  BY <1>1, <1>2, <1>3, <1>4, HandlerOnly

LEMMA RejectKeeps ==
    ASSUME IInv, NEW h \in Handlers, Reject(h) \/ Crash(h)
    PROVE  IInv'
<1>1. /\ handler' = Ended(h, "failed") /\ UNCHANGED <<block, validations, runs, now>>
      /\ handler[h].at \notin {"none", "done", "failed"}
  BY DEF Reject, Crash
<1>2. QED
  BY <1>1, EndedKeeps

LEMMA FinishKeeps ==
    ASSUME IInv, NEW h \in Handlers, Finish(h)
    PROVE  IInv'
<1>1. /\ handler' = Ended(h, "done") /\ UNCHANGED <<block, validations, runs, now>>
      /\ handler[h].at = "items" /\ ~ (handler[h].i < Len(handler[h].items))
  BY DEF Finish, HasItem
<1>2. ASSUME h \in Blocks, block[h].item.req \in Requirements PROVE From(h) # {}
  <2>1. handler[h].i \in Nat /\ handler[h].i <= Len(handler[h].items)
    BY <1>1, OneHandler DEF HandlerType, HandlerIsSound, Active
  <2>2. Len(handler[h].items) = 1
    BY <1>1, <1>2, AtWork DEF Active
  <2>3. handler[h].i = 1
    BY <1>1, <2>1, <2>2
  <2>4. QED
    BY <1>1, <1>2, <2>3, AtWork DEF Active
<1>3. QED
  BY <1>1, <1>2, EndedKeeps

LEMMA CreateRunKeeps ==
    ASSUME IInv, NEW h \in Handlers, CreateRun(h)
    PROVE  IInv'
<1> DEFINE row == [source |-> IF h \in Blocks THEN "spectrace-client" ELSE "file", results |-> {}]
           s == [handler[h] EXCEPT !.at = "items", !.run = Len(runs) + 1]
           new == {}
<1>1. /\ handler[h].at = "received"
      /\ runs' = Append(runs, row) /\ handler' = [handler EXCEPT ![h] = s]
      /\ UNCHANGED <<block, validations, now>>
  BY DEF CreateRun
<1>2. /\ handler[h] \in HandlerType /\ handler[h].i = 0 /\ Len(handler[h].items) \in Nat
      /\ runs \in Seq(RunType) /\ Len(runs) \in Nat /\ DOMAIN runs = 1 .. Len(runs)
  BY <1>1, OneHandler, Types DEF HandlerIsSound, IInv
<1>3. row \in RunType /\ row.results = {}
  BY DEF RunType
<1>4. /\ s \in HandlerType /\ s.at = "items" /\ s.run = Len(runs) + 1
      /\ s.i = 0 /\ s.items = handler[h].items
  <2>1. Len(runs) + 1 \in Nat
    BY <1>2
  <2>2. QED
    BY <1>2, <2>1 DEF HandlerType
<1> HIDE DEF row, s
<1>5. /\ runs' \in Seq(RunType) /\ DOMAIN runs' = 1 .. (Len(runs) + 1)
      /\ \A k \in DOMAIN runs : runs'[k] = runs[k]
      /\ runs'[Len(runs) + 1] = row
  BY <1>1, <1>2, <1>3, AppendProperties
<1>6. \A x : x \in Results' <=> x \in Results \/ x \in new
  <2>1. \A k \in DOMAIN runs' : k \in DOMAIN runs \/ k = Len(runs) + 1
    BY <1>2, <1>5
  <2>2. DOMAIN runs \subseteq DOMAIN runs'
    BY <1>2, <1>5
  <2>3. QED
    BY <1>3, <1>5, <2>1, <2>2 DEF Results
<1>7. DOMAIN runs \subseteq DOMAIN runs' /\ Len(runs) + 1 \in DOMAIN runs'
  BY <1>2, <1>5
<1>8. HandlerIsSound(s, validations', runs')
  BY <1>2, <1>4, <1>7 DEF HandlerIsSound, Active
<1>9. h \in Blocks => SubmissionIsSound(s, block[h], From(h) # {})
  BY <1>1, <1>4, AtWork DEF SubmissionIsSound, Active
<1>10. /\ validations' \in Seq(RowType) /\ now' \in Nat
       /\ \A v \in DOMAIN validations :
            v \in DOMAIN validations' /\ validations'[v].req = validations[v].req
  BY <1>1, Types DEF IInv
<1>11. h \in Blocks =>
        /\ SubmissionIsSound(s, block[h], From(h) # {} \/ new # {})
        /\ new # {} => From(h) = {}
        /\ \A x \in new : ResultIsSound(x, block[h], validations')
  BY <1>9
<1> HIDE DEF new
<1>12. (\A x, y \in new : x = y) /\ (\A x \in new : x.from = h)
  BY DEF new
<1>13. QED
  BY <1>1, <1>4, <1>5, <1>6, <1>7, <1>8, <1>10, <1>11, <1>12, HandlerMoves

\* The item at hand.
LEMMA ItemAtHand ==
    ASSUME IInv, NEW h \in Handlers, handler[h].at \in Active,
           handler[h].i < Len(handler[h].items)
    PROVE  /\ Item(h) = handler[h].items[handler[h].i + 1]
           /\ Item(h) \in Items
           /\ handler[h].i \in Nat /\ handler[h].i + 1 <= Len(handler[h].items)
           /\ h \in Blocks => Item(h) = block[h].item /\ handler[h].i = 0 /\ From(h) = {}
<1>1. /\ handler[h].items \in Seq(Items) /\ handler[h].i \in Nat
      /\ Len(handler[h].items) \in Nat
  BY OneHandler DEF HandlerType
<1>2. handler[h].i + 1 \in 1 .. Len(handler[h].items)
  BY <1>1
<1>3. handler[h].items[handler[h].i + 1] \in Items
  BY <1>1, <1>2, ElementOfSeq
<1>4. ASSUME h \in Blocks
      PROVE  Item(h) = block[h].item /\ handler[h].i = 0 /\ From(h) = {}
  <2>1. /\ handler[h].items = <<block[h].item>> /\ Len(handler[h].items) = 1
        /\ From(h) # {} => handler[h].i = 1
    BY <1>4, AtWork
  <2>2. handler[h].i = 0
    BY <1>1, <2>1
  <2>3. QED
    BY <2>1, <2>2 DEF Item
<1>5. QED
  BY <1>1, <1>2, <1>3, <1>4 DEF Item

\* An item whose requirement is unknown is skipped; what is found has its
\* requirement.
LEMMA LookUpKeeps ==
    ASSUME IInv, NEW h \in Handlers, LookUp(h)
    PROVE  IInv'
<1>1. /\ handler[h].at = "items" /\ handler[h].i < Len(handler[h].items)
      /\ UNCHANGED <<block, validations, runs, now>>
  BY DEF LookUp, HasItem
<1>2. /\ Item(h) = handler[h].items[handler[h].i + 1]
      /\ Item(h) \in Items
      /\ handler[h].i \in Nat /\ handler[h].i + 1 <= Len(handler[h].items)
      /\ h \in Blocks => Item(h) = block[h].item /\ handler[h].i = 0 /\ From(h) = {}
  BY <1>1, ItemAtHand DEF Active
<1>3. /\ handler[h] \in HandlerType /\ HandlerIsSound(handler[h], validations, runs)
      /\ handler[h].run \in DOMAIN runs
  BY <1>1, OneHandler DEF HandlerIsSound, Active
<1>4. Item(h).req \in Requirements \cup UnknownIds
  BY <1>2 DEF Items
<1>5. CASE Item(h).req \in UnknownIds
  <2> DEFINE s == [handler[h] EXCEPT !.i = @ + 1]
  <2>1. handler' = [handler EXCEPT ![h] = s]
    BY <1>5 DEF LookUp
  <2>2. /\ s \in HandlerType /\ s.at = "items" /\ s.run = handler[h].run
        /\ s.i = handler[h].i + 1 /\ s.items = handler[h].items
    BY <1>1, <1>2, <1>3 DEF HandlerType
  <2> HIDE DEF s
  <2>3. HandlerIsSound(s, validations, runs)
    BY <1>2, <1>3, <2>2 DEF HandlerIsSound, Active
  <2>4. ASSUME h \in Blocks PROVE SubmissionIsSound(s, block[h], From(h) # {})
    <3>1. block[h].item.req \notin Requirements
      BY <1>2, <1>5, <2>4
    <3>2. QED
      BY <1>1, <1>2, <2>2, <2>4, <3>1, AtWork DEF SubmissionIsSound, Active
  <2>5. QED
    BY <1>1, <2>1, <2>2, <2>3, <2>4, HandlerOnly
<1>6. CASE Item(h).req \in Requirements /\ handler' = Ended(h, "failed")
  BY <1>1, <1>6, EndedKeeps
<1>7. CASE Item(h).req \in Requirements /\ handler' = [handler EXCEPT ![h].at = "creating"]
  <2> DEFINE s == [handler[h] EXCEPT !.at = "creating"]
  <2>1. handler' = [handler EXCEPT ![h] = s]
    BY <1>7
  <2>2. /\ s \in HandlerType /\ s.at = "creating" /\ s.run = handler[h].run
        /\ s.i = handler[h].i /\ s.items = handler[h].items
    BY <1>3 DEF HandlerType
  <2> HIDE DEF s
  <2>3. HandlerIsSound(s, validations, runs)
    BY <1>1, <1>2, <1>3, <1>7, <2>2 DEF HandlerIsSound, Active
  <2>4. h \in Blocks => SubmissionIsSound(s, block[h], From(h) # {})
    BY <1>1, <1>2, <2>2, AtWork DEF SubmissionIsSound, Active
  <2>5. QED
    BY <1>1, <2>1, <2>2, <2>3, <2>4, HandlerOnly
<1>8. ASSUME Item(h).req \in Requirements, NEW v \in Found(h),
             handler' = [handler EXCEPT ![h].at = "found", ![h].validation = v,
                                        ![h].row = validations[v]]
      PROVE  IInv'
  <2> DEFINE s == [handler[h] EXCEPT !.at = "found", !.validation = v, !.row = validations[v]]
  <2>1. handler' = [handler EXCEPT ![h] = s]
    BY <1>8, Types DEF IInv
  <2>2. v \in DOMAIN validations /\ validations[v].req = Item(h).req
    BY <1>8 DEF Found
  <2>3. v \in Nat /\ validations[v] \in RowType
    BY <2>2, Types DEF IInv
  <2>4. /\ s \in HandlerType /\ s.at = "found" /\ s.run = handler[h].run
        /\ s.i = handler[h].i /\ s.items = handler[h].items
        /\ s.validation = v /\ s.row = validations[v]
    BY <1>3, <2>3 DEF HandlerType
  <2> HIDE DEF s
  <2>5. HandlerIsSound(s, validations, runs)
    BY <1>1, <1>2, <1>3, <1>8, <2>2, <2>3, <2>4 DEF HandlerIsSound, Active
  <2>6. h \in Blocks => SubmissionIsSound(s, block[h], From(h) # {})
    BY <1>1, <1>2, <2>4, AtWork DEF SubmissionIsSound, Active
  <2>7. QED
    BY <1>1, <2>1, <2>4, <2>5, <2>6, HandlerOnly
<1>9. Found(h) # {} => (CHOOSE v \in Found(h) : TRUE) \in Found(h)
  OBVIOUS
<1>10. QED
  BY <1>4, <1>5, <1>6, <1>7, <1>8, <1>9 DEF LookUp

LEMMA Names ==
    ASSUME NEW item \in Items
    PROVE  /\ NameOf(item) \in {p.name : p \in Profiles} \cup {"Validation for"}
           /\ item.profile \in Profiles
           /\ item.profile.name \in {p.name : p \in Profiles}
           /\ item.profile.vendor \in {p.vendor : p \in Profiles}
           /\ item.profile.flags \in {p.flags : p \in Profiles}
<1>1. item.profile \in Profiles
  BY DEF Items
<1>2. QED
  BY <1>1 DEF NameOf

\* The new row is for the requirement of the item.
LEMMA CreateValidationKeeps ==
    ASSUME IInv, NEW h \in Handlers, CreateValidation(h)
    PROVE  IInv'
<1> DEFINE p == IF h \in Blocks THEN Item(h).profile ELSE [vendor |-> "", flags |-> <<>>]
           row == [req |-> Item(h).req, name |-> NameOf(Item(h)),
                   vendor |-> p.vendor, flags |-> p.flags]
           s == [handler[h] EXCEPT !.at = "storing", !.validation = Len(validations) + 1]
           new == {}
<1>1. /\ handler[h].at = "creating"
      /\ validations' = Append(validations, row) /\ handler' = [handler EXCEPT ![h] = s]
      /\ UNCHANGED <<block, runs, now>>
  BY Types DEF CreateValidation, IInv
<1>2. /\ handler[h] \in HandlerType /\ HandlerIsSound(handler[h], validations, runs)
      /\ handler[h].run \in DOMAIN runs
      /\ handler[h].i < Len(handler[h].items)
      /\ handler[h].items[handler[h].i + 1].req \in Requirements
  BY <1>1, OneHandler DEF HandlerIsSound, Active
<1>3. /\ Item(h) = handler[h].items[handler[h].i + 1]
      /\ Item(h) \in Items
      /\ handler[h].i \in Nat /\ handler[h].i + 1 <= Len(handler[h].items)
      /\ h \in Blocks => Item(h) = block[h].item /\ handler[h].i = 0 /\ From(h) = {}
  BY <1>1, <1>2, ItemAtHand DEF Active
<1>4. row \in RowType /\ row.req = Item(h).req
  <2>1. /\ p.vendor \in {q.vendor : q \in Profiles} \cup {""}
        /\ p.flags \in {q.flags : q \in Profiles} \cup {<<>>}
    <3>1. CASE h \in Blocks
      BY <1>3, <3>1, Names
    <3>2. CASE h \notin Blocks
      BY <3>2
    <3>3. QED
      BY <3>1, <3>2
  <2> HIDE DEF p
  <2>2. /\ Item(h).req \in Requirements
        /\ NameOf(Item(h)) \in {q.name : q \in Profiles} \cup {"Validation for"}
    BY <1>2, <1>3, Names
  <2>3. QED
    BY <2>1, <2>2 DEF RowType
<1>5. /\ validations \in Seq(RowType) /\ Len(validations) \in Nat
      /\ DOMAIN validations = 1 .. Len(validations)
  BY Types DEF IInv
<1>6. /\ s \in HandlerType /\ s.at = "storing" /\ s.run = handler[h].run
      /\ s.i = handler[h].i /\ s.items = handler[h].items
      /\ s.validation = Len(validations) + 1
  <2>1. Len(validations) + 1 \in Nat
    BY <1>5
  <2>2. QED
    BY <1>2, <2>1 DEF HandlerType
<1> HIDE DEF row, s, p
<1>7. /\ validations' \in Seq(RowType) /\ DOMAIN validations' = 1 .. (Len(validations) + 1)
      /\ \A v \in DOMAIN validations : validations'[v] = validations[v]
      /\ validations'[Len(validations) + 1] = row
  BY <1>1, <1>4, <1>5, AppendProperties
<1>8. Len(validations) + 1 \in DOMAIN validations' /\ DOMAIN validations \subseteq DOMAIN validations'
  BY <1>5, <1>7
<1>9. HandlerIsSound(s, validations', runs')
  BY <1>1, <1>2, <1>3, <1>4, <1>6, <1>7, <1>8 DEF HandlerIsSound, Active
<1>10. h \in Blocks => SubmissionIsSound(s, block[h], From(h) # {})
  BY <1>1, <1>3, <1>6, AtWork DEF SubmissionIsSound, Active
<1>11. \A x : x \in Results' <=> x \in Results \/ x \in new
  BY <1>1 DEF Results
<1>12. runs' \in Seq(RunType) /\ now' \in Nat /\ DOMAIN runs \subseteq DOMAIN runs'
  BY <1>1, Types DEF IInv
<1>13. h \in Blocks =>
        /\ SubmissionIsSound(s, block[h], From(h) # {} \/ new # {})
        /\ new # {} => From(h) = {}
        /\ \A x \in new : ResultIsSound(x, block[h], validations')
  BY <1>10
<1> HIDE DEF new
<1>14. (\A x, y \in new : x = y) /\ (\A x \in new : x.from = h)
  BY DEF new
<1>15. \A v \in DOMAIN validations :
         v \in DOMAIN validations' /\ validations'[v].req = validations[v].req
  BY <1>7, <1>8
<1>16. QED
  BY <1>1, <1>6, <1>7, <1>9, <1>11, <1>12, <1>13, <1>14, <1>15, HandlerMoves

\* The row is saved as it was read, but for what the submission gives: its
\* requirement stays.
LEMMA UpdateValidationKeeps ==
    ASSUME IInv, NEW h \in Handlers, UpdateValidation(h)
    PROVE  IInv'
<1> DEFINE p == Item(h).profile
           v == handler[h].validation
           row == [handler[h].row EXCEPT !.name   = IF p.name # "" THEN p.name ELSE @,
                                         !.vendor = IF p.vendor # "" THEN p.vendor ELSE @,
                                         !.flags  = IF p.flags # <<>> THEN p.flags ELSE @]
           s == [handler[h] EXCEPT !.at = "storing"]
           new == {}
<1>1. /\ handler[h].at = "found"
      /\ validations' = IF h \in Imports THEN validations ELSE [validations EXCEPT ![v] = row]
      /\ handler' = [handler EXCEPT ![h] = s]
      /\ UNCHANGED <<block, runs, now>>
  BY DEF UpdateValidation
<1>2. /\ handler[h] \in HandlerType /\ HandlerIsSound(handler[h], validations, runs)
      /\ handler[h].run \in DOMAIN runs
      /\ handler[h].i < Len(handler[h].items)
      /\ handler[h].items[handler[h].i + 1].req \in Requirements
      /\ v \in DOMAIN validations
      /\ validations[v].req = handler[h].items[handler[h].i + 1].req
      /\ handler[h].row \in RowType
      /\ handler[h].row.req = handler[h].items[handler[h].i + 1].req
  BY <1>1, OneHandler DEF HandlerIsSound, Active
<1>3. /\ Item(h) = handler[h].items[handler[h].i + 1]
      /\ Item(h) \in Items
      /\ handler[h].i \in Nat /\ handler[h].i + 1 <= Len(handler[h].items)
      /\ h \in Blocks => Item(h) = block[h].item /\ handler[h].i = 0 /\ From(h) = {}
  BY <1>1, <1>2, ItemAtHand DEF Active
<1>4. row \in RowType /\ row.req = validations[v].req
  <2>1. /\ p.name \in {q.name : q \in Profiles}
        /\ p.vendor \in {q.vendor : q \in Profiles}
        /\ p.flags \in {q.flags : q \in Profiles}
    BY <1>3, Names
  <2> HIDE DEF p
  <2>2. QED
    BY <1>2, <2>1 DEF RowType
<1>5. /\ s \in HandlerType /\ s.at = "storing" /\ s.run = handler[h].run
      /\ s.i = handler[h].i /\ s.items = handler[h].items /\ s.validation = v
  BY <1>2 DEF HandlerType
<1> HIDE DEF row, s, p, v
<1>6. /\ validations \in Seq(RowType) /\ Len(validations) \in Nat
      /\ DOMAIN validations = 1 .. Len(validations)
  BY Types DEF IInv
<1>7. /\ validations' \in Seq(RowType) /\ DOMAIN validations' = DOMAIN validations
      /\ \A u \in DOMAIN validations : validations'[u].req = validations[u].req
  <2>1. CASE h \in Imports
    BY <1>1, <1>6, <2>1
  <2>2. CASE h \notin Imports
    <3>1. validations' = [validations EXCEPT ![v] = row]
      BY <1>1, <2>2
    <3>2. validations' \in Seq(RowType) /\ Len(validations') = Len(validations)
      BY <1>2, <1>4, <1>6, <3>1, ExceptSeq
    <3>3. QED
      BY <1>2, <1>4, <3>1, <3>2
  <2>3. QED
    BY <2>1, <2>2
<1>8. HandlerIsSound(s, validations', runs')
  BY <1>1, <1>2, <1>5, <1>7 DEF HandlerIsSound, Active, v
<1>9. h \in Blocks => SubmissionIsSound(s, block[h], From(h) # {})
  BY <1>1, <1>3, <1>5, AtWork DEF SubmissionIsSound, Active
<1>10. \A x : x \in Results' <=> x \in Results \/ x \in new
  BY <1>1 DEF Results
<1>11. runs' \in Seq(RunType) /\ now' \in Nat /\ DOMAIN runs \subseteq DOMAIN runs'
  BY <1>1, Types DEF IInv
<1>12. h \in Blocks =>
        /\ SubmissionIsSound(s, block[h], From(h) # {} \/ new # {})
        /\ new # {} => From(h) = {}
        /\ \A x \in new : ResultIsSound(x, block[h], validations')
  BY <1>9
<1> HIDE DEF new
<1>13. (\A x, y \in new : x = y) /\ (\A x \in new : x.from = h)
  BY DEF new
<1>14. QED
  BY <1>1, <1>5, <1>7, <1>8, <1>10, <1>11, <1>12, <1>13, HandlerMoves

-----------------------------------------------------------------------------
\* A result is one, of the item at hand.
LEMMA StoreResultKeeps ==
    ASSUME IInv, NEW h \in Handlers, StoreResult(h)
    PROVE  IInv'
<1> DEFINE item == Item(h)
           x == [validation |-> handler[h].validation, from |-> h,
                 status |-> ParsedStatus(h, item.status),
                 steps  |-> IF h \in Blocks THEN item.steps ELSE <<>>,
                 flags  |-> IF h \in Blocks THEN item.profile.flags ELSE <<>>,
                 at     |-> IF item.at > 0 THEN item.at ELSE now]
           s == [handler[h] EXCEPT !.at = "items", !.i = @ + 1]
           r == handler[h].run
           row == [runs[r] EXCEPT !.results = @ \cup {x}]
           new == {x}
<1>1. /\ handler[h].at = "storing"
      /\ runs' = [runs EXCEPT ![r].results = @ \cup {x}]
      /\ now' = IF item.at > 0 THEN now ELSE now + 1
      /\ handler' = [handler EXCEPT ![h].at = "items", ![h].i = @ + 1]
      /\ UNCHANGED <<block, validations>>
  BY DEF StoreResult
<1>2. /\ handler[h] \in HandlerType /\ HandlerIsSound(handler[h], validations, runs)
      /\ r \in DOMAIN runs
      /\ handler[h].i < Len(handler[h].items)
      /\ handler[h].items[handler[h].i + 1].req \in Requirements
      /\ handler[h].validation \in DOMAIN validations
      /\ validations[handler[h].validation].req = handler[h].items[handler[h].i + 1].req
  BY <1>1, OneHandler DEF HandlerIsSound, Active
<1>3. /\ Item(h) = handler[h].items[handler[h].i + 1]
      /\ Item(h) \in Items
      /\ handler[h].i \in Nat /\ handler[h].i + 1 <= Len(handler[h].items)
      /\ h \in Blocks => Item(h) = block[h].item /\ handler[h].i = 0 /\ From(h) = {}
  BY <1>1, <1>2, ItemAtHand DEF Active
<1>4. /\ item.steps \in StepsOf /\ item.at \in Nat /\ item.profile \in Profiles
      /\ item.profile.flags \in {p.flags : p \in Profiles}
      /\ now \in Nat /\ now' \in Nat
  <2>1. item \in Items /\ item.steps \in StepsOf /\ item.at \in Nat
    BY <1>3 DEF Items
  <2>2. item.profile \in Profiles /\ item.profile.flags \in {p.flags : p \in Profiles}
    BY <2>1, Names
  <2>3. now \in Nat
    BY Types DEF IInv
  <2>4. now' \in Nat
    BY <1>1, <2>3
  <2>5. QED
    BY <2>1, <2>2, <2>3, <2>4
<1>5. ParsedStatus(h, item.status) \in ServerStatus
  BY DEF ParsedStatus, ServerStatus
<1>6. /\ handler[h].validation \in Nat \ {0}
      /\ runs \in Seq(RunType) /\ runs[r] \in RunType
      /\ Len(runs) \in Nat /\ DOMAIN runs = 1 .. Len(runs)
  <2>1. DOMAIN validations = 1 .. Len(validations) /\ Len(validations) \in Nat
    BY Types DEF IInv
  <2>2. handler[h].validation \in Nat \ {0}
    BY <1>2, <2>1
  <2>3. QED
    BY <1>2, <2>2, Types DEF IInv
<1>7. x \in Result
  <2>1. /\ (IF h \in Blocks THEN item.steps ELSE <<>>) \in StepsOf
        /\ (IF h \in Blocks THEN item.profile.flags ELSE <<>>)
             \in {p.flags : p \in Profiles} \cup {<<>>}
        /\ (IF item.at > 0 THEN item.at ELSE now) \in Nat
    <3>1. <<>> \in StepsOf
      BY DEF StepsOf
    <3> HIDE DEF item
    <3>2. QED
      BY <1>4, <3>1
  <2>2. QED
    BY <1>5, <1>6, <2>1 DEF Result
<1>8. x.from = h /\ (h \in Blocks => ResultIsSound(x, block[h], validations))
  BY <1>2, <1>3 DEF ResultIsSound
<1>9. /\ s \in HandlerType /\ s.at = "items" /\ s.run = r
      /\ s.i = handler[h].i + 1 /\ s.items = handler[h].items
  <2>1. handler[h].i + 1 \in Nat
    BY <1>3
  <2>2. QED
    BY <1>2, <2>1 DEF HandlerType
<1>10. handler' = [handler EXCEPT ![h] = s]
  BY <1>1, Types DEF IInv
<1> HIDE DEF x, s, item
<1>11. row \in RunType /\ row.results = runs[r].results \cup {x}
  BY <1>6, <1>7 DEF RunType
<1>12. runs' = [runs EXCEPT ![r] = row]
  BY <1>1
<1> HIDE DEF row
<1>13. /\ runs' \in Seq(RunType) /\ DOMAIN runs' = DOMAIN runs
       /\ \A k \in DOMAIN runs : runs'[k] = IF k = r THEN row ELSE runs[k]
  <2>1. runs' \in Seq(RunType) /\ Len(runs') = Len(runs)
    BY <1>2, <1>6, <1>11, <1>12, ExceptSeq
  <2>2. QED
    BY <1>2, <1>6, <1>12, <2>1
<1>14. \A y : y \in Results' <=> y \in Results \/ y \in new
  BY <1>2, <1>11, <1>13 DEF Results
<1>15. HandlerIsSound(s, validations', runs')
  BY <1>1, <1>2, <1>3, <1>9, <1>13 DEF HandlerIsSound, Active
<1>16. h \in Blocks => SubmissionIsSound(s, block[h], TRUE)
  BY <1>1, <1>3, <1>9, AtWork DEF SubmissionIsSound, Active
<1>17. h \in Blocks =>
         /\ SubmissionIsSound(s, block[h], From(h) # {} \/ new # {})
         /\ new # {} => From(h) = {}
         /\ \A y \in new : ResultIsSound(y, block[h], validations')
  <2>1. new # {} /\ (From(h) # {} \/ new # {}) = TRUE
    OBVIOUS
  <2>2. QED
    BY <1>1, <1>3, <1>8, <1>16, <2>1
<1>18. /\ \A v \in DOMAIN validations :
            v \in DOMAIN validations' /\ validations'[v].req = validations[v].req
       /\ validations' \in Seq(RowType) /\ DOMAIN runs \subseteq DOMAIN runs'
  BY <1>1, <1>13, Types DEF IInv
<1>19. (\A y, z \in new : y = z) /\ (\A y \in new : y.from = h)
  BY <1>8
<1> HIDE DEF new
<1>20. QED
  BY <1>1, <1>4, <1>9, <1>10, <1>13, <1>14, <1>15, <1>17, <1>18, <1>19, HandlerMoves

LEMMA SubmitKeeps ==
    ASSUME IInv, NEW b \in Blocks, Submit(b)
    PROVE  IInv'
<1>1. CASE SubmitDisabled(b)
  BY <1>1, ToldKeeps DEF SubmitDisabled
<1>2. CASE Post(b)
  BY <1>2, PostKeeps
<1>3. CASE GiveUp(b)
  BY <1>3, ToldKeeps DEF GiveUp
<1>4. CASE Answer(b)
  BY <1>4, ToldKeeps DEF Answer
<1>5. QED
  BY <1>1, <1>2, <1>3, <1>4 DEF Submit

LEMMA HandleKeeps ==
    ASSUME IInv, NEW h \in Handlers, Handle(h) \/ Crash(h)
    PROVE  IInv'
BY RejectKeeps, CreateRunKeeps, LookUpKeeps, CreateValidationKeeps, UpdateValidationKeeps,
   StoreResultKeeps, FinishKeeps DEF Handle

LEMMA InitIInv == Init => IInv
<1> SUFFICES ASSUME Init PROVE IInv
  OBVIOUS
<1>1. NewBlock \in BlockType
  <2> DEFINE none == <<>>
  <2>1. NewBlock = [at |-> "new", check |-> none, item |-> none, raised |-> FALSE,
                    sent |-> FALSE, told |-> FALSE]
    BY DEF NewBlock
  <2>2. none \in AllChecks \cup {<<>>} /\ none \in Items \cup {<<>>}
    OBVIOUS
  <2> HIDE DEF none
  <2>3. QED
    BY <2>1, <2>2 DEF BlockType
<1>2. /\ block \in [Blocks -> BlockType] /\ handler \in [Handlers -> HandlerType]
      /\ validations \in Seq(RowType) /\ runs \in Seq(RunType) /\ now \in Nat
  BY <1>1, NewHandler DEF Init
<1>3. TypeOK
  BY <1>2 DEF TypeOK, BlockType, HandlerType, RunType
<1>4. Results = {} /\ \A b \in Blocks : From(b) = {}
  <2>1. DOMAIN runs = {}
    BY DEF Init
  <2>2. QED
    BY <2>1 DEF Results, From
<1>5. ASSUME NEW b \in Blocks
      PROVE  /\ BlockIsSound(b, block[b])
             /\ SubmissionIsSound(handler[b], block[b], From(b) # {})
  <2>1. block[b].at = "new" /\ ~block[b].sent /\ ~block[b].told /\ handler[b].at = "none"
    BY DEF Init, NewBlock, NoHandler, Handlers
  <2>2. QED
    BY <1>4, <2>1 DEF BlockIsSound, SubmissionIsSound, Answerable, Active
<1>6. \A h \in Handlers : HandlerIsSound(handler[h], validations, runs)
  <2>1. \A h \in Handlers : handler[h].at = "none"
    BY DEF Init, NoHandler
  <2>2. QED
    BY <2>1 DEF HandlerIsSound, Active
<1>7. QED
  BY <1>3, <1>4, <1>5, <1>6 DEF IInv, SubmissionsAreSound

LEMMA NextIInv == IInv /\ [Next]_vars => IInv'
<1> SUFFICES ASSUME IInv, [Next]_vars PROVE IInv'
  OBVIOUS
<1>1. ASSUME NEW b \in Blocks, Application(b) PROVE IInv'
  BY <1>1, EnterKeeps, AddStepKeeps, ExitKeeps DEF Application
<1>2. ASSUME NEW b \in Blocks, Submit(b) PROVE IInv'
  BY <1>2, SubmitKeeps
<1>3. ASSUME NEW h \in Imports, NEW items \in Batches, Import(h, items) PROVE IInv'
  BY <1>3, ImportKeeps
<1>4. ASSUME NEW h \in Handlers, Handle(h) \/ Crash(h) PROVE IInv'
  BY <1>4, HandleKeeps
<1>5. CASE UNCHANGED vars
  <2>1. UNCHANGED <<block, handler, validations, runs, now>>
    BY <1>5 DEF vars
  <2>2. Results' = Results /\ \A b \in Blocks : From(b)' = From(b)
    BY <2>1 DEF Results, From
  <2>3. TypeOK'
    BY <2>1 DEF IInv, TypeOK
  <2>4. SubmissionsAreSound'
    BY <2>1, <2>2 DEF IInv, SubmissionsAreSound
  <2>5. QED
    BY <2>3, <2>4 DEF IInv
<1>6. QED
  BY <1>1, <1>2, <1>3, <1>4, <1>5 DEF Next

\* The invariant holds.
THEOREM Invariance == Spec => []IInv
<1>1. QED
  BY InitIInv, NextIInv, PTL DEF Spec

\* The rows, the blocks and the handlers keep their types, however the
\* handlers interleave and wherever they die.
THEOREM TypeCorrect == Spec => []TypeOK
<1>1. IInv => TypeOK
  BY DEF IInv
<1>2. QED
  BY <1>1, Invariance, PTL

-----------------------------------------------------------------------------
\* The flags that the caller passed are those of the item.
LEMMA FlagsArePassed ==
    ASSUME NEW b \in Blocks, NEW check \in ChecksOf[b]
    PROVE  \A f \in DOMAIN check.sources.provided :
             Context(check).flags[f] = check.sources.provided[f]
<1>1. check.profile \in Profiles
  OBVIOUS
<1>2. Context(check).flags = InjectedFlags(check.sources)
  <2>1. check.profile = [name |-> check.profile.name, vendor |-> check.profile.vendor,
                         flags |-> check.profile.flags]
    BY <1>1
  <2>2. QED
    BY <2>1 DEF Context
<1>3. QED
  BY <1>2 DEF InjectedFlags, Merged

\* A status that the server takes for a success was one: of no step that failed,
\* and of no exception, unless there were steps and none failed.
LEMMA SuccessIsEarned ==
    ASSUME NEW h, NEW steps \in StepsOf, NEW raised \in BOOLEAN,
           ParsedStatus(h, OverallStatus(IF raised THEN "error" ELSE StatusOfSteps(steps), steps))
             = "success"
    PROVE  /\ \A n \in DOMAIN steps : steps[n]
           /\ raised => steps # <<>>
<1>1. OverallStatus(IF raised THEN "error" ELSE StatusOfSteps(steps), steps) = "success"
  BY DEF ParsedStatus
<1>2. CASE steps = <<>>
  <2>1. ~raised
    BY <1>1, <1>2 DEF OverallStatus
  <2>2. QED
    BY <1>2, <2>1
<1>3. CASE steps # <<>>
  <2>1. StatusOfSteps(steps) = "success"
    BY <1>1, <1>3 DEF OverallStatus
  <2>2. {n \in DOMAIN steps : steps[n]} = DOMAIN steps
    BY <2>1 DEF StatusOfSteps
  <2>3. QED
    BY <1>3, <2>2
<1>4. QED
  BY <1>2, <1>3

\* What a result of a block says, in the words of the property.
LEMMA ResultsAreHonest ==
    ASSUME IInv, NEW x \in Results, x.from \in Blocks
    PROVE  LET b        == block[x.from]
               provided == b.check.sources.provided
           IN /\ x.validation \in DOMAIN validations
              /\ validations[x.validation].req = b.item.req
              /\ x.steps = b.item.steps
              /\ \A f \in DOMAIN provided : x.flags[f] = provided[f]
              /\ x.status = "success" => \A n \in DOMAIN x.steps : x.steps[n]
              /\ x.status = "success" /\ b.raised => x.steps # <<>>
<1> DEFINE b == block[x.from]
<1>1. /\ ResultIsSound(x, b, validations) /\ BlockIsSound(x.from, b) /\ b \in BlockType
      /\ SubmissionIsSound(handler[x.from], b, From(x.from) # {})
  BY OneHandler DEF IInv, SubmissionsAreSound, Handlers
<1>2. x \in From(x.from)
  BY DEF From
<1>3. b.at \in Answerable
  BY <1>1, <1>2 DEF SubmissionIsSound, Active
<1>4. /\ b.check \in ChecksOf[x.from] /\ b.item \in Items
      /\ b.item.profile = Context(b.check) /\ b.raised \in BOOLEAN
      /\ b.item.status =
           OverallStatus(IF b.raised THEN "error" ELSE StatusOfSteps(b.item.steps), b.item.steps)
  BY <1>1, <1>3 DEF BlockIsSound, Answerable, BlockType
<1>5. b.item.steps \in StepsOf
  BY <1>4 DEF Items
<1>6. \A f \in DOMAIN b.check.sources.provided : x.flags[f] = b.check.sources.provided[f]
  BY <1>1, <1>4, FlagsArePassed DEF ResultIsSound
<1> HIDE DEF b
<1>7. x.status = "success" =>
        (\A n \in DOMAIN x.steps : x.steps[n]) /\ (b.raised => x.steps # <<>>)
  BY <1>1, <1>4, <1>5, SuccessIsEarned DEF ResultIsSound
<1>8. QED
  BY <1>1, <1>6, <1>7 DEF ResultIsSound, b

\* Whatever is lost, late or dies, what a block submits is stored once at most
\* and says what the block saw; and if the application was told so, it is there.
THEOREM SubmissionsAreStoredOnce == Spec => []SubmissionsAreRecorded
<1>1. ASSUME IInv PROVE SubmissionsAreRecorded
  <2>1. ASSUME NEW b \in Blocks PROVE Cardinality(From(b)) <= 1
    <3>1. \A x, y \in From(b) : x = y
      BY <1>1 DEF From, IInv, SubmissionsAreSound
    <3>2. CASE From(b) = {}
      BY <3>2, FS_EmptySet
    <3>3. CASE From(b) # {}
      <4>1. PICK x \in From(b) : TRUE
        BY <3>3
      <4>2. From(b) = {x}
        BY <3>1
      <4>3. QED
        <5>1. Cardinality(From(b)) = 1
          BY <4>2, FS_Singleton
        <5>2. QED
          BY <5>1
    <3>4. QED
      BY <3>2, <3>3
  <2>2. ASSUME NEW b \in Blocks, block[b].told, block[b].sent, block[b].item.req \in Requirements
        PROVE  From(b) # {}
    BY <1>1, <2>2, OneHandler DEF SubmissionIsSound, Handlers
  <2>3. QED
    BY <1>1, <2>1, <2>2, ResultsAreHonest DEF SubmissionsAreRecorded
<1>2. QED
  BY <1>1, Invariance, PTL

-----------------------------------------------------------------------------
(***************************************************************************)
(* What the reports say of the rows.  They count and compare results, so   *)
(* beside the invariant above they need each run to be finite, and the     *)
(* results that a file brings to have no steps.                            *)
(***************************************************************************)
RunIsSound(run) ==
    /\ IsFiniteSet(run.results)
    /\ \A x \in run.results : x.from \notin Blocks => x.steps = <<>>

RunsAreSound == \A k \in DOMAIN runs : RunIsSound(runs[k])

LEMMA RunsStaySound ==
    ASSUME IInv, RunsAreSound, [Next]_vars
    PROVE  RunsAreSound'
<1>1. /\ runs \in Seq(RunType) /\ Len(runs) \in Nat /\ DOMAIN runs = 1 .. Len(runs)
  BY Types DEF IInv
<1>2. ASSUME NEW h \in Handlers, CreateRun(h) PROVE RunsAreSound'
  <2> DEFINE row == [source |-> IF h \in Blocks THEN "spectrace-client" ELSE "file", results |-> {}]
  <2>1. runs' = Append(runs, row)
    BY <1>2 DEF CreateRun
  <2>2. row \in RunType /\ row.results = {}
    BY DEF RunType
  <2>3. RunIsSound(row)
    BY <2>2, FS_EmptySet DEF RunIsSound
  <2> HIDE DEF row
  <2>4. /\ DOMAIN runs' = 1 .. (Len(runs) + 1) /\ runs'[Len(runs) + 1] = row
        /\ \A k \in DOMAIN runs : runs'[k] = runs[k]
    BY <1>1, <2>1, <2>2, AppendProperties
  <2>5. \A k \in DOMAIN runs' : k \in DOMAIN runs \/ k = Len(runs) + 1
    BY <1>1, <2>4
  <2>6. QED
    BY <2>3, <2>4, <2>5 DEF RunsAreSound
<1>3. ASSUME NEW h \in Handlers, StoreResult(h) PROVE RunsAreSound'
  <2> DEFINE item == Item(h)
             x == [validation |-> handler[h].validation, from |-> h,
                   status |-> ParsedStatus(h, item.status),
                   steps  |-> IF h \in Blocks THEN item.steps ELSE <<>>,
                   flags  |-> IF h \in Blocks THEN item.profile.flags ELSE <<>>,
                   at     |-> IF item.at > 0 THEN item.at ELSE now]
             r == handler[h].run
  <2>1. runs' = [runs EXCEPT ![r].results = @ \cup {x}] /\ handler[h].at = "storing"
    BY <1>3 DEF StoreResult
  <2>2. r \in DOMAIN runs
    BY <2>1, OneHandler DEF HandlerIsSound, Active
  <2>3. x.from = h /\ (h \notin Blocks => x.steps = <<>>)
    OBVIOUS
  <2> HIDE DEF x, r
  <2>4. /\ DOMAIN runs' = DOMAIN runs
        /\ \A k \in DOMAIN runs : k # r => runs'[k] = runs[k]
        /\ runs[r] \in RunType
        /\ runs'[r].results = runs[r].results \cup {x}
    <3>1. runs[r] \in RunType
      BY <2>2, Types DEF IInv
    <3>2. QED
      BY <2>1, <2>2, <3>1 DEF RunType
  <2>5. RunIsSound(runs[r])
    BY <2>2 DEF RunsAreSound
  <2>6. RunIsSound(runs'[r])
    <3>1. IsFiniteSet(runs[r].results)
      BY <2>5 DEF RunIsSound
    <3>2. IsFiniteSet(runs[r].results \cup {x})
      BY <3>1, FS_AddElement
    <3>3. QED
      BY <2>3, <2>4, <2>5, <3>2 DEF RunIsSound
  <2>7. QED
    BY <2>2, <2>4, <2>6 DEF RunsAreSound
<1>4. CASE runs' = runs
  BY <1>4 DEF RunsAreSound, RunIsSound
<1>5. (\E h \in Handlers : CreateRun(h) \/ StoreResult(h)) \/ runs' = runs
  <2>1. \A b \in Blocks : Application(b) => runs' = runs
    BY DEF Application, Enter, AddStep, Exit
  <2>2. \A b \in Blocks : Submit(b) => runs' = runs
    BY DEF Submit, SubmitDisabled, Post, GiveUp, Answer
  <2>3. \A h \in Imports, items \in Batches : Import(h, items) => runs' = runs
    BY DEF Import
  <2>4. ASSUME NEW h \in Handlers, Handle(h) \/ Crash(h)
        PROVE  CreateRun(h) \/ StoreResult(h) \/ runs' = runs
    <3>1. Reject(h) \/ LookUp(h) \/ Finish(h) \/ Crash(h) => runs' = runs
      BY DEF Reject, LookUp, Finish, Crash
    <3>2. CreateValidation(h) \/ UpdateValidation(h) => runs' = runs
      BY DEF CreateValidation, UpdateValidation
    <3>3. QED
      BY <2>4, <3>1, <3>2 DEF Handle
  <2>5. UNCHANGED vars => runs' = runs
    BY DEF vars
  <2>6. QED
    BY <2>1, <2>2, <2>3, <2>4, <2>5 DEF Next
<1>6. QED
  BY <1>2, <1>3, <1>4, <1>5

\* Every run is finite, and has steps only where a with-block had them.
THEOREM RunsInvariance == Spec => [](IInv /\ RunsAreSound)
<1>1. Init => RunsAreSound
  BY DEF Init, RunsAreSound
<1>2. QED
  BY <1>1, InitIInv, NextIInv, RunsStaySound, PTL DEF Spec

\* What the elements of a finite set are mapped to is finite, and no more.
LEMMA Images ==
    ASSUME NEW S, IsFiniteSet(S), NEW f
    PROVE  /\ IsFiniteSet({f[x] : x \in S})
           /\ Cardinality({f[x] : x \in S}) <= Cardinality(S)
<1> DEFINE T == {f[x] : x \in S}
           g == [x \in S |-> f[x]]
<1>1. g \in Surjection(S, T)
  BY DEF Surjection
<1> HIDE DEF g, T
<1>2. IsFiniteSet(T) /\ Cardinality(T) <= Cardinality(S)
  BY <1>1, FS_Surjection
<1>3. QED
  BY <1>2 DEF T

\* All the results there are.
LEMMA ResultsAreFinite ==
    ASSUME IInv, RunsAreSound
    PROVE  /\ IsFiniteSet(Results)
           /\ \A x \in Results : x \in Result
           /\ \A v : IsFiniteSet(Of(v))
           /\ \A k \in DOMAIN runs : IsFiniteSet(runs[k].results) /\ runs[k].results \subseteq Results
<1> DEFINE results == [k \in DOMAIN runs |-> runs[k].results]
           each == {results[k] : k \in DOMAIN runs}
<1>1. IsFiniteSet(DOMAIN runs)
  <2>1. DOMAIN runs = 1 .. Len(runs) /\ Len(runs) \in Int /\ 1 \in Int
    BY Types DEF IInv
  <2>2. QED
    BY <2>1, FS_Interval
<1>2. IsFiniteSet(each)
  <2> HIDE DEF results
  <2>1. QED
    BY <1>1, Images
<1>3. \A S \in each : IsFiniteSet(S)
  BY DEF RunsAreSound, RunIsSound
<1>4. IsFiniteSet(Results)
  BY <1>2, <1>3, FS_UNION DEF Results
<1>5. \A x \in Results : x \in Result
  BY Types DEF IInv, Results, RunType
<1>6. ASSUME NEW v PROVE IsFiniteSet(Of(v))
  BY <1>4, FS_Subset DEF Of
<1>7. \A k \in DOMAIN runs : IsFiniteSet(runs[k].results) /\ runs[k].results \subseteq Results
  BY DEF RunsAreSound, RunIsSound, Results
<1>8. QED
  BY <1>4, <1>5, <1>6, <1>7

LEMMA LessRelated == ASSUME NEW m \in Nat, NEW n \in Nat, m < n PROVE <<m, n>> \in OpToRel(<, Nat)
BY DEF OpToRel

\* Every set of numbers that is not empty has a least one.
LEMMA LeastNumber ==
    ASSUME NEW numbers \in SUBSET Nat, numbers # {}
    PROVE  \E i \in numbers : \A j \in numbers : i <= j
<1>1. PICK i \in numbers : \A j \in numbers : ~ (<<j, i>> \in OpToRel(<, Nat))
  BY NatLessThanWellFounded, WFMin, Zenon
<1>2. \A j \in numbers : ~ (j < i)
  <2>1. ASSUME NEW j \in numbers, j < i PROVE FALSE
    <3>1. i \in Nat /\ j \in Nat
      OBVIOUS
    <3>2. <<j, i>> \in OpToRel(<, Nat)
      BY ONLY <3>1, <2>1, LessRelated, Zenon
    <3>3. QED
      BY ONLY <1>1, <3>2, <2>1, Zenon
  <2>2. QED
    BY <2>1
<1>3. i \in Nat /\ \A j \in numbers : j \in Nat
  OBVIOUS
<1>4. QED
  BY <1>2, <1>3

\* A function to numbers is least somewhere.
LEMMA LeastValue ==
    ASSUME NEW S, S # {}, NEW f, \A x \in S : f[x] \in Nat
    PROVE  \E x \in S : \A y \in S : f[x] <= f[y]
<1>1. {f[x] : x \in S} \in SUBSET Nat
  OBVIOUS
<1>2. {f[x] : x \in S} # {}
  <2>1. PICK x \in S : TRUE
    OBVIOUS
  <2>2. f[x] \in {f[y] : y \in S}
    OBVIOUS
  <2>3. QED
    BY <2>2
<1>3. PICK i \in {f[x] : x \in S} : \A j \in {f[x] : x \in S} : i <= j
  BY ONLY <1>1, <1>2, LeastNumber
<1>4. QED
  BY <1>3

\* Of a set of results there is an oldest one, and if it is finite a newest one:
\* the one with the fewest results after it.
LEMMA OldestIsThere ==
    ASSUME NEW S, S \subseteq Result, S # {}
    PROVE  Oldest(S) \in S
<1> DEFINE at == [x \in S |-> x.at]
<1>1. \A x \in S : x.at \in Nat
  BY DEF Result
<1>2. \A x \in S : at[x] \in Nat
  BY <1>1
<1> HIDE DEF at
<1>3. PICK x \in S : \A y \in S : at[x] <= at[y]
  BY <1>2, LeastValue
<1>4. \A y \in S : x.at <= y.at
  BY <1>3 DEF at
<1>5. QED
  BY <1>4 DEF Oldest

LEMMA NewestIsThere ==
    ASSUME NEW S, S \subseteq Result, S # {}, IsFiniteSet(S)
    PROVE  Newest(S) \in S
<1> DEFINE after(x) == {y \in S : x.at < y.at}
           rank == [x \in S |-> Cardinality(after(x))]
<1>1. \A x \in S : x.at \in Nat
  BY DEF Result
<1>2. ASSUME NEW x \in S
      PROVE  IsFiniteSet(after(x)) /\ rank[x] = Cardinality(after(x)) /\ rank[x] \in Nat
  <2>1. after(x) \in SUBSET S
    OBVIOUS
  <2>2. IsFiniteSet(after(x))
    BY <2>1, FS_Subset
  <2> HIDE DEF after
  <2>3. QED
    BY <2>2, FS_CardinalityType
<1> HIDE DEF rank
<1>3. PICK x \in S : \A y \in S : rank[x] <= rank[y]
  BY <1>2, LeastValue
<1>4. ASSUME NEW y \in S, x.at < y.at PROVE FALSE
  <2>1. after(y) \in SUBSET after(x)
    BY <1>1, <1>4
  <2>2. y \in after(x) /\ y \notin after(y)
    BY <1>1, <1>4
  <2> HIDE DEF after
  <2>3. /\ Cardinality(after(y)) <= Cardinality(after(x))
        /\ Cardinality(after(x)) = Cardinality(after(y)) => after(x) = after(y)
    BY <1>2, <2>1, FS_Subset
  <2>4. Cardinality(after(x)) = Cardinality(after(y))
    BY <1>2, <1>3, <2>3
  <2>5. QED
    BY <2>2, <2>3, <2>4
<1>5. \A y \in S : y.at <= x.at
  BY <1>1, <1>4
<1>6. QED
  BY <1>5 DEF Newest

-----------------------------------------------------------------------------
ChangeTypes == {"new", "removed", "improved", "regressed", "unchanged"}

Turned(type) ==
    CASE type = "new"       -> "removed"
      [] type = "removed"   -> "new"
      [] type = "improved"  -> "regressed"
      [] type = "regressed" -> "improved"
      [] OTHER -> "unchanged"

LEMMA ChangesTurnAround ==
    ASSUME NEW before, NEW after, before # {} \/ after # {}
    PROVE  /\ ChangeType(before, after) \in ChangeTypes
           /\ ChangeType(after, before) = Turned(ChangeType(before, after))
<1> DEFINE a == (CHOOSE x \in before : TRUE).status
           b == (CHOOSE x \in after : TRUE).status
<1>1. CASE before = {} \/ after = {}
  BY <1>1 DEF ChangeType, ChangeTypes, Turned
<1>2. CASE before # {} /\ after # {}
  <2>1. /\ ChangeType(before, after) =
             IF a = "failure" /\ b = "success" THEN "improved"
             ELSE IF a = "success" /\ b = "failure" THEN "regressed" ELSE "unchanged"
        /\ ChangeType(after, before) =
             IF b = "failure" /\ a = "success" THEN "improved"
             ELSE IF b = "success" /\ a = "failure" THEN "regressed" ELSE "unchanged"
    BY <1>2 DEF ChangeType
  <2> HIDE DEF a, b
  <2>2. QED
    BY <2>1 DEF ChangeTypes, Turned
<1>3. QED
  BY <1>1, <1>2

LEMMA Disjoint ==
    ASSUME NEW S, NEW T, IsFiniteSet(S), IsFiniteSet(T), S \cap T = {}
    PROVE  IsFiniteSet(S \cup T) /\ Cardinality(S \cup T) = Cardinality(S) + Cardinality(T)
<1>1. /\ IsFiniteSet(S \cup T)
      /\ Cardinality(S \cup T) = Cardinality(S) + Cardinality(T) - Cardinality(S \cap T)
  BY FS_Union
<1>2. Cardinality(S \cap T) = 0
  BY FS_EmptySet
<1>3. Cardinality(S) \in Nat /\ Cardinality(T) \in Nat
  BY FS_CardinalityType
<1>4. QED
  BY <1>1, <1>2, <1>3

\* The numbers of a summary add up.
LEMMA CountsAddUp ==
    ASSUME NEW f, IsFiniteSet(DOMAIN f), \A v \in DOMAIN f : f[v] \in ChangeTypes
    PROVE  Count(f, "new") + Count(f, "removed") + Count(f, "improved") + Count(f, "regressed")
             + Count(f, "unchanged") = Cardinality(DOMAIN f)
<1> DEFINE Of5(type) == {v \in DOMAIN f : f[v] = type}
           A == Of5("new")
           B == Of5("removed")
           C == Of5("improved")
           D == Of5("regressed")
           E == Of5("unchanged")
<1>1. IsFiniteSet(A) /\ IsFiniteSet(B) /\ IsFiniteSet(C) /\ IsFiniteSet(D) /\ IsFiniteSet(E)
  BY FS_Subset
<1>2. /\ A \cap B = {} /\ (A \cup B) \cap C = {} /\ (A \cup B \cup C) \cap D = {}
      /\ (A \cup B \cup C \cup D) \cap E = {}
  OBVIOUS
<1>3. A \cup B \cup C \cup D \cup E = DOMAIN f
  BY DEF ChangeTypes
<1>4. /\ Count(f, "new") = Cardinality(A) /\ Count(f, "removed") = Cardinality(B)
      /\ Count(f, "improved") = Cardinality(C) /\ Count(f, "regressed") = Cardinality(D)
      /\ Count(f, "unchanged") = Cardinality(E)
  BY DEF Count
<1> HIDE DEF A, B, C, D, E
<1>5. IsFiniteSet(A \cup B) /\ Cardinality(A \cup B) = Cardinality(A) + Cardinality(B)
  BY <1>1, <1>2, Disjoint
<1>6. /\ IsFiniteSet(A \cup B \cup C)
      /\ Cardinality(A \cup B \cup C) = Cardinality(A \cup B) + Cardinality(C)
  BY <1>1, <1>2, <1>5, Disjoint
<1>7. /\ IsFiniteSet(A \cup B \cup C \cup D)
      /\ Cardinality(A \cup B \cup C \cup D) = Cardinality(A \cup B \cup C) + Cardinality(D)
  BY <1>1, <1>2, <1>6, Disjoint
<1>8. Cardinality(A \cup B \cup C \cup D \cup E)
        = Cardinality(A \cup B \cup C \cup D) + Cardinality(E)
  BY <1>1, <1>2, <1>7, Disjoint
<1>9. QED
  BY <1>3, <1>4, <1>5, <1>6, <1>7, <1>8

LEMMA ComparisonsTurn ==
    ASSUME IInv, RunsAreSound
    PROVE  ComparisonsTurnAround
<1> SUFFICES ASSUME NEW j \in DOMAIN runs, NEW k \in DOMAIN runs
             PROVE  LET there == RunComparison(j, k)
                        back  == RunComparison(k, j)
                    IN /\ \A v \in DOMAIN there : back[v] = Turned(there[v])
                       /\ Count(there, "new") + Count(there, "removed") + Count(there, "improved")
                            + Count(there, "regressed") + Count(there, "unchanged")
                            = Cardinality({x.validation : x \in runs[j].results \cup runs[k].results})
  BY DEF ComparisonsTurnAround, Turned
<1> DEFINE both  == runs[j].results \cup runs[k].results
           of    == [x \in both |-> x.validation]
           D     == {x.validation : x \in both}
           there == RunComparison(j, k)
           back  == RunComparison(k, j)
<1>1. IsFiniteSet(D)
  <2>1. IsFiniteSet(runs[j].results) /\ IsFiniteSet(runs[k].results)
    BY ResultsAreFinite
  <2>2. IsFiniteSet(both)
    BY <2>1, FS_Union
  <2>3. D = {of[x] : x \in both}
    OBVIOUS
  <2> HIDE DEF of, both, D
  <2>4. QED
    BY <2>2, <2>3, Images
<1>2. ASSUME NEW v \in D PROVE Compared(j, v) # {} \/ Compared(k, v) # {}
  <2>1. PICK x \in both : x.validation = v
    OBVIOUS
  <2>2. CASE x \in runs[j].results
    <3>1. {y \in runs[j].results : y.validation = v} # {}
      BY <2>1, <2>2
    <3>2. Oldest({y \in runs[j].results : y.validation = v}) \in Compared(j, v)
      BY <3>1 DEF Compared
    <3>3. QED
      BY <3>2
  <2>3. CASE x \in runs[k].results
    <3>1. {y \in runs[k].results : y.validation = v} # {}
      BY <2>1, <2>3
    <3>2. Oldest({y \in runs[k].results : y.validation = v}) \in Compared(k, v)
      BY <3>1 DEF Compared
    <3>3. QED
      BY <3>2
  <2>4. QED
    BY <2>2, <2>3
<1>3. /\ there = [v \in D |-> ChangeType(Compared(j, v), Compared(k, v))]
      /\ back = [v \in D |-> ChangeType(Compared(k, v), Compared(j, v))]
  <2>1. runs[k].results \cup runs[j].results = both
    OBVIOUS
  <2>2. QED
    BY <2>1 DEF RunComparison
<1> HIDE DEF D, there, back
<1>4. ASSUME NEW v \in D PROVE there[v] \in ChangeTypes /\ back[v] = Turned(there[v])
  BY <1>2, <1>3, ChangesTurnAround
<1>5. DOMAIN there = D
  BY <1>3
<1>6. Count(there, "new") + Count(there, "removed") + Count(there, "improved")
        + Count(there, "regressed") + Count(there, "unchanged") = Cardinality(D)
  BY <1>1, <1>4, <1>5, CountsAddUp
<1>7. QED
  BY <1>4, <1>5, <1>6 DEF D, there, back

-----------------------------------------------------------------------------
\* What a run compares of a validation that it has one result of.
LEMMA ComparedIsOne ==
    ASSUME IInv, RunsAreSound, NEW x \in Results, OnlyOneOfRun(x)
    PROVE  /\ RunOf(x) \in DOMAIN runs /\ x \in runs[RunOf(x)].results
           /\ Compared(RunOf(x), x.validation) = {x}
<1>1. PICK k \in DOMAIN runs : x \in runs[k].results
  BY DEF Results
<1>2. RunOf(x) \in DOMAIN runs /\ x \in runs[RunOf(x)].results
  BY <1>1 DEF RunOf
<1>3. {y \in runs[RunOf(x)].results : y.validation = x.validation} = {x}
  BY <1>2 DEF OnlyOneOfRun
<1>4. Compared(RunOf(x), x.validation) = {Oldest({x})}
  BY <1>3 DEF Compared
<1>5. Oldest({x}) = x
  <2>1. {x} \subseteq Result
    BY ResultsAreFinite
  <2>2. Oldest({x}) \in {x}
    BY <2>1, OldestIsThere
  <2>3. QED
    BY <2>2
<1>6. QED
  BY <1>2, <1>4, <1>5

LEMMA ChangeOfOne ==
    ASSUME NEW x, NEW y
    PROVE  ChangeType({x}, {y}) = "regressed" <=> x.status = "success" /\ y.status = "failure"
<1>1. (CHOOSE z \in {x} : TRUE) = x /\ (CHOOSE z \in {y} : TRUE) = y
  OBVIOUS
<1>2. ChangeType({x}, {y}) =
        IF x.status = "failure" /\ y.status = "success" THEN "improved"
        ELSE IF x.status = "success" /\ y.status = "failure" THEN "regressed" ELSE "unchanged"
  BY <1>1 DEF ChangeType
<1>3. QED
  BY <1>2

LEMMA RegressionsShow ==
    ASSUME IInv, RunsAreSound
    PROVE  RegressionsAreShown
<1> SUFFICES ASSUME NEW v \in DOMAIN validations, Cardinality(Of(v)) >= 2
             PROVE  LET current  == Newest(Of(v))
                        previous == Newest(Of(v) \ {current})
                        vendor   == validations[v].vendor
                    IN /\ OnlyOneOfRun(current) /\ OnlyOneOfRun(previous)
                            => (DetectRegression(v)
                                <=> RunComparison(RunOf(previous), RunOf(current))[v] = "regressed")
                       /\ DetectRegression(v) => /\ Status(v) = "failure"
                                                 /\ v \in VendorCoverage(vendor).regressions
                                                 /\ VendorCoverage(vendor).failing > 0
  BY DEF RegressionsAreShown
<1> DEFINE current  == Newest(Of(v))
           previous == Newest(Of(v) \ {current})
           vendor   == validations[v].vendor
<1>1. IsFiniteSet(Of(v)) /\ Of(v) \subseteq Result /\ Of(v) \subseteq Results
  BY ResultsAreFinite DEF Of
<1>2. Cardinality(Of(v)) \in Nat
  BY <1>1, FS_CardinalityType
<1>3. Of(v) # {}
  <2>1. Cardinality(Of(v)) # 0
    BY <1>2
  <2>2. QED
    BY <2>1, FS_EmptySet
<1>4. current \in Of(v)
  BY <1>1, <1>3, NewestIsThere
<1> HIDE DEF current
<1>5. IsFiniteSet(Of(v) \ {current}) /\ Of(v) \ {current} # {}
  <2>1. /\ IsFiniteSet(Of(v) \ {current})
        /\ Cardinality(Of(v) \ {current}) = Cardinality(Of(v)) - 1
    BY <1>1, <1>4, FS_RemoveElement
  <2>2. Cardinality(Of(v) \ {current}) # 0
    BY <1>2, <2>1
  <2>3. QED
    BY <2>1, <2>2, FS_EmptySet
<1>6. previous \in Of(v) \ {current}
  BY <1>1, <1>5, NewestIsThere
<1> HIDE DEF previous
<1>7. DetectRegression(v) <=> previous.status = "success" /\ current.status = "failure"
  BY DEF DetectRegression, current, previous
<1>8. ASSUME OnlyOneOfRun(current), OnlyOneOfRun(previous)
      PROVE  DetectRegression(v)
               <=> RunComparison(RunOf(previous), RunOf(current))[v] = "regressed"
  <2>1. /\ current \in Results /\ previous \in Results
        /\ current.validation = v /\ previous.validation = v
    BY <1>4, <1>6 DEF Of
  <2>2. /\ Compared(RunOf(current), v) = {current} /\ Compared(RunOf(previous), v) = {previous}
        /\ current \in runs[RunOf(current)].results
    BY <1>8, <2>1, ComparedIsOne
  <2>3. RunComparison(RunOf(previous), RunOf(current))[v] = ChangeType({previous}, {current})
    BY <2>1, <2>2 DEF RunComparison
  <2>4. QED
    BY <1>7, <2>3, ChangeOfOne
<1>9. ASSUME DetectRegression(v)
      PROVE  /\ Status(v) = "failure"
             /\ v \in VendorCoverage(vendor).regressions
             /\ VendorCoverage(vendor).failing > 0
  <2> DEFINE own == {u \in DOMAIN validations : validations[u].vendor = vendor}
             failing == {u \in own : Status(u) = "failure"}
  <2>1. Status(v) = "failure"
    BY <1>3, <1>7, <1>9 DEF Status, current
  <2>2. VendorCoverage(vendor).regressions = own \cap DetectValidationRegressions
    BY DEF VendorCoverage
  <2>3. VendorCoverage(vendor).failing = Cardinality(failing)
    BY DEF VendorCoverage
  <2>4. IsFiniteSet(failing)
    <3>1. DOMAIN validations = 1 .. Len(validations) /\ Len(validations) \in Int /\ 1 \in Int
      BY Types DEF IInv
    <3>2. IsFiniteSet(DOMAIN validations)
      BY <3>1, FS_Interval
    <3>3. failing \in SUBSET (DOMAIN validations)
      OBVIOUS
    <3> HIDE DEF failing
    <3>4. QED
      BY <3>2, <3>3, FS_Subset
  <2>5. v \in failing
    BY <2>1
  <2>6. v \in own \cap DetectValidationRegressions
    BY <1>9 DEF DetectValidationRegressions
  <2> HIDE DEF failing, own
  <2>7. Cardinality(failing) \in Nat /\ Cardinality(failing) # 0
    BY <2>4, <2>5, FS_CardinalityType, FS_EmptySet
  <2>8. QED
    BY <2>1, <2>2, <2>3, <2>6, <2>7
<1>10. QED
  BY <1>8, <1>9 DEF current, previous

-----------------------------------------------------------------------------
\* A result with a failed step is a failure.
LEMMA FailedStepFails ==
    ASSUME IInv, RunsAreSound, NEW k \in DOMAIN runs, NEW x \in runs[k].results,
           x.steps # <<>>, StepsFailed(x) > 0
    PROVE  x.status = "failure"
<1> DEFINE b == block[x.from]
           passed == {n \in DOMAIN x.steps : x.steps[n]}
<1>1. x \in Results /\ x \in Result /\ x.from \in Blocks
  BY ResultsAreFinite DEF RunsAreSound, RunIsSound
<1>2. /\ ResultIsSound(x, b, validations) /\ BlockIsSound(x.from, b)
      /\ SubmissionIsSound(handler[x.from], b, From(x.from) # {})
  BY <1>1, OneHandler DEF IInv, SubmissionsAreSound, Handlers
<1>3. x \in From(x.from)
  BY <1>1 DEF From
<1>4. b.at \in Answerable
  BY <1>2, <1>3 DEF SubmissionIsSound, Active
<1>5. x.status = ParsedStatus(x.from, StatusOfSteps(x.steps))
  <2>1. /\ b.item.status = OverallStatus(IF b.raised THEN "error" ELSE StatusOfSteps(b.item.steps),
                                         b.item.steps)
        /\ x.steps = b.item.steps /\ x.status = ParsedStatus(x.from, b.item.status)
    BY <1>2, <1>4 DEF BlockIsSound, ResultIsSound
  <2> HIDE DEF b
  <2>2. QED
    BY <2>1 DEF OverallStatus
<1>6. passed # DOMAIN x.steps
  <2>1. SUFFICES ASSUME passed = DOMAIN x.steps PROVE FALSE
    OBVIOUS
  <2>2. x.steps \in Seq(BOOLEAN)
    BY <1>1 DEF Result, StepsOf
  <2>3. Len(x.steps) \in Nat /\ DOMAIN x.steps = 1 .. Len(x.steps)
    BY <2>2, LenProperties
  <2>4. Cardinality(1 .. Len(x.steps)) = Len(x.steps)
    <3>1. 1 \in Int /\ Len(x.steps) \in Int
      BY <2>3
    <3>2. Cardinality(1 .. Len(x.steps)) =
            IF 1 > Len(x.steps) THEN 0 ELSE Len(x.steps) - 1 + 1
      BY <3>1, FS_Interval
    <3>3. QED
      BY <2>3, <3>2
  <2>5. StepsPassed(x) = Len(x.steps)
    BY <2>1, <2>3, <2>4 DEF StepsPassed
  <2>6. QED
    BY <2>3, <2>5 DEF StepsFailed
<1>7. StatusOfSteps(x.steps) \in {"degraded", "failure"}
  BY <1>6 DEF StatusOfSteps
<1>8. QED
  BY <1>1, <1>5, <1>7 DEF ParsedStatus

LEMMA RowsAccount ==
    ASSUME IInv, RunsAreSound
    PROVE  RowsAccountForResults
<1> SUFFICES ASSUME NEW k \in DOMAIN runs
             PROVE  LET grouped == RunResultsGrouped(k) IN
                    /\ UNION Range(grouped) = runs[k].results
                    /\ \A a, b \in DOMAIN grouped : a # b => grouped[a] \cap grouped[b] = {}
                    /\ RunStats(k).failure >= Cardinality({d \in RunStepsData(k) : d.failed > 0})
                    /\ NextRun(k) # 0 => PreviousRun(NextRun(k)) = k
  BY DEF RowsAccountForResults
<1> DEFINE R == runs[k].results
           vendorOf(x) == LET v == validations[x.validation].vendor IN
                          IF v = "" THEN "Unassigned" ELSE v
           groups == {vendorOf(x) : x \in R}
           grouped == RunResultsGrouped(k)
<1>1. grouped = [vendor \in groups |-> {x \in R : vendorOf(x) = vendor}]
  BY DEF RunResultsGrouped
<1>2. UNION Range(grouped) = R
  <2> HIDE DEF grouped, vendorOf, R
  <2>1. \A x \in R : vendorOf(x) \in DOMAIN grouped /\ x \in grouped[vendorOf(x)]
    BY <1>1
  <2>2. \A vendor \in DOMAIN grouped : grouped[vendor] \subseteq R
    BY <1>1
  <2>3. QED
    BY <2>1, <2>2 DEF Range
<1>3. ASSUME NEW a \in DOMAIN grouped, NEW b \in DOMAIN grouped, a # b
      PROVE  grouped[a] \cap grouped[b] = {}
  <2> HIDE DEF grouped, vendorOf, R
  <2>1. QED
    BY <1>1, <1>3
<1>4. RunStats(k).failure >= Cardinality({d \in RunStepsData(k) : d.failed > 0})
  <2> DEFINE data == [x \in R |-> [result |-> x, passed |-> StepsPassed(x), failed |-> StepsFailed(x)]]
             bad == {x \in R : x.steps # <<>> /\ StepsFailed(x) > 0}
             failures == {x \in R : x.status = "failure"}
  <2>1. IsFiniteSet(R)
    BY ResultsAreFinite
  <2>2. bad \in SUBSET failures
    BY FailedStepFails
  <2>3. IsFiniteSet(failures) /\ IsFiniteSet(bad)
    BY <2>1, FS_Subset
  <2>4. RunStats(k).failure = Cardinality(failures)
    BY DEF RunStats
  <2>5. {d \in RunStepsData(k) : d.failed > 0} = {data[x] : x \in bad}
    <3>1. RunStepsData(k) = {data[x] : x \in {x \in R : x.steps # <<>>}}
      BY DEF RunStepsData
    <3>2. \A x \in R : data[x].failed = StepsFailed(x)
      OBVIOUS
    <3> HIDE DEF data, R
    <3>3. QED
      BY <3>1, <3>2
  <2> HIDE DEF bad, failures, data
  <2>6. Cardinality(bad) <= Cardinality(failures)
    BY <2>2, <2>3, FS_Subset
  <2>7. IsFiniteSet({data[x] : x \in bad}) /\ Cardinality({data[x] : x \in bad}) <= Cardinality(bad)
    BY <2>3, Images
  <2>8. /\ Cardinality({data[x] : x \in bad}) \in Nat /\ Cardinality(bad) \in Nat
        /\ Cardinality(failures) \in Nat
    BY <2>3, <2>7, FS_CardinalityType
  <2>9. Cardinality({data[x] : x \in bad}) <= Cardinality(failures)
    BY <2>6, <2>7, <2>8
  <2>10. Cardinality(failures) >= Cardinality({d \in RunStepsData(k) : d.failed > 0})
    BY <2>5, <2>8, <2>9
  <2>11. QED
    BY <2>4, <2>10
<1>5. NextRun(k) # 0 => PreviousRun(NextRun(k)) = k
  BY Types DEF IInv, NextRun, PreviousRun
<1>6. QED
  BY <1>2, <1>3, <1>4, <1>5

-----------------------------------------------------------------------------
\* The number of whole pages.
LEMMA Quotients ==
    ASSUME NEW n \in Nat, NEW size \in Nat \ {0}
    PROVE  /\ n \div size \in Nat
           /\ (n \div size) * size <= n
           /\ n < (n \div size) * size + size
OBVIOUS

LEMMA QuotientIs ==
    ASSUME NEW n \in Nat, NEW size \in Nat \ {0}, NEW q \in Nat
    PROVE  n \div size = q <=> q * size <= n /\ n < q * size + size
<1>1. PICK d \in Nat : d = n \div size
  BY Quotients
<1>2. d * size <= n /\ n < d * size + size
  BY <1>1, Quotients
<1>3. ASSUME NEW a \in Nat, NEW b \in Nat, a < b PROVE a * size + size <= b * size
  BY <1>3
<1>4. d * size \in Nat /\ q * size \in Nat
  OBVIOUS
<1>5. ASSUME q * size <= n, n < q * size + size PROVE d = q
  <2>1. ~ (d < q)
    BY <1>2, <1>3, <1>4, <1>5
  <2>2. ~ (q < d)
    BY <1>2, <1>3, <1>4, <1>5
  <2>3. QED
    BY <2>1, <2>2
<1>6. QED
  BY <1>1, <1>2, <1>5

LEMMA Times ==
    ASSUME NEW a \in Nat, NEW b \in Nat, NEW size \in Nat, a <= b
    PROVE  a * size <= b * size
OBVIOUS

\* What a page shows, of total rows: the places from .. to, if there are any.
LEMMA SliceIs ==
    ASSUME NEW s \in Seq(Nat), NEW from \in Nat \ {0}, NEW to \in Nat
    PROVE  /\ from > Len(s) => Slice(s, from, to) = <<>>
           /\ from <= to /\ from <= Len(s) =>
                Range(Slice(s, from, to)) = {s[n] : n \in {n \in DOMAIN s : from <= n /\ n <= to}}
<1> DEFINE last == IF to < Len(s) THEN to ELSE Len(s)
<1>1. Len(s) \in Nat /\ DOMAIN s = 1 .. Len(s) /\ \A n \in DOMAIN s : s[n] \in Nat
  BY LenProperties
<1>2. last \in Nat /\ last <= Len(s) /\ Slice(s, from, to) = SubSeq(s, from, last)
  BY <1>1 DEF Slice
<1>3. \A n \in DOMAIN s : n <= to <=> n <= last
  BY <1>1
<1>4. from <= to /\ from <= Len(s) => from <= last
  BY <1>1
<1>5. from > Len(s) => last < from
  BY <1>1
<1> HIDE DEF last
<1>6. \A i \in from .. last : s[i] \in Nat
  BY <1>1, <1>2
<1>7. from > Len(s) => Slice(s, from, to) = <<>>
  BY <1>2, <1>5, SubSeqEmpty
<1>8. ASSUME from <= last
      PROVE  Range(Slice(s, from, to)) = {s[n] : n \in {n \in DOMAIN s : from <= n /\ n <= to}}
  <2> DEFINE part == SubSeq(s, from, last)
  <2>1. DOMAIN part = 1 .. (last - from + 1) /\ \A i \in DOMAIN part : part[i] = s[from + i - 1]
    BY <1>2, <1>6, <1>8, SubSeqProperties
  <2> HIDE DEF part
  <2>2. ASSUME NEW i \in DOMAIN part
        PROVE  \E n \in DOMAIN s : from <= n /\ n <= to /\ part[i] = s[n]
    <3>1. from + i - 1 \in DOMAIN s /\ from <= from + i - 1 /\ from + i - 1 <= last
      BY <1>1, <1>2, <2>1
    <3>2. QED
      BY <1>3, <2>1, <3>1
  <2>3. ASSUME NEW n \in DOMAIN s, from <= n, n <= to
        PROVE  \E i \in DOMAIN part : part[i] = s[n]
    <3>1. n - from + 1 \in DOMAIN part /\ from + (n - from + 1) - 1 = n
      BY <1>1, <1>2, <1>3, <2>1, <2>3
    <3>2. QED
      BY <2>1, <3>1
  <2>4. {part[i] : i \in DOMAIN part} = {s[n] : n \in {n \in DOMAIN s : from <= n /\ n <= to}}
    BY <2>2, <2>3
  <2>5. Slice(s, from, to) = part
    BY <1>2 DEF part
  <2>6. QED
    BY <2>4, <2>5 DEF Range
<1>9. QED
  BY <1>4, <1>7, <1>8

LEMMA NewestFirstIs ==
    ASSUME IInv
    PROVE  /\ NewestFirst \in Seq(Nat) /\ Len(NewestFirst) = Len(runs)
           /\ DOMAIN NewestFirst = DOMAIN runs
           /\ \A n \in DOMAIN runs : NewestFirst[n] = Len(runs) + 1 - n
<1>1. Len(runs) \in Nat /\ DOMAIN runs = 1 .. Len(runs)
  BY Types DEF IInv
<1>2. NewestFirst \in [1 .. Len(runs) -> Nat]
  BY <1>1 DEF NewestFirst
<1>3. NewestFirst \in Seq(Nat)
  BY <1>1, <1>2, SeqDef
<1>4. DOMAIN NewestFirst = 1 .. Len(runs) /\ DOMAIN NewestFirst = 1 .. Len(NewestFirst)
      /\ Len(NewestFirst) \in Nat
  BY <1>2, <1>3, LenProperties
<1>5. Len(NewestFirst) = Len(runs)
  BY <1>1, <1>4
<1>6. QED
  BY <1>1, <1>3, <1>4, <1>5 DEF NewestFirst

\* The rows from place p of the pages on, with pages of the given size.
LEMMA PageIs ==
    ASSUME IInv, NEW size \in Nat \ {0}, NEW page \in Nat \ {0},
           (page - 1) * size < Len(runs)
    PROVE  Range(Slice(NewestFirst, (page - 1) * size + 1, page * size))
             = {k \in DOMAIN runs : (Len(runs) + size - k) \div size = page}
<1> DEFINE from == (page - 1) * size + 1
           to   == page * size
           N    == Len(runs)
<1>1. Len(runs) \in Nat /\ DOMAIN runs = 1 .. Len(runs)
  BY Types DEF IInv
<1>2. from \in Nat \ {0} /\ to \in Nat /\ to = from + size - 1
  BY Z3
<1>3. ASSUME NEW k \in DOMAIN runs
      PROVE  (N + size - k) \div size = page <=> from <= N + 1 - k /\ N + 1 - k <= to
  <2>1. N + size - k \in Nat
    BY <1>1
  <2>2. (N + size - k) \div size = page
          <=> page * size <= N + size - k /\ N + size - k < page * size + size
    BY <2>1, QuotientIs
  <2>3. to \in Nat /\ N \in Nat /\ k \in Nat /\ size \in Nat /\ from = to - size + 1
    BY <1>1, <1>2
  <2>4. (N + size - k) \div size = page <=> to <= N + size - k /\ N + size - k < to + size
    BY <2>2
  <2> HIDE DEF N, from, to
  <2>5. (to <= N + size - k /\ N + size - k < to + size)
          <=> (from <= N + 1 - k /\ N + 1 - k <= to)
    BY <2>3
  <2>6. QED
    BY <2>4, <2>5
<1> HIDE DEF from, to
<1>4. Range(Slice(NewestFirst, from, to))
        = {NewestFirst[n] : n \in {n \in DOMAIN NewestFirst : from <= n /\ n <= to}}
  <2>1. from <= to /\ from <= Len(NewestFirst)
    BY <1>1, <1>2, NewestFirstIs DEF from
  <2>2. NewestFirst \in Seq(Nat) /\ from \in Nat \ {0} /\ to \in Nat
    BY <1>2, NewestFirstIs
  <2>3. QED
    BY ONLY <2>1, <2>2, SliceIs
<1>5. {NewestFirst[n] : n \in {n \in DOMAIN NewestFirst : from <= n /\ n <= to}}
        = {k \in DOMAIN runs : from <= N + 1 - k /\ N + 1 - k <= to}
  <2>1. ASSUME NEW n \in DOMAIN runs
        PROVE  NewestFirst[n] \in DOMAIN runs /\ N + 1 - NewestFirst[n] = n
    BY <1>1, NewestFirstIs
  <2>2. ASSUME NEW k \in DOMAIN runs
        PROVE  N + 1 - k \in DOMAIN runs /\ NewestFirst[N + 1 - k] = k
    BY <1>1, NewestFirstIs
  <2>3. DOMAIN NewestFirst = DOMAIN runs
    BY NewestFirstIs
  <2> HIDE DEF N
  <2>4. QED
    BY <2>1, <2>2, <2>3
<1>6. QED
  BY <1>3, <1>4, <1>5 DEF from, to

LEMMA PagesShow ==
    ASSUME IInv
    PROVE  PagesShowEveryRun
<1> SUFFICES ASSUME NEW size \in 1 .. Len(runs)
             PROVE  LET pages == ListedPage(1, size).total_pages
                        pageOf(k) == (Len(runs) + size - k) \div size
                    IN /\ \A page \in 1 .. pages :
                             /\ ListedPage(page, size) = ShownPage(page, size)
                             /\ ListedPage(page, size).has_next <=> page # pages
                             /\ Range(ListedPage(page, size).runs)
                                  = {k \in DOMAIN runs : pageOf(k) = page}
                       /\ ListedPage(pages + 1, size).runs = <<>>
                       /\ ShownPage(pages + 1, size) = ListedPage(pages, size)
  BY DEF PagesShowEveryRun
<1> DEFINE N     == Len(runs)
           pages == (N + size - 1) \div size
           rows(page) == Slice(NewestFirst, (page - 1) * size + 1, page * size)
<1>1. N \in Nat /\ size \in Nat \ {0} /\ N > 0 /\ size <= N
  BY Types DEF IInv
<1>2. /\ pages \in Nat /\ pages * size \in Nat
      /\ pages * size <= N + size - 1 /\ N + size - 1 < pages * size + size
  <2>1. N + size - 1 \in Nat
    BY <1>1
  <2>2. QED
    BY <1>1, <2>1, Quotients
<1>3. \A page : ListedPage(page, size) = [runs |-> rows(page), page |-> page, total_pages |-> pages,
                                          has_next |-> page < pages, has_prev |-> page > 1]
  BY <1>1 DEF ListedPage
<1>4. \A page : ShownPage(page, size) =
                  LET at == IF page < 1 \/ page > pages THEN pages ELSE page
                  IN [runs |-> rows(at), page |-> at, total_pages |-> pages,
                      has_next |-> at < pages, has_prev |-> at > 1]
  BY <1>1 DEF ShownPage
<1>5. ASSUME NEW page \in 1 .. pages PROVE (page - 1) * size < N
  <2>1. pages \in Nat /\ page \in Nat /\ page <= pages /\ size \in Nat
    BY <1>1, <1>2
  <2>2. page * size <= pages * size
    BY ONLY <2>1, Times
  <2>3. (page - 1) * size = page * size - size /\ page * size \in Nat
    BY <1>1, <1>2
  <2> HIDE DEF N, pages
  <2>4. QED
    BY <1>1, <1>2, <2>2, <2>3
<1>6. rows(pages + 1) = <<>>
  <2> DEFINE from == pages * size + 1
             to   == (pages + 1) * size
  <2>1. from \in Nat \ {0} /\ to \in Nat /\ pages + 1 - 1 = pages
    BY <1>1, <1>2
  <2>2. from > N
    BY <1>1, <1>2
  <2>3. rows(pages + 1) = Slice(NewestFirst, from, to)
    BY <2>1
  <2> HIDE DEF from, to, pages, rows
  <2>4. QED
    BY <2>1, <2>2, <2>3, NewestFirstIs, SliceIs
<1>7. ASSUME NEW page \in 1 .. pages
      PROVE  Range(rows(page)) = {k \in DOMAIN runs : (Len(runs) + size - k) \div size = page}
  <2>1. page \in Nat \ {0}
    BY <1>2
  <2>2. QED
    BY <1>1, <1>5, <2>1, PageIs
<1> HIDE DEF pages, rows, N
<1>8. ASSUME NEW page \in 1 .. pages
      PROVE  /\ ListedPage(page, size) = ShownPage(page, size)
             /\ ListedPage(page, size).has_next <=> page # pages
             /\ ListedPage(page, size).runs = rows(page)
  <2>1. ~ (page < 1 \/ page > pages) /\ (page < pages <=> page # pages)
    BY <1>2
  <2>2. ShownPage(page, size) = [runs |-> rows(page), page |-> page, total_pages |-> pages,
                                 has_next |-> page < pages, has_prev |-> page > 1]
    BY <1>4, <2>1
  <2>3. ListedPage(page, size) = ShownPage(page, size)
    BY <1>3, <2>2
  <2>4. /\ ListedPage(page, size).has_next = (page < pages)
        /\ ListedPage(page, size).runs = rows(page)
    BY <1>3
  <2>5. QED
    BY <2>1, <2>3, <2>4
<1>9. ListedPage(pages + 1, size).runs = <<>>
  BY <1>3, <1>6
<1>10. ShownPage(pages + 1, size) = ListedPage(pages, size)
  <2>1. pages + 1 > pages
    BY <1>2
  <2>2. QED
    BY <1>3, <1>4, <2>1
<1>11. ListedPage(1, size).total_pages = pages
  BY <1>3
<1>12. QED
  BY <1>7, <1>8, <1>9, <1>10, <1>11

-----------------------------------------------------------------------------
\* What is new, better or worse from one run to the other is the reverse of it
\* the other way round, and the summary adds up.
THEOREM ComparisonsAreSymmetric == Spec => []ComparisonsTurnAround
<1>1. QED
  BY RunsInvariance, ComparisonsTurn, PTL

\* A regression that is reported is the one that the comparison of the two runs
\* shows, in whatever order late submissions were stored.
THEOREM RegressionsShown == Spec => []RegressionsAreShown
<1>1. QED
  BY RunsInvariance, RegressionsShow, PTL

\* The reports agree with one another and leave no result and no run out,
\* however many there are, and whatever the size of a page.
THEOREM ReportsAlwaysAgree == Spec => []ReportsAgree
<1>1. IInv /\ RunsAreSound => ReportsAgree
  BY ComparisonsTurn, RegressionsShow, RowsAccount, PagesShow DEF ReportsAgree
<1>2. QED
  BY <1>1, RunsInvariance, PTL
=============================================================================

---------------------------- MODULE IngestionProofs ----------------------------
(***************************************************************************)
(* Proofs about WebhookIngestion, WebhookFetch, Conflicts and TestReports: *)
(* for any deliveries, tests, links, reports and processes, any            *)
(* requirements and fields, any number of detections and of reports.       *)
(***************************************************************************)
EXTENDS TestReports, WebhookFetch, SequenceTheorems, FiniteSetTheorems, WellFoundedInduction, TLAPS

USE WebhookAssumption

(***************************************************************************)
(* The inductive invariant.  A run is whole once it is finished, since one *)
(* process alone writes it; a link tells of finished runs only, so nothing *)
(* changes the result it shows; and a delivery that came has its event,    *)
(* which keeps every other process from taking it.                         *)
(***************************************************************************)
RunsAreWhole ==
    /\ Len(runs) <= MaxRuns
    /\ \A n \in DOMAIN runs :
         /\ runs[n].finished => runs[n].results \in Reports
         /\ runs[n].delivery # NoDelivery => event[runs[n].delivery] # NoEvent
    /\ \A k, n \in DOMAIN runs :
         runs[k].delivery = runs[n].delivery /\ runs[k].delivery # NoDelivery => k = n

EventsNameTheirRun ==
    \A d \in Deliveries : event[d].status = "success" /\ event[d].run # 0 =>
        /\ event[d].run \in DOMAIN runs
        /\ runs[event[d].run].delivery = d
        /\ runs[event[d].run].finished

LinksShowFinishedRuns ==
    \A l \in Existing :
        IF link[l].run = 0 THEN link[l].status = "unknown"
        ELSE /\ link[l].run \in DOMAIN runs
             /\ runs[link[l].run].finished
             /\ link[l].status = runs[link[l].run].results[TestOf[l]]

Writing == {"importing", "linking", "updating"}

\* What a process in each state relies on, of the tables as they are: ev, rs
\* and lk stand for event, runs and link, or for what a step makes of them.
Sound(s, ev, rs, lk) ==
    /\ s.at \in {"idle", "new_link", "fixing"} => s.delivery = NoDelivery
    /\ s.delivery # NoDelivery => ev[s.delivery] # NoEvent
    /\ s.at \in {"received", "processing"} =>
         /\ s.delivery # NoDelivery
         /\ \A n \in DOMAIN rs : rs[n].delivery # s.delivery
    /\ s.at \in Writing =>
         /\ s.run \in DOMAIN rs
         /\ rs[s.run].delivery = s.delivery
         /\ s.report \in Reports
         /\ rs[s.run].finished <=> s.at # "importing"
         /\ rs[s.run].finished => rs[s.run].results = s.report
    /\ s.at \in {"updating", "new_link", "fixing"} =>
         \A l \in DOMAIN s.rows : lk[l] # NoLink

Apart(s, u) ==
    /\ s.delivery = u.delivery => s.delivery = NoDelivery
    /\ s.at \in Writing /\ u.at \in Writing => s.run # u.run

ProcessesAreSound ==
    /\ \A p \in Processes : Sound(proc[p], event, runs, link)
    /\ \A p, q \in Processes : p # q => Apart(proc[p], proc[q])

IInv ==
    /\ TypeOK
    /\ RunsAreWhole
    /\ EventsNameTheirRun
    /\ LinksShowFinishedRuns
    /\ ProcessesAreSound

-----------------------------------------------------------------------------
ProcState ==
    [at : Place, delivery : Deliveries \cup {NoDelivery}, run : Nat, report : Results,
     rows : UNION {[L -> LinkRow] : L \in SUBSET Links}]

\* The rows of the tables and of the processes, one at a time.
LEMMA Types ==
    ASSUME TypeOK
    PROVE  /\ \A d \in Deliveries : event[d] \in EventRow \cup {NoEvent}
           /\ runs \in Seq(RunRow)
           /\ Len(runs) \in Nat
           /\ DOMAIN runs = 1 .. Len(runs)
           /\ \A n \in DOMAIN runs : runs[n] \in RunRow
           /\ link \in [Links -> LinkRow \cup {NoLink}]
           /\ proc \in [Processes -> ProcState]
           /\ \A p \in Processes : DOMAIN proc[p].rows \subseteq Links
<1>1. runs \in Seq(RunRow) /\ proc \in [Processes -> ProcState]
  BY DEF TypeOK, ProcState
<1>2. /\ Len(runs) \in Nat
      /\ DOMAIN runs = 1 .. Len(runs)
      /\ \A n \in DOMAIN runs : runs[n] \in RunRow
  BY <1>1, LenProperties
<1>3. ASSUME NEW p \in Processes PROVE DOMAIN proc[p].rows \subseteq Links
  <2>1. proc[p].rows \in UNION {[L -> LinkRow] : L \in SUBSET Links}
    BY <1>1 DEF ProcState
  <2>2. PICK L \in SUBSET Links : proc[p].rows \in [L -> LinkRow]
    BY <2>1
  <2>3. QED
    BY <2>2
<1>4. QED
  BY <1>1, <1>2, <1>3 DEF TypeOK

\* The states that processes go to are states.
LEMMA States ==
    ASSUME TypeOK, NEW p \in Processes
    PROVE  /\ Idle \in ProcState
           /\ \A at \in Place : [proc[p] EXCEPT !.at = at] \in ProcState
           /\ \A l \in Links : Visited(p, l) \in ProcState
           /\ \A at \in Place, d \in Deliveries \cup {NoDelivery}, n \in Nat, report \in Results,
                 L \in SUBSET Links : \A rows \in [L -> LinkRow] :
                At(at, d, n, report, rows) \in ProcState
           /\ \A at \in Place, d \in Deliveries \cup {NoDelivery}, n \in Nat, report \in Results :
                At(at, d, n, report, NoRows) \in ProcState
           /\ NoResults \in Results
           /\ NoRows \in [{} -> LinkRow]
           /\ NewLink \in LinkRow
<1>1. NoResults \in Results /\ NewLink \in LinkRow
  BY DEF NoResults, Results, NewLink, LinkRow
<1>2. NoRows \in [{} -> LinkRow]
  BY <1>1 DEF NoRows
<1>3. ASSUME NEW at \in Place, NEW d \in Deliveries \cup {NoDelivery}, NEW n \in Nat,
             NEW report \in Results, NEW L \in SUBSET Links, NEW rows \in [L -> LinkRow]
      PROVE  At(at, d, n, report, rows) \in ProcState
  <2>1. rows \in UNION {[M -> LinkRow] : M \in SUBSET Links}
    OBVIOUS
  <2>2. QED
    BY <2>1 DEF At, ProcState
<1>4. \A at \in Place, d \in Deliveries \cup {NoDelivery}, n \in Nat, report \in Results :
         At(at, d, n, report, NoRows) \in ProcState
  BY <1>2, <1>3, {} \in SUBSET Links
<1>5. proc[p] \in ProcState
  BY Types
<1>6. \A at \in Place : [proc[p] EXCEPT !.at = at] \in ProcState
  BY <1>5 DEF ProcState
<1>7. ASSUME NEW l \in Links PROVE Visited(p, l) \in ProcState
  <2> DEFINE rows == [m \in DOMAIN proc[p].rows \ {l} |-> proc[p].rows[m]]
  <2>1. PICK L \in SUBSET Links : proc[p].rows \in [L -> LinkRow]
    BY <1>5 DEF ProcState
  <2>2. rows \in [L \ {l} -> LinkRow] /\ L \ {l} \in SUBSET Links
    BY <2>1
  <2> HIDE DEF rows
  <2>3. rows \in UNION {[M -> LinkRow] : M \in SUBSET Links}
    BY <2>2
  <2>4. Visited(p, l) = [proc[p] EXCEPT !.rows = rows]
    BY DEF Visited, Listed, rows
  <2>5. QED
    BY <1>5, <2>3, <2>4 DEF ProcState
<1>8. Idle \in ProcState
  BY <1>1, <1>4, "idle" \in Place, 0 \in Nat DEF Idle, Place
<1>9. QED
  BY <1>1, <1>2, <1>3, <1>4, <1>5, <1>6, <1>7, <1>8

\* A process that does nothing stays sound when events and links are only
\* added, and nobody rewrites its run or makes one of its delivery.
LEMMA SoundStays ==
    ASSUME NEW u \in ProcState, NEW ev, NEW rs, NEW lk, NEW ev2, NEW rs2, NEW lk2,
           Sound(u, ev, rs, lk), DOMAIN u.rows \subseteq Links,
           \A d \in Deliveries : ev[d] # NoEvent => ev2[d] # NoEvent,
           \A l \in Links : lk[l] # NoLink => lk2[l] # NoLink,
           u.at \in Writing => u.run \in DOMAIN rs2 /\ rs2[u.run] = rs[u.run],
           \A k \in DOMAIN rs2 : rs2[k].delivery = u.delivery /\ u.delivery # NoDelivery
               => \E n \in DOMAIN rs : rs[n].delivery = u.delivery
    PROVE  Sound(u, ev2, rs2, lk2)
<1>1. u.delivery \in Deliveries \cup {NoDelivery}
  BY DEF ProcState
<1>2. u.at \in {"received", "processing"} =>
        u.delivery # NoDelivery /\ \A n \in DOMAIN rs2 : rs2[n].delivery # u.delivery
  BY DEF Sound
<1>3. u.delivery # NoDelivery => ev2[u.delivery] # NoEvent
  BY <1>1 DEF Sound
<1>4. u.at \in Writing =>
         /\ u.run \in DOMAIN rs2
         /\ rs2[u.run].delivery = u.delivery
         /\ u.report \in Reports
         /\ rs2[u.run].finished <=> u.at # "importing"
         /\ rs2[u.run].finished => rs2[u.run].results = u.report
  BY DEF Sound
<1>5. u.at \in {"updating", "new_link", "fixing"} =>
        \A l \in DOMAIN u.rows : lk2[l] # NoLink
  BY DEF Sound
<1>6. u.at \in {"idle", "new_link", "fixing"} => u.delivery = NoDelivery
  BY DEF Sound
<1>7. QED
  BY <1>2, <1>3, <1>4, <1>5, <1>6 DEF Sound

\* One process moves, and the others stay sound.
LEMMA ProcessStep ==
    ASSUME IInv, NEW p \in Processes, NEW s \in ProcState, Go(p, s),
           Sound(s, event', runs', link'),
           \A d \in Deliveries : event[d] # NoEvent => event'[d] # NoEvent,
           \A l \in Links : link[l] # NoLink => link'[l] # NoLink,
           \A q \in Processes : q # p =>
               /\ Apart(s, proc[q])
               /\ proc[q].at \in Writing =>
                    proc[q].run \in DOMAIN runs' /\ runs'[proc[q].run] = runs[proc[q].run]
               /\ \A k \in DOMAIN runs' :
                    runs'[k].delivery = proc[q].delivery /\ proc[q].delivery # NoDelivery
                      => \E n \in DOMAIN runs : runs[n].delivery = proc[q].delivery
    PROVE  ProcessesAreSound' /\ proc' \in [Processes -> ProcState]
<1>1. proc \in [Processes -> ProcState]
  BY Types DEF IInv
<1>2. proc'[p] = s /\ \A q \in Processes : q # p => proc'[q] = proc[q]
  BY <1>1 DEF Go
<1>3. ASSUME NEW q \in Processes PROVE Sound(proc'[q], event', runs', link')
  <2>1. CASE q = p
    BY <1>2, <2>1
  <2>2. CASE q # p
    <3>1. /\ proc[q] \in ProcState
          /\ Sound(proc[q], event, runs, link)
          /\ DOMAIN proc[q].rows \subseteq Links
      BY <1>1, Types DEF IInv, ProcessesAreSound
    <3>2. Sound(proc[q], event', runs', link')
      BY <2>2, <3>1, SoundStays
    <3>3. QED
      BY <1>2, <2>2, <3>2
  <2>3. QED
    BY <2>1, <2>2
<1>4. ASSUME NEW q \in Processes, NEW r \in Processes, q # r PROVE Apart(proc'[q], proc'[r])
  <2>1. Apart(proc[q], proc[r]) /\ Apart(proc[r], proc[q])
    BY <1>4 DEF IInv, ProcessesAreSound
  <2>2. CASE q = p
    BY <1>2, <1>4, <2>2
  <2>3. CASE r = p
    <3>1. Apart(s, proc[q])
      BY <1>4, <2>3
    <3>2. Apart(proc[q], s)
      BY <3>1 DEF Apart
    <3>3. QED
      BY <1>2, <1>4, <2>3, <3>2
  <2>4. CASE q # p /\ r # p
    BY <1>2, <2>1, <2>4
  <2>5. QED
    BY <2>2, <2>3, <2>4
<1>5. proc' \in [Processes -> ProcState]
  BY <1>1 DEF Go
<1>6. ProcessesAreSound'
  BY <1>3, <1>4 DEF ProcessesAreSound
<1>7. QED
  BY <1>5, <1>6

\* What stays when runs and links are left alone.
LEMMA TablesStay ==
    ASSUME IInv, UNCHANGED <<runs, link>>
    PROVE  /\ LinksShowFinishedRuns'
           /\ runs' \in Seq(RunRow)
           /\ link' \in [Links -> LinkRow \cup {NoLink}]
           /\ Len(runs') <= MaxRuns
BY DEF IInv, TypeOK, LinksShowFinishedRuns, Existing, RunsAreWhole

\* A process that goes on, with its run and delivery if it keeps them, in a
\* state that is sound for the tables as they are.
LEMMA MoveKeeps ==
    ASSUME IInv, NEW p \in Processes, NEW s \in ProcState, Go(p, s),
           UNCHANGED <<event, runs, link>>, Sound(s, event, runs, link),
           s.delivery \in {proc[p].delivery, NoDelivery},
           s.at \in Writing => proc[p].at \in Writing /\ s.run = proc[p].run
    PROVE  IInv'
<1>1. \A q \in Processes : q # p =>
        /\ Apart(s, proc[q])
        /\ proc[q].at \in Writing => proc[q].run \in DOMAIN runs
  BY DEF IInv, ProcessesAreSound, Apart, Sound
<1>2. ProcessesAreSound' /\ proc' \in [Processes -> ProcState]
  BY <1>1, ProcessStep
<1>3. TypeOK'
  BY <1>2 DEF IInv, TypeOK, ProcState
<1>4. RunsAreWhole' /\ EventsNameTheirRun' /\ LinksShowFinishedRuns'
  BY DEF IInv, RunsAreWhole, EventsNameTheirRun, LinksShowFinishedRuns, Existing
<1>5. QED
  BY <1>2, <1>3, <1>4 DEF IInv

\* A process that saves its event and goes on; an event that is to succeed with
\* a run is given its own, finished one.
LEMMA EventKeeps ==
    ASSUME IInv, NEW p \in Processes, NEW s \in ProcState, Go(p, s),
           NEW d \in Deliveries, NEW row \in EventRow,
           event' = [event EXCEPT ![d] = row],
           UNCHANGED <<runs, link>>, Sound(s, event', runs, link),
           s.at \notin Writing, s.delivery \in {d, NoDelivery},
           \A q \in Processes : q # p => proc[q].delivery # d,
           row.status = "success" /\ row.run # 0 =>
             row.run \in DOMAIN runs /\ runs[row.run].delivery = d /\ runs[row.run].finished
    PROVE  IInv'
<1>1. row # NoEvent
  BY DEF EventRow, NoEvent, EventStatus
<1>2. /\ event' \in [Deliveries -> EventRow \cup {NoEvent}]
      /\ \A x \in Deliveries : event'[x] = IF x = d THEN row ELSE event[x]
  BY DEF IInv, TypeOK
<1>3. \A x \in Deliveries : event[x] # NoEvent => event'[x] # NoEvent
  BY <1>1, <1>2
<1>4. \A q \in Processes : q # p =>
        /\ Apart(s, proc[q])
        /\ proc[q].at \in Writing => proc[q].run \in DOMAIN runs
  BY DEF IInv, ProcessesAreSound, Apart, Sound
<1>5. ProcessesAreSound' /\ proc' \in [Processes -> ProcState]
  BY <1>3, <1>4, ProcessStep
<1>6. TypeOK'
  BY <1>2, <1>5 DEF IInv, TypeOK, ProcState
<1>7. RunsAreWhole'
  <2>1. \A n \in DOMAIN runs : runs[n].delivery \in Deliveries \cup {NoDelivery}
    BY Types DEF IInv, RunRow
  <2>2. QED
    BY <1>3, <2>1 DEF IInv, RunsAreWhole
<1>8. EventsNameTheirRun'
  BY <1>2 DEF IInv, EventsNameTheirRun
<1>9. QED
  BY <1>5, <1>6, <1>7, <1>8, TablesStay DEF IInv

\* The process that writes a run is the only one, and what it writes of the
\* results of a finished run is nothing.
LEMMA RunKeeps ==
    ASSUME IInv, NEW p \in Processes, NEW s \in ProcState, Go(p, s),
           proc[p].at \in {"importing", "linking"}, NEW row \in RunRow,
           runs' = [runs EXCEPT ![proc[p].run] = row], UNCHANGED <<event, link>>,
           row.delivery = proc[p].delivery,
           runs[proc[p].run].finished => row.finished /\ row.results = runs[proc[p].run].results,
           row.finished => row.results = proc[p].report,
           s.delivery = proc[p].delivery, s.run = proc[p].run, s.report = proc[p].report,
           s.at \in {"importing", "linking"}, row.finished <=> s.at # "importing"
    PROVE  IInv'
<1> DEFINE n == proc[p].run
<1>1. /\ Sound(proc[p], event, runs, link)
      /\ n \in DOMAIN runs
      /\ runs[n].delivery = proc[p].delivery
      /\ proc[p].report \in Reports
      /\ proc[p].delivery # NoDelivery => event[proc[p].delivery] # NoEvent
  BY DEF IInv, ProcessesAreSound, Sound, Writing
<1>2. /\ runs \in Seq(RunRow)
      /\ DOMAIN runs = 1 .. Len(runs)
      /\ Len(runs) \in Nat
  BY Types DEF IInv
<1>3. /\ runs' \in Seq(RunRow)
      /\ Len(runs') = Len(runs)
      /\ \A k \in DOMAIN runs : runs'[k] = IF k = n THEN row ELSE runs[k]
  BY <1>1, <1>2, ExceptSeq
<1>4. DOMAIN runs' = DOMAIN runs
  BY <1>2, <1>3, LenProperties
<1> HIDE DEF n
<1>5. \A k \in DOMAIN runs : runs'[k].delivery = runs[k].delivery
  BY <1>1, <1>3 DEF n
<1>6. Sound(s, event', runs', link')
  <2>1. runs'[s.run] = row /\ s.run \in DOMAIN runs'
    BY <1>1, <1>3, <1>4 DEF n
  <2>2. QED
    BY <1>1, <2>1 DEF Sound, Writing
<1>7. \A q \in Processes : q # p =>
        /\ Apart(s, proc[q])
        /\ proc[q].at \in Writing =>
             proc[q].run \in DOMAIN runs' /\ runs'[proc[q].run] = runs[proc[q].run]
  <2>1. ASSUME NEW q \in Processes, q # p
        PROVE  /\ Apart(s, proc[q])
               /\ proc[q].at \in Writing =>
                    proc[q].run \in DOMAIN runs' /\ runs'[proc[q].run] = runs[proc[q].run]
    <3>1. Apart(proc[p], proc[q]) /\ Sound(proc[q], event, runs, link)
      BY <2>1 DEF IInv, ProcessesAreSound
    <3>2. Apart(s, proc[q])
      BY <3>1 DEF Apart, Writing
    <3>3. proc[q].at \in Writing => proc[q].run \in DOMAIN runs /\ proc[q].run # n
      BY <3>1 DEF Apart, Sound, Writing, n
    <3>4. QED
      BY <1>3, <1>4, <3>2, <3>3
  <2>2. QED
    BY <2>1
<1>8. ProcessesAreSound' /\ proc' \in [Processes -> ProcState]
  <2>1. /\ \A d \in Deliveries : event[d] # NoEvent => event'[d] # NoEvent
        /\ \A l \in Links : link[l] # NoLink => link'[l] # NoLink
    OBVIOUS
  <2>2. \A q \in Processes : \A k \in DOMAIN runs' :
          runs'[k].delivery = proc[q].delivery /\ proc[q].delivery # NoDelivery
            => \E m \in DOMAIN runs : runs[m].delivery = proc[q].delivery
    BY <1>4, <1>5
  <2>3. QED
    BY <1>6, <1>7, <2>1, <2>2, ProcessStep
<1>9. TypeOK'
  BY <1>3, <1>8 DEF IInv, TypeOK, ProcState
<1>10. RunsAreWhole'
  <2>1. Len(runs') <= MaxRuns
    BY <1>3 DEF IInv, RunsAreWhole
  <2>2. ASSUME NEW k \in DOMAIN runs'
        PROVE  /\ runs'[k].finished => runs'[k].results \in Reports
               /\ runs'[k].delivery # NoDelivery => event'[runs'[k].delivery] # NoEvent
    BY <1>1, <1>3, <1>4, <1>5 DEF IInv, RunsAreWhole
  <2>3. \A k, m \in DOMAIN runs' :
          runs'[k].delivery = runs'[m].delivery /\ runs'[k].delivery # NoDelivery => k = m
    BY <1>4, <1>5 DEF IInv, RunsAreWhole
  <2>4. QED
    BY <2>1, <2>2, <2>3 DEF RunsAreWhole
<1>11. EventsNameTheirRun'
  BY <1>1, <1>3, <1>4, <1>5 DEF IInv, EventsNameTheirRun, n
<1>12. LinksShowFinishedRuns'
  BY <1>1, <1>3, <1>4 DEF IInv, LinksShowFinishedRuns, Existing, n
<1>13. QED
  BY <1>8, <1>9, <1>10, <1>11, <1>12 DEF IInv

\* A process that saves a link row which tells of a finished run, or of none.
LEMMA LinkKeeps ==
    ASSUME IInv, NEW p \in Processes, NEW s \in ProcState, Go(p, s),
           NEW l \in Links, NEW row \in LinkRow, link' = [link EXCEPT ![l] = row],
           UNCHANGED <<event, runs>>, Sound(s, event, runs, link'),
           s.delivery = proc[p].delivery,
           s.at \in Writing => proc[p].at \in Writing /\ s.run = proc[p].run,
           IF row.run = 0 THEN row.status = "unknown"
           ELSE /\ row.run \in DOMAIN runs
                /\ runs[row.run].finished
                /\ row.status = runs[row.run].results[TestOf[l]]
    PROVE  IInv'
<1>1. row # NoLink
  BY DEF LinkRow, NoLink, ResultStatus
<1>2. /\ link' \in [Links -> LinkRow \cup {NoLink}]
      /\ \A m \in Links : link'[m] = IF m = l THEN row ELSE link[m]
  BY DEF IInv, TypeOK
<1>3. \A m \in Links : link[m] # NoLink => link'[m] # NoLink
  BY <1>1, <1>2
<1>4. \A q \in Processes : q # p =>
        /\ Apart(s, proc[q])
        /\ proc[q].at \in Writing => proc[q].run \in DOMAIN runs
  BY DEF IInv, ProcessesAreSound, Apart, Sound
<1>5. ProcessesAreSound' /\ proc' \in [Processes -> ProcState]
  BY <1>3, <1>4, ProcessStep
<1>6. TypeOK'
  BY <1>2, <1>5 DEF IInv, TypeOK, ProcState
<1>7. RunsAreWhole' /\ EventsNameTheirRun'
  BY DEF IInv, RunsAreWhole, EventsNameTheirRun
<1>8. LinksShowFinishedRuns'
  BY <1>2 DEF IInv, LinksShowFinishedRuns, Existing
<1>9. QED
  BY <1>5, <1>6, <1>7, <1>8 DEF IInv

-----------------------------------------------------------------------------
\* The process's own part of the invariant.
LEMMA OwnState ==
    ASSUME IInv, NEW p \in Processes
    PROVE  /\ proc[p] \in ProcState
           /\ Sound(proc[p], event, runs, link)
           /\ DOMAIN proc[p].rows \subseteq Links
           /\ \A q \in Processes : q # p => Apart(proc[p], proc[q]) /\ Apart(proc[q], proc[p])
           /\ Idle \in ProcState
           /\ Sound(Idle, event, runs, link)
<1>1. Idle.at = "idle" /\ Idle.delivery = NoDelivery
  BY DEF Idle, At
<1>2. Sound(Idle, event, runs, link)
  BY <1>1 DEF Sound, Writing
<1>3. Idle \in ProcState
  BY States DEF IInv
<1>4. QED
  BY <1>2, <1>3, Types DEF IInv, ProcessesAreSound

\* github_webhook takes a delivery that has no event: no run and no process has
\* it either.
LEMMA ReceiveKeeps ==
    ASSUME IInv, NEW p \in Processes, NEW d \in Deliveries, Receive(p, d)
    PROVE  IInv'
<1> DEFINE s == At("received", d, 0, NoResults, NoRows)
           row == [NoEvent EXCEPT !.status = "received"]
<1>1. /\ event[d] = NoEvent
      /\ event' = [event EXCEPT ![d] = row]
      /\ Go(p, s)
      /\ UNCHANGED <<runs, link>>
  BY DEF Receive
<1>2. s \in ProcState
  BY States DEF IInv, Place
<1>3. row \in EventRow /\ row.status = "received" /\ row # NoEvent
  BY DEF EventRow, NoEvent, EventStatus
<1>4. s.at = "received" /\ s.delivery = d /\ d # NoDelivery
  BY DEF At
<1>5. \A n \in DOMAIN runs : runs[n].delivery # d
  BY <1>1, <1>4 DEF IInv, RunsAreWhole
<1>6. event'[d] # NoEvent
  BY <1>1, <1>3 DEF IInv, TypeOK
<1> HIDE DEF s, row
<1>7. Sound(s, event', runs, link)
  BY <1>4, <1>5, <1>6 DEF Sound, Writing
<1>8. \A q \in Processes : q # p => proc[q].delivery # d
  BY <1>1, <1>4, OwnState DEF Sound
<1>9. QED
  BY ZenonT(30), <1>1, <1>2, <1>3, <1>4, <1>7, <1>8, EventKeeps DEF Writing

\* The last save of an event.
LEMMA EndEventKeeps ==
    ASSUME IInv, NEW p \in Processes, NEW status \in EventStatus, NEW n \in Nat,
           EndEvent(p, status, n), UNCHANGED <<runs, link>>, proc[p].delivery \in Deliveries,
           status = "success" /\ n # 0 =>
             n \in DOMAIN runs /\ runs[n].delivery = proc[p].delivery /\ runs[n].finished
    PROVE  IInv'
<1> DEFINE row == [status |-> status, run |-> n, processed |-> TRUE]
           d == proc[p].delivery
<1>1. event' = [event EXCEPT ![d] = row] /\ Go(p, Idle)
  BY DEF EndEvent
<1>2. row \in EventRow /\ row.status = status /\ row.run = n
  BY DEF EventRow
<1>3. Idle.at = "idle" /\ Idle.delivery = NoDelivery
  BY DEF Idle, At
<1> HIDE DEF row, d
<1>4. d \in Deliveries /\ d # NoDelivery
  BY DEF d
<1>5. \A q \in Processes : q # p => proc[q].delivery # d
  BY <1>4, OwnState DEF Apart, d
<1>6. Sound(Idle, event', runs, link) /\ Idle \in ProcState
  BY <1>3, OwnState DEF Sound, Writing
<1>7. row.status = "success" /\ row.run # 0 =>
         row.run \in DOMAIN runs /\ runs[row.run].delivery = d /\ runs[row.run].finished
  BY <1>2 DEF d
<1>8. QED
  BY <1>1, <1>2, <1>3, <1>4, <1>5, <1>6, <1>7, EventKeeps DEF Writing

\* Every process that handles a delivery may end its event without a run.
LEMMA Handled ==
    ASSUME IInv, NEW p \in Processes
    PROVE  /\ proc[p].at \in {"received", "processing"} => proc[p].delivery \in Deliveries
           /\ Handling(p) => proc[p].delivery \in Deliveries
BY OwnState DEF Sound, ProcState, Handling

LEMMA TriageKeeps ==
    ASSUME IInv, NEW p \in Processes, Triage(p)
    PROVE  IInv'
<1> DEFINE d == proc[p].delivery
<1>1. d \in Deliveries /\ proc[p].at = "received" /\ UNCHANGED <<runs, link>>
  BY Handled DEF Triage
<1>2. CASE EndEvent(p, "skipped", 0) \/ EndEvent(p, "failed", 0)
  BY <1>1, <1>2, EndEventKeeps DEF EventStatus
<1>3. CASE event' = [event EXCEPT ![d].status = "processing"] /\ GoTo(p, "processing")
  <2> DEFINE row == [event[d] EXCEPT !.status = "processing"]
             s == [proc[p] EXCEPT !.at = "processing"]
  <2>1. event' = [event EXCEPT ![d] = row] /\ Go(p, s)
    BY <1>3 DEF GoTo
  <2>2. event[d] \in EventRow
    BY <1>1, OwnState DEF IInv, TypeOK, Sound
  <2>3. row \in EventRow /\ row.status = "processing"
    BY <2>2 DEF EventRow, EventStatus
  <2>4. /\ s \in ProcState /\ s.at = "processing" /\ s.delivery = d
    BY OwnState DEF ProcState, Place
  <2>5. event'[d] # NoEvent
    BY <1>1, <2>1, <2>3 DEF IInv, TypeOK, EventRow, EventStatus, NoEvent
  <2> HIDE DEF row, s
  <2>6. Sound(s, event', runs, link)
    BY <1>1, <2>4, <2>5, OwnState DEF Sound, Writing
  <2>7. \A q \in Processes : q # p => proc[q].delivery # d
    BY <1>1, OwnState DEF Apart
  <2>8. QED
    BY ZenonT(30), <1>1, <2>1, <2>3, <2>4, <2>6, <2>7, EventKeeps DEF Writing
<1>4. QED
  BY <1>2, <1>3 DEF Triage

LEMMA NothingToImportKeeps ==
    ASSUME IInv, NEW p \in Processes, NothingToImport(p)
    PROVE  IInv'
BY Handled, EndEventKeeps DEF NothingToImport, EventStatus

LEMMA HandlerFailsKeeps ==
    ASSUME IInv, NEW p \in Processes, HandlerFails(p)
    PROVE  IInv'
BY Handled, EndEventKeeps DEF HandlerFails, EventStatus

LEMMA LibraryMissingKeeps ==
    ASSUME IInv, NEW p \in Processes, LibraryMissing(p)
    PROVE  IInv'
BY Handled, EndEventKeeps DEF LibraryMissing, EventStatus

\* A new run belongs to the process that makes it; no other run has its
\* delivery, because a process that has a run already makes no other one.
LEMMA CreateRunKeeps ==
    ASSUME IInv, NEW p \in Processes, NEW report \in Reports, CreateRun(p, report)
    PROVE  IInv'
<1> DEFINE d == proc[p].delivery
           new == [delivery |-> d, results |-> NoResults, finished |-> FALSE, linked |-> {}]
           s == At("importing", d, Len(runs) + 1, report, NoRows)
<1>1. /\ proc[p].at \in {"idle", "processing"}
      /\ Len(runs) < MaxRuns
      /\ runs' = Append(runs, new)
      /\ Go(p, s)
      /\ UNCHANGED <<event, link>>
  BY DEF CreateRun
<1>2. /\ runs \in Seq(RunRow)
      /\ DOMAIN runs = 1 .. Len(runs)
      /\ Len(runs) \in Nat
      /\ d \in Deliveries \cup {NoDelivery}
  BY Types, OwnState DEF IInv, ProcState
<1>3. new \in RunRow /\ new.delivery = d /\ ~new.finished
  BY <1>2, States DEF RunRow, IInv
<1>4. /\ s \in ProcState
      /\ s.at = "importing" /\ s.delivery = d /\ s.run = Len(runs) + 1 /\ s.report = report
  <2>1. "importing" \in Place /\ report \in Results /\ Len(runs) + 1 \in Nat
    BY <1>2 DEF Place
  <2>2. s \in ProcState
    BY <1>2, <2>1, States DEF IInv
  <2>3. QED
    BY <2>2 DEF At
<1> HIDE DEF new, s, d
<1>5. /\ runs' \in Seq(RunRow)
      /\ Len(runs') = Len(runs) + 1
      /\ DOMAIN runs' = 1 .. (Len(runs) + 1)
      /\ \A k \in DOMAIN runs : k \in DOMAIN runs' /\ runs'[k] = runs[k]
      /\ runs'[Len(runs) + 1] = new
      /\ \A k \in DOMAIN runs' : k \in DOMAIN runs \/ k = Len(runs) + 1
  BY <1>1, <1>2, <1>3, AppendProperties
<1>6. /\ d # NoDelivery => event[d] # NoEvent
      /\ d # NoDelivery => \A k \in DOMAIN runs : runs[k].delivery # d
  BY <1>1, OwnState DEF Sound, d
<1>7. Sound(s, event', runs', link')
  BY <1>1, <1>3, <1>4, <1>5, <1>6 DEF Sound, Writing
<1>8. \A q \in Processes : q # p =>
        /\ Apart(s, proc[q])
        /\ proc[q].at \in Writing =>
             proc[q].run \in DOMAIN runs' /\ runs'[proc[q].run] = runs[proc[q].run]
        /\ \A k \in DOMAIN runs' :
             runs'[k].delivery = proc[q].delivery /\ proc[q].delivery # NoDelivery
               => \E n \in DOMAIN runs : runs[n].delivery = proc[q].delivery
  <2>1. ASSUME NEW q \in Processes, q # p
        PROVE  /\ d = proc[q].delivery => d = NoDelivery
               /\ proc[q].at \in Writing => proc[q].run \in DOMAIN runs
    BY <2>1, OwnState DEF Apart, Sound, d
  <2>2. Len(runs) + 1 \notin DOMAIN runs
    BY <1>2
  <2>3. QED
    BY <1>3, <1>4, <1>5, <2>1, <2>2 DEF Apart
<1>9. ProcessesAreSound' /\ proc' \in [Processes -> ProcState]
  <2>1. /\ \A x \in Deliveries : event[x] # NoEvent => event'[x] # NoEvent
        /\ \A l \in Links : link[l] # NoLink => link'[l] # NoLink
    BY <1>1
  <2>2. QED
    BY <1>1, <1>4, <1>7, <1>8, <2>1, ProcessStep
<1>10. TypeOK'
  BY <1>1, <1>5, <1>9 DEF IInv, TypeOK, ProcState
<1>11. RunsAreWhole'
  <2>1. Len(runs') <= MaxRuns
    BY <1>1, <1>2, <1>5
  <2>2. ASSUME NEW k \in DOMAIN runs'
        PROVE  /\ runs'[k].finished => runs'[k].results \in Reports
               /\ runs'[k].delivery # NoDelivery => event'[runs'[k].delivery] # NoEvent
    BY <1>1, <1>3, <1>5, <1>6 DEF IInv, RunsAreWhole
  <2>3. ASSUME NEW k \in DOMAIN runs', NEW m \in DOMAIN runs',
               runs'[k].delivery = runs'[m].delivery, runs'[k].delivery # NoDelivery
        PROVE  k = m
    BY <1>3, <1>5, <1>6, <2>3 DEF IInv, RunsAreWhole
  <2>4. QED
    BY <2>1, <2>2, <2>3 DEF RunsAreWhole
<1>12. EventsNameTheirRun' /\ LinksShowFinishedRuns'
  BY <1>1, <1>5 DEF IInv, EventsNameTheirRun, LinksShowFinishedRuns, Existing
<1>13. QED
  BY <1>9, <1>10, <1>11, <1>12 DEF IInv

\* One result written, one result linked, and the run finished.
LEMMA AddResultKeeps ==
    ASSUME IInv, NEW p \in Processes, NEW t \in Tests, AddResult(p, t)
    PROVE  IInv'
<1> DEFINE n == proc[p].run
           row == [runs[n] EXCEPT !.results = [@ EXCEPT ![t] = proc[p].report[t]]]
           s == proc[p]
<1>1. /\ proc[p].at = "importing"
      /\ runs' = [runs EXCEPT ![n].results[t] = proc[p].report[t]]
      /\ UNCHANGED <<event, link, proc>>
  BY DEF AddResult
<1>2. /\ s \in ProcState /\ Sound(s, event, runs, link) /\ proc \in [Processes -> ProcState]
      /\ n \in DOMAIN runs /\ runs[n] \in RunRow
      /\ ~runs[n].finished /\ runs[n].delivery = s.delivery
  BY <1>1, OwnState, Types DEF Sound, Writing, IInv
<1>3. runs' = [runs EXCEPT ![n] = row]
  BY <1>1
<1>4. row \in RunRow /\ row.delivery = s.delivery /\ ~row.finished
  <2>1. [runs[n].results EXCEPT ![t] = proc[p].report[t]] \in Results
    BY <1>2 DEF RunRow, Results, ProcState
  <2>2. QED
    BY <1>2, <2>1 DEF RunRow
<1>5. Go(p, s)
  BY <1>1, <1>2 DEF Go
<1> HIDE DEF row
<1>6. QED
  BY <1>1, <1>2, <1>3, <1>4, <1>5, RunKeeps

LEMMA LinkResultKeeps ==
    ASSUME IInv, NEW p \in Processes, NEW t \in Tests, LinkResult(p, t)
    PROVE  IInv'
<1> DEFINE n == proc[p].run
           row == [runs[n] EXCEPT !.linked = @ \cup {t}]
           s == proc[p]
<1>1. /\ proc[p].at = "linking"
      /\ runs' = [runs EXCEPT ![n].linked = @ \cup {t}]
      /\ UNCHANGED <<event, link, proc>>
  BY DEF LinkResult
<1>2. /\ s \in ProcState /\ Sound(s, event, runs, link) /\ proc \in [Processes -> ProcState]
      /\ n \in DOMAIN runs /\ runs[n] \in RunRow
      /\ runs[n].finished /\ runs[n].delivery = s.delivery
      /\ runs[n].results = s.report
  BY <1>1, OwnState, Types DEF Sound, Writing, IInv
<1>3. runs' = [runs EXCEPT ![n] = row]
  BY <1>1
<1>4. /\ row \in RunRow /\ row.delivery = s.delivery
      /\ row.finished /\ row.results = runs[n].results
  BY <1>2 DEF RunRow
<1>5. Go(p, s)
  BY <1>1, <1>2 DEF Go
<1> HIDE DEF row
<1>6. QED
  BY <1>1, <1>2, <1>3, <1>4, <1>5, RunKeeps

LEMMA FinishRunKeeps ==
    ASSUME IInv, NEW p \in Processes, FinishRun(p)
    PROVE  IInv'
<1> DEFINE n == proc[p].run
           row == [runs[n] EXCEPT !.finished = TRUE]
           s == [proc[p] EXCEPT !.at = "linking"]
<1>1. /\ proc[p].at = "importing"
      /\ runs[n].results = proc[p].report
      /\ runs' = [runs EXCEPT ![n].finished = TRUE]
      /\ Go(p, s)
      /\ UNCHANGED <<event, link>>
  BY DEF FinishRun, GoTo
<1>2. /\ proc[p] \in ProcState
      /\ n \in DOMAIN runs /\ runs[n] \in RunRow
      /\ ~runs[n].finished /\ runs[n].delivery = proc[p].delivery
  BY <1>1, OwnState, Types DEF Sound, Writing, IInv
<1>3. runs' = [runs EXCEPT ![n] = row]
  BY <1>1
<1>4. /\ row \in RunRow /\ row.delivery = proc[p].delivery
      /\ row.finished /\ row.results = proc[p].report
  BY <1>1, <1>2 DEF RunRow
<1>5. /\ s \in ProcState
      /\ s.at = "linking" /\ s.delivery = proc[p].delivery
      /\ s.run = proc[p].run /\ s.report = proc[p].report
  BY <1>2 DEF ProcState, Place
<1> HIDE DEF row, s
<1>6. QED
  BY ZenonT(30), <1>1, <1>2, <1>3, <1>4, <1>5, RunKeeps

\* The loops over links begin with the rows that exist, and end.
LEMMA ListLinksKeeps ==
    ASSUME IInv, NEW p \in Processes, ListLinks(p)
    PROVE  IInv'
<1> DEFINE rows == [l \in Existing |-> link[l]]
           s == [proc[p] EXCEPT !.at = "updating", !.rows = rows]
<1>1. proc[p].at = "linking" /\ Go(p, s) /\ UNCHANGED <<event, runs, link>>
  BY DEF ListLinks
<1>2. rows \in [Existing -> LinkRow] /\ Existing \in SUBSET Links
  BY Types DEF IInv, Existing
<1>3. \A l \in DOMAIN rows : link[l] # NoLink
  BY DEF Existing
<1> HIDE DEF rows
<1>4. rows \in UNION {[M -> LinkRow] : M \in SUBSET Links}
  BY <1>2
<1>5. /\ s \in ProcState
      /\ s.at = "updating" /\ s.delivery = proc[p].delivery /\ s.run = proc[p].run
      /\ s.report = proc[p].report /\ s.rows = rows
  BY <1>4, OwnState DEF ProcState, Place
<1> HIDE DEF s
<1>6. Sound(s, event, runs, link)
  BY <1>1, <1>3, <1>5, OwnState DEF Sound, Writing
<1>7. QED
  BY <1>1, <1>5, <1>6, MoveKeeps DEF Writing

LEMMA ListFailuresKeeps ==
    ASSUME IInv, NEW p \in Processes, ListFailures(p)
    PROVE  IInv'
<1> DEFINE failing == {l \in Existing : link[l].status \in Failing /\ ~link[l].review}
           rows == [l \in failing |-> link[l]]
           s == At("fixing", NoDelivery, 0, NoResults, rows)
<1>1. proc[p].at = "idle" /\ Go(p, s) /\ UNCHANGED <<event, runs, link>>
  BY DEF ListFailures
<1>2. rows \in [failing -> LinkRow] /\ failing \in SUBSET Links
  BY Types DEF IInv, Existing
<1>3. \A l \in DOMAIN rows : link[l] # NoLink
  BY DEF Existing
<1> HIDE DEF rows, failing
<1>4. s \in ProcState
  BY <1>2, States, "fixing" \in Place, 0 \in Nat DEF IInv, Place
<1>5. s.at = "fixing" /\ s.delivery = NoDelivery /\ s.rows = rows
  BY DEF At
<1> HIDE DEF s
<1>6. Sound(s, event, runs, link)
  BY <1>3, <1>5 DEF Sound, Writing
<1>7. QED
  BY <1>1, <1>4, <1>5, <1>6, MoveKeeps DEF Writing

\* A process that gives up, is killed or has nothing left to do.
LEMMA GoIdleKeeps ==
    ASSUME IInv, NEW p \in Processes, Go(p, Idle), UNCHANGED <<event, runs, link>>
    PROVE  IInv'
<1>1. Idle.at = "idle" /\ Idle.delivery = NoDelivery
  BY DEF Idle, At
<1>2. QED
  BY <1>1, OwnState, MoveKeeps DEF Writing

LEMMA ImportDoneKeeps ==
    ASSUME IInv, NEW p \in Processes, ImportDone(p)
    PROVE  IInv'
<1>1. /\ proc[p].run \in DOMAIN runs
      /\ runs[proc[p].run].delivery = proc[p].delivery
      /\ runs[proc[p].run].finished
      /\ proc[p].run \in Nat
      /\ proc[p].delivery \in Deliveries \cup {NoDelivery}
  BY OwnState DEF ImportDone, Sound, Writing, ProcState
<1>2. CASE proc[p].delivery # NoDelivery
  BY <1>1, <1>2, EndEventKeeps DEF ImportDone, EventStatus
<1>3. CASE proc[p].delivery = NoDelivery
  BY <1>3, GoIdleKeeps DEF ImportDone
<1>4. QED
  BY <1>2, <1>3

-----------------------------------------------------------------------------
\* One round of a loop over listed links leaves the process sound, whatever it
\* saves there.
LEMMA VisitedSound ==
    ASSUME IInv, NEW p \in Processes, NEW l \in Links, NEW lk,
           \A m \in Links : link[m] # NoLink => lk[m] # NoLink
    PROVE  /\ Visited(p, l) \in ProcState
           /\ Sound(Visited(p, l), event, runs, lk)
           /\ Visited(p, l).at = proc[p].at
           /\ Visited(p, l).delivery = proc[p].delivery
           /\ Visited(p, l).run = proc[p].run
<1> DEFINE rows == [m \in Listed(p) \ {l} |-> proc[p].rows[m]]
           s == [proc[p] EXCEPT !.rows = rows]
<1>1. DOMAIN rows \subseteq DOMAIN proc[p].rows
  BY DEF Listed
<1> HIDE DEF rows
<1>2. /\ s.at = proc[p].at /\ s.delivery = proc[p].delivery /\ s.run = proc[p].run
      /\ s.report = proc[p].report /\ s.rows = rows
  BY OwnState DEF ProcState
<1> HIDE DEF s
<1>3. \A m \in DOMAIN rows : m \in Links /\ m \in DOMAIN proc[p].rows
  BY <1>1, OwnState
<1>4. Sound(s, event, runs, lk)
  BY <1>2, <1>3, OwnState DEF Sound, Writing
<1>5. Visited(p, l) = s
  BY DEF Visited, s, rows
<1>6. Visited(p, l) \in ProcState
  BY States DEF IInv
<1>7. QED
  BY <1>2, <1>4, <1>5, <1>6

\* UpdateLink saves the result of a finished run, with the run; SaveReview
\* saves a flag.
LEMMA UpdateLinkKeeps ==
    ASSUME IInv, NEW p \in Processes, NEW l \in Links, UpdateLink(p, l)
    PROVE  IInv'
<1> DEFINE n == proc[p].run
           status == runs[n].results[TestOf[l]]
           row == UpdatedLink(proc[p].rows[l], n, status)
           s == Visited(p, l)
<1>1. /\ proc[p].at = "updating" /\ l \in DOMAIN proc[p].rows
      /\ link' = IF status = "absent" THEN link ELSE [link EXCEPT ![l] = row]
      /\ Go(p, s)
      /\ UNCHANGED <<event, runs>>
  BY DEF UpdateLink, Listed
<1>2. /\ n \in DOMAIN runs /\ runs[n] \in RunRow /\ runs[n].finished
      /\ n \in 0 .. MaxRuns /\ n # 0
  <2>1. n \in DOMAIN runs /\ runs[n].finished
    BY <1>1, OwnState DEF Sound, Writing
  <2>2. QED
    BY <2>1, Types DEF IInv, RunsAreWhole
<1>3. CASE status = "absent"
  BY <1>1, <1>3, VisitedSound, MoveKeeps DEF Writing
<1>4. CASE status # "absent"
  <2>1. status \in ResultStatus
    BY <1>2, <1>4 DEF RunRow, Results
  <2>2. proc[p].rows[l] \in LinkRow
    <3>1. PICK L \in SUBSET Links : proc[p].rows \in [L -> LinkRow]
      BY OwnState DEF ProcState
    <3>2. QED
      BY <1>1, <3>1
  <2>3. row \in LinkRow /\ row.run = n /\ row.status = status
    BY <1>2, <2>1, <2>2 DEF UpdatedLink, LinkRow
  <2>4. link' = [link EXCEPT ![l] = row]
    BY <1>1, <1>4
  <2>5. \A m \in Links : link[m] # NoLink => link'[m] # NoLink
    BY <2>3, <2>4 DEF IInv, TypeOK, LinkRow, NoLink, ResultStatus
  <2>6. /\ s \in ProcState
        /\ Sound(s, event, runs, link')
        /\ s.at = proc[p].at /\ s.delivery = proc[p].delivery /\ s.run = n
    BY <2>5, VisitedSound
  <2> HIDE DEF row, s, status
  <2>7. row.status = runs[row.run].results[TestOf[l]]
    BY <2>3 DEF status
  <2>8. QED
    BY <1>1, <1>2, <2>3, <2>4, <2>6, <2>7, LinkKeeps
<1>5. QED
  BY <1>3, <1>4

LEMMA SaveReviewKeeps ==
    ASSUME IInv, NEW p \in Processes, NEW l \in Links, SaveReview(p, l)
    PROVE  IInv'
<1> DEFINE row == [link[l] EXCEPT !.review = TRUE]
           s == Visited(p, l)
<1>1. /\ proc[p].at = "fixing" /\ l \in DOMAIN proc[p].rows
      /\ link' = [link EXCEPT ![l] = row]
      /\ Go(p, s)
      /\ UNCHANGED <<event, runs>>
  BY DEF SaveReview, Listed
<1>2. link[l] # NoLink /\ link[l] \in LinkRow
  BY <1>1, OwnState, Types DEF Sound, IInv
<1>3. row \in LinkRow /\ row.run = link[l].run /\ row.status = link[l].status
  BY <1>2 DEF LinkRow
<1>4. \A m \in Links : link[m] # NoLink => link'[m] # NoLink
  BY <1>1, <1>3 DEF IInv, TypeOK, LinkRow, NoLink, ResultStatus
<1>5. /\ s \in ProcState
      /\ Sound(s, event, runs, link')
      /\ s.at = proc[p].at /\ s.delivery = proc[p].delivery /\ s.run = proc[p].run
  BY <1>4, VisitedSound
<1>6. IF row.run = 0 THEN row.status = "unknown"
      ELSE /\ row.run \in DOMAIN runs
           /\ runs[row.run].finished
           /\ row.status = runs[row.run].results[TestOf[l]]
  BY <1>2, <1>3 DEF IInv, LinksShowFinishedRuns, Existing
<1> HIDE DEF row, s
<1>7. QED
  BY <1>1, <1>3, <1>5, <1>6, LinkKeeps DEF Writing

\* import_test_links: a flag cleared, or a new row that tells of no run.
LEMMA ImportLinkKeeps ==
    ASSUME IInv, NEW p \in Processes, NEW l \in Links, ImportLink(p, l)
    PROVE  IInv'
<1>1. proc[p].at = "idle" /\ proc[p].delivery = NoDelivery /\ proc \in [Processes -> ProcState]
  BY OwnState, Types DEF ImportLink, Sound, IInv
<1>2. CASE l \in Existing
  <2> DEFINE row == [link[l] EXCEPT !.review = FALSE]
             s == proc[p]
  <2>1. link' = [link EXCEPT ![l] = row] /\ UNCHANGED <<event, runs, proc>>
    BY <1>2 DEF ImportLink
  <2>2. link[l] # NoLink /\ link[l] \in LinkRow
    BY <1>2, Types DEF Existing, IInv
  <2>3. row \in LinkRow /\ row.run = link[l].run /\ row.status = link[l].status
    BY <2>2 DEF LinkRow
  <2>4. IF row.run = 0 THEN row.status = "unknown"
        ELSE /\ row.run \in DOMAIN runs
             /\ runs[row.run].finished
             /\ row.status = runs[row.run].results[TestOf[l]]
    BY <1>2, <2>3 DEF IInv, LinksShowFinishedRuns
  <2> HIDE DEF row
  <2>5. Go(p, s) /\ s \in ProcState /\ Sound(s, event, runs, link')
    <3>1. Go(p, s)
      BY <1>1, <2>1 DEF Go
    <3>2. QED
      BY <1>1, <3>1, OwnState DEF Sound, Writing
  <2>6. QED
    BY <1>1, <2>1, <2>3, <2>4, <2>5, LinkKeeps
<1>3. CASE l \notin Existing
  <2> DEFINE rows == [m \in {l} |-> NewLink]
             s == At("new_link", NoDelivery, 0, NoResults, rows)
  <2>1. /\ link' = [link EXCEPT ![l] = NewLink]
        /\ Go(p, s)
        /\ UNCHANGED <<event, runs>>
    BY <1>3 DEF ImportLink
  <2>2. NewLink \in LinkRow /\ NewLink.run = 0 /\ NewLink.status = "unknown"
    BY DEF NewLink, LinkRow
  <2>3. rows \in [{l} -> LinkRow] /\ {l} \in SUBSET Links /\ DOMAIN rows = {l}
    BY <2>2
  <2>4. link'[l] # NoLink
    BY <2>1, <2>2 DEF IInv, TypeOK, LinkRow, NoLink, ResultStatus
  <2> HIDE DEF rows
  <2>5. s \in ProcState
    BY <2>3, States, "new_link" \in Place, 0 \in Nat DEF IInv, Place
  <2>6. s.at = "new_link" /\ s.delivery = NoDelivery /\ s.rows = rows
    BY DEF At
  <2> HIDE DEF s
  <2>7. Sound(s, event, runs, link')
    BY <2>3, <2>4, <2>6 DEF Sound, Writing
  <2>8. QED
    BY <1>1, <2>1, <2>2, <2>5, <2>6, <2>7, LinkKeeps DEF Writing
<1>4. QED
  BY <1>2, <1>3

LEMMA FlagNewLinkKeeps ==
    ASSUME IInv, NEW p \in Processes, NEW l \in Links, FlagNewLink(p, l)
    PROVE  IInv'
<1> DEFINE row == [NewLink EXCEPT !.review = TRUE]
<1>1. /\ proc[p].at = "new_link"
      /\ link' = [link EXCEPT ![l] = row]
      /\ Go(p, Idle)
      /\ UNCHANGED <<event, runs>>
  BY DEF FlagNewLink
<1>2. row \in LinkRow /\ row.run = 0 /\ row.status = "unknown"
  <2>1. NewLink \in LinkRow /\ NewLink.run = 0 /\ NewLink.status = "unknown"
    BY DEF NewLink, LinkRow
  <2>2. QED
    BY <2>1 DEF LinkRow
<1>3. Idle.at = "idle" /\ Idle.delivery = NoDelivery
  BY DEF Idle, At
<1>4. Sound(Idle, event, runs, link')
  BY <1>3 DEF Sound, Writing
<1>5. proc[p].delivery = NoDelivery
  BY <1>1, OwnState DEF Sound
<1> HIDE DEF row
<1>6. QED
  BY <1>1, <1>2, <1>3, <1>4, <1>5, OwnState, LinkKeeps DEF Writing

-----------------------------------------------------------------------------
LEMMA InitIInv == Init => IInv
<1> SUFFICES ASSUME Init PROVE IInv
  OBVIOUS
<1>1. NoResults \in Results /\ NewLink \in LinkRow /\ NoRows \in [{} -> LinkRow]
  BY DEF NoResults, Results, NewLink, LinkRow, NoRows
<1>2. NoRows \in UNION {[M -> LinkRow] : M \in SUBSET Links}
  BY <1>1, {} \in SUBSET Links
<1>3. Idle \in ProcState /\ Idle.at = "idle" /\ Idle.delivery = NoDelivery
  BY <1>1, <1>2 DEF Idle, At, ProcState, Place
<1>4. TypeOK
  <2>1. <<>> \in Seq(RunRow)
    OBVIOUS
  <2>2. QED
    BY <1>3, <2>1 DEF Init, TypeOK, ProcState
<1>5. RunsAreWhole /\ EventsNameTheirRun /\ LinksShowFinishedRuns
  BY DEF Init, RunsAreWhole, EventsNameTheirRun, LinksShowFinishedRuns, Existing, NoEvent
<1>6. ProcessesAreSound
  BY <1>3 DEF Init, ProcessesAreSound, Sound, Apart, Writing
<1>7. QED
  BY <1>4, <1>5, <1>6 DEF IInv

LEMMA NextIInv == IInv /\ [Next]_vars => IInv'
<1> SUFFICES ASSUME IInv, [Next]_vars PROVE IInv'
  OBVIOUS
<1>1. ASSUME NEW p \in Processes, Begin(p) PROVE IInv'
  BY <1>1, ReceiveKeeps, CreateRunKeeps, ImportLinkKeeps, ListFailuresKeeps
     DEF Begin, BeginCommand
<1>2. ASSUME NEW p \in Processes, Proceed(p) PROVE IInv'
  <2>1. FixDone(p) => IInv'
    BY GoIdleKeeps DEF FixDone
  <2>2. QED
    BY <1>2, <2>1, TriageKeeps, NothingToImportKeeps, CreateRunKeeps, AddResultKeeps,
       LinkResultKeeps, FinishRunKeeps, ListLinksKeeps, UpdateLinkKeeps, FlagNewLinkKeeps,
       SaveReviewKeeps, ImportDoneKeeps, HandlerFailsKeeps, LibraryMissingKeeps
       DEF Proceed
<1>3. ASSUME NEW p \in Processes, Crash(p) PROVE IInv'
  BY <1>3, GoIdleKeeps DEF Crash
<1>4. ASSUME UNCHANGED vars PROVE IInv'
  <2>1. UNCHANGED <<event, runs, link, proc>>
    BY <1>4 DEF vars
  <2>2. TypeOK'
    BY <2>1 DEF IInv, TypeOK
  <2>3. QED
    BY <2>1, <2>2 DEF IInv, RunsAreWhole, EventsNameTheirRun, LinksShowFinishedRuns,
                      Existing, ProcessesAreSound
<1>5. QED
  BY <1>1, <1>2, <1>3, <1>4 DEF Next

-----------------------------------------------------------------------------
\* The inductive invariant holds in every reachable state of the deliveries,
\* the imports and the commands.
THEOREM Invariance == Spec => []IInv
BY InitIInv, NextIInv, PTL DEF Spec

\* The rows and the processes are well-typed.
THEOREM TypeCorrect == Spec => []TypeOK
BY Invariance, PTL DEF IInv

LEMMA WholeRuns == IInv => DeliveriesMakeOneWholeRun /\ LinkShowsOneRun
<1> SUFFICES ASSUME IInv PROVE DeliveriesMakeOneWholeRun /\ LinkShowsOneRun
  OBVIOUS
<1>1. DeliveriesMakeOneWholeRun
  BY DEF IInv, RunsAreWhole, EventsNameTheirRun, DeliveriesMakeOneWholeRun
<1>2. LinkShowsOneRun
  BY DEF IInv, LinksShowFinishedRuns, LinkShowsOneRun
<1>3. QED
  BY <1>1, <1>2

\* However often a delivery comes, it makes one test run, and a whole one.
THEOREM OneWholeRun == Spec => []DeliveriesMakeOneWholeRun
BY Invariance, WholeRuns, PTL

\* A link's status and its run are never those of two imports.
THEOREM OneRunPerLink == Spec => []LinkShowsOneRun
BY Invariance, WholeRuns, PTL

-----------------------------------------------------------------------------
(***************************************************************************)
(* What a step of one process changes for the others: their own state not  *)
(* at all; runs are only added, for the delivery of the process, and the   *)
(* results of a finished run stay; and an event is changed by the process  *)
(* that has its delivery, which leaves it when it settles the event.       *)
(***************************************************************************)
RunsGrow(q) ==
    /\ \A k \in DOMAIN runs :
         /\ k \in DOMAIN runs'
         /\ runs'[k].delivery = runs[k].delivery
         /\ runs[k].finished => runs'[k].finished /\ runs'[k].results = runs[k].results
    /\ \A k \in DOMAIN runs' : k \notin DOMAIN runs => runs'[k].delivery = proc[q].delivery

EventsKept(q) ==
    \A d \in Deliveries :
        \/ event'[d] = event[d]
        \/ event[d] = NoEvent /\ event'[d] # NoEvent /\ ~event'[d].processed
        \/ /\ d = proc[q].delivery
           /\ event'[d] # NoEvent
           /\ event'[d].processed => event[d].processed \/ proc'[q] = Idle

OneMoves(q) ==
    /\ \A p \in Processes : p # q => proc'[p] = proc[p]
    /\ \/ proc'[q].delivery \in {proc[q].delivery, NoDelivery}
       \/ proc'[q].at = "received" /\ event[proc'[q].delivery] = NoEvent
    /\ RunsGrow(q)
    /\ EventsKept(q)

\* A process that only moves on.
LEMMA MovesAlone ==
    ASSUME IInv, NEW q \in Processes, NEW s, Go(q, s), UNCHANGED <<event, runs>>,
           s.delivery \in {proc[q].delivery, NoDelivery}
    PROVE  OneMoves(q)
BY Types DEF IInv, Go, OneMoves, RunsGrow, EventsKept

LEMMA MovesAtEnd ==
    ASSUME IInv, NEW q \in Processes, NEW status, NEW n, EndEvent(q, status, n),
           UNCHANGED runs
    PROVE  OneMoves(q)
<1>1. /\ event' = [event EXCEPT ![proc[q].delivery] =
                     [status |-> status, run |-> n, processed |-> TRUE]]
      /\ Go(q, Idle)
  BY DEF EndEvent
<1>2. /\ \A p \in Processes : proc'[p] = IF p = q THEN Idle ELSE proc[p]
      /\ Idle.delivery = NoDelivery
  BY <1>1, Types DEF IInv, Go, Idle, At
<1>3. [status |-> status, run |-> n, processed |-> TRUE] # NoEvent
  BY DEF NoEvent
<1>4. EventsKept(q)
  BY <1>1, <1>2, <1>3 DEF EventsKept, IInv, TypeOK
<1>5. QED
  BY <1>2, <1>4 DEF OneMoves, RunsGrow

LEMMA MovesInRun ==
    ASSUME IInv, NEW q \in Processes, NEW row, runs' = [runs EXCEPT ![proc[q].run] = row],
           UNCHANGED event, proc[q].run \in DOMAIN runs,
           row.delivery = runs[proc[q].run].delivery,
           runs[proc[q].run].finished =>
             row.finished /\ row.results = runs[proc[q].run].results,
           \A p \in Processes : p # q => proc'[p] = proc[p],
           proc'[q].delivery = proc[q].delivery
    PROVE  OneMoves(q)
<1>1. DOMAIN runs' = DOMAIN runs
  OBVIOUS
<1>2. \A k \in DOMAIN runs : runs'[k] = IF k = proc[q].run THEN row ELSE runs[k]
  OBVIOUS
<1>3. QED
  BY <1>1, <1>2 DEF OneMoves, RunsGrow, EventsKept

LEMMA StepOfOne ==
    ASSUME IInv, NEW q \in Processes, Begin(q) \/ Proceed(q) \/ Crash(q)
    PROVE  OneMoves(q)
<1>0. /\ proc \in [Processes -> ProcState]
      /\ runs \in Seq(RunRow) /\ DOMAIN runs = 1 .. Len(runs) /\ Len(runs) \in Nat
      /\ \A k \in DOMAIN runs : runs[k] \in RunRow
      /\ Sound(proc[q], event, runs, link)
  BY Types, OwnState DEF IInv
<1>1. ASSUME NEW d \in Deliveries, Receive(q, d) PROVE OneMoves(q)
  <2> DEFINE s == At("received", d, 0, NoResults, NoRows)
             row == [NoEvent EXCEPT !.status = "received"]
  <2>1. event[d] = NoEvent /\ event' = [event EXCEPT ![d] = row] /\ Go(q, s) /\ UNCHANGED runs
    BY <1>1 DEF Receive
  <2>2. row # NoEvent /\ ~row.processed
    BY DEF NoEvent
  <2>3. s.delivery = d /\ s.at = "received"
    BY DEF At
  <2> HIDE DEF s, row
  <2>4. \A p \in Processes : proc'[p] = IF p = q THEN s ELSE proc[p]
    BY <1>0, <2>1 DEF Go
  <2>5. EventsKept(q)
    BY <2>1, <2>2 DEF EventsKept, IInv, TypeOK
  <2>6. QED
    BY <2>1, <2>3, <2>4, <2>5 DEF OneMoves, RunsGrow
<1>2. CASE Triage(q)
  <2>1. CASE EndEvent(q, "skipped", 0) \/ EndEvent(q, "failed", 0)
    BY <1>2, <2>1, MovesAtEnd DEF Triage
  <2>2. CASE /\ event' = [event EXCEPT ![proc[q].delivery].status = "processing"]
             /\ GoTo(q, "processing")
    <3> DEFINE d == proc[q].delivery
               row == [event[d] EXCEPT !.status = "processing"]
    <3>1. event' = [event EXCEPT ![d] = row] /\ UNCHANGED runs
      BY <1>2, <2>2 DEF Triage
    <3>2. event[d] \in EventRow
      BY <1>2, Handled, OwnState DEF Triage, IInv, TypeOK, Sound
    <3>3. row.processed = event[d].processed /\ row.status = "processing"
      BY <3>2 DEF EventRow
    <3>4. row # NoEvent
      BY <3>3 DEF NoEvent
    <3>5. /\ \A p \in Processes : p # q => proc'[p] = proc[p]
          /\ proc'[q].delivery = d
      BY <1>0, <2>2 DEF GoTo, Go, ProcState
    <3> HIDE DEF row, d
    <3>6. EventsKept(q)
      BY <3>1, <3>3, <3>4 DEF EventsKept, IInv, TypeOK, d
    <3>7. QED
      BY <3>1, <3>5, <3>6 DEF OneMoves, RunsGrow, d
  <2>3. QED
    BY <1>2, <2>1, <2>2 DEF Triage
<1>3. ASSUME NEW n \in {0}, NEW status \in {"success", "failed", "received"},
             EndEvent(q, status, n), UNCHANGED runs
      PROVE  OneMoves(q)
  BY <1>3, MovesAtEnd
<1>4. CASE NothingToImport(q) \/ HandlerFails(q) \/ LibraryMissing(q)
  BY <1>3, <1>4 DEF NothingToImport, HandlerFails, LibraryMissing
<1>5. ASSUME NEW report \in Reports, CreateRun(q, report) PROVE OneMoves(q)
  <2> DEFINE new == [delivery |-> proc[q].delivery, results |-> NoResults,
                     finished |-> FALSE, linked |-> {}]
             s == At("importing", proc[q].delivery, Len(runs) + 1, report, NoRows)
  <2>1. runs' = Append(runs, new) /\ Go(q, s) /\ UNCHANGED event
    BY <1>5 DEF CreateRun
  <2>2. new \in RunRow /\ new.delivery = proc[q].delivery
    BY <1>0, States DEF RunRow, IInv, ProcState
  <2>3. s.delivery = proc[q].delivery
    BY DEF At
  <2> HIDE DEF new, s
  <2>4. /\ DOMAIN runs' = 1 .. (Len(runs) + 1)
        /\ \A k \in DOMAIN runs : runs'[k] = runs[k]
        /\ runs'[Len(runs) + 1] = new
    BY <1>0, <2>1, <2>2, AppendProperties
  <2>5. RunsGrow(q)
    BY <1>0, <2>2, <2>4 DEF RunsGrow
  <2>6. /\ \A p \in Processes : p # q => proc'[p] = proc[p]
        /\ proc'[q].delivery = proc[q].delivery
    BY <1>0, <2>1, <2>3 DEF Go
  <2>7. QED
    BY <2>1, <2>5, <2>6 DEF OneMoves, EventsKept
<1>6. ASSUME NEW t \in Tests, AddResult(q, t) PROVE OneMoves(q)
  <2> DEFINE row == [runs[proc[q].run] EXCEPT !.results = [@ EXCEPT ![t] = proc[q].report[t]]]
  <2>1. /\ proc[q].run \in DOMAIN runs
        /\ ~runs[proc[q].run].finished
        /\ runs[proc[q].run] \in RunRow
    BY <1>0, <1>6 DEF AddResult, Sound, Writing
  <2>2. runs' = [runs EXCEPT ![proc[q].run] = row] /\ UNCHANGED <<event, proc>>
    BY <1>6 DEF AddResult
  <2>3. row.delivery = runs[proc[q].run].delivery
    BY <2>1 DEF RunRow
  <2> HIDE DEF row
  <2>4. QED
    BY <2>1, <2>2, <2>3, MovesInRun
<1>7. ASSUME NEW t \in Tests, LinkResult(q, t) PROVE OneMoves(q)
  <2> DEFINE row == [runs[proc[q].run] EXCEPT !.linked = @ \cup {t}]
  <2>1. proc[q].run \in DOMAIN runs /\ runs[proc[q].run] \in RunRow
    BY <1>0, <1>7 DEF LinkResult, Sound, Writing
  <2>2. runs' = [runs EXCEPT ![proc[q].run] = row] /\ UNCHANGED <<event, proc>>
    BY <1>7 DEF LinkResult
  <2>3. /\ row.delivery = runs[proc[q].run].delivery
        /\ row.finished = runs[proc[q].run].finished
        /\ row.results = runs[proc[q].run].results
    BY <2>1 DEF RunRow
  <2> HIDE DEF row
  <2>4. QED
    BY <2>1, <2>2, <2>3, MovesInRun
<1>8. CASE FinishRun(q)
  <2> DEFINE row == [runs[proc[q].run] EXCEPT !.finished = TRUE]
  <2>1. proc[q].run \in DOMAIN runs /\ runs[proc[q].run] \in RunRow
    BY <1>0, <1>8 DEF FinishRun, Sound, Writing
  <2>2. runs' = [runs EXCEPT ![proc[q].run] = row] /\ UNCHANGED event
    BY <1>8 DEF FinishRun
  <2>3. /\ row.delivery = runs[proc[q].run].delivery
        /\ row.finished
        /\ row.results = runs[proc[q].run].results
    BY <2>1 DEF RunRow
  <2>4. /\ \A p \in Processes : p # q => proc'[p] = proc[p]
        /\ proc'[q].delivery = proc[q].delivery
    BY <1>0, <1>8 DEF FinishRun, GoTo, Go, ProcState
  <2> HIDE DEF row
  <2>5. QED
    BY <2>1, <2>2, <2>3, <2>4, MovesInRun
<1>9. CASE ImportDone(q)
  <2>1. CASE proc[q].delivery # NoDelivery
    BY <1>9, <2>1, MovesAtEnd DEF ImportDone
  <2>2. CASE proc[q].delivery = NoDelivery
    BY <1>9, <2>2, MovesAlone DEF ImportDone, Idle, At
  <2>3. QED
    BY <2>1, <2>2
<1>10. \A l \in Links : Visited(q, l).delivery = proc[q].delivery
  BY <1>0 DEF Visited, ProcState
<1>11. CASE ListLinks(q)
  <2> DEFINE s == [proc[q] EXCEPT !.at = "updating", !.rows = [l \in Existing |-> link[l]]]
  <2>1. Go(q, s) /\ UNCHANGED <<event, runs>>
    BY <1>11 DEF ListLinks
  <2>2. s.delivery = proc[q].delivery
    BY <1>0 DEF ProcState
  <2> HIDE DEF s
  <2>3. QED
    BY <2>1, <2>2, MovesAlone
<1>12. ASSUME NEW l \in Links, UpdateLink(q, l) \/ SaveReview(q, l) PROVE OneMoves(q)
  BY <1>10, <1>12, MovesAlone DEF UpdateLink, SaveReview
<1>13. ASSUME NEW l \in Links, FlagNewLink(q, l) PROVE OneMoves(q)
  BY <1>13, MovesAlone DEF FlagNewLink, Idle, At
<1>14. ASSUME NEW l \in Links, ImportLink(q, l) PROVE OneMoves(q)
  <2>1. CASE l \in Existing
    <3>1. UNCHANGED <<event, runs, proc>>
      BY <1>14, <2>1 DEF ImportLink
    <3>2. QED
      BY <3>1 DEF OneMoves, RunsGrow, EventsKept
  <2>2. CASE l \notin Existing
    BY <1>14, <2>2, MovesAlone DEF ImportLink, At
  <2>3. QED
    BY <2>1, <2>2
<1>15. CASE ListFailures(q)
  BY <1>15, MovesAlone DEF ListFailures, At
<1>16. CASE FixDone(q) \/ Crash(q)
  BY <1>16, MovesAlone DEF FixDone, Crash, Idle, At
<1>17. QED
  BY <1>1, <1>2, <1>4, <1>5, <1>6, <1>7, <1>8, <1>9, <1>11, <1>12, <1>13, <1>14, <1>15, <1>16
     DEF Begin, BeginCommand, Proceed

-----------------------------------------------------------------------------
LEMMA LessRelated == ASSUME NEW m \in Nat, NEW n \in Nat, m < n PROVE <<m, n>> \in OpToRel(<, Nat)
BY DEF OpToRel

\* Every set of places that is not empty has a least one.
LEMMA LeastPlace ==
    ASSUME NEW places \in SUBSET Nat, places # {}
    PROVE  \E i \in places : \A j \in places : i <= j
<1>1. PICK i \in places : \A j \in places : ~ (<<j, i>> \in OpToRel(<, Nat))
  BY NatLessThanWellFounded, WFMin, Zenon
<1>2. \A j \in places : ~ (j < i)
  <2>1. ASSUME NEW j \in places, j < i PROVE FALSE
    <3>1. i \in Nat /\ j \in Nat
      OBVIOUS
    <3>2. <<j, i>> \in OpToRel(<, Nat)
      BY ONLY <3>1, <2>1, LessRelated, Zenon
    <3>3. QED
      BY ONLY <1>1, <3>2, <2>1, Zenon
  <2>2. QED
    BY <2>1
<1>3. i \in Nat /\ \A j \in places : j \in Nat
  OBVIOUS
<1>4. \A j \in places : i <= j
  BY ONLY <1>2, <1>3
<1>5. QED
  BY ONLY <1>4, i \in places, Zenon

(***************************************************************************)
(* The fetch.  The process that handles a delivery, and no other, makes    *)
(* the calls for it, until it settles the event; a call that went as far   *)
(* as the download has seen every artifact that may be taken.              *)
(***************************************************************************)
CallRow ==
    [to : {"none", "token", "list", "download"}, delivery : Deliveries \cup {NoDelivery},
     tries : 0 .. MaxRetries, page : Nat \ {0}, listing : Listings \cup {<<>>},
     last : {"none", "ok", "unavailable", "refused", "not found"}]

\* The call c of a process in state s, of the events as they are.
CallIsSound(c, s, ev) ==
    /\ c.to # "none" =>
         c.listing \in Listings /\ c.delivery \in Deliveries /\ ev[c.delivery] # NoEvent
    /\ c.to = "download" => Wanted(c.listing) # {} /\ Seen(c) = Wanted(c.listing)
    /\ s.at = "processing" => c.delivery = s.delivery
    /\ s.at \in Writing /\ s.delivery # NoDelivery =>
         /\ c.to = "download"
         /\ c.delivery = s.delivery
         /\ s.report = First(c.listing, Wanted(c.listing)).report
    /\ c.to # "none" /\ c.delivery = s.delivery => s.at \in {"processing"} \cup Writing

\* What the last call tells of an event that was settled with no run.
Explained(c, row) ==
    LET wanted == Wanted(c.listing) IN
    IF row.status = "success" THEN
        \/ c.to \in {"list", "download"} /\ c.last = "not found"
        \/ c.last = "ok" /\ (wanted = {} \/ First(c.listing, wanted).content = "no junit")
    ELSE
        /\ row.status = "failed"
        /\ \/ c.last = "refused"
           \/ c.last = "unavailable" /\ c.tries = MaxRetries
           \/ c.last = "not found" /\ c.to = "token"
           \/ c.last = "ok" /\ c.to = "download"
                /\ First(c.listing, wanted).content \in {"broken", "too large"}

Accounts(c, ev, rs) ==
    LET row  == ev[c.delivery]
        made == {n \in DOMAIN rs : rs[n].delivery = c.delivery}
    IN c.to # "none" /\ row.processed =>
        IF made # {} THEN
            row.status = "success" =>
                /\ row.run \in DOMAIN rs
                /\ rs[row.run].delivery = c.delivery
                /\ Wanted(c.listing) # {}
                /\ rs[row.run].results = First(c.listing, Wanted(c.listing)).report
        ELSE Explained(c, row)

CallsAreSound ==
    /\ call \in [Processes -> CallRow]
    /\ \A p \in Processes :
         /\ CallIsSound(call[p], proc[p], event)
         /\ Accounts(call[p], event, runs)
         /\ proc[p].delivery # NoDelivery => ~event[proc[p].delivery].processed
    /\ \A p, q \in Processes :
         p # q /\ call[p].to # "none" => proc[q].delivery # call[p].delivery

FetchInv == IInv /\ CallsAreSound

USE FetchAssumption

\* First is one of the artifacts at the places.
LEMMA FirstIsListed ==
    ASSUME NEW listing \in Listings, NEW places \in SUBSET DOMAIN listing, places # {}
    PROVE  First(listing, places) \in Artifact
<1>1. listing \in Seq(Artifact)
  OBVIOUS
<1>2. DOMAIN listing \subseteq Nat /\ \A i \in DOMAIN listing : listing[i] \in Artifact
  BY <1>1, LenProperties
<1>3. \E i \in places : \A j \in places : i <= j
  BY <1>2, LeastPlace
<1>4. (CHOOSE i \in places : \A j \in places : i <= j) \in places
  BY <1>3
<1>5. QED
  BY <1>2, <1>4 DEF First

\* The last page shows what there is to see.
LEMMA LastPageShowsAll ==
    ASSUME NEW c \in CallRow, c.listing \in Listings, LastPage(c)
    PROVE  Seen(c) = Wanted(c.listing)
<1>1. c.listing \in Seq(Artifact)
  OBVIOUS
<1>2. DOMAIN c.listing = 1 .. Len(c.listing) /\ Len(c.listing) \in Nat
  BY <1>1, LenProperties
<1> DEFINE most == c.page * PageSize
<1>3. most \in Nat /\ Len(c.listing) < most
  <2>1. c.page \in Nat /\ PageSize \in Nat
    BY DEF CallRow
  <2>2. \A a, b \in Nat : a * b \in Nat
    OBVIOUS
  <2>3. most \in Nat
    BY <2>1, <2>2
  <2>4. QED
    BY <2>3 DEF LastPage
<1>4. \A i \in Wanted(c.listing) : i \in Nat /\ i <= Len(c.listing)
  BY <1>2 DEF Wanted
<1>5. Seen(c) = {i \in Wanted(c.listing) : i <= most}
  BY DEF Seen
<1> HIDE DEF most
<1>6. \A i \in Wanted(c.listing) : i <= most
  BY <1>2, <1>3, <1>4
<1>7. QED
  BY <1>5, <1>6

-----------------------------------------------------------------------------
\* What is downloaded is what Wanted names first.
LEMMA ChosenIsFirst ==
    ASSUME FetchInv, NEW q \in Processes, Calling(q, "download")
    PROVE  /\ Chosen(call[q]) = First(call[q].listing, Wanted(call[q].listing))
           /\ Chosen(call[q]) \in Artifact
<1>1. /\ call[q].listing \in Listings
      /\ Wanted(call[q].listing) # {}
      /\ Seen(call[q]) = Wanted(call[q].listing)
  BY DEF FetchInv, CallsAreSound, CallIsSound, Calling
<1>2. Wanted(call[q].listing) \in SUBSET DOMAIN call[q].listing
  BY DEF Wanted
<1>3. Chosen(call[q]) = First(call[q].listing, Wanted(call[q].listing))
  BY <1>1 DEF Chosen
<1>4. First(call[q].listing, Wanted(call[q].listing)) \in Artifact
  BY <1>1, <1>2, FirstIsListed
<1>5. QED
  BY <1>3, <1>4

\* The calls to GitHub change nothing but when and how a process goes on as
\* WebhookIngestion lets it.
LEMMA FetchStep ==
    ASSUME FetchInv, NEW q \in Processes,
           \/ TakeIn(q) \/ BeginElsewhere(q) \/ ProceedElsewhere(q)
           \/ ProceedWithFetch(q) \/ CrashAnywhere(q)
    PROVE  (Begin(q) \/ Proceed(q) \/ Crash(q)) \/ UNCHANGED vars
<1>1. CASE TakeIn(q) \/ BeginElsewhere(q)
  BY <1>1 DEF TakeIn, BeginElsewhere, Begin
<1>2. CASE ProceedElsewhere(q) \/ CrashAnywhere(q)
  BY <1>2 DEF ProceedElsewhere, CrashAnywhere
<1>3. CASE SortOut(q) \/ Decline(q) \/ CannotSign(q) \/ GiveUp(q) \/ NotFound(q)
  BY <1>3 DEF SortOut, Decline, CannotSign, GiveUp, NotFound, Proceed
<1>4. CASE BeginFetch(q) \/ Retry(q) \/ GetToken(q)
  BY <1>4 DEF BeginFetch, Retry, GetToken
<1>5. CASE ListPage(q)
  BY <1>5 DEF ListPage, Proceed
<1>6. CASE Download(q)
  <2>1. Calling(q, "download")
    BY <1>6 DEF Download
  <2>2. Chosen(call[q]).report \in Reports
    BY <2>1, ChosenIsFirst DEF Artifact
  <2>3. \/ CreateRun(q, Chosen(call[q]).report)
        \/ NothingToImport(q)
        \/ HandlerFails(q)
    BY <1>6 DEF Download
  <2>4. QED
    BY <2>1, <2>2, <2>3 DEF Calling, Proceed
<1>7. QED
  BY <1>1, <1>2, <1>3, <1>4, <1>5, <1>6 DEF ProceedWithFetch

\* A call accounts for its event as before, as long as the process that moves
\* does not have the delivery, or has not settled the event.
LEMMA AccountsKept ==
    ASSUME FetchInv, NEW p \in Processes, NEW q \in Processes, OneMoves(q),
           call[p].to # "none" =>
             call[p].delivery # proc[q].delivery \/ ~event'[call[p].delivery].processed
    PROVE  Accounts(call[p], event', runs')
<1> DEFINE c == call[p]
           d == c.delivery
           row == event[d]
           made == {n \in DOMAIN runs : runs[n].delivery = d}
           made2 == {n \in DOMAIN runs' : runs'[n].delivery = d}
<1> SUFFICES ASSUME c.to # "none", event'[d].processed
             PROVE  Accounts(c, event', runs')
  BY DEF Accounts
<1>1. d \in Deliveries /\ row # NoEvent /\ d # proc[q].delivery
  BY DEF FetchInv, CallsAreSound, CallIsSound
<1>2. event'[d] = row
  BY <1>1 DEF OneMoves, EventsKept
<1>3. Accounts(c, event, runs)
  BY DEF FetchInv, CallsAreSound
<1>4. made2 = made
  BY <1>1 DEF OneMoves, RunsGrow
<1>5. ASSUME row.status = "success", row.run \in DOMAIN runs
      PROVE  /\ row.run \in DOMAIN runs'
             /\ runs'[row.run].delivery = runs[row.run].delivery
             /\ runs'[row.run].results = runs[row.run].results
  <2>1. row.run # 0
    BY <1>5, Types DEF FetchInv, IInv
  <2>2. runs[row.run].finished
    BY <1>1, <1>5, <2>1 DEF FetchInv, IInv, EventsNameTheirRun
  <2>3. QED
    BY <1>5, <2>2 DEF OneMoves, RunsGrow
<1>6. CASE made = {}
  BY <1>2, <1>3, <1>4, <1>6 DEF Accounts
<1>7. CASE made # {}
  BY <1>2, <1>3, <1>4, <1>5, <1>7 DEF Accounts
<1>8. QED
  BY <1>6, <1>7

\* The calls of the other processes stay sound when one process moves.
LEMMA CallsKept ==
    ASSUME FetchInv, NEW q \in Processes, OneMoves(q), NEW c \in CallRow,
           call' = [call EXCEPT ![q] = c],
           CallIsSound(c, proc'[q], event'), Accounts(c, event', runs'),
           proc'[q].delivery # NoDelivery => ~event'[proc'[q].delivery].processed,
           \A p \in Processes : p # q /\ c.to # "none" => proc[p].delivery # c.delivery
    PROVE  CallsAreSound'
<1>1. /\ call' \in [Processes -> CallRow]
      /\ call'[q] = c
      /\ \A p \in Processes : p # q => call'[p] = call[p]
  BY DEF FetchInv, CallsAreSound
<1>2. \A p \in Processes : p # q => proc'[p] = proc[p]
  BY DEF OneMoves
<1>3. ASSUME NEW p \in Processes, p # q
      PROVE  CallIsSound(call[p], proc[p], event')
  <2>1. CallIsSound(call[p], proc[p], event)
    BY DEF FetchInv, CallsAreSound
  <2>2. \A d \in Deliveries : event[d] # NoEvent => event'[d] # NoEvent
    BY DEF OneMoves, EventsKept
  <2>3. QED
    BY <2>1, <2>2 DEF CallIsSound
<1>4. ASSUME NEW p \in Processes, p # q
      PROVE  Accounts(call[p], event', runs')
  <2>1. call[p].to # "none" => call[p].delivery # proc[q].delivery
    BY <1>4 DEF FetchInv, CallsAreSound
  <2>2. QED
    BY <2>1, AccountsKept
<1>5. ASSUME NEW p \in Processes, p # q, proc[p].delivery # NoDelivery
      PROVE  ~event'[proc[p].delivery].processed
  <2>1. /\ proc[p].delivery \in Deliveries
        /\ event[proc[p].delivery] # NoEvent
        /\ proc[p].delivery # proc[q].delivery
    BY <1>5, OwnState DEF FetchInv, ProcState, Sound, Apart
  <2>2. ~event[proc[p].delivery].processed
    BY <1>5 DEF FetchInv, CallsAreSound
  <2>3. QED
    BY <2>1, <2>2 DEF OneMoves, EventsKept
<1>6. ASSUME NEW p \in Processes, NEW r \in Processes, p # r, call'[p].to # "none"
      PROVE  proc'[r].delivery # call'[p].delivery
  <2>1. CASE p = q
    BY <1>1, <1>2, <1>6, <2>1
  <2>2. CASE p # q /\ r # q
    BY <1>1, <1>2, <1>6, <2>2 DEF FetchInv, CallsAreSound
  <2>3. CASE p # q /\ r = q
    <3>1. /\ call[p].delivery \in Deliveries
          /\ event[call[p].delivery] # NoEvent
          /\ proc[q].delivery # call[p].delivery
      BY <1>1, <1>6, <2>3 DEF FetchInv, CallsAreSound, CallIsSound
    <3>2. QED
      BY <1>1, <2>3, <3>1 DEF OneMoves
  <2>4. QED
    BY <2>1, <2>2, <2>3
<1>7. QED
  BY <1>1, <1>2, <1>3, <1>4, <1>5, <1>6 DEF CallsAreSound

\* What is known of the call of a process.
LEMMA OwnCall ==
    ASSUME FetchInv, NEW q \in Processes
    PROVE  /\ call[q] \in CallRow
           /\ call' = call => call' = [call EXCEPT ![q] = call[q]]
           /\ CallIsSound(call[q], proc[q], event)
           /\ call[q].to # "none" =>
                call[q].delivery \in Deliveries /\ event[call[q].delivery] # NoEvent
           /\ proc[q].delivery # NoDelivery => ~event[proc[q].delivery].processed
           /\ \A p \in Processes :
                p # q /\ call[q].to # "none" => proc[p].delivery # call[q].delivery
BY DEF FetchInv, CallsAreSound, CallIsSound

\* A process that does nothing for a delivery says nothing of its last call.
LEMMA CallOfNone ==
    ASSUME FetchInv, NEW q \in Processes, NEW s, s.delivery = NoDelivery,
           s.at # "processing", NEW ev,
           \A d \in Deliveries : event[d] # NoEvent => ev[d] # NoEvent
    PROVE  CallIsSound(call[q], s, ev)
<1>1. call[q].to # "none" =>
        call[q].delivery \in Deliveries /\ event[call[q].delivery] # NoEvent
  BY OwnCall
<1>2. CallIsSound(call[q], proc[q], event)
  BY OwnCall
<1>3. QED
  BY <1>1, <1>2 DEF CallIsSound

LEMMA TakeInKeepsCalls ==
    ASSUME FetchInv, NEW q \in Processes, TakeIn(q), OneMoves(q)
    PROVE  CallsAreSound'
<1>1. PICK d \in Deliveries : Receive(q, d)
  BY DEF TakeIn
<1> DEFINE s == At("received", d, 0, NoResults, NoRows)
           row == [NoEvent EXCEPT !.status = "received"]
           c == call[q]
<1>2. /\ proc[q].at = "idle"
      /\ event[d] = NoEvent
      /\ event' = [event EXCEPT ![d] = row]
      /\ Go(q, s)
      /\ call' = call
  BY <1>1 DEF Receive, TakeIn
<1>3. row # NoEvent /\ ~row.processed /\ s.at = "received" /\ s.delivery = d
  BY DEF NoEvent, At
<1> HIDE DEF s, row
<1>4. proc'[q] = s /\ event'[d] = row
  BY <1>2, Types DEF FetchInv, IInv, Go, TypeOK
<1>5. proc[q].delivery = NoDelivery
  BY <1>2, OwnState DEF FetchInv, Sound
<1>6. /\ call' = [call EXCEPT ![q] = c]
      /\ c \in CallRow
      /\ CallIsSound(c, proc[q], event)
      /\ c.to # "none" => c.delivery \in Deliveries /\ event[c.delivery] # NoEvent
      /\ \A p \in Processes : p # q /\ c.to # "none" => proc[p].delivery # c.delivery
  BY <1>2, OwnCall
<1> HIDE DEF c
<1>7. CallIsSound(c, proc'[q], event')
  <2>1. c.to # "none" => c.delivery # d /\ event'[c.delivery] # NoEvent
    BY <1>2, <1>6 DEF FetchInv, IInv, TypeOK
  <2>2. QED
    BY <1>3, <1>4, <1>6, <2>1 DEF CallIsSound, Writing
<1>8. Accounts(c, event', runs')
  BY <1>5, <1>6, AccountsKept DEF c
<1>9. QED
  BY <1>3, <1>4, <1>6, <1>7, <1>8, CallsKept

\* A step that leaves the calls and the events alone, by a process that goes
\* on with its report, or with nothing.
LEMMA QuietKeepsCalls ==
    ASSUME FetchInv, NEW q \in Processes, OneMoves(q), call' = call, event' = event,
           \/ proc'[q].delivery = NoDelivery /\ proc'[q].at # "processing"
           \/ /\ proc'[q].delivery = proc[q].delivery
              /\ proc'[q].report = proc[q].report
              /\ proc[q].at \in Writing /\ proc'[q].at \in Writing
    PROVE  CallsAreSound'
<1> DEFINE c == call[q]
<1>1. /\ call' = [call EXCEPT ![q] = c]
      /\ c \in CallRow
      /\ CallIsSound(c, proc[q], event)
      /\ c.to # "none" => c.delivery \in Deliveries /\ event[c.delivery] # NoEvent
      /\ proc[q].delivery # NoDelivery => ~event[proc[q].delivery].processed
      /\ \A p \in Processes : p # q /\ c.to # "none" => proc[p].delivery # c.delivery
  BY OwnCall
<1>2. CallIsSound(c, proc'[q], event')
  <2>1. CASE proc'[q].delivery = NoDelivery /\ proc'[q].at # "processing"
    BY <2>1, CallOfNone
  <2>2. CASE /\ proc'[q].delivery = proc[q].delivery
             /\ proc'[q].report = proc[q].report
             /\ proc[q].at \in Writing /\ proc'[q].at \in Writing
    BY <1>1, <2>2 DEF CallIsSound, Writing
  <2>3. QED
    BY <2>1, <2>2
<1>3. c.to # "none" => c.delivery # proc[q].delivery \/ ~event'[c.delivery].processed
  BY <1>1
<1>4. Accounts(c, event', runs')
  BY <1>3, AccountsKept
<1>5. proc'[q].delivery # NoDelivery => ~event'[proc'[q].delivery].processed
  BY <1>1
<1> HIDE DEF c
<1>6. QED
  BY <1>1, <1>2, <1>4, <1>5, CallsKept

LEMMA BeginKeepsCalls ==
    ASSUME FetchInv, NEW q \in Processes, BeginElsewhere(q), OneMoves(q)
    PROVE  CallsAreSound'
<1>1. BeginCommand(q) /\ call' = call
  BY DEF BeginElsewhere, fetchVars
<1>2. proc[q].at = "idle" /\ event' = event
  BY <1>1 DEF BeginCommand, CreateRun, ImportLink, ListFailures
<1>3. proc[q].delivery = NoDelivery
  BY <1>2, OwnState DEF FetchInv, Sound
<1>4. \A s : Go(q, s) => proc'[q] = s
  BY Types DEF FetchInv, IInv, Go
<1>5. proc'[q].delivery = NoDelivery /\ proc'[q].at # "processing"
  <2>1. ASSUME NEW report, CreateRun(q, report)
        PROVE  proc'[q].delivery = NoDelivery /\ proc'[q].at # "processing"
    BY <1>3, <1>4, <2>1 DEF CreateRun, At
  <2>2. ASSUME NEW l, ImportLink(q, l)
        PROVE  proc'[q].delivery = NoDelivery /\ proc'[q].at # "processing"
    BY <1>2, <1>3, <1>4, <2>2 DEF ImportLink, At
  <2>3. ASSUME ListFailures(q)
        PROVE  proc'[q].delivery = NoDelivery /\ proc'[q].at # "processing"
    BY <1>4, <2>3 DEF ListFailures, At
  <2>4. QED
    BY <1>1, <2>1, <2>2, <2>3 DEF BeginCommand
<1>6. QED
  BY <1>1, <1>2, <1>5, QuietKeepsCalls

LEMMA CrashKeepsCalls ==
    ASSUME FetchInv, NEW q \in Processes, CrashAnywhere(q), OneMoves(q)
    PROVE  CallsAreSound'
<1>1. proc'[q] = Idle /\ call' = call /\ event' = event
  BY Types DEF FetchInv, IInv, CrashAnywhere, Crash, Go, fetchVars
<1>2. QED
  BY <1>1, QuietKeepsCalls DEF Idle, At

\* The process settles the event, without a run, and its call tells why.
LEMMA SettledKeepsCalls ==
    ASSUME FetchInv, NEW q \in Processes, OneMoves(q), proc[q].at = "processing",
           NEW status, EndEvent(q, status, 0), UNCHANGED runs,
           NEW c \in CallRow, call' = [call EXCEPT ![q] = c],
           c.to = call[q].to, c.delivery = call[q].delivery,
           c.listing = call[q].listing, c.page = call[q].page,
           c.to # "none" => Explained(c, [status |-> status, run |-> 0, processed |-> TRUE])
    PROVE  CallsAreSound'
<1> DEFINE d == proc[q].delivery
           row == [status |-> status, run |-> 0, processed |-> TRUE]
<1>1. /\ d \in Deliveries
      /\ \A n \in DOMAIN runs : runs[n].delivery # d
  BY Handled, OwnState DEF FetchInv, Sound
<1>2. event'[d] = row /\ proc'[q] = Idle
  BY <1>1, Types DEF EndEvent, Go, FetchInv, IInv, TypeOK
<1>3. Idle.at = "idle" /\ Idle.delivery = NoDelivery
  BY DEF Idle, At
<1>4. /\ CallIsSound(call[q], proc[q], event)
      /\ c.delivery = d
      /\ \A p \in Processes : p # q /\ c.to # "none" => proc[p].delivery # c.delivery
  <2>1. CallIsSound(call[q], proc[q], event)
    BY OwnCall
  <2>2. c.delivery = d
    BY <2>1 DEF CallIsSound
  <2>3. QED
    BY <2>1, <2>2, OwnCall
<1>5. row # NoEvent
  BY DEF NoEvent
<1> HIDE DEF row, d
<1>6. CallIsSound(c, Idle, event')
  <2>1. c.to # "none" => c.listing \in Listings
    BY <1>4 DEF CallIsSound
  <2>2. c.to = "download" => Wanted(c.listing) # {} /\ Seen(c) = Wanted(c.listing)
    BY <1>4 DEF CallIsSound, Seen
  <2>3. QED
    BY <1>1, <1>2, <1>3, <1>4, <1>5, <2>1, <2>2 DEF CallIsSound, Writing
<1>7. Accounts(c, event', runs')
  <2>1. {n \in DOMAIN runs' : runs'[n].delivery = c.delivery} = {}
    BY <1>1, <1>4
  <2>2. c.to # "none" => Explained(c, event'[c.delivery])
    BY <1>2, <1>4 DEF row
  <2>3. QED
    BY <2>1, <2>2 DEF Accounts
<1>8. proc'[q].delivery = NoDelivery
  BY <1>2, <1>3
<1>9. CallIsSound(c, proc'[q], event')
  BY <1>2, <1>6
<1>10. QED
  BY <1>4, <1>7, <1>8, <1>9, CallsKept

LEMMA SortOutKeepsCalls ==
    ASSUME FetchInv, NEW q \in Processes, SortOut(q), OneMoves(q)
    PROVE  CallsAreSound'
<1> DEFINE d == proc[q].delivery
           c == [NoCall EXCEPT !.delivery = d]
<1>1. /\ Triage(q)
      /\ call' = [call EXCEPT ![q] = c]
      /\ proc[q].at = "received"
  BY DEF SortOut, Set, Triage
<1>2. d \in Deliveries /\ ~event[d].processed /\ event[d] \in EventRow
  <2>1. d \in Deliveries /\ d # NoDelivery
    BY <1>1, Handled DEF FetchInv
  <2>2. event[d] # NoEvent
    BY <2>1, OwnState DEF FetchInv, Sound
  <2>3. QED
    BY <2>1, <2>2, OwnCall DEF FetchInv, IInv, TypeOK
<1>3. NoCall.to = "none" /\ NoCall \in CallRow
  <2>1. 0 \in 0 .. MaxRetries /\ 1 \in Nat \ {0}
    OBVIOUS
  <2>2. QED
    BY <2>1 DEF NoCall, CallRow
<1>4. c \in CallRow /\ c.to = "none" /\ c.delivery = d
  BY <1>2, <1>3 DEF CallRow
<1> HIDE DEF c
<1>5. Idle.at = "idle" /\ Idle.delivery = NoDelivery
  BY DEF Idle, At
<1>6. /\ proc'[q].at \notin Writing
      /\ proc'[q].delivery \in {d, NoDelivery}
      /\ proc'[q].at = "processing" => proc'[q].delivery = d
      /\ proc'[q].delivery = d => ~event'[d].processed
  <2>1. CASE EndEvent(q, "skipped", 0) \/ EndEvent(q, "failed", 0)
    <3>1. proc'[q] = Idle
      BY <2>1, Types DEF EndEvent, Go, FetchInv, IInv
    <3>2. QED
      BY <1>2, <1>5, <3>1 DEF Writing
  <2>2. CASE /\ event' = [event EXCEPT ![d].status = "processing"]
             /\ GoTo(q, "processing")
    <3>1. proc'[q].at = "processing" /\ proc'[q].delivery = d
      BY <2>2, OwnState, Types DEF GoTo, Go, FetchInv, IInv, ProcState
    <3>2. ~event'[d].processed
      BY <1>2, <2>2 DEF FetchInv, IInv, TypeOK, EventRow
    <3>3. QED
      BY <3>1, <3>2 DEF Writing
  <2>3. QED
    BY <1>1, <2>1, <2>2 DEF Triage
<1>7. CallIsSound(c, proc'[q], event')
  BY <1>4, <1>6 DEF CallIsSound
<1>8. Accounts(c, event', runs')
  BY <1>4 DEF Accounts
<1>9. proc'[q].delivery # NoDelivery => ~event'[proc'[q].delivery].processed
  BY <1>6
<1>10. QED
  BY <1>1, <1>4, <1>7, <1>8, <1>9, CallsKept

\* How the call is changed by its answer.
LEMMA AnsweredCall ==
    ASSUME FetchInv, NEW q \in Processes,
           NEW answer \in {"ok", "unavailable", "refused", "not found"}, Answered(q, answer)
    PROVE  \E c \in CallRow :
             /\ call' = [call EXCEPT ![q] = c]
             /\ c.to = call[q].to /\ c.delivery = call[q].delivery
             /\ c.listing = call[q].listing /\ c.page = call[q].page
             /\ c.tries = call[q].tries /\ c.last = answer
<1> DEFINE c == [call[q] EXCEPT !.last = answer]
<1>1. /\ c \in CallRow
      /\ c.to = call[q].to /\ c.delivery = call[q].delivery
      /\ c.listing = call[q].listing /\ c.page = call[q].page
      /\ c.tries = call[q].tries /\ c.last = answer
  BY OwnCall DEF CallRow
<1>2. call' = [call EXCEPT ![q] = c]
  BY DEF Answered, Set
<1> HIDE DEF c
<1>3. QED
  BY <1>1, <1>2

\* The answers that settle an event.
LEMMA DeclineKeepsCalls ==
    ASSUME FetchInv, NEW q \in Processes, Decline(q) \/ CannotSign(q), OneMoves(q)
    PROVE  CallsAreSound'
<1>1. /\ proc[q].at = "processing" /\ call[q].to = "none"
      /\ call' = call /\ UNCHANGED runs
      /\ \E status \in {"success", "received", "failed"} : EndEvent(q, status, 0)
  BY DEF Decline, CannotSign, Calling, fetchVars, NothingToImport, LibraryMissing, HandlerFails
<1>2. QED
  BY <1>1, OwnCall, SettledKeepsCalls

LEMMA GiveUpKeepsCalls ==
    ASSUME FetchInv, NEW q \in Processes, GiveUp(q), OneMoves(q)
    PROVE  CallsAreSound'
<1>1. /\ proc[q].at = "processing" /\ call[q].to # "none"
      /\ EndEvent(q, "failed", 0) /\ UNCHANGED runs
  BY DEF GiveUp, HandlerFails
<1>2. CASE Answered(q, "refused")
  <2>1. PICK c \in CallRow :
          /\ call' = [call EXCEPT ![q] = c]
          /\ c.to = call[q].to /\ c.delivery = call[q].delivery
          /\ c.listing = call[q].listing /\ c.page = call[q].page
          /\ c.tries = call[q].tries /\ c.last = "refused"
    BY <1>2, AnsweredCall
  <2>2. Explained(c, [status |-> "failed", run |-> 0, processed |-> TRUE])
    BY <2>1 DEF Explained
  <2>3. QED
    BY <1>1, <2>1, <2>2, SettledKeepsCalls
<1>3. CASE ~MayRetry(call[q]) /\ Answered(q, "unavailable")
  <2>1. PICK c \in CallRow :
          /\ call' = [call EXCEPT ![q] = c]
          /\ c.to = call[q].to /\ c.delivery = call[q].delivery
          /\ c.listing = call[q].listing /\ c.page = call[q].page
          /\ c.tries = call[q].tries /\ c.last = "unavailable"
    BY <1>3, AnsweredCall
  <2>2. c.tries = MaxRetries
    <3>1. c.tries \in 0 .. MaxRetries /\ MaxRetries \in Nat
      BY DEF CallRow
    <3>2. ~ (c.tries < MaxRetries)
      BY <1>3, <2>1 DEF MayRetry
    <3>3. QED
      BY ONLY <3>1, <3>2
  <2>3. Explained(c, [status |-> "failed", run |-> 0, processed |-> TRUE])
    BY <2>1, <2>2 DEF Explained
  <2>4. QED
    BY <1>1, <2>1, <2>3, SettledKeepsCalls
<1>4. QED
  BY <1>2, <1>3 DEF GiveUp

LEMMA NotFoundKeepsCalls ==
    ASSUME FetchInv, NEW q \in Processes, NotFound(q), OneMoves(q)
    PROVE  CallsAreSound'
<1>1. PICK c \in CallRow :
        /\ call' = [call EXCEPT ![q] = c]
        /\ c.to = call[q].to /\ c.delivery = call[q].delivery
        /\ c.listing = call[q].listing /\ c.page = call[q].page
        /\ c.tries = call[q].tries /\ c.last = "not found"
  BY AnsweredCall DEF NotFound
<1>2. CASE Calling(q, "token") /\ HandlerFails(q)
  <2>1. Explained(c, [status |-> "failed", run |-> 0, processed |-> TRUE])
    BY <1>1, <1>2 DEF Explained, Calling
  <2>2. QED
    BY <1>1, <1>2, <2>1, SettledKeepsCalls DEF Calling, HandlerFails
<1>3. CASE (Calling(q, "list") \/ Calling(q, "download")) /\ NothingToImport(q)
  <2>1. Explained(c, [status |-> "success", run |-> 0, processed |-> TRUE])
    BY <1>1, <1>3 DEF Explained, Calling
  <2>2. QED
    BY <1>1, <1>3, <2>1, SettledKeepsCalls DEF Calling, NothingToImport
<1>4. QED
  BY <1>2, <1>3 DEF NotFound

\* The process goes on with its call, or makes the next one.
LEMMA CallGoesOn ==
    ASSUME FetchInv, NEW q \in Processes, UNCHANGED vars, proc[q].at = "processing",
           NEW c \in CallRow, call' = [call EXCEPT ![q] = c],
           c.delivery = call[q].delivery, c.to # "none", c.listing \in Listings,
           c.to = "download" => Wanted(c.listing) # {} /\ Seen(c) = Wanted(c.listing)
    PROVE  CallsAreSound'
<1>1. UNCHANGED <<event, runs, link, proc>>
  BY DEF vars
<1>2. OneMoves(q)
  BY <1>1 DEF OneMoves, RunsGrow, EventsKept
<1> DEFINE d == proc[q].delivery
<1>3. d \in Deliveries /\ d # NoDelivery
  BY Handled DEF FetchInv
<1>4. event[d] # NoEvent /\ ~event[d].processed
  BY <1>3, OwnState, OwnCall DEF FetchInv, Sound
<1>5. CallIsSound(call[q], proc[q], event)
  BY OwnCall
<1>6. c.delivery = d
  BY <1>5 DEF CallIsSound
<1>7. CallIsSound(c, proc'[q], event')
  BY <1>1, <1>3, <1>4, <1>6 DEF CallIsSound, Writing
<1>8. Accounts(c, event', runs')
  BY <1>1, <1>4, <1>6 DEF Accounts
<1>9. \A p \in Processes : p # q => proc[p].delivery # c.delivery
  BY <1>3, <1>6, OwnState DEF FetchInv, Apart
<1>10. proc'[q].delivery # NoDelivery => ~event'[proc'[q].delivery].processed
  BY <1>1, <1>4
<1>11. QED
  BY <1>2, <1>7, <1>8, <1>9, <1>10, CallsKept

LEMMA RequestKeepsCalls ==
    ASSUME FetchInv, NEW q \in Processes, BeginFetch(q) \/ Retry(q) \/ GetToken(q)
    PROVE  CallsAreSound'
<1>0. /\ call[q] \in CallRow
      /\ CallIsSound(call[q], proc[q], event)
  BY OwnCall
<1>1. CASE BeginFetch(q)
  <2>1. PICK listing \in Listings :
          call' = [call EXCEPT ![q] = [call[q] EXCEPT !.to = "token", !.listing = listing]]
    BY <1>1 DEF BeginFetch, Set
  <2> DEFINE c == [call[q] EXCEPT !.to = "token", !.listing = listing]
  <2>2. /\ c \in CallRow /\ c.to = "token"
        /\ c.delivery = call[q].delivery /\ c.listing = listing
    BY <1>0 DEF CallRow
  <2>3. call' = [call EXCEPT ![q] = c] /\ UNCHANGED vars /\ proc[q].at = "processing"
    BY <1>1, <2>1 DEF BeginFetch, Calling
  <2> HIDE DEF c
  <2>4. QED
    BY <2>2, <2>3, CallGoesOn
<1>2. CASE Retry(q)
  <2> DEFINE c == [call[q] EXCEPT !.tries = @ + 1, !.last = "unavailable"]
  <2>1. /\ call' = [call EXCEPT ![q] = c] /\ UNCHANGED vars
        /\ proc[q].at = "processing" /\ call[q].to # "none"
    BY <1>2 DEF Retry, Set
  <2>2. call[q].tries + 1 \in 0 .. MaxRetries
    <3>1. call[q].tries \in 0 .. MaxRetries /\ MaxRetries \in Nat
      BY <1>0 DEF CallRow
    <3>2. call[q].tries < MaxRetries
      BY <1>2 DEF Retry, MayRetry
    <3>3. QED
      BY ONLY <3>1, <3>2
  <2>3. /\ c \in CallRow /\ c.to = call[q].to /\ c.page = call[q].page
        /\ c.delivery = call[q].delivery /\ c.listing = call[q].listing
    BY <1>0, <2>2 DEF CallRow
  <2> HIDE DEF c
  <2>4. c.listing \in Listings
    BY <1>0, <2>1, <2>3 DEF CallIsSound
  <2>5. c.to = "download" => Wanted(c.listing) # {} /\ Seen(c) = Wanted(c.listing)
    BY <1>0, <2>3 DEF CallIsSound, Seen
  <2>6. QED
    BY <2>1, <2>3, <2>4, <2>5, CallGoesOn
<1>3. CASE GetToken(q)
  <2> DEFINE c == [call[q] EXCEPT !.to = "list", !.tries = 0, !.last = "ok"]
  <2>1. /\ call' = [call EXCEPT ![q] = c] /\ UNCHANGED vars
        /\ proc[q].at = "processing" /\ call[q].to = "token"
    BY <1>3 DEF GetToken, CallTo, Set, Calling
  <2>2. 0 \in 0 .. MaxRetries
    OBVIOUS
  <2>3. /\ c \in CallRow /\ c.to = "list"
        /\ c.delivery = call[q].delivery /\ c.listing = call[q].listing
    BY <1>0, <2>2 DEF CallRow
  <2> HIDE DEF c
  <2>4. c.listing \in Listings
    BY <1>0, <2>1, <2>3 DEF CallIsSound
  <2>5. QED
    BY <2>1, <2>3, <2>4, CallGoesOn
<1>4. QED
  BY <1>1, <1>2, <1>3

LEMMA ListPageKeepsCalls ==
    ASSUME FetchInv, NEW q \in Processes, ListPage(q), NothingToImport(q) => OneMoves(q)
    PROVE  CallsAreSound'
<1>0. /\ call[q] \in CallRow
      /\ call[q].listing \in Listings
      /\ proc[q].at = "processing" /\ call[q].to = "list"
  BY OwnCall DEF ListPage, Calling, CallIsSound
<1>1. 0 \in 0 .. MaxRetries
  OBVIOUS
<1>2. CASE ~LastPage(call[q])
  <2> DEFINE c == [call[q] EXCEPT !.page = @ + 1, !.tries = 0, !.last = "ok"]
  <2>1. call' = [call EXCEPT ![q] = c] /\ UNCHANGED vars
    BY <1>2 DEF ListPage, Set
  <2>2. call[q].page + 1 \in Nat \ {0}
    <3>1. call[q].page \in Nat
      BY <1>0 DEF CallRow
    <3>2. QED
      BY ONLY <3>1
  <2>3. /\ c \in CallRow /\ c.to = "list"
        /\ c.delivery = call[q].delivery /\ c.listing = call[q].listing
    BY <1>0, <1>1, <2>2 DEF CallRow
  <2> HIDE DEF c
  <2>4. QED
    BY <1>0, <2>1, <2>3, CallGoesOn
<1>3. CASE LastPage(call[q]) /\ Seen(call[q]) = {}
  <2>1. NothingToImport(q) /\ Answered(q, "ok")
    BY <1>3 DEF ListPage
  <2>2. PICK c \in CallRow :
          /\ call' = [call EXCEPT ![q] = c]
          /\ c.to = call[q].to /\ c.delivery = call[q].delivery
          /\ c.listing = call[q].listing /\ c.page = call[q].page
          /\ c.tries = call[q].tries /\ c.last = "ok"
    BY <2>1, AnsweredCall
  <2>3. Wanted(c.listing) = {}
    BY <1>0, <1>3, <2>2, LastPageShowsAll
  <2>4. Explained(c, [status |-> "success", run |-> 0, processed |-> TRUE])
    BY <2>2, <2>3 DEF Explained
  <2>5. EndEvent(q, "success", 0) /\ UNCHANGED runs
    BY <2>1 DEF NothingToImport
  <2>6. QED
    BY <1>0, <2>1, <2>2, <2>4, <2>5, SettledKeepsCalls
<1>4. CASE LastPage(call[q]) /\ Seen(call[q]) # {}
  <2> DEFINE c == [call[q] EXCEPT !.to = "download", !.tries = 0, !.last = "ok"]
  <2>1. call' = [call EXCEPT ![q] = c] /\ UNCHANGED vars
    BY <1>4 DEF ListPage, CallTo, Set
  <2>2. /\ c \in CallRow /\ c.to = "download" /\ c.page = call[q].page
        /\ c.delivery = call[q].delivery /\ c.listing = call[q].listing
    BY <1>0, <1>1 DEF CallRow
  <2> HIDE DEF c
  <2>3. Seen(call[q]) = Wanted(call[q].listing)
    BY <1>0, <1>4, LastPageShowsAll
  <2>4. Seen(c) = Seen(call[q])
    BY <2>2 DEF Seen
  <2>5. QED
    BY <1>0, <1>4, <2>1, <2>2, <2>3, <2>4, CallGoesOn
<1>5. QED
  BY <1>2, <1>3, <1>4

LEMMA DownloadKeepsCalls ==
    ASSUME FetchInv, NEW q \in Processes, Download(q), OneMoves(q)
    PROVE  CallsAreSound'
<1> DEFINE d == proc[q].delivery
           artifact == Chosen(call[q])
<1>0. /\ Calling(q, "download")
      /\ proc[q].at = "processing" /\ call[q].to = "download"
  BY DEF Download, Calling
<1>1. artifact = First(call[q].listing, Wanted(call[q].listing)) /\ artifact \in Artifact
  BY <1>0, ChosenIsFirst
<1>2. PICK c \in CallRow :
        /\ call' = [call EXCEPT ![q] = c]
        /\ c.to = call[q].to /\ c.delivery = call[q].delivery
        /\ c.listing = call[q].listing /\ c.page = call[q].page
        /\ c.tries = call[q].tries /\ c.last = "ok"
  BY AnsweredCall DEF Download
<1>3. /\ CallIsSound(call[q], proc[q], event)
      /\ call[q].listing \in Listings /\ Wanted(call[q].listing) # {}
  BY <1>0, OwnCall DEF CallIsSound
<1> HIDE DEF artifact, d
<1>4. CASE artifact.content = "results" /\ CreateRun(q, artifact.report)
  <2> DEFINE s == At("importing", d, Len(runs) + 1, artifact.report, NoRows)
  <2>1. Go(q, s) /\ event' = event
    BY <1>4 DEF CreateRun, d
  <2>2. s.at = "importing" /\ s.delivery = d /\ s.report = artifact.report
    BY DEF At
  <2> HIDE DEF s
  <2>3. proc'[q] = s
    BY <2>1, Types DEF FetchInv, IInv, Go
  <2>4. d \in Deliveries /\ d # NoDelivery
    BY <1>0, Handled DEF FetchInv, d
  <2>5. event[d] # NoEvent /\ ~event[d].processed
    BY <2>4, OwnState, OwnCall DEF FetchInv, Sound, d
  <2>6. c.delivery = d /\ \A p \in Processes : p # q => proc[p].delivery # c.delivery
    <3>1. c.delivery = d
      BY <1>0, <1>2, <1>3 DEF CallIsSound, d
    <3>2. QED
      BY <2>4, <3>1, OwnState DEF FetchInv, Apart, d
  <2>7. CallIsSound(c, s, event')
    <3>1. Seen(c) = Wanted(c.listing)
      BY <1>0, <1>2, <1>3 DEF CallIsSound, Seen
    <3>2. QED
      BY <1>0, <1>1, <1>2, <1>3, <2>1, <2>2, <2>4, <2>5, <2>6, <3>1 DEF CallIsSound, Writing
  <2>8. Accounts(c, event', runs')
    BY <2>1, <2>5, <2>6 DEF Accounts
  <2>9. /\ CallIsSound(c, proc'[q], event')
        /\ proc'[q].delivery # NoDelivery => ~event'[proc'[q].delivery].processed
    BY <2>1, <2>2, <2>3, <2>5, <2>7
  <2>10. QED
    BY <1>2, <2>6, <2>8, <2>9, CallsKept
<1>5. CASE artifact.content = "no junit" /\ NothingToImport(q)
  <2>1. Explained(c, [status |-> "success", run |-> 0, processed |-> TRUE])
    BY <1>1, <1>2, <1>5 DEF Explained
  <2>2. EndEvent(q, "success", 0) /\ UNCHANGED runs
    BY <1>5 DEF NothingToImport
  <2>3. QED
    BY <1>0, <1>2, <2>1, <2>2, SettledKeepsCalls
<1>6. CASE artifact.content \in {"broken", "too large"} /\ HandlerFails(q)
  <2>1. Explained(c, [status |-> "failed", run |-> 0, processed |-> TRUE])
    BY <1>0, <1>1, <1>2, <1>6 DEF Explained
  <2>2. EndEvent(q, "failed", 0) /\ UNCHANGED runs
    BY <1>6 DEF HandlerFails
  <2>3. QED
    BY <1>0, <1>2, <2>1, <2>2, SettledKeepsCalls
<1>7. QED
  BY <1>4, <1>5, <1>6 DEF Download, artifact

\* The event is settled once there is a run: it succeeds with that run.
LEMMA ImportedKeepsCalls ==
    ASSUME FetchInv, NEW q \in Processes, OneMoves(q),
           proc[q].at \in Writing, proc[q].delivery # NoDelivery,
           NEW status, NEW n, EndEvent(q, status, n), UNCHANGED runs, call' = call,
           status = "success" => n = proc[q].run /\ runs[n].finished
    PROVE  CallsAreSound'
<1> DEFINE d == proc[q].delivery
           row == [status |-> status, run |-> n, processed |-> TRUE]
           c == call[q]
<1>1. d \in Deliveries
  BY OwnState DEF FetchInv, ProcState
<1>2. event'[d] = row /\ proc'[q] = Idle
  BY <1>1, Types DEF EndEvent, Go, FetchInv, IInv, TypeOK
<1>3. Idle.at = "idle" /\ Idle.delivery = NoDelivery
  BY DEF Idle, At
<1>4. /\ proc[q].run \in DOMAIN runs
      /\ runs[proc[q].run].delivery = d
      /\ runs[proc[q].run].finished => runs[proc[q].run].results = proc[q].report
  BY OwnState DEF FetchInv, Sound
<1>5. CallIsSound(c, proc[q], event)
  BY OwnCall
<1>6. /\ c.to = "download" /\ c.delivery = d
      /\ proc[q].report = First(c.listing, Wanted(c.listing)).report
      /\ Wanted(c.listing) # {}
  BY <1>5 DEF CallIsSound
<1> HIDE DEF c, d, row
<1>7. Accounts(c, event', runs')
  <2>1. proc[q].run \in {k \in DOMAIN runs' : runs'[k].delivery = c.delivery}
    BY <1>4, <1>6
  <2>2. row.status = "success" =>
          /\ row.run \in DOMAIN runs'
          /\ runs'[row.run].delivery = c.delivery
          /\ runs'[row.run].results = First(c.listing, Wanted(c.listing)).report
    BY <1>4, <1>6 DEF row
  <2>3. QED
    BY <1>2, <1>6, <2>1, <2>2 DEF Accounts
<1>8. CallIsSound(c, Idle, event')
  <2>1. \A e \in Deliveries : event[e] # NoEvent => event'[e] # NoEvent
    BY DEF OneMoves, EventsKept
  <2>2. QED
    BY <1>3, <2>1, CallOfNone DEF c
<1>9. \A p \in Processes : p # q /\ c.to # "none" => proc[p].delivery # c.delivery
  BY OwnCall DEF c
<1>10. c \in CallRow /\ call' = [call EXCEPT ![q] = c]
  BY OwnCall DEF c
<1>11. CallIsSound(c, proc'[q], event') /\ proc'[q].delivery = NoDelivery
  BY <1>2, <1>3, <1>8
<1>12. QED
  BY <1>7, <1>9, <1>10, <1>11, CallsKept

LEMMA ProceedKeepsCalls ==
    ASSUME FetchInv, NEW q \in Processes, ProceedElsewhere(q), OneMoves(q)
    PROVE  CallsAreSound'
<1>0. /\ proc[q].at \notin {"received", "processing"} /\ Proceed(q) /\ call' = call
      /\ proc[q] \in ProcState
      /\ proc[q].at \in {"idle", "new_link", "fixing"} => proc[q].delivery = NoDelivery
      /\ \A s : Go(q, s) => proc'[q] = s
      /\ Idle.at = "idle" /\ Idle.delivery = NoDelivery
  BY OwnState, Types DEF ProceedElsewhere, fetchVars, FetchInv, IInv, Sound, Go, Idle, At
<1>1. ASSUME NEW t, AddResult(q, t) \/ LinkResult(q, t) PROVE CallsAreSound'
  BY <1>0, <1>1, QuietKeepsCalls DEF AddResult, LinkResult, Writing
<1>2. CASE FinishRun(q)
  <2>1. /\ proc'[q].at = "linking" /\ proc[q].at = "importing" /\ event' = event
        /\ proc'[q].delivery = proc[q].delivery /\ proc'[q].report = proc[q].report
    BY <1>0, <1>2 DEF FinishRun, GoTo, ProcState
  <2>2. QED
    BY <1>0, <2>1, QuietKeepsCalls DEF Writing
<1>3. CASE ListLinks(q)
  <2>1. /\ proc'[q].at = "updating" /\ proc[q].at = "linking" /\ event' = event
        /\ proc'[q].delivery = proc[q].delivery /\ proc'[q].report = proc[q].report
    BY <1>0, <1>3 DEF ListLinks, ProcState
  <2>2. QED
    BY <1>0, <2>1, QuietKeepsCalls DEF Writing
<1>4. \A l : /\ Visited(q, l).at = proc[q].at
             /\ Visited(q, l).delivery = proc[q].delivery
             /\ Visited(q, l).report = proc[q].report
  BY <1>0 DEF Visited, ProcState
<1>5. ASSUME NEW l, UpdateLink(q, l) PROVE CallsAreSound'
  <2>1. proc'[q] = Visited(q, l) /\ proc[q].at = "updating" /\ event' = event
    BY <1>0, <1>5 DEF UpdateLink
  <2>2. QED
    BY <1>0, <1>4, <2>1, QuietKeepsCalls DEF Writing
<1>6. ASSUME NEW l, SaveReview(q, l) PROVE CallsAreSound'
  <2>1. proc'[q] = Visited(q, l) /\ proc[q].at = "fixing" /\ event' = event
    BY <1>0, <1>6 DEF SaveReview
  <2>2. QED
    BY <1>0, <1>4, <2>1, QuietKeepsCalls
<1>7. ASSUME NEW l, FlagNewLink(q, l) \/ FixDone(q) PROVE CallsAreSound'
  BY <1>0, <1>7, QuietKeepsCalls DEF FlagNewLink, FixDone
<1>8. CASE ImportDone(q)
  <2>1. CASE proc[q].delivery # NoDelivery
    <3>1. /\ proc[q].at = "updating" /\ EndEvent(q, "success", proc[q].run)
          /\ UNCHANGED runs
      BY <1>8, <2>1 DEF ImportDone
    <3>2. runs[proc[q].run].finished
      BY <3>1, OwnState DEF FetchInv, Sound, Writing
    <3>3. QED
      BY <1>0, <2>1, <3>1, <3>2, ImportedKeepsCalls DEF Writing
  <2>2. CASE proc[q].delivery = NoDelivery
    BY <1>0, <1>8, <2>2, QuietKeepsCalls DEF ImportDone
  <2>3. QED
    BY <2>1, <2>2
<1>9. CASE HandlerFails(q)
  <2>1. /\ proc[q].at \in Writing /\ proc[q].delivery # NoDelivery
        /\ EndEvent(q, "failed", 0) /\ UNCHANGED runs
    BY <1>0, <1>9 DEF HandlerFails, Handling, Writing
  <2>2. QED
    BY <1>0, <2>1, ImportedKeepsCalls
<1>10. QED
  BY <1>0, <1>1, <1>2, <1>3, <1>5, <1>6, <1>7, <1>8, <1>9
     DEF Proceed, Triage, NothingToImport, LibraryMissing

-----------------------------------------------------------------------------
LEMMA InitFetchInv == FetchInit => FetchInv
<1> SUFFICES ASSUME FetchInit PROVE FetchInv
  OBVIOUS
<1>1. IInv
  BY InitIInv DEF FetchInit
<1>2. NoCall.to = "none" /\ NoCall \in CallRow
  <2>1. 0 \in 0 .. MaxRetries /\ 1 \in Nat \ {0}
    OBVIOUS
  <2>2. QED
    BY <2>1 DEF NoCall, CallRow
<1>3. Idle.at = "idle" /\ Idle.delivery = NoDelivery
  BY DEF Idle, At
<1>4. CallsAreSound
  BY <1>2, <1>3 DEF FetchInit, Init, CallsAreSound, CallIsSound, Accounts, Writing
<1>5. QED
  BY <1>1, <1>4 DEF FetchInv

LEMMA NextFetchInv ==
    FetchInv /\ [FetchNext]_<<vars, fetchVars>> => FetchInv' /\ [Next]_vars
<1> SUFFICES ASSUME FetchInv, [FetchNext]_<<vars, fetchVars>>
             PROVE  FetchInv' /\ [Next]_vars
  OBVIOUS
<1>1. CASE UNCHANGED <<vars, fetchVars>>
  <2>1. UNCHANGED <<event, runs, link, proc, call>> /\ UNCHANGED vars
    BY <1>1 DEF vars, fetchVars
  <2>2. IInv'
    BY <2>1, NextIInv DEF FetchInv
  <2>3. CallsAreSound'
    BY <2>1 DEF FetchInv, CallsAreSound
  <2>4. QED
    BY <2>1, <2>2, <2>3 DEF FetchInv
<1>2. ASSUME NEW q \in Processes,
             \/ TakeIn(q) \/ BeginElsewhere(q) \/ ProceedElsewhere(q)
             \/ ProceedWithFetch(q) \/ CrashAnywhere(q)
      PROVE  FetchInv' /\ [Next]_vars
  <2>1. [Next]_vars
    BY <1>2, FetchStep DEF Next
  <2>2. IInv'
    BY <2>1, NextIInv DEF FetchInv
  <2>3. Begin(q) \/ Proceed(q) \/ Crash(q) => OneMoves(q)
    BY StepOfOne DEF FetchInv
  <2>4. NothingToImport(q) => OneMoves(q)
    BY <2>3 DEF Proceed
  <2>5. OneMoves(q) \/ BeginFetch(q) \/ Retry(q) \/ GetToken(q) \/ ListPage(q)
    <3>1. CASE TakeIn(q) \/ BeginElsewhere(q)
      BY <2>3, <3>1 DEF TakeIn, BeginElsewhere, Begin
    <3>2. CASE ProceedElsewhere(q) \/ CrashAnywhere(q)
      BY <2>3, <3>2 DEF ProceedElsewhere, CrashAnywhere
    <3>3. CASE SortOut(q) \/ Decline(q) \/ CannotSign(q) \/ GiveUp(q) \/ NotFound(q)
      BY <2>3, <3>3 DEF SortOut, Decline, CannotSign, GiveUp, NotFound, Proceed
    <3>4. CASE Download(q)
      <4>1. Calling(q, "download") /\ Chosen(call[q]).report \in Reports
        BY <3>4, ChosenIsFirst DEF Download, Artifact
      <4>2. QED
        BY <2>3, <3>4, <4>1 DEF Download, Calling, Proceed
    <3>5. QED
      BY <1>2, <3>1, <3>2, <3>3, <3>4 DEF ProceedWithFetch
  <2>6. CallsAreSound'
    <3>1. CASE BeginFetch(q) \/ Retry(q) \/ GetToken(q) \/ ListPage(q)
      BY <2>4, <3>1, RequestKeepsCalls, ListPageKeepsCalls
    <3>2. CASE OneMoves(q)
      BY <1>2, <3>1, <3>2, TakeInKeepsCalls, BeginKeepsCalls, ProceedKeepsCalls,
         CrashKeepsCalls, SortOutKeepsCalls, DeclineKeepsCalls, GiveUpKeepsCalls,
         NotFoundKeepsCalls, DownloadKeepsCalls
         DEF ProceedWithFetch
    <3>3. QED
      BY <2>5, <3>1, <3>2
  <2>7. QED
    BY <2>1, <2>2, <2>6 DEF FetchInv
<1>3. QED
  BY <1>1, <1>2 DEF FetchNext

\* The inductive invariant of the fetch holds in every state it reaches.
THEOREM FetchInvariance == FetchSpec => []FetchInv
BY InitFetchInv, NextFetchInv, PTL DEF FetchSpec

\* The fetch is an implementation of the ingestion: whatever GitHub answers,
\* every step of it is one that WebhookIngestion allows.
THEOREM FetchImplementsIngestion == FetchSpec => Spec
<1>1. FetchInit => Init
  BY DEF FetchInit
<1>2. QED
  BY <1>1, FetchInvariance, NextFetchInv, PTL DEF FetchSpec, Spec

LEMMA CallsAccount == FetchInv => FetchAccountsForEvent
<1> SUFFICES ASSUME FetchInv PROVE FetchAccountsForEvent
  OBVIOUS
<1>1. \A p \in Processes : Accounts(call[p], event, runs)
  BY DEF FetchInv, CallsAreSound
<1>2. QED
  BY <1>1 DEF FetchAccountsForEvent, Accounts, Explained

\* The last call made for a delivery accounts for what became of its event.
THEOREM FetchIsAccountedFor == FetchSpec => []FetchAccountsForEvent
BY FetchInvariance, CallsAccount, PTL

\* With the fetch, too, a delivery makes one whole run, and links show one.
THEOREM FetchMakesOneWholeRun ==
    FetchSpec => [](DeliveriesMakeOneWholeRun /\ LinkShowsOneRun)
BY FetchImplementsIngestion, OneWholeRun, OneRunPerLink, PTL

-----------------------------------------------------------------------------
(***************************************************************************)
(* One process alone.  The rows are saved as they were listed, so links    *)
(* follow the runs only if nothing else is imported meanwhile: the run     *)
(* that is imported is then the newest, and the rows listed are the rows   *)
(* there are.                                                              *)
(***************************************************************************)
InStep(s, rs, lk) ==
    /\ s.at \in Writing => s.run = Len(rs)
    /\ s.at = "updating" => \A l \in DOMAIN s.rows : s.rows[l] = lk[l]
    /\ s.at = "new_link" => \A l \in DOMAIN s.rows : lk[l] = NewLink

AloneInv == IInv /\ \A p \in Processes : InStep(proc[p], runs, link)

LinksFollow ==
    \A l \in Links :
        /\ link'[l].run >= link[l].run
        /\ link[l].status = "passed" /\ link'[l].status \in Failing => link'[l].review

LEMMA LinkRuns ==
    ASSUME IInv, NEW l \in Links
    PROVE  /\ link[l].run \in Nat
           /\ link[l].run <= Len(runs)
           /\ link[l] = NoLink => link[l].run = 0 /\ link[l].status = "none"
<1>1. CASE link[l] = NoLink
  BY <1>1, Types DEF NoLink, IInv
<1>2. CASE link[l] # NoLink
  <2>1. link[l].run = 0 \/ link[l].run \in DOMAIN runs
    BY <1>2 DEF IInv, LinksShowFinishedRuns, Existing
  <2>2. QED
    BY <1>2, <2>1, Types DEF IInv
<1>3. QED
  BY <1>1, <1>2

\* One link is saved, with a newer run and flagged if it has to be.
LEMMA LinkFollows ==
    ASSUME IInv, NEW l \in Links, NEW row, link' = [link EXCEPT ![l] = row],
           row.run >= link[l].run,
           link[l].status = "passed" /\ row.status \in Failing => row.review
    PROVE  LinksFollow
<1>1. \A m \in Links : link'[m] = IF m = l THEN row ELSE link[m]
  BY Types DEF IInv
<1>2. \A m \in Links : link[m].run >= link[m].run
  <2>1. \A m \in Links : link[m].run \in Nat
    BY LinkRuns
  <2>2. QED
    BY <2>1
<1>3. \A m \in Links : link[m].status = "passed" => link[m].status \notin Failing
  BY DEF Failing
<1>4. QED
  BY <1>1, <1>2, <1>3 DEF LinksFollow

LEMMA LinksStay == ASSUME IInv, link' = link PROVE LinksFollow
<1>1. \A l \in Links : link[l].run >= link[l].run
  <2>1. \A l \in Links : link[l].run \in Nat
    BY LinkRuns
  <2>2. QED
    BY <2>1
<1>2. QED
  BY <1>1 DEF LinksFollow, Failing

LEMMA StepAlone ==
    ASSUME IInv, NEW p \in Processes, InStep(proc[p], runs, link),
           Begin(p) \/ Proceed(p) \/ Crash(p)
    PROVE  InStep(proc'[p], runs', link') /\ LinksFollow
<1>0. /\ proc[p] \in ProcState
      /\ \A s : Go(p, s) => proc'[p] = s
      /\ Sound(proc[p], event, runs, link)
      /\ DOMAIN proc[p].rows \subseteq Links
      /\ runs \in Seq(RunRow) /\ Len(runs) \in Nat /\ DOMAIN runs = 1 .. Len(runs)
      /\ \A k \in DOMAIN runs : runs[k] \in RunRow
      /\ link \in [Links -> LinkRow \cup {NoLink}]
  BY OwnState, Types DEF IInv, Go
<1>1. ASSUME NEW s, proc'[p] = s, s.at \in {"idle", "received", "processing", "fixing"}, link' = link
      PROVE  InStep(proc'[p], runs', link') /\ LinksFollow
  BY <1>1, LinksStay DEF InStep, Writing
<1>2. Idle.at = "idle"
  BY DEF Idle, At
<1>3. ASSUME NEW d, Receive(p, d) PROVE InStep(proc'[p], runs', link') /\ LinksFollow
  BY <1>0, <1>1, <1>3 DEF Receive, At
<1>4. ASSUME NEW status, NEW n, EndEvent(p, status, n), link' = link
      PROVE  InStep(proc'[p], runs', link') /\ LinksFollow
  BY <1>0, <1>1, <1>2, <1>4 DEF EndEvent
<1>5. CASE Triage(p)
  <2>1. CASE GoTo(p, "processing")
    <3>1. proc'[p].at = "processing"
      BY <1>0, <2>1 DEF GoTo, ProcState
    <3>2. QED
      BY <1>1, <1>5, <3>1 DEF Triage
  <2>2. QED
    BY <1>4, <1>5, <2>1 DEF Triage
<1>6. CASE NothingToImport(p) \/ HandlerFails(p) \/ LibraryMissing(p)
  BY <1>4, <1>6 DEF NothingToImport, HandlerFails, LibraryMissing
<1>7. CASE FixDone(p) \/ Crash(p)
  BY <1>0, <1>1, <1>2, <1>7 DEF FixDone, Crash
<1>8. CASE ListFailures(p)
  BY <1>0, <1>1, <1>8 DEF ListFailures, At
<1>9. CASE ImportDone(p)
  BY <1>0, <1>1, <1>2, <1>4, <1>9 DEF ImportDone
<1>10. ASSUME NEW report \in Reports, CreateRun(p, report)
       PROVE  InStep(proc'[p], runs', link') /\ LinksFollow
  <2> DEFINE new == [delivery |-> proc[p].delivery, results |-> NoResults,
                     finished |-> FALSE, linked |-> {}]
             s == At("importing", proc[p].delivery, Len(runs) + 1, report, NoRows)
  <2>1. runs' = Append(runs, new) /\ proc'[p] = s /\ link' = link
    BY <1>0, <1>10 DEF CreateRun
  <2>2. new \in RunRow
    BY <1>0, States DEF RunRow, IInv, ProcState
  <2>3. s.at = "importing" /\ s.run = Len(runs) + 1
    BY DEF At
  <2> HIDE DEF new, s
  <2>4. Len(runs') = Len(runs) + 1
    BY <1>0, <2>1, <2>2, AppendProperties
  <2>5. QED
    BY <2>1, <2>3, <2>4, LinksStay DEF InStep
<1>11. ASSUME NEW row, runs' = [runs EXCEPT ![proc[p].run] = row], link' = link,
              proc'[p].at \in {"importing", "linking"}, proc'[p].run = proc[p].run,
              proc[p].at \in {"importing", "linking"}
       PROVE  InStep(proc'[p], runs', link') /\ LinksFollow
  <2>1. Len(runs') = Len(runs)
    BY <1>0, <1>11
  <2>2. proc'[p].run = Len(runs')
    BY <1>11, <2>1 DEF InStep, Writing
  <2>3. QED
    BY <1>11, <2>2, LinksStay DEF InStep
<1>12. ASSUME NEW t, AddResult(p, t) \/ LinkResult(p, t)
       PROVE  InStep(proc'[p], runs', link') /\ LinksFollow
  BY <1>11, <1>12 DEF AddResult, LinkResult
<1>13. CASE FinishRun(p)
  <2>1. proc'[p].at = "linking" /\ proc'[p].run = proc[p].run
    BY <1>0, <1>13 DEF FinishRun, GoTo, ProcState
  <2>2. QED
    BY <1>11, <1>13, <2>1 DEF FinishRun
<1>14. CASE ListLinks(p)
  <2> DEFINE rows == [l \in Existing |-> link[l]]
             s == [proc[p] EXCEPT !.at = "updating", !.rows = rows]
  <2>1. proc'[p] = s /\ UNCHANGED <<runs, link>> /\ proc[p].at = "linking"
    BY <1>0, <1>14 DEF ListLinks
  <2>2. s.at = "updating" /\ s.run = proc[p].run /\ s.rows = rows
    BY <1>0 DEF ProcState
  <2>3. \A l \in DOMAIN rows : rows[l] = link[l]
    OBVIOUS
  <2> HIDE DEF s, rows
  <2>4. QED
    BY <2>1, <2>2, <2>3, LinksStay DEF InStep, Writing
<1>15. ASSUME NEW l \in Links, UpdateLink(p, l)
       PROVE  InStep(proc'[p], runs', link') /\ LinksFollow
  <2> DEFINE s == Visited(p, l)
             status == runs[proc[p].run].results[TestOf[l]]
             row == UpdatedLink(proc[p].rows[l], proc[p].run, status)
  <2>1. /\ proc[p].at = "updating" /\ l \in DOMAIN proc[p].rows
        /\ proc'[p] = s /\ runs' = runs
        /\ link' = link \/ link' = [link EXCEPT ![l] = row]
    BY <1>0, <1>15 DEF UpdateLink, Listed
  <2>2. proc[p].run = Len(runs) /\ \A m \in DOMAIN proc[p].rows : proc[p].rows[m] = link[m]
    BY <2>1 DEF InStep, Writing
  <2>3. /\ s.at = "updating" /\ s.run = proc[p].run
        /\ DOMAIN s.rows = DOMAIN proc[p].rows \ {l}
        /\ \A m \in DOMAIN s.rows : s.rows[m] = proc[p].rows[m]
    BY <1>0, <2>1 DEF Visited, Listed, ProcState
  <2>4. /\ row.run = proc[p].run /\ row.status = status
        /\ link[l].status = "passed" /\ row.status \in Failing => row.review
    BY <2>1, <2>2 DEF UpdatedLink
  <2> HIDE DEF s, row, status
  <2>5. InStep(proc'[p], runs', link')
    <3>1. \A m \in DOMAIN s.rows : link'[m] = link[m]
      BY <1>0, <2>1, <2>3
    <3>2. QED
      BY <2>1, <2>2, <2>3, <3>1 DEF InStep
  <2>6. row.run >= link[l].run
    BY <1>0, <2>2, <2>4, LinkRuns
  <2>7. LinksFollow
    BY <2>1, <2>4, <2>6, LinksStay, LinkFollows
  <2>8. QED
    BY <2>5, <2>7
<1>16. ASSUME NEW l \in Links, SaveReview(p, l)
       PROVE  InStep(proc'[p], runs', link') /\ LinksFollow
  <2> DEFINE row == [link[l] EXCEPT !.review = TRUE]
  <2>1. /\ proc[p].at = "fixing" /\ proc'[p] = Visited(p, l)
        /\ link' = [link EXCEPT ![l] = row]
    BY <1>0, <1>16 DEF SaveReview
  <2>2. Visited(p, l).at = "fixing"
    BY <1>0, <2>1 DEF Visited, ProcState
  <2>3. link[l] \in LinkRow \cup {NoLink}
    BY <1>0
  <2>4. row.run = link[l].run /\ row.status = link[l].status
    BY <2>3 DEF LinkRow, NoLink
  <2> HIDE DEF row
  <2>5. LinksFollow
    <3>1. row.run >= link[l].run
      BY <2>4, LinkRuns
    <3>2. QED
      BY <2>1, <2>4, <3>1, LinkFollows DEF Failing
  <2>6. QED
    BY <2>1, <2>2, <2>5 DEF InStep, Writing
<1>17. ASSUME NEW l \in Links, ImportLink(p, l)
       PROVE  InStep(proc'[p], runs', link') /\ LinksFollow
  <2>1. CASE l \in Existing
    <3> DEFINE row == [link[l] EXCEPT !.review = FALSE]
    <3>1. proc[p].at = "idle" /\ proc' = proc /\ link' = [link EXCEPT ![l] = row]
      BY <1>17, <2>1 DEF ImportLink
    <3>2. row.run = link[l].run /\ row.status = link[l].status
      BY <1>0 DEF LinkRow, NoLink
    <3> HIDE DEF row
    <3>3. row.run >= link[l].run
      BY <3>2, LinkRuns
    <3>4. LinksFollow
      BY <3>1, <3>2, <3>3, LinkFollows DEF Failing
    <3>5. QED
      BY <3>1, <3>4 DEF InStep, Writing
  <2>2. CASE l \notin Existing
    <3> DEFINE s == At("new_link", NoDelivery, 0, NoResults, [m \in {l} |-> NewLink])
    <3>1. proc'[p] = s /\ link' = [link EXCEPT ![l] = NewLink]
      BY <1>0, <1>17, <2>2 DEF ImportLink
    <3>2. s.at = "new_link" /\ DOMAIN s.rows = {l}
      BY DEF At
    <3> HIDE DEF s
    <3>3. link'[l] = NewLink
      BY <1>0, <3>1
    <3>4. link[l] = NoLink /\ NewLink.run = 0 /\ NewLink.status = "unknown"
      BY <2>2 DEF Existing, NewLink
    <3>5. link[l].run = 0 /\ link[l].status = "none" /\ 0 >= 0
      BY <3>4, LinkRuns
    <3>6. NewLink.run >= link[l].run /\ link[l].status # "passed"
      BY <3>4, <3>5
    <3>7. LinksFollow
      BY <3>1, <3>6, LinkFollows
    <3>8. QED
      BY <3>1, <3>2, <3>3, <3>7 DEF InStep, Writing
  <2>3. QED
    BY <2>1, <2>2
<1>18. ASSUME NEW l \in Links, FlagNewLink(p, l)
       PROVE  InStep(proc'[p], runs', link') /\ LinksFollow
  <2> DEFINE row == [NewLink EXCEPT !.review = TRUE]
  <2>1. /\ proc[p].at = "new_link" /\ l \in DOMAIN proc[p].rows
        /\ proc'[p] = Idle /\ link' = [link EXCEPT ![l] = row]
    BY <1>0, <1>18 DEF FlagNewLink, Listed
  <2>2. link[l] = NewLink
    BY <2>1 DEF InStep
  <2>3. row.run = 0 /\ NewLink.run = 0 /\ row.review
    BY DEF NewLink
  <2> HIDE DEF row
  <2>4. LinksFollow
    <3>1. row.run >= link[l].run
      BY <2>2, <2>3, 0 >= 0
    <3>2. QED
      BY <2>1, <2>3, <3>1, LinkFollows
  <2>5. QED
    BY <1>2, <2>1, <2>4 DEF InStep, Writing
<1>19. QED
  BY <1>3, <1>5, <1>6, <1>7, <1>8, <1>9, <1>10, <1>12, <1>13, <1>14, <1>15, <1>16, <1>17, <1>18
     DEF Begin, BeginCommand, Proceed

\* With one process, links never go back to an older run, and a link that comes
\* to fail after it passed is flagged for review as it does.
THEOREM LinksFollowOneImporter ==
    ASSUME NEW p, Processes = {p}
    PROVE  Spec => LinksFollowRuns
<1>1. Init => AloneInv
  BY InitIInv DEF Init, AloneInv, InStep, Idle, At, Writing
<1>2. AloneInv /\ [Next]_vars => AloneInv' /\ [LinksFollow]_link
  <2> SUFFICES ASSUME AloneInv, [Next]_vars PROVE AloneInv' /\ [LinksFollow]_link
    OBVIOUS
  <2>1. IInv'
    BY NextIInv DEF AloneInv
  <2>2. CASE UNCHANGED vars
    BY <2>1, <2>2 DEF AloneInv, InStep, vars
  <2>3. CASE Begin(p) \/ Proceed(p) \/ Crash(p)
    BY <2>1, <2>3, StepAlone DEF AloneInv
  <2>4. QED
    BY <2>2, <2>3 DEF Next
<1>3. Spec => [][LinksFollow]_link
  BY <1>1, <1>2, PTL DEF Spec
<1>4. QED
  BY <1>3 DEF LinksFollowRuns, LinksFollow

-----------------------------------------------------------------------------
HIDE FetchAssumption
USE ConflictAssumption, ReportAssumption

-----------------------------------------------------------------------------
(***************************************************************************)
(* Conflicts.  What is detected is justified by the links and the fields,  *)
(* neither of which changes while conflicts are being logged or are on     *)
(* record; and a row is only added if none like it is open.                *)
(***************************************************************************)
Conflict == [a : Requirements, b : Requirements, pattern : Pattern, confidence : Confidence]
LogRow   == [a : Requirements, b : Requirements, pattern : Pattern, confidence : Confidence,
             resolved : BOOLEAN]

IsJustified(c, links) ==
    /\ c.a # c.b
    /\ c.pattern = "mutual_exclusion" =>
         \E k, l \in links : RequirementOf[k] = c.a /\ RequirementOf[l] = c.b
    /\ c.pattern # "mutual_exclusion" =>
         \E order \in SetToSeqs(Requirements) : \E d \in StructuredConflicts(order) :
           d.a = c.b /\ d.b = c.a /\ d.pattern = c.pattern /\ d.confidence = c.confidence

LogInv ==
    /\ conflicts \in Seq(LogRow)
    /\ detector \in SUBSET Conflict
    /\ \A c \in detector : IsJustified(c, Existing)
    /\ \A n \in DOMAIN conflicts : IsJustified(conflicts[n], Existing)
    /\ \A m, n \in DOMAIN conflicts :
         /\ ~conflicts[m].resolved /\ ~conflicts[n].resolved
         /\ SamePair(conflicts[m], conflicts[n]) /\ conflicts[m].pattern = conflicts[n].pattern
         => m = n

-----------------------------------------------------------------------------
\* The confidence of each two requirements, in either order.
IsTable(confidence) ==
    confidence \in [Requirements -> [Requirements -> Confidence \cup {NoConflict}]]

IsSymmetric(confidence) ==
    \A a, b \in Requirements : confidence[a][b] = confidence[b][a]

ExclusionTable     == [a \in Requirements |-> [b \in Requirements |-> Exclusion(a, b)]]
OverlapTable       == [a \in Requirements |-> [b \in Requirements |-> Overlap(a, b)]]
TimingTable        == [a \in Requirements |-> [b \in Requirements |-> TimingConflict(a, b)]]
ContradictionTable == [a \in Requirements |-> [b \in Requirements |-> Contradiction(a, b)]]

Opposed(u, v) ==
    \E w \in Antonyms : \/ w[1] \in u.parts /\ w[2] \in v.parts
                        \/ w[2] \in u.parts /\ w[1] \in v.parts

LEMMA Tables ==
    /\ IsTable(ExclusionTable)
    /\ IsTable(OverlapTable) /\ IsSymmetric(OverlapTable)
    /\ IsTable(TimingTable) /\ IsSymmetric(TimingTable)
    /\ IsTable(ContradictionTable) /\ IsSymmetric(ContradictionTable)
<1>1. ASSUME NEW a, NEW b PROVE Exclusion(a, b) \in Confidence \cup {NoConflict}
  BY DEF Exclusion, Confidence
<1>2. ASSUME NEW a, NEW b PROVE Overlap(a, b) \in Confidence \cup {NoConflict}
  BY DEF Overlap, Confidence
<1>3. ASSUME NEW a, NEW b PROVE TimingConflict(a, b) \in Confidence \cup {NoConflict}
  BY DEF TimingConflict, Confidence
<1>4. ASSUME NEW a, NEW b PROVE Contradiction(a, b) \in Confidence \cup {NoConflict}
  BY DEF Contradiction, Confidence
<1>5. ASSUME NEW a, NEW b PROVE Overlap(a, b) = Overlap(b, a)
  BY DEF Overlap, SameComponent
<1>6. ASSUME NEW a, NEW b PROVE TimingConflict(a, b) = TimingConflict(b, a)
  BY ZenonT(30), SMTT(30) DEF TimingConflict, SameComponent
<1>7. ASSUME NEW a, NEW b PROVE Contradiction(a, b) = Contradiction(b, a)
  <2> DEFINE x == Fields[a].condition.words
             y == Fields[b].condition.words
             u == Fields[a].response
             v == Fields[b].response
  <2>1. {x, y, u.words, v.words} = {y, x, v.words, u.words}
    OBVIOUS
  <2>2. x \cap y = y \cap x /\ u.words \cap v.words = v.words \cap u.words
    OBVIOUS
  <2>3. {Cardinality(x), Cardinality(y)} = {Cardinality(y), Cardinality(x)}
    OBVIOUS
  <2>4. Opposed(u, v) <=> Opposed(v, u)
    BY DEF Opposed
  <2>5. u.words # v.words <=> v.words # u.words
    OBVIOUS
  <2> HIDE DEF x, y, u, v
  <2>6. QED
    BY <2>1, <2>2, <2>3, <2>4, <2>5 DEF Contradiction, Opposed, x, y, u, v
<1>8. IsTable(ExclusionTable)
  BY <1>1 DEF IsTable, ExclusionTable
<1>9. IsTable(OverlapTable) /\ IsSymmetric(OverlapTable)
  BY <1>2, <1>5 DEF IsTable, IsSymmetric, OverlapTable
<1>10. IsTable(TimingTable) /\ IsSymmetric(TimingTable)
  BY <1>3, <1>6 DEF IsTable, IsSymmetric, TimingTable
<1>11. IsTable(ContradictionTable) /\ IsSymmetric(ContradictionTable)
  BY <1>4, <1>7 DEF IsTable, IsSymmetric, ContradictionTable
<1>12. QED
  BY <1>8, <1>9, <1>10, <1>11

LEMMA Orders ==
    ASSUME NEW order \in SetToSeqs(Requirements)
    PROVE  /\ Cardinality(Requirements) \in Nat
           /\ order \in [1 .. Cardinality(Requirements) -> Requirements]
           /\ \A i, j \in 1 .. Cardinality(Requirements) : i # j => order[i] # order[j]
<1>1. Cardinality(Requirements) \in Nat
  BY FS_CardinalityType
<1>2. QED
  BY <1>1 DEF SetToSeqs

\* What is found is a conflict of two requirements, as sure as the table says.
LEMMA FoundConflicts ==
    ASSUME NEW pattern \in Pattern, NEW confidence, IsTable(confidence),
           NEW order \in SetToSeqs(Requirements), NEW c \in Found(pattern, confidence, order)
    PROVE  /\ c \in Conflict /\ c.a # c.b /\ c.pattern = pattern
           /\ c.confidence = confidence[c.a][c.b] /\ c.confidence # NoConflict
<1>1. PICK p \in (DOMAIN order) \X (DOMAIN order) :
        /\ p[1] < p[2] /\ confidence[order[p[1]]][order[p[2]]] # NoConflict
        /\ c = [a |-> order[p[1]], b |-> order[p[2]], pattern |-> pattern,
                confidence |-> confidence[order[p[1]]][order[p[2]]]]
  BY DEF Found
<1> DEFINE a == order[p[1]]
           b == order[p[2]]
<1>2. p[1] \in 1 .. Cardinality(Requirements) /\ p[2] \in 1 .. Cardinality(Requirements)
  BY Orders
<1>3. a \in Requirements /\ b \in Requirements /\ a # b
  BY <1>1, <1>2, Orders
<1> HIDE DEF a, b
<1>4. c = [a |-> a, b |-> b, pattern |-> pattern, confidence |-> confidence[a][b]]
  BY <1>1 DEF a, b
<1>5. confidence[a][b] \in Confidence /\ confidence[a][b] # NoConflict
  BY <1>1, <1>3 DEF IsTable, a, b
<1> HIDE <1>1
<1>6. QED
  BY <1>3, <1>4, <1>5 DEF Conflict

Reversed(order) ==
    [i \in 1 .. Cardinality(Requirements) |-> order[Cardinality(Requirements) + 1 - i]]

\* Met the other way round, a pair is found again.
LEMMA FoundReversed ==
    ASSUME NEW pattern \in Pattern, NEW confidence, IsTable(confidence), IsSymmetric(confidence),
           NEW order \in SetToSeqs(Requirements), NEW c \in Found(pattern, confidence, order)
    PROVE  /\ Reversed(order) \in SetToSeqs(Requirements)
           /\ \E d \in Found(pattern, confidence, Reversed(order)) :
                d.a = c.b /\ d.b = c.a /\ d.pattern = c.pattern /\ d.confidence = c.confidence
<1> DEFINE N == Cardinality(Requirements)
           back == Reversed(order)
<1>1. /\ N \in Nat /\ order \in [1 .. N -> Requirements]
      /\ \A i, j \in 1 .. N : i # j => order[i] # order[j]
  BY Orders
<1>2. PICK p \in (DOMAIN order) \X (DOMAIN order) :
        /\ p[1] < p[2] /\ confidence[order[p[1]]][order[p[2]]] # NoConflict
        /\ c = [a |-> order[p[1]], b |-> order[p[2]], pattern |-> pattern,
                confidence |-> confidence[order[p[1]]][order[p[2]]]]
  BY DEF Found
<1>3. p[1] \in 1 .. N /\ p[2] \in 1 .. N
  BY <1>1
<1> HIDE DEF N
<1>4. /\ back = [i \in 1 .. N |-> order[N + 1 - i]]
      /\ \A i \in 1 .. N : N + 1 - i \in 1 .. N
  BY <1>1 DEF Reversed, N
<1> HIDE DEF back
<1>5. /\ back \in [1 .. N -> Requirements]
      /\ \A i, j \in 1 .. N : i # j => back[i] # back[j]
  BY <1>1, <1>4
<1>6. back \in SetToSeqs(Requirements)
  BY <1>5 DEF SetToSeqs, N
<1> DEFINE i == N + 1 - p[2]
           j == N + 1 - p[1]
           d == [a |-> back[i], b |-> back[j], pattern |-> pattern,
                 confidence |-> confidence[back[i]][back[j]]]
<1>7. i \in 1 .. N /\ j \in 1 .. N /\ i < j /\ N + 1 - i = p[2] /\ N + 1 - j = p[1]
  <2> DEFINE u == p[1]
             v == p[2]
  <2>1. N \in Nat /\ u \in 1 .. N /\ v \in 1 .. N /\ u < v
    BY <1>1, <1>2, <1>3
  <2> HIDE DEF u, v
  <2>2. /\ N + 1 - v \in 1 .. N /\ N + 1 - u \in 1 .. N /\ N + 1 - v < N + 1 - u
        /\ N + 1 - (N + 1 - v) = v /\ N + 1 - (N + 1 - u) = u
    BY ONLY <2>1
  <2>3. QED
    BY <2>2 DEF u, v
<1> HIDE DEF i, j
<1>8. back[i] = order[p[2]] /\ back[j] = order[p[1]]
  BY <1>4, <1>7
<1>9. confidence[back[i]][back[j]] = confidence[order[p[1]]][order[p[2]]]
  BY <1>1, <1>3, <1>8 DEF IsSymmetric
<1>10. d \in Found(pattern, confidence, back)
  <2>1. /\ <<i, j>> \in (DOMAIN back) \X (DOMAIN back)
        /\ confidence[back[i]][back[j]] # NoConflict
    BY <1>2, <1>5, <1>7, <1>9
  <2>2. QED
    BY <1>7, <2>1 DEF Found
<1>11. d.a = c.b /\ d.b = c.a /\ d.pattern = c.pattern /\ d.confidence = c.confidence
  BY <1>2, <1>8, <1>9
<1>12. QED
  BY <1>6, <1>10, <1>11 DEF back

-----------------------------------------------------------------------------
\* A requirement that was seen in a run has a link.
LEMMA ExclusionsHaveLinks ==
    ASSUME NEW a, NEW b, Exclusion(a, b) # NoConflict
    PROVE  \E k, l \in Existing : RequirementOf[k] = a /\ RequirementOf[l] = b
<1> DEFINE together == {n \in RecentRuns : LinksInRun(a, n) # {} /\ LinksInRun(b, n) # {}}
<1>1. ~(Cardinality(together) < MinOverlap)
  BY DEF Exclusion
<1>2. together # {}
  <2>1. Cardinality({}) = 0
    BY FS_EmptySet
  <2>2. MinOverlap \in Nat /\ MinOverlap > 0
    OBVIOUS
  <2> HIDE DEF together
  <2>3. QED
    BY <1>1, <2>1, <2>2
<1>3. PICK n \in RecentRuns : LinksInRun(a, n) # {} /\ LinksInRun(b, n) # {}
  BY <1>2
<1>4. QED
  BY <1>3 DEF LinksInRun

\* What a detection finds is justified.
LEMMA DetectedAreJustified ==
    ASSUME NEW order \in SetToSeqs(Requirements),
           NEW c \in ExclusionConflicts(order) \cup StructuredConflicts(order)
    PROVE  c \in Conflict /\ IsJustified(c, Existing)
<1>1. /\ ExclusionConflicts(order) = Found("mutual_exclusion", ExclusionTable, order)
      /\ \A o : StructuredConflicts(o) =
            Found("condition_overlap", OverlapTable, o)
              \cup Found("timing_conflict", TimingTable, o)
              \cup Found("response_contradiction", ContradictionTable, o)
  BY DEF ExclusionConflicts, StructuredConflicts, ExclusionTable, OverlapTable, TimingTable,
         ContradictionTable
<1>2. CASE c \in Found("mutual_exclusion", ExclusionTable, order)
  <2>1. /\ c \in Conflict /\ c.a # c.b /\ c.pattern = "mutual_exclusion"
        /\ ExclusionTable[c.a][c.b] # NoConflict
    BY <1>2, Tables, FoundConflicts DEF Pattern
  <2>2. Exclusion(c.a, c.b) # NoConflict
    BY <2>1 DEF ExclusionTable, Conflict
  <2>3. QED
    BY <2>1, <2>2, ExclusionsHaveLinks DEF IsJustified
<1>3. ASSUME NEW pattern \in Pattern, pattern # "mutual_exclusion", NEW table,
             IsTable(table), IsSymmetric(table), c \in Found(pattern, table, order),
             \A o : Found(pattern, table, o) \subseteq StructuredConflicts(o)
      PROVE  c \in Conflict /\ IsJustified(c, Existing)
  <2>1. c \in Conflict /\ c.a # c.b /\ c.pattern = pattern
    BY <1>3, FoundConflicts
  <2>2. /\ Reversed(order) \in SetToSeqs(Requirements)
        /\ \E d \in Found(pattern, table, Reversed(order)) :
             d.a = c.b /\ d.b = c.a /\ d.pattern = c.pattern /\ d.confidence = c.confidence
    BY <1>3, FoundReversed
  <2>3. QED
    BY <1>3, <2>1, <2>2 DEF IsJustified
<1>4. CASE c \in Found("condition_overlap", OverlapTable, order)
  BY <1>1, <1>3, <1>4, Tables DEF Pattern
<1>5. CASE c \in Found("timing_conflict", TimingTable, order)
  BY <1>1, <1>3, <1>5, Tables DEF Pattern
<1>6. CASE c \in Found("response_contradiction", ContradictionTable, order)
  BY <1>1, <1>3, <1>6, Tables DEF Pattern
<1>7. QED
  BY <1>1, <1>2, <1>4, <1>5, <1>6

LEMMA SameLinks == UNCHANGED link => Existing' = Existing
BY DEF Existing

LEMMA DetectKeepsLog ==
    ASSUME LogInv, DetectConflicts
    PROVE  LogInv'
<1>1. PICK order \in SetToSeqs(Requirements), structured \in BOOLEAN :
        detector' = ExclusionConflicts(order)
                      \cup IF structured THEN StructuredConflicts(order) ELSE {}
  BY DEF DetectConflicts
<1>2. detector' \subseteq ExclusionConflicts(order) \cup StructuredConflicts(order)
  BY <1>1
<1>3. conflicts' = conflicts /\ link' = link
  BY DEF DetectConflicts, vars
<1>4. \A c \in detector' : c \in Conflict /\ IsJustified(c, Existing')
  BY <1>2, <1>3, DetectedAreJustified, SameLinks
<1>5. \A n \in DOMAIN conflicts : IsJustified(conflicts[n], Existing')
  BY <1>3, SameLinks DEF LogInv
<1>6. QED
  BY <1>3, <1>4, <1>5 DEF LogInv

\* A conflict that has an open row is not logged again.
LEMMA LogKeepsLog ==
    ASSUME LogInv, NEW c \in detector, LogConflict(c)
    PROVE  LogInv'
<1> DEFINE row == [a |-> c.a, b |-> c.b, pattern |-> c.pattern, confidence |-> c.confidence,
                   resolved |-> FALSE]
<1>1. /\ detector' = detector \ {c} /\ link' = link
      /\ c \in Conflict /\ IsJustified(c, Existing)
      /\ conflicts \in Seq(LogRow) /\ Len(conflicts) \in Nat
      /\ DOMAIN conflicts = 1 .. Len(conflicts)
  BY LenProperties DEF LogConflict, vars, LogInv
<1>2. \A d \in detector' : d \in Conflict /\ IsJustified(d, Existing')
  BY <1>1, SameLinks DEF LogInv
<1>3. \A n \in DOMAIN conflicts : IsJustified(conflicts[n], Existing')
  BY <1>1, SameLinks DEF LogInv
<1>4. CASE conflicts' = conflicts
  BY <1>2, <1>3, <1>4 DEF LogInv
<1>5. CASE /\ conflicts' = Append(conflicts, row)
           /\ \A n \in DOMAIN conflicts :
                ~ (/\ SamePair(c, conflicts[n]) /\ conflicts[n].pattern = c.pattern
                   /\ ~conflicts[n].resolved)
  <2>1. /\ row \in LogRow /\ row.a = c.a /\ row.b = c.b /\ row.pattern = c.pattern
        /\ row.confidence = c.confidence
    BY <1>1 DEF Conflict, LogRow
  <2>2. IsJustified(row, Existing')
    BY <1>1, <2>1, SameLinks DEF IsJustified
  <2>3. conflicts' = Append(conflicts, row)
    BY <1>5
  <2> HIDE DEF row
  <2>4. /\ conflicts' \in Seq(LogRow)
        /\ DOMAIN conflicts' = 1 .. (Len(conflicts) + 1)
        /\ \A n \in DOMAIN conflicts : conflicts'[n] = conflicts[n]
        /\ conflicts'[Len(conflicts) + 1] = row
    BY <1>1, <2>1, <2>3, AppendProperties
  <2>5. \A n \in DOMAIN conflicts' : n \in DOMAIN conflicts \/ n = Len(conflicts) + 1
    BY <1>1, <2>4
  <2>6. \A n \in DOMAIN conflicts' : IsJustified(conflicts'[n], Existing')
    BY <1>3, <2>2, <2>4, <2>5
  <2>7. \A n \in DOMAIN conflicts :
          ~conflicts[n].resolved /\ conflicts[n].pattern = row.pattern
            => ~SamePair(row, conflicts[n]) /\ ~SamePair(conflicts[n], row)
    BY <1>5, <2>1 DEF SamePair
  <2>8. ASSUME NEW m \in DOMAIN conflicts', NEW n \in DOMAIN conflicts',
               ~conflicts'[m].resolved, ~conflicts'[n].resolved,
               SamePair(conflicts'[m], conflicts'[n]),
               conflicts'[m].pattern = conflicts'[n].pattern
        PROVE  m = n
    <3>1. CASE m \in DOMAIN conflicts /\ n \in DOMAIN conflicts
      BY <2>4, <2>8, <3>1 DEF LogInv
    <3>2. CASE m \in DOMAIN conflicts /\ n = Len(conflicts) + 1
      BY <2>4, <2>7, <2>8, <3>2
    <3>3. CASE m = Len(conflicts) + 1 /\ n \in DOMAIN conflicts
      BY <2>4, <2>7, <2>8, <3>3
    <3>4. QED
      BY <2>5, <3>1, <3>2, <3>3
  <2>9. detector' \in SUBSET Conflict
    BY <1>2
  <2>10. QED
    BY <1>2, <2>4, <2>6, <2>8, <2>9 DEF LogInv, SamePair
<1>6. QED
  BY <1>4, <1>5 DEF LogConflict

LEMMA ResolveKeepsLog ==
    ASSUME LogInv, NEW n \in DOMAIN conflicts, ResolveConflict(n)
    PROVE  LogInv'
<1> DEFINE row == [conflicts[n] EXCEPT !.resolved = TRUE]
<1>1. /\ conflicts' = [conflicts EXCEPT ![n] = row]
      /\ detector' = detector /\ link' = link
  BY DEF ResolveConflict, vars
<1>2. /\ conflicts \in Seq(LogRow) /\ Len(conflicts) \in Nat
      /\ DOMAIN conflicts = 1 .. Len(conflicts) /\ conflicts[n] \in LogRow
  BY LenProperties, ElementOfSeq DEF LogInv
<1>3. /\ row \in LogRow /\ row.a = conflicts[n].a /\ row.b = conflicts[n].b
      /\ row.pattern = conflicts[n].pattern /\ row.resolved
      /\ row.confidence = conflicts[n].confidence
  BY <1>2 DEF LogRow
<1> HIDE DEF row
<1>4. /\ conflicts' \in Seq(LogRow) /\ DOMAIN conflicts' = DOMAIN conflicts
      /\ \A m \in DOMAIN conflicts : conflicts'[m] = IF m = n THEN row ELSE conflicts[m]
  <2>1. conflicts' \in Seq(LogRow) /\ Len(conflicts') = Len(conflicts)
    BY <1>1, <1>2, <1>3, ExceptSeq
  <2>2. QED
    BY <1>1, <1>2, <2>1
<1>5. \A m \in DOMAIN conflicts : IsJustified(conflicts[m], Existing')
  BY <1>1, SameLinks DEF LogInv
<1>6. IsJustified(row, Existing')
  BY <1>3, <1>5 DEF IsJustified
<1>7. \A m \in DOMAIN conflicts' : IsJustified(conflicts'[m], Existing')
  BY <1>4, <1>5, <1>6
<1>8. \A c \in detector' : IsJustified(c, Existing')
  BY <1>1, SameLinks DEF LogInv
<1>9. \A k, m \in DOMAIN conflicts' :
         /\ ~conflicts'[k].resolved /\ ~conflicts'[m].resolved
         /\ SamePair(conflicts'[k], conflicts'[m])
         /\ conflicts'[k].pattern = conflicts'[m].pattern
         => k = m
  BY <1>3, <1>4 DEF LogInv
<1>10. QED
  BY <1>1, <1>4, <1>7, <1>8, <1>9 DEF LogInv, SamePair

LEMMA InitLogInv == ConflictInit => LogInv
<1> SUFFICES ASSUME ConflictInit PROVE LogInv
  OBVIOUS
<1>1. conflicts = <<>> /\ detector = {} /\ conflicts \in Seq(LogRow) /\ DOMAIN conflicts = {}
  BY DEF ConflictInit
<1>2. QED
  BY <1>1 DEF LogInv

LEMMA NextLogInv == LogInv /\ [ConflictNext]_<<vars, conflictVars>> => LogInv'
<1> SUFFICES ASSUME LogInv, [ConflictNext]_<<vars, conflictVars>> PROVE LogInv'
  OBVIOUS
<1>1. CASE detector = {} /\ conflicts = <<>> /\ UNCHANGED conflictVars
  <2>1. conflicts' = <<>> /\ detector' = {} /\ conflicts' \in Seq(LogRow) /\ DOMAIN conflicts' = {}
    BY <1>1 DEF conflictVars
  <2>2. QED
    BY <2>1 DEF LogInv
<1>2. CASE UNCHANGED <<link, conflicts>> /\ detector' \subseteq detector
  <2>1. /\ \A c \in detector' : IsJustified(c, Existing')
        /\ \A n \in DOMAIN conflicts : IsJustified(conflicts[n], Existing')
    BY <1>2, SameLinks DEF LogInv
  <2>2. QED
    BY <1>2, <2>1 DEF LogInv
<1>3. CASE AbandonDetection
  BY <1>2, <1>3 DEF AbandonDetection, vars
<1>4. CASE UNCHANGED <<vars, conflictVars>>
  BY <1>2, <1>4 DEF vars, conflictVars
<1>5. CASE Import
  BY <1>1, <1>5 DEF Import
<1>6. QED
  BY <1>3, <1>4, <1>5, DetectKeepsLog, LogKeepsLog, ResolveKeepsLog DEF ConflictNext

\* The inductive invariant of the log holds.
THEOREM LogInvariance == ConflictSpec => []LogInv
BY InitLogInv, NextLogInv, PTL DEF ConflictSpec

LEMMA LogIsSound == LogInv => ConflictsAreLoggedOnce
<1> SUFFICES ASSUME LogInv PROVE ConflictsAreLoggedOnce
  OBVIOUS
<1>1. \A n \in DOMAIN conflicts : conflicts[n] \in LogRow
  BY ElementOfSeq, LenProperties DEF LogInv
<1>2. ASSUME NEW m \in Open(Confidence), NEW n \in Open(Confidence),
             {conflicts[m].a, conflicts[m].b} = {conflicts[n].a, conflicts[n].b},
             conflicts[m].pattern = conflicts[n].pattern
      PROVE  m = n
  BY <1>2 DEF LogInv, Open, SamePair
<1>3. ASSUME NEW n \in DOMAIN conflicts
      PROVE  /\ IsJustified(conflicts[n], Existing)
             /\ conflicts[n].pattern \in Pattern /\ conflicts[n].confidence \in Confidence
  BY <1>1 DEF LogInv, LogRow
<1>4. QED
  BY <1>2, <1>3 DEF ConflictsAreLoggedOnce, IsJustified

\* However often conflicts are detected, logged and resolved: one open row for
\* each, of two requirements that the tables justify.
THEOREM ConflictsHaveOneRow == ConflictSpec => []ConflictsAreLoggedOnce
BY LogInvariance, LogIsSound, PTL

-----------------------------------------------------------------------------
(***************************************************************************)
(* Reports.  No import and no detection goes on once a report has begun,   *)
(* so a verdict that is true when the counts are taken stays true; and the *)
(* requirements of a report are always in one of its four lists.           *)
(***************************************************************************)
Label    == Managed \cup {"own"}
CountRow == [run : Nat, passed : Nat, failed : Nat, total : Nat]
IssueRow == [labels : SUBSET Label, comments : Seq(CountRow), closed : BOOLEAN]

ReporterType ==
    [at : {"idle", "fetching", "commenting", "labelling", "done"}, made : Nat, run : Nat,
     options : SUBSET {"comments", "labels", "closed"},
     todo : SUBSET Requirements, updated : SUBSET Requirements,
     skipped : SUBSET Requirements, errors : SUBSET Requirements,
     current : SUBSET Requirements, counts : CountRow, fetched : SUBSET Label,
     names : Seq(Managed), ids : SUBSET Managed]

\* The issues, the labels of the team and the reporter.
ReportTypeOK ==
    /\ issue \in [Issues -> IssueRow]
    /\ teamLabels \in SUBSET Managed
    /\ reporter \in ReporterType

\* The verdicts that some run bears out.
TrueVerdicts(r) ==
    {verdict \in Verdicts : \E n \in DOMAIN runs :
        /\ LinksInRun(r, n) # {}
        /\ verdict = "tests:failing" <=> \E l \in LinksInRun(r, n) : link[l].status \in Failing}

LabelsAreSound(r, labels) ==
    /\ ~(Verdicts \subseteq labels)
    /\ (labels \cap Verdicts) \ OldLabels \subseteq TrueVerdicts(r)

Reported(n) == {r \in Requirements : LinksInRun(r, n) # {}}

Disjoint(S, T) == S \cap T = {}

\* A reporter in state s.
ReporterIsSound(s) ==
    /\ s.at \in {"idle", "fetching", "done"} => s.current = {}
    /\ s.current \subseteq Issues \cap s.todo
    /\ s.at = "fetching" => s.ids = {}
    /\ s.at \in {"commenting", "labelling"} =>
         \E verdict \in Verdicts :
           /\ \A r \in s.current : verdict \in TrueVerdicts(r)
           /\ s.names \in Seq({"tests:linked", verdict})
           /\ s.ids \subseteq {"tests:linked", verdict}
    /\ s.at # "idle" =>
         /\ s.run \in DOMAIN runs
         /\ s.todo \cup s.updated \cup s.skipped \cup s.errors = Reported(s.run)
         /\ Disjoint(s.todo, s.updated) /\ Disjoint(s.todo, s.skipped) /\ Disjoint(s.todo, s.errors)
         /\ Disjoint(s.updated, s.skipped) /\ Disjoint(s.updated, s.errors)
         /\ Disjoint(s.skipped, s.errors)
    /\ s.at = "done" => s.todo = {}

ReportInv ==
    /\ ReportTypeOK
    /\ reporter.made = 0 =>
         reporter = NoReporter /\ \A r \in Issues : issue[r].labels = OldLabels
    /\ ReporterIsSound(reporter)
    /\ \A r \in Issues : LabelsAreSound(r, issue[r].labels)
    /\ \A r \in Issues \cap reporter.current :
         "own" \in reporter.fetched => "own" \in issue[r].labels

-----------------------------------------------------------------------------

\* While nothing is imported, what the runs bear out stays.
LEMMA RunsFrozen ==
    ASSUME UNCHANGED vars
    PROVE  /\ \A r : TrueVerdicts(r)' = TrueVerdicts(r)
           /\ \A n : Reported(n)' = Reported(n)
           /\ runs' = runs
BY DEF vars, TrueVerdicts, Reported, LinksInRun, Existing

\* A step of a report, or an edit of an issue.
LEMMA ReportMoves ==
    ASSUME ReportInv, UNCHANGED vars, NEW s \in ReporterType, reporter' = s, s.made # 0,
           ReporterIsSound(s), issue' \in [Issues -> IssueRow], teamLabels' \in SUBSET Managed,
           \A r \in Issues : LabelsAreSound(r, issue'[r].labels),
           \A r \in Issues \cap s.current : "own" \in s.fetched => "own" \in issue'[r].labels
    PROVE  ReportInv'
<1>1. /\ \A r : TrueVerdicts(r)' = TrueVerdicts(r)
      /\ \A n : Reported(n)' = Reported(n)
      /\ runs' = runs
  BY RunsFrozen
<1>2. ReportTypeOK'
  BY DEF ReportTypeOK
<1>3. ReporterIsSound(reporter)'
  BY <1>1 DEF ReporterIsSound, Disjoint
<1>4. \A r \in Issues : LabelsAreSound(r, issue[r].labels)'
  BY <1>1 DEF LabelsAreSound
<1>5. QED
  BY <1>2, <1>3, <1>4 DEF ReportInv

LEMMA CountsOfLinks ==
    ASSUME NEW r, NEW n \in Nat
    PROVE  /\ Counts(r, n) \in CountRow
           /\ Counts(r, n).total # 0 => LinksInRun(r, n) # {}
           /\ Counts(r, n).failed = 0 <=> ~ \E l \in LinksInRun(r, n) : link[l].status \in Failing
<1>1. LinksInRun(r, n) \subseteq Links
  BY DEF LinksInRun, Existing
<1>2. ASSUME NEW S, S \subseteq Links
      PROVE  Cardinality(S) \in Nat /\ (Cardinality(S) = 0 <=> S = {})
  BY <1>2, FS_Subset, FS_CardinalityType, FS_EmptySet
<1> DEFINE with(statuses) == {l \in LinksInRun(r, n) : link[l].status \in statuses}
<1>3. /\ Cardinality(with({"passed"})) \in Nat
      /\ Cardinality(with(Failing)) \in Nat
      /\ Cardinality(with(Failing)) = 0 <=> with(Failing) = {}
      /\ Cardinality(LinksInRun(r, n)) \in Nat
      /\ Cardinality(LinksInRun(r, n)) = 0 <=> LinksInRun(r, n) = {}
  BY <1>1, <1>2
<1>4. Counts(r, n) = [run |-> n, passed |-> Cardinality(with({"passed"})),
                      failed |-> Cardinality(with(Failing)),
                      total |-> Cardinality(LinksInRun(r, n))]
  BY DEF Counts
<1>5. with(Failing) = {} <=> ~ \E l \in LinksInRun(r, n) : link[l].status \in Failing
  OBVIOUS
<1> HIDE DEF with
<1>6. QED
  BY <1>3, <1>4, <1>5 DEF CountRow

\* The labels that go with the counts of a run are true.
LEMMA NamesAreTrue ==
    ASSUME NEW r, NEW n \in DOMAIN runs, n \in Nat, Counts(r, n).total # 0
    PROVE  \E verdict \in TrueVerdicts(r) :
             /\ verdict \in Verdicts
             /\ LabelNames(Counts(r, n)) \in Seq({"tests:linked", verdict})
             /\ LabelNames(Counts(r, n)) \in Seq(Managed)
<1> DEFINE verdict == IF Counts(r, n).failed = 0 THEN "tests:passing" ELSE "tests:failing"
<1>1. verdict \in Verdicts
  BY DEF Verdicts
<1>2. /\ LinksInRun(r, n) # {}
      /\ verdict = "tests:failing" <=> \E l \in LinksInRun(r, n) : link[l].status \in Failing
  BY CountsOfLinks
<1>3. LabelNames(Counts(r, n)) = <<"tests:linked", verdict>>
  BY DEF LabelNames
<1> HIDE DEF verdict
<1>4. verdict \in TrueVerdicts(r)
  BY <1>1, <1>2 DEF TrueVerdicts
<1>5. /\ <<"tests:linked", verdict>> \in Seq({"tests:linked", verdict})
      /\ <<"tests:linked", verdict>> \in Seq(Managed)
  BY <1>1 DEF Managed
<1>6. QED
  BY <1>1, <1>3, <1>4, <1>5

LEMMA IdleReporter ==
    /\ NoReporter \in ReporterType /\ NoReporter.at = "idle" /\ NoReporter.current = {}
    /\ NoReporter.made = 0
<1> DEFINE none == {}
           nil == <<>>
<1>1. NoReporter = [at |-> "idle", made |-> 0, run |-> 0, options |-> none, todo |-> none,
                    updated |-> none, skipped |-> none, errors |-> none, current |-> none,
                    counts |-> NoCounts, fetched |-> none, names |-> nil, ids |-> none]
  BY DEF NoReporter
<1>2. /\ \A S : none \in SUBSET S
      /\ \A S : nil \in Seq(S)
      /\ NoCounts \in CountRow /\ 0 \in Nat
  BY DEF NoCounts, CountRow
<1>3. none = {}
  OBVIOUS
<1> HIDE DEF none, nil
<1>4. QED
  BY <1>1, <1>2, <1>3 DEF ReporterType

\* Ended, step by step: none is the empty set, and nil the empty sequence.
Cleared(r, none, nil) ==
    [reporter EXCEPT !.at = "fetching", !.todo = @ \ {r}, !.current = none, !.counts = NoCounts,
                     !.fetched = none, !.names = nil, !.ids = none]

ClearedFor(r, how, none, nil) ==
    [reporter EXCEPT !.at = "fetching", !.todo = @ \ {r}, !.current = none, !.counts = NoCounts,
                     !.fetched = none, !.names = nil, !.ids = none, ![how] = @ \cup {r}]

LEMMA ClearedIsEnded ==
    ASSUME reporter \in ReporterType, NEW r, NEW none, NEW nil
    PROVE  /\ ClearedFor(r, "updated", none, nil) =
                [Cleared(r, none, nil) EXCEPT !.updated = @ \cup {r}]
           /\ ClearedFor(r, "skipped", none, nil) =
                [Cleared(r, none, nil) EXCEPT !.skipped = @ \cup {r}]
           /\ ClearedFor(r, "errors", none, nil) =
                [Cleared(r, none, nil) EXCEPT !.errors = @ \cup {r}]
<1>1. ClearedFor(r, "updated", none, nil) = [Cleared(r, none, nil) EXCEPT !.updated = @ \cup {r}]
  BY DEF Cleared, ClearedFor, ReporterType
<1>2. ClearedFor(r, "skipped", none, nil) = [Cleared(r, none, nil) EXCEPT !.skipped = @ \cup {r}]
  BY DEF Cleared, ClearedFor, ReporterType
<1>3. ClearedFor(r, "errors", none, nil) = [Cleared(r, none, nil) EXCEPT !.errors = @ \cup {r}]
  BY DEF Cleared, ClearedFor, ReporterType
<1>4. QED
  BY <1>1, <1>2, <1>3

LEMMA EndedIsCleared ==
    ASSUME reporter \in ReporterType, NEW r, NEW none, NEW nil, none = {}, nil = <<>>
    PROVE  /\ Ended(r, "updated") = [Cleared(r, none, nil) EXCEPT !.updated = @ \cup {r}]
           /\ Ended(r, "skipped") = [Cleared(r, none, nil) EXCEPT !.skipped = @ \cup {r}]
           /\ Ended(r, "errors") = [Cleared(r, none, nil) EXCEPT !.errors = @ \cup {r}]
<1>1. \A how : Ended(r, how) = ClearedFor(r, how, none, nil)
  BY DEF Ended, ClearedFor
<1>2. QED
  BY <1>1, ClearedIsEnded

\* What the reporter knows once it is done with a requirement.
LEMMA EndedReporter ==
    ASSUME ReportInv, NEW r \in reporter.todo, NEW how \in {"updated", "skipped", "errors"},
           reporter.at \in {"fetching", "commenting", "labelling"}
    PROVE  /\ Ended(r, how) \in ReporterType
           /\ Ended(r, how).made = reporter.made
           /\ ReporterIsSound(Ended(r, how))
           /\ Ended(r, how).current = {}
<1> DEFINE none == {}
           nil == <<>>
           s == Cleared(r, none, nil)
<1>1. reporter \in ReporterType /\ ReporterIsSound(reporter)
  BY DEF ReportInv, ReportTypeOK
<1>2. /\ \A S : none \in SUBSET S
      /\ \A S : nil \in Seq(S)
      /\ NoCounts \in CountRow /\ none = {}
  BY DEF NoCounts, CountRow
<1>3. /\ reporter.todo \subseteq Requirements /\ reporter.updated \subseteq Requirements
      /\ reporter.skipped \subseteq Requirements /\ reporter.errors \subseteq Requirements
      /\ r \in Requirements
  BY <1>1 DEF ReporterType
<1>4. /\ how = "updated" => Ended(r, how) = [s EXCEPT !.updated = @ \cup {r}]
      /\ how = "skipped" => Ended(r, how) = [s EXCEPT !.skipped = @ \cup {r}]
      /\ how = "errors"  => Ended(r, how) = [s EXCEPT !.errors = @ \cup {r}]
  BY <1>1, <1>2, EndedIsCleared DEF nil
<1> HIDE DEF none, nil
<1>5. /\ s \in ReporterType /\ s.at = "fetching" /\ s.todo = reporter.todo \ {r}
      /\ s.current = {} /\ s.ids = {} /\ s.made = reporter.made /\ s.run = reporter.run
      /\ s.updated = reporter.updated /\ s.skipped = reporter.skipped /\ s.errors = reporter.errors
  BY ZenonT(30), <1>1, <1>2, <1>3 DEF ReporterType, Cleared
<1> HIDE DEF s
<1>6. /\ Ended(r, how) \in ReporterType
      /\ Ended(r, how).at = "fetching" /\ Ended(r, how).todo = reporter.todo \ {r}
      /\ Ended(r, how).current = {} /\ Ended(r, how).made = reporter.made
      /\ Ended(r, how).run = reporter.run /\ Ended(r, how).ids = {}
      /\ Ended(r, how).updated = IF how = "updated" THEN reporter.updated \cup {r}
                                 ELSE reporter.updated
      /\ Ended(r, how).skipped = IF how = "skipped" THEN reporter.skipped \cup {r}
                                 ELSE reporter.skipped
      /\ Ended(r, how).errors = IF how = "errors" THEN reporter.errors \cup {r}
                                ELSE reporter.errors
  <2>1. CASE how = "updated"
    BY SMTT(30), <1>3, <1>4, <1>5, <2>1 DEF ReporterType
  <2>2. CASE how = "skipped"
    BY SMTT(30), <1>3, <1>4, <1>5, <2>2 DEF ReporterType
  <2>3. CASE how = "errors"
    BY SMTT(30), <1>3, <1>4, <1>5, <2>3 DEF ReporterType
  <2>4. QED
    BY <2>1, <2>2, <2>3
<1>7. ReporterIsSound(Ended(r, how))
  <2> DEFINE e == Ended(r, how)
  <2>1. /\ reporter.run \in DOMAIN runs
        /\ reporter.todo \cup reporter.updated \cup reporter.skipped \cup reporter.errors
             = Reported(reporter.run)
        /\ Disjoint(reporter.todo, reporter.updated) /\ Disjoint(reporter.todo, reporter.skipped)
        /\ Disjoint(reporter.todo, reporter.errors) /\ Disjoint(reporter.updated, reporter.skipped)
        /\ Disjoint(reporter.updated, reporter.errors) /\ Disjoint(reporter.skipped, reporter.errors)
    BY <1>1 DEF ReporterIsSound
  <2>2. /\ e.todo \cup e.updated \cup e.skipped \cup e.errors = Reported(reporter.run)
        /\ Disjoint(e.todo, e.updated) /\ Disjoint(e.todo, e.skipped) /\ Disjoint(e.todo, e.errors)
        /\ Disjoint(e.updated, e.skipped) /\ Disjoint(e.updated, e.errors)
        /\ Disjoint(e.skipped, e.errors)
    BY <1>6, <2>1 DEF Disjoint
  <2> HIDE DEF e
  <2>3. e.at = "fetching" /\ e.current = {} /\ e.run = reporter.run /\ e.ids = {}
    BY <1>6 DEF e
  <2>4. ReporterIsSound(e)
    BY <2>1, <2>2, <2>3 DEF ReporterIsSound
  <2>5. QED
    BY <2>4 DEF e
<1>8. QED
  BY <1>6, <1>7

\* What the steps of a report need to know of it.
LEMMA Reporting ==
    ASSUME ReportInv
    PROVE  /\ reporter \in ReporterType /\ ReporterIsSound(reporter)
           /\ reporter.at # "idle" => reporter.made # 0 /\ reporter.run \in DOMAIN runs
           /\ issue \in [Issues -> IssueRow] /\ teamLabels \in SUBSET Managed
           /\ \A r \in reporter.current : /\ r \in Issues /\ r \in reporter.todo
                                          /\ reporter.at \in {"commenting", "labelling"}
<1>1. reporter \in ReporterType /\ ReporterIsSound(reporter)
  BY DEF ReportInv, ReportTypeOK
<1>2. reporter.at # "idle" => reporter.made # 0
  BY IdleReporter DEF ReportInv
<1>3. \A r \in reporter.current : reporter.at \in {"commenting", "labelling"}
  BY <1>1 DEF ReporterIsSound, ReporterType
<1>4. QED
  BY <1>1, <1>2, <1>3 DEF ReporterIsSound, ReportInv, ReportTypeOK

\* The reporter is done with a requirement, and the issues are as they were.
LEMMA EndedKeepsReport ==
    ASSUME ReportInv, UNCHANGED <<vars, issue, teamLabels>>, NEW r \in reporter.todo,
           NEW how \in {"updated", "skipped", "errors"},
           reporter.at \in {"fetching", "commenting", "labelling"}, reporter' = Ended(r, how)
    PROVE  ReportInv'
<1>1. /\ Ended(r, how) \in ReporterType /\ Ended(r, how).made # 0
      /\ ReporterIsSound(Ended(r, how)) /\ Ended(r, how).current = {}
  BY EndedReporter, Reporting
<1>2. \A q \in Issues : LabelsAreSound(q, issue'[q].labels)
  BY DEF ReportInv
<1>3. QED
  BY <1>1, <1>2, Reporting, ReportMoves

LEMMA BeginKeepsReport ==
    ASSUME ReportInv, runs \in Seq(RunRow), NEW n \in DOMAIN runs, NEW options \in ReportOptions,
           BeginReport(n, options)
    PROVE  ReportInv'
<1> DEFINE todo == {r \in Requirements : LinksInRun(r, n) # {}}
           made == reporter.made + 1
           s == [NoReporter EXCEPT !.at = "fetching", !.made = made, !.run = n,
                   !.options = options, !.todo = todo]
<1>1. reporter' = s /\ UNCHANGED <<vars, issue, teamLabels>>
  BY DEF BeginReport
<1>2. /\ n \in Nat /\ made \in Nat /\ made # 0
      /\ todo \in SUBSET Requirements /\ todo = Reported(n)
      /\ options \in SUBSET {"comments", "labels", "closed"}
  <2>1. DOMAIN runs = 1 .. Len(runs) /\ Len(runs) \in Nat
    BY LenProperties
  <2>2. reporter.made \in Nat
    BY Reporting DEF ReporterType
  <2>3. made \in Nat /\ made # 0
    BY <2>2
  <2>4. todo \in SUBSET Requirements /\ todo = Reported(n)
    BY DEF Reported
  <2>5. options \in SUBSET {"comments", "labels", "closed"}
    OBVIOUS
  <2>6. n \in Nat
    BY <2>1
  <2>7. QED
    BY <2>3, <2>4, <2>5, <2>6
<1> HIDE DEF todo, made
<1>3. /\ s \in ReporterType /\ s.at = "fetching" /\ s.made = made /\ s.run = n /\ s.todo = todo
      /\ s.updated = {} /\ s.skipped = {} /\ s.errors = {} /\ s.current = {}
      /\ s.ids = {}
  <2>1. /\ NoReporter.updated = {} /\ NoReporter.skipped = {} /\ NoReporter.errors = {}
        /\ NoReporter.ids = {}
    BY DEF NoReporter
  <2>2. QED
    BY <1>2, <2>1, IdleReporter DEF ReporterType
<1> HIDE DEF s
<1>4. ReporterIsSound(s)
  BY <1>2, <1>3 DEF ReporterIsSound, Disjoint
<1>5. \A r \in Issues : LabelsAreSound(r, issue'[r].labels)
  BY <1>1 DEF ReportInv
<1>6. QED
  BY <1>1, <1>2, <1>3, <1>4, <1>5, Reporting, ReportMoves

LEMMA FetchKeepsReport ==
    ASSUME ReportInv, runs \in Seq(RunRow), NEW r \in Requirements, FetchIssue(r)
    PROVE  ReportInv'
<1> DEFINE counts == Counts(r, reporter.run)
           names  == LabelNames(counts)
           labels == issue[r].labels
           one    == {r}
           s == [reporter EXCEPT !.at = "commenting", !.current = one, !.counts = counts,
                   !.fetched = labels, !.names = names]
<1>1. /\ reporter' = s /\ UNCHANGED <<vars, issue, teamLabels>>
      /\ reporter.at = "fetching" /\ r \in reporter.todo \cap Issues /\ counts.total # 0
  BY DEF FetchIssue
<1>2. /\ reporter \in ReporterType /\ ReporterIsSound(reporter) /\ reporter.made # 0
      /\ reporter.run \in DOMAIN runs /\ reporter.run \in Nat
      /\ labels \in SUBSET Label
  <2>1. issue[r] \in IssueRow
    BY <1>1, Reporting
  <2>2. QED
    BY <1>1, <2>1, Reporting DEF ReporterType, IssueRow
<1>3. /\ counts \in CountRow
      /\ \E verdict \in TrueVerdicts(r) :
           /\ verdict \in Verdicts
           /\ names \in Seq({"tests:linked", verdict})
           /\ names \in Seq(Managed)
  BY <1>1, <1>2, CountsOfLinks, NamesAreTrue
<1>3a. one \in SUBSET Requirements /\ one = {r}
  OBVIOUS
<1> HIDE DEF counts, names, labels, one
<1>4. /\ s \in ReporterType /\ s.at = "commenting" /\ s.current = {r} /\ s.fetched = labels
      /\ s.names = names /\ s.made = reporter.made /\ s.run = reporter.run
      /\ s.todo = reporter.todo /\ s.updated = reporter.updated
      /\ s.skipped = reporter.skipped /\ s.errors = reporter.errors /\ s.ids = reporter.ids
  BY <1>2, <1>3, <1>3a DEF ReporterType
<1> HIDE DEF s
<1>5. ReporterIsSound(s)
  <2>1. s.names \in Seq(Managed) /\ s.ids = {}
    BY <1>1, <1>2, <1>3, <1>4 DEF ReporterIsSound
  <2>2. \E verdict \in Verdicts :
           /\ \A q \in s.current : verdict \in TrueVerdicts(q)
           /\ s.names \in Seq({"tests:linked", verdict})
           /\ s.ids \subseteq {"tests:linked", verdict}
    BY <1>3, <1>4, <2>1
  <2>3. QED
    BY ZenonT(30), <1>1, <1>2, <1>4, <2>2 DEF ReporterIsSound
<1>6. \A q \in Issues : LabelsAreSound(q, issue'[q].labels)
  BY <1>1 DEF ReportInv
<1>7. \A q \in Issues \cap s.current : "own" \in s.fetched => "own" \in issue'[q].labels
  BY <1>1, <1>4 DEF labels
<1>8. issue' \in [Issues -> IssueRow] /\ teamLabels' \in SUBSET Managed
  BY <1>1, Reporting
<1>9. QED
  BY <1>1, <1>2, <1>4, <1>5, <1>6, <1>7, <1>8, ReportMoves

\* A comment is only added to; the labels stay.
LEMMA CommentKeepsReport ==
    ASSUME ReportInv, NEW r \in Requirements, NEW sent \in BOOLEAN, Comment(r, sent)
    PROVE  ReportInv'
<1>1. /\ reporter.at = "commenting" /\ r \in reporter.current
      /\ r \in Issues /\ r \in reporter.todo
      /\ reporter \in ReporterType /\ ReporterIsSound(reporter) /\ reporter.made # 0
      /\ issue \in [Issues -> IssueRow] /\ teamLabels \in SUBSET Managed
      /\ UNCHANGED <<vars, teamLabels>>
  BY Reporting DEF Comment
<1>2. /\ issue' \in [Issues -> IssueRow]
      /\ \A q \in Issues : issue'[q].labels = issue[q].labels
  <2>1. CASE issue' = issue
    BY <1>1, <2>1
  <2>2. CASE issue' = [issue EXCEPT ![r].comments = Append(@, reporter.counts)]
    <3> DEFINE comments == Append(issue[r].comments, reporter.counts)
               row == [issue[r] EXCEPT !.comments = comments]
    <3>1. issue[r] \in IssueRow /\ issue' = [issue EXCEPT ![r] = row]
      BY <1>1, <2>2
    <3>2. comments \in Seq(CountRow)
      BY <1>1, <3>1 DEF IssueRow, ReporterType
    <3> HIDE DEF comments
    <3>3. row \in IssueRow /\ row.labels = issue[r].labels
      BY <3>1, <3>2 DEF IssueRow
    <3> HIDE DEF row
    <3>4. QED
      BY <1>1, <3>1, <3>3
  <2>3. QED
    BY <2>1, <2>2 DEF Comment
<1>3. \A q \in Issues : LabelsAreSound(q, issue'[q].labels)
  BY <1>2 DEF ReportInv
<1>4. CASE reporter' = [reporter EXCEPT !.at = "labelling"]
  <2> DEFINE s == [reporter EXCEPT !.at = "labelling"]
  <2>1. /\ s \in ReporterType /\ s.at = "labelling" /\ s.current = reporter.current
        /\ s.fetched = reporter.fetched /\ s.made = reporter.made /\ s.run = reporter.run
        /\ s.names = reporter.names /\ s.ids = reporter.ids
        /\ s.todo = reporter.todo /\ s.updated = reporter.updated
        /\ s.skipped = reporter.skipped /\ s.errors = reporter.errors
    BY <1>1 DEF ReporterType
  <2> HIDE DEF s
  <2>2. ReporterIsSound(s)
    BY <1>1, <2>1 DEF ReporterIsSound
  <2>3. \A q \in Issues \cap s.current : "own" \in s.fetched => "own" \in issue'[q].labels
    BY <1>2, <2>1 DEF ReportInv
  <2>4. reporter' = s
    BY <1>4 DEF s
  <2>5. QED
    BY <1>1, <1>2, <1>3, <2>1, <2>2, <2>3, <2>4, ReportMoves
<1>5. CASE reporter' = Ended(r, "updated")
  <2>1. /\ Ended(r, "updated") \in ReporterType /\ Ended(r, "updated").made # 0
        /\ ReporterIsSound(Ended(r, "updated")) /\ Ended(r, "updated").current = {}
    BY <1>1, EndedReporter
  <2>2. QED
    BY <1>1, <1>2, <1>3, <1>5, <2>1, ReportMoves
<1>6. QED
  BY <1>4, <1>5 DEF Comment

\* One label is looked up, or made.
LEMMA FindKeepsReport ==
    ASSUME ReportInv, NEW made \in BOOLEAN, FindLabel(made)
    PROVE  ReportInv'
<1> DEFINE name  == Head(reporter.names)
           names == Tail(reporter.names)
           ids   == IF made THEN reporter.ids \cup {name} ELSE reporter.ids
           s == [reporter EXCEPT !.names = names, !.ids = ids]
<1>1. /\ reporter.at = "labelling" /\ reporter.names # <<>>
      /\ reporter \in ReporterType /\ ReporterIsSound(reporter) /\ reporter.made # 0
      /\ issue \in [Issues -> IssueRow] /\ teamLabels \in SUBSET Managed
      /\ reporter' = s /\ UNCHANGED <<vars, issue>>
      /\ teamLabels' = IF made THEN teamLabels \cup {name} ELSE teamLabels
  BY Reporting DEF FindLabel
<1>2. \A S : reporter.names \in Seq(S) => name \in S /\ names \in Seq(S)
  BY <1>1, HeadTailProperties
<1>3. name \in Managed /\ names \in Seq(Managed) /\ ids \in SUBSET Managed
  BY <1>1, <1>2 DEF ReporterType
<1>4. /\ s \in ReporterType /\ s.at = "labelling" /\ s.current = reporter.current
      /\ s.fetched = reporter.fetched /\ s.made = reporter.made /\ s.run = reporter.run
      /\ s.names = names /\ s.ids = ids
      /\ s.todo = reporter.todo /\ s.updated = reporter.updated
      /\ s.skipped = reporter.skipped /\ s.errors = reporter.errors
  <2> HIDE DEF names, ids
  <2>1. QED
    BY <1>1, <1>3 DEF ReporterType
<1> HIDE DEF s
<1>5. \E verdict \in Verdicts :
         /\ \A q \in s.current : verdict \in TrueVerdicts(q)
         /\ s.names \in Seq({"tests:linked", verdict})
         /\ s.ids \subseteq {"tests:linked", verdict}
  <2>1. PICK verdict \in Verdicts :
          /\ \A q \in reporter.current : verdict \in TrueVerdicts(q)
          /\ reporter.names \in Seq({"tests:linked", verdict})
          /\ reporter.ids \subseteq {"tests:linked", verdict}
    BY <1>1 DEF ReporterIsSound
  <2>2. name \in {"tests:linked", verdict} /\ names \in Seq({"tests:linked", verdict})
    BY <1>2, <2>1
  <2>3. ids \subseteq {"tests:linked", verdict}
    BY <2>1, <2>2
  <2>4. /\ \A q \in s.current : verdict \in TrueVerdicts(q)
        /\ s.names \in Seq({"tests:linked", verdict})
        /\ s.ids \subseteq {"tests:linked", verdict}
    BY ONLY <1>4, <2>1, <2>2, <2>3
  <2>5. QED
    BY <2>4
<1> HIDE DEF name, names, ids
<1>6. ReporterIsSound(s)
  BY <1>1, <1>4, <1>5 DEF ReporterIsSound
<1>7. \A q \in Issues : LabelsAreSound(q, issue'[q].labels)
  BY <1>1 DEF ReportInv
<1>8. \A q \in Issues \cap s.current : "own" \in s.fetched => "own" \in issue'[q].labels
  BY <1>1, <1>4 DEF ReportInv
<1>9. teamLabels' \in SUBSET Managed
  BY <1>1, <1>3
<1>10. QED
  BY <1>1, <1>4, <1>6, <1>7, <1>8, <1>9, ReportMoves

\* The labels that are set are those fetched, without a verdict, and the one
\* that was counted.
LEMMA UpdateKeepsReport ==
    ASSUME ReportInv, NEW r \in Requirements, NEW sent \in BOOLEAN, UpdateLabels(r, sent)
    PROVE  ReportInv'
<1> DEFINE labels == (reporter.fetched \ Managed) \cup reporter.ids
           row == [issue[r] EXCEPT !.labels = labels]
<1>1. /\ reporter.at = "labelling" /\ r \in reporter.current
      /\ r \in Issues /\ r \in reporter.todo
      /\ reporter \in ReporterType /\ ReporterIsSound(reporter) /\ reporter.made # 0
      /\ issue \in [Issues -> IssueRow] /\ teamLabels \in SUBSET Managed
      /\ issue[r] \in IssueRow
      /\ UNCHANGED <<vars, teamLabels>>
      /\ reporter' = Ended(r, "updated")
      /\ issue' = issue \/ issue' = [issue EXCEPT ![r] = row]
  BY Reporting DEF UpdateLabels
<1>2. labels \in SUBSET Label /\ LabelsAreSound(r, labels)
  <2>1. PICK verdict \in Verdicts :
          /\ \A q \in reporter.current : verdict \in TrueVerdicts(q)
          /\ reporter.ids \subseteq {"tests:linked", verdict}
    BY <1>1 DEF ReporterIsSound
  <2>2. verdict \in TrueVerdicts(r) /\ verdict \in Verdicts /\ labels \cap Verdicts \subseteq {verdict}
    BY <1>1, <2>1 DEF Managed, Verdicts
  <2>3. "tests:passing" \in Verdicts /\ "tests:failing" \in Verdicts /\ "tests:passing" # "tests:failing"
    BY DEF Verdicts
  <2>4. labels \in SUBSET Label
    BY <1>1 DEF ReporterType, Label
  <2> HIDE DEF labels
  <2>5. QED
    BY <2>2, <2>3, <2>4 DEF LabelsAreSound
<1> HIDE DEF labels
<1>3. row \in IssueRow /\ row.labels = labels
  BY <1>1, <1>2 DEF IssueRow
<1> HIDE DEF row
<1>4. /\ issue' \in [Issues -> IssueRow]
      /\ \A q \in Issues : LabelsAreSound(q, issue'[q].labels)
  <2>1. \A q \in Issues : LabelsAreSound(q, issue[q].labels)
    BY DEF ReportInv
  <2>2. CASE issue' = issue
    BY <1>1, <2>1, <2>2
  <2>3. CASE issue' = [issue EXCEPT ![r] = row]
    BY <1>1, <1>2, <1>3, <2>1, <2>3
  <2>4. QED
    BY <1>1, <2>2, <2>3
<1>5. /\ Ended(r, "updated") \in ReporterType /\ Ended(r, "updated").made # 0
      /\ ReporterIsSound(Ended(r, "updated")) /\ Ended(r, "updated").current = {}
  BY <1>1, EndedReporter
<1>6. QED
  BY <1>1, <1>4, <1>5, ReportMoves

LEMMA EndKeepsReport ==
    ASSUME ReportInv, EndReport
    PROVE  ReportInv'
<1> DEFINE s == [reporter EXCEPT !.at = "done"]
<1>1. /\ reporter.at = "fetching" /\ reporter.todo = {}
      /\ reporter \in ReporterType /\ ReporterIsSound(reporter) /\ reporter.made # 0
      /\ issue \in [Issues -> IssueRow] /\ teamLabels \in SUBSET Managed
      /\ reporter' = s /\ UNCHANGED <<vars, issue, teamLabels>>
  BY Reporting DEF EndReport
<1>2. /\ s \in ReporterType /\ s.at = "done" /\ s.current = reporter.current
      /\ s.made = reporter.made /\ s.run = reporter.run
      /\ s.todo = reporter.todo /\ s.updated = reporter.updated
      /\ s.skipped = reporter.skipped /\ s.errors = reporter.errors
  BY <1>1 DEF ReporterType
<1> HIDE DEF s
<1>3. ReporterIsSound(s) /\ s.current = {}
  BY <1>1, <1>2 DEF ReporterIsSound
<1>4. \A q \in Issues : LabelsAreSound(q, issue'[q].labels)
  BY <1>1 DEF ReportInv
<1>5. QED
  BY <1>1, <1>2, <1>3, <1>4, ReportMoves

LEMMA AbandonKeepsReport ==
    ASSUME ReportInv, AbandonReport
    PROVE  ReportInv'
<1> DEFINE s == [NoReporter EXCEPT !.made = reporter.made]
<1>1. /\ reporter.at # "idle"
      /\ reporter \in ReporterType /\ reporter.made # 0
      /\ issue \in [Issues -> IssueRow] /\ teamLabels \in SUBSET Managed
      /\ reporter' = s /\ UNCHANGED <<vars, issue, teamLabels>>
  BY Reporting DEF AbandonReport
<1>2. s \in ReporterType /\ s.at = "idle" /\ s.current = {} /\ s.made = reporter.made
  BY <1>1, IdleReporter DEF ReporterType
<1> HIDE DEF s
<1>3. ReporterIsSound(s)
  BY <1>2 DEF ReporterIsSound
<1>4. \A q \in Issues : LabelsAreSound(q, issue'[q].labels)
  BY <1>1 DEF ReportInv
<1>5. QED
  BY <1>1, <1>2, <1>3, <1>4, ReportMoves

\* People add a label of their own, which is no verdict.
LEMMA EditKeepsReport ==
    ASSUME ReportInv, NEW r \in Issues, EditIssue(r)
    PROVE  ReportInv'
<1>1. /\ reporter.made # 0 /\ reporter \in ReporterType /\ ReporterIsSound(reporter)
      /\ issue \in [Issues -> IssueRow] /\ teamLabels \in SUBSET Managed
      /\ issue[r] \in IssueRow
      /\ UNCHANGED <<vars, teamLabels, reporter>>
  <2>1. reporter.made \in Nat /\ reporter.made > 0
    BY Reporting DEF EditIssue, ReporterType
  <2>2. QED
    BY <2>1, Reporting DEF EditIssue
<1>2. PICK row \in IssueRow :
        /\ issue' = [issue EXCEPT ![r] = row]
        /\ row.labels = issue[r].labels \/ row.labels = issue[r].labels \cup {"own"}
  <2>1. CASE issue' = [issue EXCEPT ![r].labels = @ \cup {"own"}]
    <3> DEFINE labels == issue[r].labels \cup {"own"}
               row == [issue[r] EXCEPT !.labels = labels]
    <3>1. labels \in SUBSET Label
      BY <1>1 DEF IssueRow, Label
    <3> HIDE DEF labels
    <3>2. row \in IssueRow /\ row.labels = labels
      BY <1>1, <3>1 DEF IssueRow
    <3>3. issue' = [issue EXCEPT ![r] = row]
      BY <2>1 DEF labels
    <3> HIDE DEF row
    <3>4. QED
      BY <3>2, <3>3 DEF labels
  <2>2. CASE issue' = [issue EXCEPT ![r].closed = ~@]
    <3> DEFINE closed == ~issue[r].closed
               row == [issue[r] EXCEPT !.closed = closed]
    <3>1. closed \in BOOLEAN
      OBVIOUS
    <3> HIDE DEF closed
    <3>2. row \in IssueRow /\ row.labels = issue[r].labels
      BY <1>1, <3>1 DEF IssueRow
    <3>3. issue' = [issue EXCEPT ![r] = row]
      BY <2>2 DEF closed
    <3> HIDE DEF row
    <3>4. QED
      BY <3>2, <3>3
  <2>3. QED
    BY <2>1, <2>2 DEF EditIssue
<1>3. \A q \in Issues : /\ issue[q].labels \subseteq issue'[q].labels
                        /\ issue'[q].labels \subseteq issue[q].labels \cup {"own"}
  BY <1>1, <1>2
<1>4. ASSUME NEW q \in Issues PROVE LabelsAreSound(q, issue'[q].labels)
  <2>1. LabelsAreSound(q, issue[q].labels)
    BY DEF ReportInv
  <2>2. issue'[q].labels \cap Verdicts = issue[q].labels \cap Verdicts
    BY <1>3 DEF Verdicts
  <2>3. QED
    BY <2>1, <2>2 DEF LabelsAreSound
<1>5. \A q \in Issues \cap reporter.current :
        "own" \in reporter.fetched => "own" \in issue'[q].labels
  BY <1>3 DEF ReportInv
<1>6. issue' \in [Issues -> IssueRow]
  BY <1>1, <1>2
<1>7. QED
  BY <1>1, <1>4, <1>5, <1>6, ReportMoves

LEMMA ReportKeepsReport ==
    ASSUME ReportInv, runs \in Seq(RunRow), Report
    PROVE  ReportInv'
<1>1. ASSUME NEW n \in DOMAIN runs, NEW options \in ReportOptions, BeginReport(n, options)
      PROVE  ReportInv'
  BY <1>1, BeginKeepsReport
<1>2. ASSUME NEW r \in Requirements, Skip(r) PROVE ReportInv'
  BY <1>2, EndedKeepsReport DEF Skip
<1>3. ASSUME NEW r \in Requirements, FetchIssue(r) PROVE ReportInv'
  BY <1>3, FetchKeepsReport
<1>4. ASSUME NEW r \in Requirements, LabelRaises(r) PROVE ReportInv'
  BY <1>4, Reporting, EndedKeepsReport DEF LabelRaises
<1>5. ASSUME NEW r \in Requirements, NEW sent \in BOOLEAN, Comment(r, sent) PROVE ReportInv'
  BY <1>5, CommentKeepsReport
<1>6. ASSUME NEW r \in Requirements, NEW sent \in BOOLEAN, UpdateLabels(r, sent)
      PROVE  ReportInv'
  BY <1>6, UpdateKeepsReport
<1>7. ASSUME NEW made \in BOOLEAN, FindLabel(made) PROVE ReportInv'
  BY <1>7, FindKeepsReport
<1>8. CASE EndReport
  BY <1>8, EndKeepsReport
<1>9. CASE AbandonReport
  BY <1>9, AbandonKeepsReport
<1>10. ASSUME NEW r \in Issues, EditIssue(r) PROVE ReportInv'
  BY <1>10, EditKeepsReport
<1>11. QED
  BY <1>1, <1>2, <1>3, <1>4, <1>5, <1>6, <1>7, <1>8, <1>9, <1>10 DEF Report

LEMMA InitReportInv == ReportInit => ReportInv
<1> SUFFICES ASSUME ReportInit PROVE ReportInv
  OBVIOUS
<1>1. /\ reporter = NoReporter /\ teamLabels = OldLabels
      /\ OldLabels \subseteq Managed /\ OldLabels \subseteq Label
      /\ ~(Verdicts \subseteq OldLabels)
  BY DEF ReportInit, Managed, Verdicts, Label
<1>2. issue \in [Issues -> IssueRow] /\ \A r \in Issues : issue[r].labels = OldLabels
  <2> DEFINE nil == <<>>
             row == [labels |-> OldLabels, comments |-> nil, closed |-> FALSE]
  <2>1. nil \in Seq(CountRow)
    OBVIOUS
  <2>2. issue = [r \in Issues |-> row]
    BY DEF ReportInit
  <2> HIDE DEF nil
  <2>3. row \in IssueRow /\ row.labels = OldLabels
    BY <1>1, <2>1 DEF IssueRow
  <2> HIDE DEF row
  <2>4. QED
    BY <2>2, <2>3
<1>3. ReportTypeOK
  BY <1>1, <1>2, IdleReporter DEF ReportTypeOK
<1>4. ReporterIsSound(reporter)
  BY <1>1, IdleReporter DEF ReporterIsSound
<1>5. \A r \in Issues : LabelsAreSound(r, issue[r].labels)
  BY <1>1, <1>2 DEF LabelsAreSound
<1>6. reporter.current = {}
  BY <1>1, IdleReporter
<1>7. QED
  BY <1>1, <1>2, <1>3, <1>4, <1>5, <1>6 DEF ReportInv

LEMMA NextReportInv ==
    ASSUME IInv, ReportInv, [ReportNext]_allVars
    PROVE  ReportInv'
<1>1. CASE reporter = NoReporter /\ UNCHANGED reportVars
  <2>1. /\ reporter' = NoReporter /\ NoReporter.at = "idle" /\ NoReporter.current = {}
        /\ NoReporter.made = 0 /\ issue' = issue /\ teamLabels' = teamLabels
    BY <1>1, IdleReporter DEF reportVars
  <2>2. \A r \in Issues : issue[r].labels = OldLabels
    BY <1>1, <2>1 DEF ReportInv
  <2>3. ReportTypeOK'
    BY <1>1, <2>1 DEF ReportInv, ReportTypeOK
  <2>4. ReporterIsSound(reporter)'
    BY <2>1 DEF ReporterIsSound
  <2>5. \A r \in Issues : LabelsAreSound(r, issue[r].labels)'
    BY <1>1, <2>1, <2>2 DEF LabelsAreSound, ReportInv
  <2>6. QED
    BY <2>1, <2>2, <2>3, <2>4, <2>5 DEF ReportInv
<1>2. CASE Report
  BY <1>2, ReportKeepsReport, Types DEF IInv
<1>3. CASE UNCHANGED allVars
  <2>1. /\ UNCHANGED vars /\ issue' = issue /\ teamLabels' = teamLabels /\ reporter' = reporter
    BY <1>3 DEF allVars, reportVars
  <2>2. /\ \A r : TrueVerdicts(r)' = TrueVerdicts(r)
        /\ \A n : Reported(n)' = Reported(n)
        /\ runs' = runs
    BY <2>1, RunsFrozen
  <2>3. ReportTypeOK'
    BY <2>1 DEF ReportInv, ReportTypeOK
  <2>4. ReporterIsSound(reporter)'
    BY <2>1, <2>2 DEF ReportInv, ReporterIsSound, Disjoint
  <2>5. \A r \in Issues : LabelsAreSound(r, issue[r].labels)'
    BY <2>1, <2>2 DEF LabelsAreSound, ReportInv
  <2>6. QED
    BY <2>1, <2>3, <2>4, <2>5 DEF ReportInv
<1>4. QED
  BY <1>1, <1>2, <1>3 DEF ReportNext

\* Looking for conflicts adds nothing to what an import does.
LEMMA ConflictsImport ==
    /\ ConflictInit => Init
    /\ [ConflictNext]_<<vars, conflictVars>> => [Next]_vars
<1>1. ConflictInit => Init
  BY DEF ConflictInit
<1>2. ASSUME ConflictNext PROVE [Next]_vars
  <2>1. CASE Import
    BY <2>1 DEF Import, Next
  <2>2. CASE ~Import
    BY <1>2, <2>2 DEF ConflictNext, DetectConflicts, AbandonDetection, LogConflict,
                      ResolveConflict
  <2>3. QED
    BY <2>1, <2>2
<1>3. ASSUME UNCHANGED <<vars, conflictVars>> PROVE [Next]_vars
  BY <1>3
<1>4. QED
  BY <1>1, <1>2, <1>3

\* The detector, with its imports, is one of the ways results come in.
THEOREM ConflictsImplementIngestion == ConflictSpec => Spec
BY ConflictsImport, PTL DEF ConflictSpec, Spec

\* Nor does a report add to what imports and the detector do.
LEMMA ReportsDetect ==
    /\ ReportInit => ConflictInit
    /\ [ReportNext]_allVars => [ConflictNext]_<<vars, conflictVars>>
<1>1. ReportInit => ConflictInit
  BY DEF ReportInit
<1>2. ASSUME Report PROVE UNCHANGED <<vars, conflictVars>>
  <2>1. ASSUME NEW r \in Requirements, Skip(r) \/ FetchIssue(r) \/ LabelRaises(r)
        PROVE  UNCHANGED <<vars, conflictVars>>
    BY <2>1 DEF Skip, FetchIssue, LabelRaises
  <2>2. ASSUME NEW r \in Requirements, NEW sent \in BOOLEAN,
               Comment(r, sent) \/ UpdateLabels(r, sent)
        PROVE  UNCHANGED <<vars, conflictVars>>
    BY <2>2 DEF Comment, UpdateLabels
  <2>3. ASSUME NEW n \in DOMAIN runs, NEW options \in ReportOptions, BeginReport(n, options)
        PROVE  UNCHANGED <<vars, conflictVars>>
    BY <2>3 DEF BeginReport
  <2>4. ASSUME NEW made \in BOOLEAN, FindLabel(made) PROVE UNCHANGED <<vars, conflictVars>>
    BY <2>4 DEF FindLabel
  <2>5. ASSUME EndReport \/ AbandonReport PROVE UNCHANGED <<vars, conflictVars>>
    BY <2>5 DEF EndReport, AbandonReport
  <2>6. ASSUME NEW r \in Issues, EditIssue(r) PROVE UNCHANGED <<vars, conflictVars>>
    BY <2>6 DEF EditIssue
  <2>7. QED
    BY <1>2, <2>1, <2>3, <2>4, <2>5, <2>6, <2>2 DEF Report
<1>3. UNCHANGED allVars => UNCHANGED <<vars, conflictVars>>
  BY DEF allVars
<1>4. QED
  BY <1>1, <1>2, <1>3 DEF ReportNext

\* What conflicts and runs there are does not depend on the reports.
THEOREM ReportsImplementDetection == ReportSpec => ConflictSpec
BY ReportsDetect, PTL DEF ReportSpec, ConflictSpec

\* The inductive invariant of the reports holds.
THEOREM ReportInvariance == ReportSpec => [](IInv /\ LogInv /\ ReportInv)
<1>1. ReportSpec => []IInv
  BY ReportsImplementDetection, ConflictsImplementIngestion, Invariance, PTL
<1>2. ReportSpec => []LogInv
  BY ReportsImplementDetection, LogInvariance, PTL
<1>3. IInv /\ ReportInv /\ [ReportNext]_allVars => ReportInv'
  BY NextReportInv
<1>4. QED
  BY <1>1, <1>2, <1>3, InitReportInv, PTL DEF ReportSpec

-----------------------------------------------------------------------------
(***************************************************************************)
(* The matrix.  Its rows are in the same order whatever page is asked for, *)
(* so a page of one row is that row of the whole, and a cell of it is the  *)
(* cell of the whole.                                                      *)
(***************************************************************************)
Rows == SetToSeq(Requirements)

TestsOfRows(rows) == {t \in Tests : \E r \in rows : RunsWith(r, t) # {}}

Matrix(shown, current, pages) ==
    LET tests == TestsOfRows(Range(shown)) IN
    [requirements |-> shown, tests |-> tests, page |-> current, total_pages |-> pages,
     cells    |-> [key \in Range(shown) \X tests |-> Cell(key[1], key[2])],
     has_next |-> current < pages, has_prev |-> current > 1]

LEMMA OfTwo ==
    ASSUME NEW a \in Int, NEW b \in Int, a <= b
    PROVE  Max({a, b}) = b /\ Min({a, b}) = a
<1>1. Max({a, b}) \in {a, b} /\ Max({a, b}) >= a /\ Max({a, b}) >= b
  <2>1. \E x \in {a, b} : \A y \in {a, b} : x >= y
    OBVIOUS
  <2>2. QED
    BY <2>1 DEF Max
<1>2. Min({a, b}) \in {a, b} /\ Min({a, b}) <= a /\ Min({a, b}) <= b
  <2>1. \E x \in {a, b} : \A y \in {a, b} : x <= y
    OBVIOUS
  <2>2. QED
    BY <2>1 DEF Min
<1>3. QED
  BY <1>1, <1>2

LEMMA RowsOfMatrix ==
    /\ Cardinality(Requirements) \in Nat
    /\ Rows \in Seq(Requirements) /\ Len(Rows) = Cardinality(Requirements)
    /\ DOMAIN Rows = 1 .. Cardinality(Requirements)
<1>1. Cardinality(Requirements) \in Nat
      /\ ExistsBijection(1 .. Cardinality(Requirements), Requirements)
  BY FS_CardinalityType
<1>2. \E f \in [1 .. Cardinality(Requirements) -> Requirements] : IsInjective(f)
  BY <1>1 DEF ExistsBijection, Bijection, Injection
<1>3. Rows \in [1 .. Cardinality(Requirements) -> Requirements]
  BY <1>2 DEF Rows, SetToSeq
<1>4. QED
  BY <1>1, <1>3

\* A page as large as the matrix shows all of it.
LEMMA WholeMatrix ==
    \E pages : MatrixData(Requirements, 1, Cardinality(Requirements) + 1) = Matrix(Rows, 1, pages)
<1> DEFINE size    == Cardinality(Requirements) + 1
           some    == (Len(Rows) + size - 1) \div size
           pages   == Max({1, some})
           current == Max({1, Min({1, pages})})
           from    == (current - 1) * size + 1
           last    == Min({current * size, Len(Rows)})
<1>1. size \in Nat /\ size > 0 /\ Len(Rows) \in Nat /\ Len(Rows) < size
  BY RowsOfMatrix
<1>2. some \in Int
  <2>1. Len(Rows) + size - 1 \in Int
    BY <1>1
  <2>2. QED
    BY <1>1, <2>1
<1> HIDE DEF some
<1>3. pages \in Int /\ 1 <= pages
  <2>1. CASE 1 <= some
    BY <1>2, <2>1, OfTwo
  <2>2. CASE some <= 1
    <3>1. Max({some, 1}) = 1
      <4>1. 1 \in Int
        OBVIOUS
      <4>2. QED
        BY ONLY <1>2, <2>2, <4>1, OfTwo, Zenon
    <3>2. {1, some} = {some, 1}
      OBVIOUS
    <3>3. Max({1, some}) = 1
      BY ONLY <3>1, <3>2, Zenon
    <3>4. QED
      BY <3>3
  <2>3. QED
    BY <1>2, <2>1, <2>2
<1> HIDE DEF pages
<1>4. current = 1
  <2>1. 1 \in Int /\ 1 <= 1
    OBVIOUS
  <2>2. Min({1, pages}) = 1
    BY ONLY <1>3, <2>1, OfTwo, Zenon
  <2>3. Max({1, 1}) = 1
    BY ONLY <2>1, OfTwo, Zenon
  <2>4. QED
    BY <2>2, <2>3
<1> HIDE DEF current
<1>5. from = 1 /\ last = Len(Rows)
  <2>1. (current - 1) * size = 0 /\ current * size = size
    BY <1>1, <1>4
  <2>2. from = 1
    BY <2>1
  <2>3. last = Len(Rows)
    <3>1. size \in Int /\ Len(Rows) \in Int /\ Len(Rows) <= size
      BY <1>1
    <3>2. Min({Len(Rows), size}) = Len(Rows)
      BY ONLY <3>1, OfTwo, Zenon
    <3>3. {Len(Rows), size} = {current * size, Len(Rows)}
      BY <2>1
    <3>4. QED
      BY <3>2, <3>3
  <2>4. QED
    BY <2>2, <2>3
<1>6. MatrixData(Requirements, 1, size) = Matrix(SubSeq(Rows, from, last), current, pages)
  BY DEF MatrixData, Matrix, Rows, TestsOfRows, some, pages, current
<1> HIDE DEF from, last, size
<1>7. SubSeq(Rows, from, last) = Rows
  BY <1>5, RowsOfMatrix, SubSeqFull
<1>8. MatrixData(Requirements, 1, size) = Matrix(Rows, 1, pages)
  BY <1>4, <1>6, <1>7
<1>9. QED
  BY <1>8 DEF size

LEMMA OneOf ==
    ASSUME NEW S, NEW s \in Seq(S), NEW n \in 1 .. Len(s)
    PROVE  SubSeq(s, n, n) = <<s[n]>>
<1>1. n \in n .. Len(s) /\ SubSeq(s, n + 1, n) = <<>>
  BY SubSeqEmpty
<1>2. SubSeq(s, n, n) = <<s[n]>> \o SubSeq(s, n + 1, n)
  BY <1>1, SubSeqRecursiveFirst
<1>3. <<s[n]>> \in Seq(S)
  BY ElementOfSeq
<1>4. <<s[n]>> \o <<>> = <<s[n]>>
  BY <1>3, ConcatEmptySeq
<1>5. QED
  BY <1>1, <1>2, <1>4

\* Page n of pages of one row each.
LEMMA OnePage ==
    ASSUME NEW n \in DOMAIN Rows
    PROVE  MatrixData(Requirements, n, 1) = Matrix(<<Rows[n]>>, n, Len(Rows))
<1> DEFINE some    == (Len(Rows) + 1 - 1) \div 1
           pages   == Max({1, some})
           current == Max({1, Min({n, pages})})
           from    == (current - 1) * 1 + 1
           last    == Min({current * 1, Len(Rows)})
<1>1. n \in Nat /\ Len(Rows) \in Nat /\ 1 <= n /\ n <= Len(Rows)
  BY RowsOfMatrix
<1>2. some = Len(Rows)
  BY <1>1
<1> HIDE DEF some
<1>3. pages = Len(Rows)
  <2>1. 1 \in Int /\ some \in Int /\ 1 <= some
    BY <1>1, <1>2
  <2>2. QED
    BY <1>2, <2>1, OfTwo
<1> HIDE DEF pages
<1>4. n \in Int /\ pages \in Int /\ n <= pages /\ 1 \in Int /\ 1 <= n
  BY <1>1, <1>3
<1>5. current = n
  <2>1. Min({n, pages}) = n /\ Max({1, n}) = n
    BY ONLY <1>4, OfTwo, Zenon
  <2>2. QED
    BY <2>1
<1> HIDE DEF current
<1>6. from = n /\ last = n
  <2>1. current * 1 = n /\ from = n
    BY <1>1, <1>5
  <2>2. Min({n, pages}) = n
    BY ONLY <1>4, OfTwo, Zenon
  <2>3. QED
    BY <1>3, <2>1, <2>2
<1>7. MatrixData(Requirements, n, 1) = Matrix(SubSeq(Rows, from, last), current, pages)
  BY DEF MatrixData, Matrix, Rows, TestsOfRows, some, pages, current
<1> HIDE DEF from, last
<1>8. SubSeq(Rows, n, n) = <<Rows[n]>>
  BY RowsOfMatrix, OneOf
<1>9. QED
  BY <1>3, <1>5, <1>7, <1>8, <1>6

\* Page after page the matrix shows the rows of the whole.
LEMMA PagesShowTheWhole ==
    LET whole == MatrixData(Requirements, 1, Cardinality(Requirements) + 1) IN
    \A n \in DOMAIN whole.requirements :
      LET r    == whole.requirements[n]
          part == MatrixData(Requirements, n, 1)
      IN /\ part.requirements = <<r>> /\ (part.has_next <=> n < Len(whole.requirements))
         /\ \A t \in whole.tests : IF t \in part.tests THEN part.cells[<<r, t>>] = whole.cells[<<r, t>>]
                                   ELSE whole.cells[<<r, t>>].status = "unlinked"
<1> DEFINE whole == MatrixData(Requirements, 1, Cardinality(Requirements) + 1)
<1>1. PICK pages : whole = Matrix(Rows, 1, pages)
  BY WholeMatrix
<1>2. /\ whole.requirements = Rows /\ whole.tests = TestsOfRows(Range(Rows))
      /\ \A r \in Range(Rows), t \in whole.tests : whole.cells[<<r, t>>] = Cell(r, t)
  BY <1>1 DEF Matrix
<1> HIDE DEF whole
<1>3. ASSUME NEW n \in DOMAIN Rows
      PROVE  LET part == MatrixData(Requirements, n, 1) IN
             /\ part.requirements = <<Rows[n]>> /\ (part.has_next <=> n < Len(Rows))
             /\ \A t \in whole.tests :
                  IF t \in part.tests THEN part.cells[<<Rows[n], t>>] = whole.cells[<<Rows[n], t>>]
                  ELSE whole.cells[<<Rows[n], t>>].status = "unlinked"
  <2> DEFINE part == MatrixData(Requirements, n, 1)
             r == Rows[n]
  <2>1. part = Matrix(<<r>>, n, Len(Rows))
    BY OnePage
  <2>2. Range(<<r>>) = {r} /\ r \in Range(Rows)
    BY DEF Range
  <2> HIDE DEF r
  <2> DEFINE one == <<r>>
             tests == TestsOfRows({r})
  <2>3. /\ part.requirements = one /\ (part.has_next <=> n < Len(Rows))
        /\ part.tests = tests
        /\ part.cells = [key \in {r} \X tests |-> Cell(key[1], key[2])]
    <3>1. Range(one) = {r}
      BY <2>2
    <3> HIDE DEF one
    <3>2. part = Matrix(one, n, Len(Rows))
      BY <2>1 DEF one
    <3> HIDE DEF part
    <3>3. QED
      BY <3>1, <3>2 DEF Matrix
  <2> HIDE DEF part
  <2>4. ASSUME NEW t \in tests
        PROVE  part.cells[<<r, t>>] = Cell(r, t)
    BY <2>3
  <2>5. ASSUME NEW t \in whole.tests, t \notin part.tests
        PROVE  whole.cells[<<r, t>>].status = "unlinked"
    <3>1. t \in Tests /\ t \notin tests
      BY <1>2, <2>3, <2>5 DEF TestsOfRows
    <3>2. RunsWith(r, t) = {}
      BY <3>1 DEF TestsOfRows
    <3>3. Cell(r, t).status = "unlinked"
      BY <3>2 DEF Cell
    <3>4. QED
      BY <1>2, <2>2, <3>3
  <2>6. ASSUME NEW t \in whole.tests, t \in part.tests
        PROVE  part.cells[<<r, t>>] = whole.cells[<<r, t>>]
    BY <1>2, <2>2, <2>3, <2>4, <2>6
  <2> HIDE DEF tests
  <2>7. /\ part.requirements = <<r>> /\ (part.has_next <=> n < Len(Rows))
        /\ \A t \in whole.tests :
             IF t \in part.tests THEN part.cells[<<r, t>>] = whole.cells[<<r, t>>]
             ELSE whole.cells[<<r, t>>].status = "unlinked"
    BY <2>3, <2>5, <2>6
  <2>8. QED
    BY <2>7 DEF r, part
<1>4. QED
  BY <1>2, <1>3 DEF whole

-----------------------------------------------------------------------------
(***************************************************************************)
(* The matrix, the links and the issues tell of the same runs.             *)
(***************************************************************************)

\* Every set of places that is bounded and not empty has a greatest one.
LEMMA GreatestPlace ==
    ASSUME NEW bound \in Nat, NEW places \in SUBSET (1 .. bound), places # {}
    PROVE  Max(places) \in places /\ \A n \in places : n <= Max(places)
<1> DEFINE distances == {k \in 0 .. bound : bound - k \in places}
<1>1. distances \in SUBSET Nat
  OBVIOUS
<1>2. \A n \in places : n \in Int /\ bound - n \in distances
  OBVIOUS
<1>3. distances # {}
  BY <1>2
<1>4. PICK k \in distances : \A j \in distances : k <= j
  BY <1>1, <1>3, LeastPlace
<1>5. bound - k \in places /\ k \in Nat
  BY <1>4
<1>6. ASSUME NEW n \in places PROVE bound - k >= n
  <2>1. n \in Int /\ k <= bound - n
    BY <1>2, <1>4
  <2> HIDE DEF distances
  <2>2. QED
    BY <1>5, <2>1
<1>7. Max(places) \in places /\ \A n \in places : Max(places) >= n
  BY <1>5, <1>6 DEF Max
<1>8. Max(places) \in Int
  BY <1>2, <1>7
<1>9. QED
  BY <1>2, <1>7, <1>8

LEMMA CellsTellOfLinks ==
    ASSUME IInv, NEW l \in Existing, link[l].run # 0
    PROVE  LET cell == Cell(RequirementOf[l], TestOf[l]) IN
           /\ cell.run = link[l].run => cell.status = link[l].status
           /\ cell.run < link[l].run => TestOf[l] \notin runs[link[l].run].linked
<1> DEFINE r    == RequirementOf[l]
           t    == TestOf[l]
           n    == link[l].run
           with == RunsWith(r, t)
<1>1. l \in Links /\ DOMAIN runs = 1 .. Len(runs) /\ Len(runs) \in Nat
  BY Types DEF IInv, Existing
<1>2. n \in DOMAIN runs /\ link[l].status = runs[n].results[t]
  BY DEF IInv, LinksShowFinishedRuns
<1>3. t \in runs[n].linked => n \in with
  BY <1>1, <1>2 DEF RunsWith, RequirementsOf
<1>4. with \in SUBSET (1 .. Len(runs))
  BY <1>1 DEF RunsWith
<1>5. with = {} => Cell(r, t) = [status |-> "unlinked", run |-> 0]
  BY DEF Cell
<1>6. with # {} => Cell(r, t) = [status |-> runs[Max(with)].results[t], run |-> Max(with)]
  BY DEF Cell
<1> HIDE DEF r, t, n, with
<1>7. CASE with = {}
  BY <1>2, <1>3, <1>5, <1>7 DEF r, t, n
<1>8. CASE with # {}
  <2>1. Max(with) \in with /\ \A m \in with : m <= Max(with)
    BY <1>1, <1>4, <1>8, GreatestPlace
  <2>2. Max(with) \in Int /\ n \in Int
    <3> DEFINE most == Max(with)
    <3>1. most \in 1 .. Len(runs)
      BY <1>4, <2>1
    <3> HIDE DEF most
    <3>2. n \in 1 .. Len(runs)
      BY <1>1, <1>2
    <3>3. most \in Int /\ n \in Int
      BY <1>1, <3>1, <3>2
    <3>4. QED
      BY <3>3 DEF most
  <2>3. t \in runs[n].linked => ~(Max(with) < n)
    BY <1>3, <2>1, <2>2
  <2>4. Cell(r, t).status = runs[Max(with)].results[t] /\ Cell(r, t).run = Max(with)
    BY <1>6, <1>8
  <2>5. QED
    BY <1>2, <2>3, <2>4 DEF r, t, n
<1>9. QED
  BY <1>7, <1>8

\* What LabelsAreSound says of an issue.
LEMMA LabelsTellOfLinks ==
    ASSUME NEW r, NEW labels, LabelsAreSound(r, labels)
    PROVE  /\ Cardinality(labels \cap Verdicts) <= 1
           /\ \A verdict \in (labels \cap Verdicts) \ OldLabels : \E n \in DOMAIN runs :
                /\ LinksInRun(r, n) # {}
                /\ verdict = "tests:failing" <=> \E l \in LinksInRun(r, n) : link[l].status \in Failing
<1>1. Cardinality(labels \cap Verdicts) <= 1
  <2> DEFINE S == labels \cap Verdicts
  <2>1. S = {} \/ S = {"tests:passing"} \/ S = {"tests:failing"}
    BY DEF LabelsAreSound, Verdicts
  <2> HIDE DEF S
  <2>2. S = {} \/ \E x : S = {x}
    BY <2>1, Zenon
  <2>3. Cardinality(S) = 0 \/ Cardinality(S) = 1
    <3>1. S = {} => Cardinality(S) = 0
      BY ONLY FS_EmptySet, Zenon
    <3>2. (\E x : S = {x}) => Cardinality(S) = 1
      BY ONLY FS_Singleton, Zenon
    <3>3. QED
      BY ONLY <2>2, <3>1, <3>2, Zenon
  <2>4. Cardinality(S) <= 1
    BY ONLY <2>3
  <2>5. QED
    BY <2>4 DEF S
<1>2. QED
  BY <1>1 DEF LabelsAreSound, TrueVerdicts

LEMMA SizeOfUnion ==
    ASSUME NEW S, IsFiniteSet(S), NEW T, IsFiniteSet(T), S \cap T = {}
    PROVE  IsFiniteSet(S \cup T) /\ Cardinality(S \cup T) = Cardinality(S) + Cardinality(T)
<1> DEFINE common == S \cap T
           both   == S \cup T
<1>1. /\ IsFiniteSet(both)
      /\ Cardinality(both) = Cardinality(S) + Cardinality(T) - Cardinality(common)
  BY FS_Union
<1>2. Cardinality(common) = 0
  <2>1. common = {}
    OBVIOUS
  <2> HIDE DEF common
  <2>2. QED
    BY ONLY <2>1, FS_EmptySet, Zenon
<1>3. Cardinality(S) \in Nat /\ Cardinality(T) \in Nat
  BY FS_CardinalityType
<1> HIDE DEF common, both
<1>4. Cardinality(both) = Cardinality(S) + Cardinality(T)
  BY <1>1, <1>2, <1>3
<1>5. QED
  BY <1>1, <1>4 DEF both

\* A report that is done has each requirement in one of three lists.
LEMMA ReportsAccount ==
    ASSUME ReportInv, reporter.at = "done"
    PROVE  /\ reporter.updated \cup reporter.skipped \cup reporter.errors = Reported(reporter.run)
           /\ Cardinality(reporter.updated) + Cardinality(reporter.skipped)
                + Cardinality(reporter.errors) = Cardinality(Reported(reporter.run))
<1> DEFINE A == reporter.updated
           B == reporter.skipped
           C == reporter.errors
<1>1. /\ A \cup B \cup C = Reported(reporter.run)
      /\ A \cap B = {} /\ A \cap C = {} /\ B \cap C = {}
  BY Reporting DEF ReporterIsSound, Disjoint
<1>2. A \subseteq Requirements /\ B \subseteq Requirements /\ C \subseteq Requirements
  BY Reporting DEF ReporterType
<1> HIDE DEF A, B, C
<1>3. IsFiniteSet(A) /\ IsFiniteSet(B) /\ IsFiniteSet(C)
  BY <1>2, FS_Subset
<1>4. Cardinality(A) \in Nat /\ Cardinality(B) \in Nat /\ Cardinality(C) \in Nat
  BY <1>3, FS_CardinalityType
<1>5. IsFiniteSet(A \cup B) /\ Cardinality(A \cup B) = Cardinality(A) + Cardinality(B)
  BY ONLY <1>1, <1>3, <1>4, SizeOfUnion, Zenon
<1>6. (A \cup B) \cap C = {}
  BY <1>1
<1>7. Cardinality((A \cup B) \cup C) = Cardinality(A \cup B) + Cardinality(C)
  BY ONLY <1>3, <1>5, <1>6, SizeOfUnion, Zenon
<1>8. QED
  BY <1>1, <1>4, <1>5, <1>7 DEF A, B, C

LEMMA ReportsAreSound == IInv /\ ReportInv => ReportsTellOfRuns
<1> SUFFICES ASSUME IInv, ReportInv PROVE ReportsTellOfRuns
  OBVIOUS
<1>1. ASSUME NEW r \in Issues
      PROVE  /\ Cardinality(issue[r].labels \cap Verdicts) <= 1
             /\ \A verdict \in (issue[r].labels \cap Verdicts) \ OldLabels : \E n \in DOMAIN runs :
                  /\ LinksInRun(r, n) # {}
                  /\ verdict = "tests:failing" <=> \E l \in LinksInRun(r, n) : link[l].status \in Failing
             /\ r \in reporter.current /\ "own" \in reporter.fetched => "own" \in issue[r].labels
  <2>1. LabelsAreSound(r, issue[r].labels)
    BY DEF ReportInv
  <2>2. r \in reporter.current /\ "own" \in reporter.fetched => "own" \in issue[r].labels
    BY DEF ReportInv
  <2>3. QED
    BY <2>1, <2>2, LabelsTellOfLinks
<1>2. reporter.at = "done" =>
        /\ reporter.updated \cup reporter.skipped \cup reporter.errors
             = {r \in Requirements : LinksInRun(r, reporter.run) # {}}
        /\ Cardinality(reporter.updated) + Cardinality(reporter.skipped) + Cardinality(reporter.errors)
             = Cardinality({r \in Requirements : LinksInRun(r, reporter.run) # {}})
  BY ReportsAccount DEF Reported
<1>3. QED
  BY ONLY <1>1, <1>2, IInv, PagesShowTheWhole, CellsTellOfLinks DEF ReportsTellOfRuns

\* However many reports there are, whatever fails in them and whoever edits the
\* issues meanwhile: the matrix, the links and the issues tell of the same runs.
THEOREM ReportsTell == ReportSpec => []ReportsTellOfRuns
BY ReportInvariance, ReportsAreSound, PTL

\* Reports or not, conflicts are logged once, and links show whole runs.
THEOREM ReportsKeepTheTables ==
    ReportSpec => [](ConflictsAreLoggedOnce /\ DeliveriesMakeOneWholeRun /\ LinkShowsOneRun)
BY ReportInvariance, LogIsSound, WholeRuns, PTL
=============================================================================

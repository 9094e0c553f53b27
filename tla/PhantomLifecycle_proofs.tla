-------------------------- MODULE PhantomLifecycle_proofs --------------------------
(***************************************************************************)
(* Proofs about PhantomLifecycle, for any senders, projects, times and     *)
(* bounds: the spawn tracker is the open spawns of the event table, every  *)
(* life is logged once, and no foreign phantom is spawned or pinned.       *)
(*                                                                         *)
(* What the frame knows between its parts is what the properties leave     *)
(* out: after the guard the tracker is the project's and no phantom of the *)
(* snapshot is foreign (GuardPassed), and after the diff each of them is   *)
(* tracked, or was just pinned (SnapTracked).                              *)
(***************************************************************************)
EXTENDS PhantomLifecycle, SequenceTheorems, TLAPS

USE TimesAssumption, BoundsAssumption, MarksAssumption
USE DEF vars, countVars

\* A phantom on its way was stamped in the past.
StampsPast == inflight # Absent => inflight.born <= now

\* The last row that concerns an id, which LastEvent chooses.
IsLast(k, id) == k \in History(id) /\ \A j \in History(id) : j <= k
HistoriesEnd == \A id \in Ids : \E k \in 1..Len(journal) : IsLast(k, id)

GuardPassed == pc \in {"diff", "pick", "tab"} => tracker = project /\ Foreign = {}

JustPinned(id) == LET last == journal[Len(journal)] IN last.event = "pin" /\ last.id = id
SnapTracked ==
  /\ pc = "pick" => \A ph \in snap : seen[ph.id] # Absent
  /\ pc = "tab" => \A ph \in snap : seen[ph.id] # Absent \/ JustPinned(ph.id)

PhantomInv == /\ TypeOK /\ StampsPast /\ HistoriesEnd /\ SeenMatchesJournal
              /\ NothingForeign /\ GuardPassed /\ SnapTracked

------------------------------------------------------------------------------
(* Types.                                                                  *)

\* The rows that the frame writes are rows.
LEMMA RowsTyped ==
  ASSUME TypeOK
  PROVE  /\ \A ph \in Phantom, e \in {"drop", "spawn", "decay", "pin"} : RowOf(e, ph) \in Row
         /\ \A id \in Ids : RowOf("decay", [id |-> id, tag |-> Untagged]) \in Row
         /\ \A p \in Projects : OpenRow(p) \in Row
BY DEF TypeOK, RowOf, OpenRow, Row, Phantom

LEMMA TypeInit == Init => TypeOK /\ StampsPast
<1> SUFFICES ASSUME Init PROVE TypeOK /\ StampsPast
  OBVIOUS
<1>1. OpenRow(project) \in Row
  BY DEF Init, OpenRow, Row
<1>2. journal \in Seq(Row)
  BY <1>1 DEF Init
<1>3. seen \in [Ids -> 0..now \cup {Absent}] /\ 0 \in 0..MaxTime
  BY DEF Init, NoneSeen
<1> QED BY <1>2, <1>3 DEF Init, TypeOK, StampsPast

\* Time, arrivals and the worker: the journal and the frame stay as they are.
LEMMA TypeOutside ==
  ASSUME TypeOK, StampsPast, Tick \/ Receive \/ Add \/ WorkerExpires
  PROVE  TypeOK' /\ StampsPast'
<1>1. now \in Nat /\ 0..now \subseteq 0..MaxTime /\ now \in 0..now
  BY DEF TypeOK
<1>2. CASE Tick
  <2>1. now' \in 0..MaxTime /\ now <= now' /\ 0..now \subseteq 0..now'
    BY <1>1, <1>2 DEF Tick
  <2>2. \A ph \in buffer \cup snap : ph.born <= now'
    BY <1>1, <2>1 DEF TypeOK, Phantom
  <2>3. inflight # Absent => inflight.born <= now'
    BY <1>1, <2>1 DEF TypeOK, Phantom, StampsPast
  <2>4. seen \in [Ids -> 0..now' \cup {Absent}]
    BY <2>1 DEF TypeOK
  <2> QED BY <1>2, <2>1, <2>2, <2>3, <2>4 DEF Tick, TypeOK, StampsPast
<1>3. CASE Receive
  <2>1. PICK id \in Ids, t \in Projects \cup {Untagged} :
          inflight' = [id |-> id, tag |-> t, born |-> now]
    BY <1>3 DEF Receive, Stamp
  <2>2. inflight' \in Phantom /\ inflight'.born <= now
    BY <1>1, <2>1 DEF Phantom, TypeOK
  <2>3. sent' \in 0..MaxSent
    BY <1>3 DEF Receive, CanArrive, TypeOK
  <2> QED BY <1>3, <2>2, <2>3 DEF Receive, TypeOK, StampsPast
<1>4. CASE Add
  BY <1>4 DEF Add, TypeOK, StampsPast
<1>5. CASE WorkerExpires
  BY <1>5 DEF WorkerExpires, Alive, TypeOK, StampsPast
<1> QED BY <1>2, <1>3, <1>4, <1>5

LEMMA TypeFrame ==
  ASSUME TypeOK, StampsPast, Frame
  PROVE  TypeOK' /\ StampsPast'
<1>1. /\ now \in 0..now /\ Foreign \subseteq Phantom /\ NewPhantoms \subseteq Phantom
      /\ Alive(buffer) \subseteq buffer /\ \A id \in Ids : Without(buffer, id) \subseteq buffer
  BY DEF TypeOK, Foreign, NewPhantoms, Alive, Without
<1>2. \A r \in Row : Append(journal, r) \in Seq(Row)
  BY DEF TypeOK
<1>3. /\ \A ph \in snap : ph \in Phantom /\ ph.id \in Ids /\ ph.born \in 0..now
      /\ \A ph \in buffer : ph \in Phantom /\ ph.born \in 0..now
  BY DEF TypeOK, Phantom
<1>4. CASE Snapshot
  BY <1>1, <1>4 DEF Snapshot, TypeOK, StampsPast
<1>5. CASE DropForeign
  <2>1. PICK ph \in Foreign : /\ journal' = Append(journal, RowOf("drop", ph))
                              /\ buffer' = Without(buffer, ph.id) /\ snap' = snap \ {ph}
    BY <1>5 DEF DropForeign
  <2>2. journal' \in Seq(Row) /\ buffer' \subseteq buffer /\ snap' \subseteq snap
    BY <1>1, <1>2, <2>1, RowsTyped DEF Phantom
  <2> QED BY <1>5, <2>2 DEF DropForeign, TypeOK, StampsPast
<1>6. CASE NoticeProject
  BY <1>6 DEF NoticeProject, TrackerNow, NoneSeen, TypeOK, StampsPast
<1>7. CASE LogSpawn
  <2>1. PICK ph \in NewPhantoms : /\ seen' = [seen EXCEPT ![ph.id] = ph.born]
                                  /\ journal' = Append(journal, RowOf("spawn", ph))
    BY <1>7 DEF LogSpawn
  <2>2. journal' \in Seq(Row)
    BY <1>1, <1>2, <2>1, RowsTyped
  <2>3. ph.born \in 0..now
    BY <1>3 DEF NewPhantoms
  <2>4. seen' \in [Ids -> 0..now \cup {Absent}]
    BY <2>1, <2>3 DEF TypeOK
  <2> QED BY <1>7, <2>2, <2>4 DEF LogSpawn, TypeOK, StampsPast
<1>8. CASE LogDecay
  <2>1. PICK id \in Departed : /\ seen' = [seen EXCEPT ![id] = Absent]
          /\ journal' = Append(journal, RowOf("decay", [id |-> id, tag |-> Untagged]))
    BY <1>8 DEF LogDecay
  <2>2. journal' \in Seq(Row)
    BY <1>2, <2>1, RowsTyped DEF Departed
  <2>3. seen' \in [Ids -> 0..now \cup {Absent}]
    BY <2>1 DEF TypeOK
  <2> QED BY <1>8, <2>2, <2>3 DEF LogDecay, TypeOK, StampsPast
<1>9. ASSUME NEW ph \in snap, Pin(ph)
      PROVE  /\ journal' \in Seq(Row) /\ buffer' \subseteq buffer
             /\ seen' \in [Ids -> 0..now \cup {Absent}]
  <2>1. journal' = Append(journal, RowOf("pin", ph)) /\ RowOf("pin", ph) \in Row
    BY <1>3, <1>9, RowsTyped DEF Pin
  <2>2. seen' \in [Ids -> 0..now \cup {Absent}]
    BY <1>9 DEF Pin, Untracked, TypeOK
  <2> QED BY <1>1, <1>2, <1>3, <1>9, <2>1, <2>2 DEF Pin
<1>10. CASE ClickPin
  BY <1>9, <1>10 DEF ClickPin, TypeOK, StampsPast
<1>11. CASE CliPin
  BY <1>9, <1>11 DEF CliPin, EndFrame, TypeOK, StampsPast
<1>12. CASE CliDecay
  <2>1. buffer' \subseteq buffer /\ dismissals' \in 0..MaxDismissals
    BY <1>1, <1>3, <1>12 DEF CliDecay, TypeOK
  <2> QED BY <1>12, <2>1 DEF CliDecay, EndFrame, TypeOK, StampsPast
<1>13. CASE Inject
  <2>1. PICK id \in Ids, t \in {project, Untagged} :
          buffer' = buffer \cup {[id |-> id, tag |-> t, born |-> now]}
    BY <1>13 DEF Inject, Stamp
  <2>2. [id |-> id, tag |-> t, born |-> now] \in Phantom
    BY DEF TypeOK, Phantom
  <2>3. buffer' \subseteq Phantom /\ \A ph \in buffer' : ph.born <= now
    BY <1>1, <1>3, <2>1, <2>2 DEF TypeOK
  <2>4. sent' \in 0..MaxSent
    BY <1>13 DEF Inject, CanArrive, TypeOK
  <2> QED BY <1>13, <2>3, <2>4 DEF Inject, EndFrame, TypeOK, StampsPast
<1>14. CASE SwitchProject
  <2>1. PICK p \in Projects : project' = p /\ journal' = Append(journal, OpenRow(p))
    BY <1>14 DEF SwitchProject
  <2>2. journal' \in Seq(Row) /\ project' \in Projects
    BY <1>2, <2>1, RowsTyped
  <2>3. switches' \in 0..MaxSwitches
    BY <1>14 DEF SwitchProject, TypeOK
  <2> QED BY <1>14, <2>2, <2>3 DEF SwitchProject, EndFrame, TypeOK, StampsPast
<1>15. CASE EndDiff \/ NoClick \/ NoCommand
  BY <1>15 DEF EndDiff, NoClick, NoCommand, EndFrame, TypeOK, StampsPast
<1> QED BY <1>4, <1>5, <1>6, <1>7, <1>8, <1>10, <1>11, <1>12, <1>13, <1>14, <1>15 DEF Frame

------------------------------------------------------------------------------
(* The event table.                                                        *)

\* A row that ends what LastEvent says of an id so far.
Concerns(r, id) == r.event = "open" \/ (r.id = id /\ r.event # "drop")

\* LastEvent is the event of the last row that concerns the id.
LEMMA LastIs ==
  ASSUME journal \in Seq(Row), NEW id, NEW k, IsLast(k, id)
  PROVE  LastEvent(id) = journal[k].event
<1>1. \A j \in History(id) : (\A i \in History(id) : i <= j) => j = k
  BY DEF IsLast, History
<1>2. k = CHOOSE j \in History(id) : \A i \in History(id) : i <= j
  BY <1>1 DEF IsLast
<1> QED BY <1>2 DEF LastEvent

\* A row that is written is the last of those it concerns, and of nobody else.
LEMMA LastAppended ==
  ASSUME journal \in Seq(Row), HistoriesEnd, NEW r \in Row, journal' = Append(journal, r),
         NEW id \in Ids
  PROVE  /\ \E k \in 1..Len(journal') : IsLast(k, id)'
         /\ LastEvent(id)' = IF Concerns(r, id) THEN r.event ELSE LastEvent(id)
<1>0. PICK n \in Nat : n = Len(journal)
  BY LenProperties
<1>1. /\ n = Len(journal) /\ Len(journal') = n + 1 /\ journal' \in Seq(Row)
      /\ journal'[n + 1] = r /\ \A j \in 1..n : journal'[j] = journal[j]
  BY <1>0, AppendProperties, LenProperties
<1>2. \A j \in 1..(n + 1) : j \in History(id)' <=>
        IF j = n + 1 THEN Concerns(r, id) ELSE j \in History(id)
  BY <1>1 DEF History, Concerns
<1>3. History(id)' \subseteq 1..(n + 1) /\ History(id) \subseteq 1..n
  BY <1>1 DEF History
<1>4. CASE Concerns(r, id)
  <2>1. IsLast(n + 1, id)'
    BY <1>1, <1>2, <1>3, <1>4 DEF IsLast
  <2>2. LastEvent(id)' = r.event
    <3>1. \A j \in History(id)' : (\A i \in History(id)' : i <= j) => j = n + 1
      BY <1>1, <1>3, <2>1 DEF IsLast
    <3>2. n + 1 = CHOOSE j \in History(id)' : \A i \in History(id)' : i <= j
      BY <2>1, <3>1 DEF IsLast
    <3> QED BY <1>1, <3>2 DEF LastEvent
  <2> QED BY <1>1, <1>4, <2>1, <2>2
<1>5. CASE ~Concerns(r, id)
  <2>1. PICK k \in 1..n : IsLast(k, id)
    BY <1>1 DEF HistoriesEnd
  <2>2. History(id)' = History(id)
    <3>1. \A j \in 1..(n + 1) : j \in History(id)' <=> j \in History(id)
      BY <1>0, <1>2, <1>3, <1>5
    <3>2. History(id)' \subseteq 1..(n + 1) /\ History(id) \subseteq 1..(n + 1)
      BY <1>0, <1>3
    <3> QED BY <3>1, <3>2
  <2>3. IsLast(k, id)'
    BY <2>1, <2>2 DEF IsLast
  <2>4. LastEvent(id)' = journal[k].event
    <3>1. LastEvent(id)' = journal'[CHOOSE j \in History(id) : \A i \in History(id) : i <= j].event
      BY <2>2 DEF LastEvent
    <3>2. \A j \in History(id) : (\A i \in History(id) : i <= j) => j = k
      BY <1>3, <2>1 DEF IsLast
    <3>3. k = CHOOSE j \in History(id) : \A i \in History(id) : i <= j
      BY <2>1, <3>2 DEF IsLast
    <3> QED BY <1>1, <3>1, <3>3
  <2>5. LastEvent(id) = journal[k].event
    BY <2>1, LastIs
  <2> QED BY <1>1, <1>5, <2>1, <2>3, <2>4, <2>5
<1> QED BY <1>4, <1>5

LEMMA LastKept ==
  ASSUME UNCHANGED journal, NEW id
  PROVE  LastEvent(id)' = LastEvent(id)
BY DEF LastEvent, History

\* A step writes at most one row: that of its part of the frame.
LEMMA OneRow ==
  ASSUME TypeOK, [Next]_vars
  PROVE  UNCHANGED journal \/ \E r \in Row : journal' = Append(journal, r)
<1>1. /\ \A ph \in snap : RowOf("pin", ph) \in Row
      /\ \A ph \in Foreign : RowOf("drop", ph) \in Row
      /\ \A ph \in NewPhantoms : RowOf("spawn", ph) \in Row
      /\ \A id \in Departed : RowOf("decay", [id |-> id, tag |-> Untagged]) \in Row
      /\ \A p \in Projects : OpenRow(p) \in Row
  BY RowsTyped DEF TypeOK, Foreign, NewPhantoms, Departed
<1>2. CASE DropForeign \/ LogSpawn \/ LogDecay
  BY <1>1, <1>2 DEF DropForeign, LogSpawn, LogDecay
<1>3. CASE ClickPin \/ CliPin \/ SwitchProject
  BY <1>1, <1>3 DEF ClickPin, CliPin, SwitchProject, Pin
<1>4. CASE ~(DropForeign \/ LogSpawn \/ LogDecay \/ ClickPin \/ CliPin \/ SwitchProject)
  BY <1>4 DEF Next, Frame, Tick, Receive, Add, WorkerExpires, Snapshot, NoticeProject, EndDiff,
              NoClick, CliDecay, Inject, NoCommand
<1> QED BY <1>2, <1>3, <1>4

LEMMA HistoriesStep ==
  ASSUME TypeOK, HistoriesEnd, [Next]_vars
  PROVE  HistoriesEnd'
<1>1. CASE UNCHANGED journal
  BY <1>1 DEF HistoriesEnd, IsLast, History
<1>2. ASSUME NEW r \in Row, journal' = Append(journal, r)
      PROVE  HistoriesEnd'
  BY <1>2, LastAppended DEF HistoriesEnd, TypeOK
<1> QED BY <1>1, <1>2, OneRow

------------------------------------------------------------------------------
(* The tracker.                                                            *)

LEMMA TrackerStep ==
  ASSUME PhantomInv, [Next]_vars
  PROVE  SeenMatchesJournal'
<1>1. /\ journal \in Seq(Row) /\ HistoriesEnd /\ seen \in [Ids -> 0..now \cup {Absent}]
      /\ \A ph \in snap : ph \in Phantom /\ ph.id \in Ids /\ ph.born # Absent
      /\ now \in Nat /\ project \in Projects
  BY DEF PhantomInv, TypeOK, Phantom
<1>2. /\ \A ph \in snap, e \in {"drop", "spawn", "decay", "pin"} : RowOf(e, ph) \in Row
      /\ \A id \in Ids : RowOf("decay", [id |-> id, tag |-> Untagged]) \in Row
      /\ \A p \in Projects : OpenRow(p) \in Row
  BY <1>1, RowsTyped DEF PhantomInv
<1>3. SeenMatchesJournal /\ (pc \in {"diff", "pick", "tab"} => tracker = project)
  BY DEF PhantomInv, GuardPassed
<1>4. CASE UNCHANGED <<journal, seen, tracker, project>>
  BY <1>3, <1>4, LastKept DEF SeenMatchesJournal
<1>5. CASE NoticeProject
  <2>1. seen' = TrackerNow /\ tracker' = project /\ UNCHANGED <<journal, project>>
    BY <1>5 DEF NoticeProject
  <2>2. \A id \in Ids : LastEvent(id)' = LastEvent(id)
    BY <2>1, LastKept
  <2>3. CASE tracker = project
    BY <1>3, <2>1, <2>2, <2>3 DEF TrackerNow, SeenMatchesJournal
  <2>4. CASE tracker # project
    BY <1>3, <2>1, <2>2, <2>4 DEF TrackerNow, NoneSeen, SeenMatchesJournal
  <2> QED BY <2>3, <2>4
<1>6. CASE DropForeign
  <2>1. PICK ph \in snap : journal' = Append(journal, RowOf("drop", ph))
    BY <1>6 DEF DropForeign, Foreign
  <2>2. UNCHANGED <<seen, tracker, project>>
    BY <1>6 DEF DropForeign
  <2>3. \A id \in Ids : LastEvent(id)' = LastEvent(id)
    BY <1>1, <1>2, <2>1, LastAppended DEF Concerns, RowOf
  <2> QED BY <1>3, <2>2, <2>3 DEF SeenMatchesJournal
<1>7. CASE LogSpawn
  <2>1. PICK ph \in snap : /\ journal' = Append(journal, RowOf("spawn", ph))
                           /\ seen' = [seen EXCEPT ![ph.id] = ph.born]
    BY <1>7 DEF LogSpawn, NewPhantoms
  <2>2. UNCHANGED <<tracker, project>> /\ tracker = project
    BY <1>3, <1>7 DEF LogSpawn
  <2>3. RowOf("spawn", ph) \in Row
    BY <1>2
  <2>4. \A id \in Ids : LastEvent(id)' = IF id = ph.id THEN "spawn" ELSE LastEvent(id)
    BY <1>1, <2>1, <2>3, LastAppended DEF Concerns, RowOf
  <2> QED BY <1>1, <1>3, <2>1, <2>2, <2>4 DEF SeenMatchesJournal
<1>8. CASE LogDecay
  <2>1. PICK gone \in Ids : /\ seen' = [seen EXCEPT ![gone] = Absent]
          /\ journal' = Append(journal, RowOf("decay", [id |-> gone, tag |-> Untagged]))
    BY <1>8 DEF LogDecay, Departed
  <2>2. UNCHANGED <<tracker, project>> /\ tracker = project
    BY <1>3, <1>8 DEF LogDecay
  <2>3. RowOf("decay", [id |-> gone, tag |-> Untagged]) \in Row
    BY <1>2
  <2>4. \A id \in Ids : LastEvent(id)' = IF id = gone THEN "decay" ELSE LastEvent(id)
    BY <1>1, <2>1, <2>3, LastAppended DEF Concerns, RowOf
  <2> QED BY <1>1, <1>3, <2>1, <2>2, <2>4 DEF SeenMatchesJournal
<1>9. CASE ClickPin \/ CliPin
  <2>1. PICK ph \in snap : Pin(ph)
    BY <1>9 DEF ClickPin, CliPin
  <2>2. UNCHANGED <<tracker, project>> /\ tracker = project
    BY <1>3, <1>9 DEF ClickPin, CliPin, EndFrame
  <2>3. /\ journal' = Append(journal, RowOf("pin", ph))
        /\ seen' = [seen EXCEPT ![ph.id] = Absent]
    BY <2>1 DEF Pin, Untracked
  <2>4. RowOf("pin", ph) \in Row
    BY <1>2
  <2>5. \A id \in Ids : LastEvent(id)' = IF id = ph.id THEN "pin" ELSE LastEvent(id)
    BY <1>1, <2>3, <2>4, LastAppended DEF Concerns, RowOf
  <2> QED BY <1>1, <1>3, <2>2, <2>3, <2>5 DEF SeenMatchesJournal
<1>10. CASE SwitchProject
  <2>1. PICK p \in Projects \ {project} : project' = p /\ journal' = Append(journal, OpenRow(p))
    BY <1>10 DEF SwitchProject
  <2>2. tracker' = tracker /\ tracker = project
    BY <1>3, <1>10 DEF SwitchProject, EndFrame
  <2>3. \A id \in Ids : LastEvent(id)' = "open"
    BY <1>1, <1>2, <2>1, LastAppended DEF Concerns, OpenRow
  <2> QED BY <2>1, <2>2, <2>3 DEF SeenMatchesJournal
<1>11. \/ UNCHANGED <<journal, seen, tracker, project>> \/ NoticeProject \/ DropForeign
       \/ LogSpawn \/ LogDecay \/ ClickPin \/ CliPin \/ SwitchProject
  BY DEF Next, Frame, Tick, Receive, Add, WorkerExpires, Snapshot, EndDiff,
         NoClick, CliDecay, Inject, NoCommand
<1> QED BY <1>4, <1>5, <1>6, <1>7, <1>8, <1>9, <1>10, <1>11

------------------------------------------------------------------------------
(* What the frame has passed.                                              *)

LEMMA GuardStep ==
  ASSUME PhantomInv, [Next]_vars
  PROVE  GuardPassed'
<1> USE DEF GuardPassed, Foreign
<1>1. GuardPassed
  BY DEF PhantomInv
<1>2. CASE UNCHANGED <<snap, tracker, project, pc>>
  BY <1>1, <1>2
<1>3. CASE Snapshot \/ DropForeign \/ NoticeProject
  BY <1>3 DEF Snapshot, DropForeign, NoticeProject
<1>4. CASE EndDiff \/ ClickPin \/ NoClick
  BY <1>1, <1>4 DEF EndDiff, ClickPin, NoClick
<1>5. CASE pc' = "snapshot"
  BY <1>5
<1> QED BY <1>2, <1>3, <1>4, <1>5
       DEF Next, Frame, Tick, Receive, Add, WorkerExpires, LogSpawn, LogDecay,
           CliPin, CliDecay, Inject, SwitchProject, NoCommand, EndFrame

\* The rows of a step are the project's own, or of a foreign phantom that is dropped.
LEMMA ForeignStep ==
  ASSUME PhantomInv, [Next]_vars
  PROVE  NothingForeign'
<1> DEFINE Own(r) == r.event \in {"spawn", "pin"} => r.tag \in {Untagged, r.db}
<1>1. journal \in Seq(Row) /\ \A k \in 1..Len(journal) : Own(journal[k])
  BY DEF PhantomInv, TypeOK, NothingForeign
<1>2. GuardPassed' /\ GuardPassed
  BY GuardStep DEF PhantomInv
<1>3. UNCHANGED journal \/ \E r \in Row : journal' = Append(journal, r) /\ Own(r)
  <2>1. /\ \A ph \in snap, e \in {"drop", "spawn", "decay", "pin"} : RowOf(e, ph) \in Row
        /\ \A id \in Ids : RowOf("decay", [id |-> id, tag |-> Untagged]) \in Row
        /\ \A p \in Projects : OpenRow(p) \in Row
    BY RowsTyped DEF PhantomInv, TypeOK
  <2>2. CASE DropForeign
    BY <2>1, <2>2 DEF DropForeign, RowOf, Foreign
  <2>3. CASE LogSpawn
    BY <1>2, <2>1, <2>3 DEF LogSpawn, NewPhantoms, RowOf, GuardPassed, Foreign
  <2>4. CASE LogDecay
    BY <2>1, <2>4 DEF LogDecay, Departed, RowOf
  <2>5. CASE ClickPin \/ CliPin
    <3>1. PICK ph \in snap : journal' = Append(journal, RowOf("pin", ph)) /\ pc \in {"pick", "tab"}
      BY <2>5 DEF ClickPin, CliPin, EndFrame, Pin
    <3>2. RowOf("pin", ph) \in Row
      BY <2>1
    <3>3. Own(RowOf("pin", ph))
      BY <1>2, <3>1 DEF RowOf, GuardPassed, Foreign
    <3> QED BY <3>1, <3>2, <3>3
  <2>6. CASE SwitchProject
    BY <2>1, <2>6 DEF SwitchProject, OpenRow
  <2>7. CASE UNCHANGED journal
    BY <2>7
  <2> QED BY <2>2, <2>3, <2>4, <2>5, <2>6, <2>7
         DEF Next, Frame, Tick, Receive, Add, WorkerExpires, Snapshot, NoticeProject, EndDiff,
             NoClick, CliDecay, Inject, NoCommand
<1>4. \A k \in 1..Len(journal') : Own(journal'[k])
  <2>1. ASSUME NEW r \in Row, journal' = Append(journal, r), Own(r)
        PROVE  \A k \in 1..Len(journal') : Own(journal'[k])
    <3>1. /\ Len(journal') = Len(journal) + 1 /\ Len(journal) \in Nat
          /\ journal'[Len(journal) + 1] = r
          /\ \A k \in 1..Len(journal) : journal'[k] = journal[k]
      BY <1>1, <2>1, AppendProperties, LenProperties
    <3> QED BY <1>1, <2>1, <3>1
  <2> QED BY <1>1, <1>3, <2>1
<1> QED BY <1>2, <1>4 DEF NothingForeign, GuardPassed

\* A pin, and nothing else after the diff, takes an id from the tracker.
LEMMA TrackedStep ==
  ASSUME PhantomInv, [Next]_vars
  PROVE  SnapTracked'
<1> USE DEF SnapTracked, JustPinned
<1>1. SnapTracked
  BY DEF PhantomInv
<1>2. CASE UNCHANGED <<snap, seen, journal, pc>>
  BY <1>1, <1>2
<1>3. CASE pc' \notin {"pick", "tab"}
  BY <1>3
<1>4. CASE EndDiff
  BY <1>4 DEF EndDiff, NewPhantoms
<1>5. CASE NoClick
  BY <1>1, <1>5 DEF NoClick
<1>6. CASE ClickPin
  <2>1. PICK ph \in snap : Pin(ph)
    BY <1>6 DEF ClickPin
  <2>2. pc = "pick" /\ pc' = "tab" /\ snap' = snap
    BY <1>6 DEF ClickPin
  <2>3. /\ journal \in Seq(Row) /\ ph \in Phantom /\ RowOf("pin", ph) \in Row
        /\ seen \in [Ids -> 0..now \cup {Absent}] /\ \A other \in snap : other.id \in Ids
    BY RowsTyped DEF PhantomInv, TypeOK, Phantom
  <2>4. journal' = Append(journal, RowOf("pin", ph)) /\ seen' = [seen EXCEPT ![ph.id] = Absent]
    BY <2>1 DEF Pin, Untracked
  <2>5. JustPinned(ph.id)'
    <3>1. journal'[Len(journal')] = RowOf("pin", ph)
      BY <2>3, <2>4, AppendProperties
    <3> QED BY <3>1 DEF RowOf
  <2>6. \A other \in snap : other.id = ph.id \/ seen'[other.id] # Absent
    BY <1>1, <2>2, <2>3, <2>4
  <2> QED BY <2>2, <2>5, <2>6
<1> QED BY <1>2, <1>3, <1>4, <1>5, <1>6
       DEF Next, Frame, Tick, Receive, Add, WorkerExpires, Snapshot, DropForeign, NoticeProject,
           LogSpawn, LogDecay, CliPin, CliDecay, Inject, SwitchProject, NoCommand, EndFrame

------------------------------------------------------------------------------
(* The invariant and the theorems.                                         *)

LEMMA InvInit == Init => PhantomInv
<1> SUFFICES ASSUME Init PROVE PhantomInv
  OBVIOUS
<1>1. TypeOK /\ StampsPast
  BY TypeInit
<1>2. journal = <<OpenRow(project)>> /\ Len(journal) = 1 /\ journal[1] = OpenRow(project)
  BY DEF Init
<1>3. \A id \in Ids : IsLast(1, id)
  <2>1. 1 \in 1..Len(journal) /\ \A j \in 1..Len(journal) : j <= 1
    BY <1>2
  <2>2. journal[1].event = "open"
    BY <1>2 DEF OpenRow
  <2> QED BY <2>1, <2>2 DEF IsLast, History
<1>4. HistoriesEnd
  <2>1. 1 \in 1..Len(journal)
    BY <1>2
  <2> QED BY <1>3, <2>1 DEF HistoriesEnd
<1>5. \A id \in Ids : LastEvent(id) = "open"
  <2>1. journal \in Seq(Row)
    BY <1>1 DEF TypeOK
  <2>2. \A id \in Ids : LastEvent(id) = journal[1].event
    BY <1>3, <2>1, LastIs
  <2> QED BY <1>2, <2>2 DEF OpenRow
<1>6. SeenMatchesJournal
  BY <1>5 DEF SeenMatchesJournal, Init
<1>7. NothingForeign
  BY <1>2 DEF NothingForeign, OpenRow, Init
<1>8. GuardPassed /\ SnapTracked
  BY DEF GuardPassed, SnapTracked, Init
<1> QED BY <1>1, <1>4, <1>6, <1>7, <1>8 DEF PhantomInv

LEMMA InvInductive == PhantomInv /\ [Next]_vars => PhantomInv'
<1> SUFFICES ASSUME PhantomInv, [Next]_vars PROVE PhantomInv'
  OBVIOUS
<1>1. TypeOK' /\ StampsPast'
  <2>1. TypeOK /\ StampsPast
    BY DEF PhantomInv
  <2>2. CASE UNCHANGED vars
    BY <2>1, <2>2 DEF TypeOK, StampsPast
  <2> QED BY <2>1, <2>2, TypeOutside, TypeFrame DEF Next
<1>2. HistoriesEnd'
  BY HistoriesStep DEF PhantomInv
<1> QED BY <1>1, <1>2, TrackerStep, ForeignStep, GuardStep, TrackedStep DEF PhantomInv

LEMMA Invariance == Spec => []PhantomInv
<1> QED BY InvInit, InvInductive, PTL DEF Spec

\* No phantom is stamped or tracked ahead of the one clock, and buffer, snapshot and
\* event table hold what they should, in every behaviour (clock.h, telemetry_thread.cpp).
THEOREM PhantomTypeCorrect == Spec => []TypeOK
<1>1. PhantomInv => TypeOK
  BY DEF PhantomInv
<1> QED BY <1>1, Invariance, PTL

\* The spawn tracker is the open spawns of the event table, for any senders, projects
\* and switches (phantom_lifecycle.cpp, main.cpp:326-334, pin.cpp).
THEOREM TrackerIsJournal == Spec => []SeenMatchesJournal
<1>1. PhantomInv => SeenMatchesJournal
  BY DEF PhantomInv
<1> QED BY <1>1, Invariance, PTL

\* No phantom of another project is spawned, pinned or shown to the pick
\* (main.cpp:299-324).
THEOREM ForeignStaysOut == Spec => []NothingForeign
<1>1. PhantomInv => NothingForeign
  BY DEF PhantomInv
<1> QED BY <1>1, Invariance, PTL

\* A row of the event table fits the life its id has had so far: the step of
\* LivesAreAccounted.
LEMMA LivesStep ==
  ASSUME PhantomInv, [Next]_vars, NEW id \in Ids
  PROVE  /\ Logs("spawn", id) => LastEvent(id) # "spawn"
         /\ Logs("decay", id) => LastEvent(id) = "spawn"
         /\ Logs("pin", id) => LastEvent(id) = "spawn" \/ ClickedThisFrame(id)
<1>1. /\ journal \in Seq(Row) /\ Len(journal) \in Nat
      /\ \A ph \in snap : ph.id \in Ids
  BY LenProperties DEF PhantomInv, TypeOK, Phantom
<1>2. /\ \A ph \in snap, e \in {"drop", "spawn", "decay", "pin"} : RowOf(e, ph) \in Row
      /\ \A i \in Ids : RowOf("decay", [id |-> i, tag |-> Untagged]) \in Row
      /\ \A p \in Projects : OpenRow(p) \in Row
  BY RowsTyped DEF PhantomInv, TypeOK
<1>3. pc \in {"diff", "pick", "tab"} => (seen[id] # Absent <=> LastEvent(id) = "spawn")
  BY DEF PhantomInv, GuardPassed, SeenMatchesJournal
<1>4. SnapTracked
  BY DEF PhantomInv
<1>5. ASSUME NEW r \in Row, journal' = Append(journal, r), NEW e, Logs(e, id)
      PROVE  r.event = e /\ r.id = id
  BY <1>1, <1>5, AppendProperties DEF Logs
<1>6. CASE UNCHANGED journal
  BY <1>1, <1>6 DEF Logs
<1>7. CASE DropForeign
  <2>1. PICK ph \in snap : journal' = Append(journal, RowOf("drop", ph))
    BY <1>7 DEF DropForeign, Foreign
  <2> QED BY <1>2, <1>5, <2>1 DEF RowOf
<1>8. CASE LogSpawn
  <2>1. PICK ph \in snap : seen[ph.id] = Absent /\ journal' = Append(journal, RowOf("spawn", ph))
    BY <1>8 DEF LogSpawn, NewPhantoms
  <2>2. pc = "diff" /\ RowOf("spawn", ph) \in Row
    BY <1>2, <1>8 DEF LogSpawn
  <2>3. \A e : Logs(e, id) => e = "spawn" /\ ph.id = id
    BY <1>5, <2>1, <2>2 DEF RowOf
  <2> QED BY <1>3, <2>1, <2>2, <2>3
<1>9. CASE LogDecay
  <2>1. PICK gone \in Ids : /\ seen[gone] # Absent
          /\ journal' = Append(journal, RowOf("decay", [id |-> gone, tag |-> Untagged]))
    BY <1>9 DEF LogDecay, Departed
  <2>2. pc = "diff" /\ RowOf("decay", [id |-> gone, tag |-> Untagged]) \in Row
    BY <1>2, <1>9 DEF LogDecay
  <2>3. \A e : Logs(e, id) => e = "decay" /\ gone = id
    BY <1>5, <2>1, <2>2 DEF RowOf
  <2> QED BY <1>3, <2>1, <2>2, <2>3
<1>10. CASE ClickPin \/ CliPin
  <2>1. PICK ph \in snap : Pin(ph)
    BY <1>10 DEF ClickPin, CliPin
  <2>2. pc \in {"pick", "tab"} /\ RowOf("pin", ph) \in Row
    BY <1>2, <1>10 DEF ClickPin, CliPin, EndFrame
  <2>3. \A e : Logs(e, id) => e = "pin" /\ ph.id = id
    BY <1>5, <2>1, <2>2 DEF RowOf, Pin
  <2>4. seen[ph.id] # Absent \/ ClickedThisFrame(ph.id)
    BY <1>4, <2>2 DEF SnapTracked, JustPinned, ClickedThisFrame
  <2> QED BY <1>3, <2>2, <2>3, <2>4
<1>11. CASE SwitchProject
  <2>1. PICK p \in Projects : journal' = Append(journal, OpenRow(p))
    BY <1>11 DEF SwitchProject
  <2>2. \A e : Logs(e, id) => e = "open"
    BY <1>2, <1>5, <2>1 DEF OpenRow
  <2> QED BY <2>2
<1> QED BY <1>6, <1>7, <1>8, <1>9, <1>10, <1>11
       DEF Next, Frame, Tick, Receive, Add, WorkerExpires, Snapshot, NoticeProject, EndDiff,
           NoClick, CliDecay, Inject, NoCommand

\* Every life of a phantom id is logged once and ends once, however receiver, worker,
\* frame, operator and switches interleave (phantom_lifecycle.h:11-38, main.cpp:326-334).
THEOREM LivesAccounted == Spec => LivesAreAccounted
<1>1. PhantomInv /\ [Next]_vars =>
        [\A id \in Ids :
           /\ Logs("spawn", id) => LastEvent(id) # "spawn"
           /\ Logs("decay", id) => LastEvent(id) = "spawn"
           /\ Logs("pin", id) => LastEvent(id) = "spawn" \/ ClickedThisFrame(id)]_journal
  BY LivesStep
<1> QED BY <1>1, Invariance, PTL DEF Spec, LivesAreAccounted
===============================================================================

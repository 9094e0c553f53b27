--------------------------- MODULE PhantomLifecycle ---------------------------
(***************************************************************************)
(* The life of a phantom, from the datagram to the event table: the        *)
(* telemetry thread that receives it, the PhantomBuffer it is shared       *)
(* through, the two threads that expire it, and the steps of the render    *)
(* frame that read it: snapshot, cross-project guard, lifecycle diff, pick *)
(* and the tab on show (main.cpp:265-462).                                 *)
(*                                                                         *)
(* buffer is a set: phantoms alike in id, tag and spawn time expire and    *)
(* are removed together, so how many there are makes no difference.  The   *)
(* vector's order decides only which of several phantoms with one id gives *)
(* the spawn tracker its time; here that is any of them.                   *)
(***************************************************************************)
EXTENDS Naturals, Sequences

CONSTANTS
  Ids,           \* Phantom::id of the senders and the local injectors
  Projects,      \* project names
  Untagged,      \* Phantom::project of a sender that does not tag
  Absent,        \* no entry in seen_phantom_spawn; no phantom in flight
  Ttl,           \* kPhantomTtl and SimParams::phantom_ttl
  MaxTime,       \* bound on the clock
  MaxSent,       \* bound on the phantoms received and injected
  MaxDismissals, \* bound on the operator's /decay commands
  MaxSwitches    \* bound on project switches

ASSUME TimesAssumption == Ttl \in Nat /\ MaxTime \in Nat
ASSUME BoundsAssumption == MaxSent \in Nat /\ MaxDismissals \in Nat /\ MaxSwitches \in Nat
ASSUME MarksAssumption == Untagged \notin Projects /\ Absent \notin Nat

VARIABLES
  now,        \* mono_now()
  inflight,   \* a phantom parsed and stamped, not yet added
  buffer,     \* PhantomBuffer::phantoms_
  snap,       \* main's phantoms: the frame's snapshot
  seen,       \* main's seen_phantom_spawn
  tracker,    \* main's tracker_project
  project,    \* Session::current_project
  pc,         \* where the frame is
  journal,    \* the rows written to the databases, in order
  sent, dismissals, switches  \* what the bounds count

countVars == <<sent, dismissals, switches>>
vars == <<now, inflight, buffer, snap, seen, tracker, project, pc, journal, countVars>>

Phantom == [id : Ids, tag : Projects \cup {Untagged}, born : 0..MaxTime]
\* A row of the events table, but for its payload, or the meta row that open_project
\* writes.
Row == [event : {"open", "drop", "spawn", "decay", "pin"}, db : Projects,
        id : Ids \cup {Absent}, tag : Projects \cup {Untagged}]

\* Receiver, renderer and worker read one clock: nothing is stamped, or tracked,
\* ahead of it, or it would not expire in its time (telemetry_thread.cpp, clock.h).
TypeOK ==
  /\ now \in 0..MaxTime
  /\ inflight \in Phantom \cup {Absent}
  /\ buffer \subseteq Phantom /\ snap \subseteq Phantom
  /\ \A ph \in buffer \cup snap : ph.born <= now
  /\ seen \in [Ids -> 0..now \cup {Absent}]
  /\ tracker \in Projects \cup {Untagged} /\ project \in Projects
  /\ pc \in {"snapshot", "guard", "diff", "pick", "tab"}
  /\ journal \in Seq(Row)
  /\ sent \in 0..MaxSent /\ dismissals \in 0..MaxDismissals
  /\ switches \in 0..MaxSwitches

OpenRow(p) == [event |-> "open", db |-> p, id |-> Absent, tag |-> Untagged]
RowOf(e, ph) == [event |-> e, db |-> project, id |-> ph.id, tag |-> ph.tag]

NoneSeen == [id \in Ids |-> Absent]

\* The first project is open and its first frame begins; tracker_project is empty.
Init ==
  /\ now = 0 /\ inflight = Absent
  /\ buffer = {} /\ snap = {}
  /\ seen = NoneSeen /\ tracker = Untagged
  /\ project \in Projects
  /\ pc = "snapshot"
  /\ journal = <<OpenRow(project)>>
  /\ sent = 0 /\ dismissals = 0 /\ switches = 0

\* PhantomBuffer: what snapshot_and_expire keeps, and what remove(id) keeps.
NeverExpires(b) == b                                  \* mutant: no expiry
Alive(b) == {ph \in b : now - ph.born <= Ttl}
Without(b, id) == {ph \in b : ph.id # id}

------------------------------------------------------------------------------
(* Time, the telemetry thread and the layout worker.                       *)

Tick ==
  /\ now < MaxTime
  /\ now' = now + 1
  /\ UNCHANGED <<inflight, buffer, snap, seen, tracker, project, pc, journal, countVars>>

\* A sender may repeat an id, and tag any project or none.  What arrives
\* within the clock's bound also expires within it.
CanArrive == sent < MaxSent /\ now + Ttl < MaxTime

StampAhead == now + Ttl                               \* mutant: another clock
Stamp == now

\* A datagram that parses is stamped on arrival ...
Receive ==
  /\ inflight = Absent /\ CanArrive
  /\ \E id \in Ids, t \in Projects \cup {Untagged} :
       inflight' = [id |-> id, tag |-> t, born |-> Stamp]
  /\ sent' = sent + 1
  /\ UNCHANGED <<now, buffer, snap, seen, tracker, project, pc, journal, dismissals, switches>>

\* ... and added under the buffer's mutex some time later.
Add ==
  /\ inflight # Absent
  /\ buffer' = buffer \cup {inflight}
  /\ inflight' = Absent
  /\ UNCHANGED <<now, snap, seen, tracker, project, pc, journal, countVars>>

\* The worker's own snapshot_and_expire, between any two steps of a frame.
WorkerExpires ==
  /\ buffer' = Alive(buffer)
  /\ UNCHANGED <<now, inflight, snap, seen, tracker, project, pc, journal, countVars>>

------------------------------------------------------------------------------
(* The render frame.                                                       *)

Snapshot ==
  /\ pc = "snapshot"
  /\ buffer' = Alive(buffer) /\ snap' = Alive(buffer)
  /\ pc' = "guard"
  /\ UNCHANGED <<now, inflight, seen, tracker, project, journal, countVars>>

NoneForeign == {}                                     \* mutant: no guard
Foreign == {ph \in snap : ph.tag \notin {project, Untagged}}

\* The cross-project guard: one row, one remove by id and one erase for each.
DropForeign ==
  /\ pc = "guard"
  /\ \E ph \in Foreign :
       /\ journal' = Append(journal, RowOf("drop", ph))
       /\ buffer' = Without(buffer, ph.id)
       /\ snap' = snap \ {ph}
  /\ UNCHANGED <<now, inflight, seen, tracker, project, pc, countVars>>

TrackerKept == seen                                   \* mutant: no reset on a switch
TrackerNow == IF tracker = project THEN seen ELSE NoneSeen

\* A switch since the last frame empties the tracker and logs nothing.
NoticeProject ==
  /\ pc = "guard" /\ Foreign = {}
  /\ seen' = TrackerNow
  /\ tracker' = project
  /\ pc' = "diff"
  /\ UNCHANGED <<now, inflight, buffer, snap, project, journal, countVars>>

\* phantom_lifecycle_diff and the rows main writes for it: a spawn for each new
\* id, then a decay for each id that has gone.
NewPhantoms == {ph \in snap : seen[ph.id] = Absent}
Departed == {id \in Ids : seen[id] # Absent /\ \A ph \in snap : ph.id # id}

LogSpawn ==
  /\ pc = "diff"
  /\ \E ph \in NewPhantoms :
       /\ seen' = [seen EXCEPT ![ph.id] = ph.born]
       /\ journal' = Append(journal, RowOf("spawn", ph))
  /\ UNCHANGED <<now, inflight, buffer, snap, tracker, project, pc, countVars>>

LogDecay ==
  /\ pc = "diff" /\ NewPhantoms = {}
  /\ \E id \in Departed :
       /\ seen' = [seen EXCEPT ![id] = Absent]
       /\ journal' = Append(journal, RowOf("decay", [id |-> id, tag |-> Untagged]))
  /\ UNCHANGED <<now, inflight, buffer, snap, tracker, project, pc, countVars>>

EndDiff ==
  /\ pc = "diff" /\ NewPhantoms = {} /\ Departed = {}
  /\ pc' = "pick"
  /\ UNCHANGED <<now, inflight, buffer, snap, seen, tracker, project, journal, countVars>>

StillTracked(id) == seen                              \* mutant: the pin forgets the tracker
Untracked(id) == [seen EXCEPT ![id] = Absent]

\* pin_phantom.  The snapshot keeps the phantom until the next frame.
Pin(ph) ==
  /\ buffer' = Without(buffer, ph.id)
  /\ seen' = Untracked(ph.id)
  /\ journal' = Append(journal, RowOf("pin", ph))

\* handle_pick: a click promotes the phantom it hits.
ClickPin ==
  /\ pc = "pick"
  /\ \E ph \in snap : Pin(ph)
  /\ pc' = "tab"
  /\ UNCHANGED <<now, inflight, snap, tracker, project, countVars>>

NoClick ==
  /\ pc = "pick"
  /\ pc' = "tab"
  /\ UNCHANGED <<now, inflight, buffer, snap, seen, tracker, project, journal, countVars>>

\* The tab on show runs last: at most one of the CLI's phantom commands, the
\* toolbar's injector or a project switch.
EndFrame == pc = "tab" /\ pc' = "snapshot"

CliPin ==
  /\ EndFrame
  /\ \E ph \in snap : Pin(ph)
  /\ UNCHANGED <<now, inflight, snap, tracker, project, countVars>>

\* /decay <id> names a phantom of the snapshot; /decay all empties the buffer.
CliDecay ==
  /\ EndFrame /\ dismissals < MaxDismissals
  /\ \/ \E ph \in snap : buffer' = Without(buffer, ph.id)
     \/ buffer' = {}
  /\ dismissals' = dismissals + 1
  /\ UNCHANGED <<now, inflight, snap, seen, tracker, project, journal, sent, switches>>

\* /phantom tags the active project, the toolbar's injector tags nothing.
Inject ==
  /\ EndFrame /\ CanArrive
  /\ \E id \in Ids, t \in {project, Untagged} :
       buffer' = buffer \cup {[id |-> id, tag |-> t, born |-> Stamp]}
  /\ sent' = sent + 1
  /\ UNCHANGED <<now, inflight, snap, seen, tracker, project, journal, dismissals, switches>>

\* open_project: the buffer is cleared, the other database opened.
SwitchProject ==
  /\ EndFrame /\ switches < MaxSwitches
  /\ \E p \in Projects \ {project} :
       project' = p /\ journal' = Append(journal, OpenRow(p))
  /\ buffer' = {}
  /\ switches' = switches + 1
  /\ UNCHANGED <<now, inflight, snap, seen, tracker, sent, dismissals>>

NoCommand ==
  /\ EndFrame
  /\ UNCHANGED <<now, inflight, buffer, snap, seen, tracker, project, journal, countVars>>

Frame == \/ Snapshot \/ DropForeign \/ NoticeProject \/ LogSpawn \/ LogDecay \/ EndDiff
         \/ ClickPin \/ NoClick \/ CliPin \/ CliDecay \/ Inject \/ SwitchProject
         \/ NoCommand

Next == Tick \/ Receive \/ Add \/ WorkerExpires \/ Frame

Spec == Init /\ [][Next]_vars

\* Frames follow one another, time passes, the telemetry thread is scheduled.
\* Senders and the operator need do nothing.
FairSpec == Spec /\ WF_vars(Frame) /\ WF_vars(Tick) /\ WF_vars(Add)

------------------------------------------------------------------------------
(* Properties.                                                             *)

\* The events an id has had since its project was last opened.
History(id) == {k \in 1..Len(journal) :
                  \/ journal[k].event = "open"
                  \/ journal[k].id = id /\ journal[k].event # "drop"}
LastEvent(id) == journal[CHOOSE k \in History(id) : \A j \in History(id) : j <= k].event

\* The tracker is the open spawns of the event table: it holds exactly the ids
\* whose last event, since the project was opened, is a phantom_spawn.
SeenMatchesJournal ==
  \A id \in Ids :
    IF tracker = project THEN seen[id] # Absent <=> LastEvent(id) = "spawn"
                         ELSE LastEvent(id) = "open"

Logs(e, id) == /\ Len(journal') > Len(journal)
               /\ journal'[Len(journal')].event = e /\ journal'[Len(journal')].id = id

\* The click and the command of one frame may pin the same phantom twice.
ClickedThisFrame(id) ==
  pc = "tab" /\ LET last == journal[Len(journal)] IN last.event = "pin" /\ last.id = id

\* Every life of a phantom id is logged once and ends once: no second spawn while
\* it lives, no decay of an id that was pinned or never spawned, no decay logged
\* into a project it did not spawn in, and no pin of what was never spawned
\* (phantom_lifecycle.h:11-38, main.cpp:326-334).
LivesAreAccounted ==
  [][\A id \in Ids :
       /\ Logs("spawn", id) => LastEvent(id) # "spawn"
       /\ Logs("decay", id) => LastEvent(id) = "spawn"
       /\ Logs("pin", id) => LastEvent(id) = "spawn" \/ ClickedThisFrame(id)
    ]_journal

\* A phantom tagged for another project is never spawned, pinned or shown to the
\* pick, whenever the operator switches (main.cpp:299-305).
NothingForeign ==
  /\ \A k \in 1..Len(journal) :
       journal[k].event \in {"spawn", "pin"} => journal[k].tag \in {Untagged, journal[k].db}
  /\ pc \in {"pick", "tab"} => Foreign = {}

\* Once its sender is quiet, a phantom leaves: it is pinned, dismissed, expired
\* or left behind by a switch.
PhantomsLeave == \A id \in Ids : seen[id] # Absent ~> seen[id] = Absent

==============================================================================

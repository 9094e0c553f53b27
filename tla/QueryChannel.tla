----------------------------- MODULE QueryChannel -----------------------------
(***************************************************************************)
(* The read query channel: the socket thread with its inbox and outbox,    *)
(* the render frame that drains and answers, the token gate, rebinding to  *)
(* another port, and the clients, which send one datagram and wait for one *)
(* reply (query_thread.cpp, query_protocol.cpp, query_responder.cpp,       *)
(* main.cpp:155-161 and 240-292).                                          *)
(*                                                                         *)
(* What a reply carries is the project it is read from and the ids of its  *)
(* nodes.  Which relatives personalised PageRank ranks first, and which    *)
(* nodes full-text search hits, is any choice among the live ones.         *)
(***************************************************************************)
EXTENDS Naturals, SequencesExt

CONSTANTS
  Clients,      \* sockets on ephemeral ports, one call each
  Projects,     \* project names
  Home,         \* the project .last names at launch
  Nodes,        \* ids of nodes but the self node, the same in every project
  NoNode,       \* an id that is out of range
  Ports,        \* UDP ports
  DefaultPort,  \* query_port of the settings at launch, and the scripts'
  Unbound,      \* the socket is not bound
  Token,        \* the session's token
  NoToken,      \* any other, or none
  NoReply,      \* no reply in the client's hands
  MaxInbox,     \* kMaxInbox
  MaxMoves,     \* bound on /set qport
  MaxSwitches,  \* bound on project switches
  MaxDeletes    \* bound on the deleted nodes of a project

ASSUME PortsAssumption == DefaultPort \in Ports /\ Unbound \notin Ports
ASSUME HomeAssumption == Home \in Projects
ASSUME NoNodeAssumption == NoNode \notin Nodes
ASSUME TokenAssumption == Token # NoToken
ASSUME InboxAssumption == MaxInbox \in Nat
ASSUME ChangesAssumption == MaxMoves \in Nat /\ MaxSwitches \in Nat /\ MaxDeletes \in Nat

VARIABLES
  thread,   \* where QueryThread::run is
  running,  \* running_
  socket,   \* the port sock is bound to; listening_ is socket # Unbound
  port,     \* settings.query_port
  kernel,   \* datagrams received by the socket, not yet by the thread
  inbox,    \* inbox_
  outbox,   \* outbox_
  batch,    \* what the frame drained and has not yet answered
  frame,    \* where the render thread is
  project,  \* Session::current_project
  dead,     \* the tombstones of each project, in memory and in its file
  call,     \* each client's call
  sent,     \* the token each waiting client sent
  mail,     \* the reply each waiting client's socket holds
  moves, switches  \* what the bounds count

threadVars == <<thread, socket, kernel>>
queueVars == <<inbox, outbox, batch>>
graphVars == <<project, dead, switches>>
clientVars == <<call, sent, mail>>
channelVars == <<threadVars, running, port, queueVars, frame, graphVars, clientVars, moves>>

Kinds == {"Invalid", "Neighborhood", "Search", "Node"}
Datagram(c) ==
  {d \in [from : {c}, kind : Kinds, token : {Token, NoToken}, id : Nodes \cup {NoNode}] :
     d.kind \in {"Invalid", "Search"} => d.id = NoNode}
Datagrams == UNION {Datagram(c) : c \in Clients}
Reply(c) == [to : {c}, graph : Projects, ok : BOOLEAN, nodes : SUBSET Nodes]
Replies == UNION {Reply(c) : c \in Clients}

TypeOK ==
  /\ thread \in {"binding", "loop", "poll", "gone"}
  /\ running \in BOOLEAN
  /\ socket \in Ports \cup {Unbound} /\ port \in Ports
  /\ kernel \in Seq(Datagrams) /\ batch \in Seq(Datagrams)
  /\ inbox \in Seq(Datagrams) /\ Len(inbox) <= MaxInbox
  /\ outbox \in Seq(Replies)
  /\ frame \in {"drain", "answer", "tab", "rebind", "asking", "closing", "leaving", "closed"}
  /\ project \in Projects /\ dead \in [Projects -> SUBSET Nodes]
  /\ call \in [Clients -> {"idle", "waiting", "over"}]
  /\ sent \in [Clients -> {Token, NoToken, NoReply}]
  /\ mail \in [Clients -> Replies \cup {NoReply}]
  /\ moves \in 0..MaxMoves /\ switches \in 0..MaxSwitches

\* The first project is open, the thread is started and has not bound yet.
Init ==
  /\ thread = "binding" /\ running = TRUE
  /\ socket = Unbound /\ port = DefaultPort /\ kernel = <<>>
  /\ inbox = <<>> /\ outbox = <<>> /\ batch = <<>>
  /\ frame = "drain"
  /\ project = Home /\ dead = [p \in Projects |-> {}]
  /\ call = [c \in Clients |-> "idle"]
  /\ sent = [c \in Clients |-> NoReply] /\ mail = [c \in Clients |-> NoReply]
  /\ moves = 0 /\ switches = 0

------------------------------------------------------------------------------
(* The socket thread.                                                      *)

\* The bind may find the port taken; the thread then ends and says nothing.
Bind ==
  /\ thread = "binding"
  /\ \/ thread' = "loop" /\ socket' = port
     \/ thread' = "gone" /\ UNCHANGED socket
  /\ UNCHANGED <<kernel, running, port, queueVars, frame, graphVars, clientVars, moves>>

\* A datagram to a client that has closed its socket is gone.
Delivered(c) == IF call[c] = "waiting" /\ \E r \in ToSet(outbox) : r.to = c
                THEN CHOOSE r \in ToSet(outbox) : r.to = c
                ELSE mail[c]

LoopForever == TRUE                                   \* mutant: running_ not read
LoopGoesOn == running

\* The outbox is swapped out under its mutex and sent.
Flush ==
  /\ thread = "loop" /\ LoopGoesOn
  /\ mail' = [c \in Clients |-> Delivered(c)]
  /\ outbox' = <<>>
  /\ thread' = "poll"
  /\ UNCHANGED <<running, socket, port, kernel, inbox, batch, frame, graphVars, call, sent, moves>>

\* parse_query: what it finds invalid it returns in a new request, which has no
\* token.
Parsed(d) == IF d.kind = "Invalid" THEN [d EXCEPT !.token = NoToken] ELSE d

RoomForOneMore == Len(inbox) <= MaxInbox              \* mutant: off by one
HasRoom == Len(inbox) < MaxInbox

\* One datagram is received, parsed and pushed; a full inbox drops it.
Receive ==
  /\ thread = "poll" /\ kernel # <<>>
  /\ kernel' = Tail(kernel)
  /\ inbox' = IF HasRoom THEN Append(inbox, Parsed(Head(kernel))) ELSE inbox
  /\ thread' = "loop"
  /\ UNCHANGED <<running, socket, port, outbox, batch, frame, graphVars, clientVars, moves>>

\* 100 ms pass without a datagram.
PollTimesOut ==
  /\ thread = "poll" /\ kernel = <<>>
  /\ thread' = "loop"
  /\ UNCHANGED <<running, socket, port, kernel, queueVars, frame, graphVars, clientVars, moves>>

\* What the outbox holds by now is not sent.
ExitLoop ==
  /\ thread = "loop" /\ ~LoopGoesOn
  /\ thread' = "gone" /\ socket' = Unbound /\ kernel' = <<>>
  /\ UNCHANGED <<running, port, queueVars, frame, graphVars, clientVars, moves>>

SocketThread == Bind \/ Flush \/ Receive \/ PollTimesOut \/ ExitLoop

------------------------------------------------------------------------------
(* answer_query.                                                           *)

AnyInRange == Nodes                                   \* mutant: tombstones not filtered
Live == Nodes \ dead[project]

AnyToken(d) == TRUE                                   \* mutant: no gate
Authentic(d) == d.token = Token

Error(d) == [to |-> d.from, graph |-> project, ok |-> FALSE, nodes |-> {}]
Found(d, S) == [to |-> d.from, graph |-> project, ok |-> TRUE, nodes |-> S]

\* The nodes a request may be answered with: a node itself, the anchor and any of
\* the live nodes related to it, any live hits.
Hits(d) == CASE d.kind = "Node" -> {{d.id}}
             [] d.kind = "Neighborhood" -> {S \cup {d.id} : S \in SUBSET Live}
             [] d.kind = "Search" -> SUBSET Live
             [] d.kind = "Invalid" -> {}
Diagnosed(d) == d.kind = "Invalid" \/ (d.kind # "Search" /\ d.id \notin Live)

ResponsesTo(d) == IF Diagnosed(d) THEN {Error(d)} ELSE {Found(d, S) : S \in Hits(d)}

------------------------------------------------------------------------------
(* The render frame.                                                       *)

LeftInInbox == inbox                                  \* mutant: copied, not swapped
AfterDrain == <<>>

Drain ==
  /\ frame = "drain"
  /\ batch' = inbox /\ inbox' = AfterDrain
  /\ frame' = "answer"
  /\ UNCHANGED <<threadVars, running, port, outbox, graphVars, clientVars, moves>>

RestAfterBreak == IF Authentic(Head(batch)) THEN Tail(batch) ELSE <<>>
                                                      \* mutant: break for continue
RestOfBatch == Tail(batch)

\* The requests of the batch in turn, each reply pushed under the outbox's mutex.
Answer ==
  /\ frame = "answer" /\ batch # <<>>
  /\ LET d == Head(batch) IN
       IF Authentic(d) THEN \E r \in ResponsesTo(d) : outbox' = Append(outbox, r)
                       ELSE UNCHANGED outbox
  /\ batch' = RestOfBatch
  /\ UNCHANGED <<threadVars, running, port, inbox, frame, graphVars, clientVars, moves>>

EndAnswers ==
  /\ frame = "answer" /\ batch = <<>>
  /\ frame' = "tab"
  /\ UNCHANGED <<threadVars, running, port, queueVars, graphVars, clientVars, moves>>

\* The tab on show comes last: nothing, or one of the operator's commands.
NoCommand ==
  /\ frame = "tab"
  /\ frame' = "drain"
  /\ UNCHANGED <<threadVars, running, port, queueVars, graphVars, clientVars, moves>>

DeleteNode ==
  /\ frame = "tab"
  /\ Cardinality(dead[project]) < MaxDeletes
  /\ \E n \in Live : dead' = [dead EXCEPT ![project] = @ \cup {n}]
  /\ frame' = "drain"
  /\ UNCHANGED <<threadVars, running, port, queueVars, project, switches, clientVars, moves>>

\* open_project.  The token stays, and is written beside the file it opens.
SwitchProject ==
  /\ frame = "tab" /\ switches < MaxSwitches
  /\ \E p \in Projects \ {project} : project' = p
  /\ switches' = switches + 1
  /\ frame' = "drain"
  /\ UNCHANGED <<threadVars, running, port, queueVars, dead, clientVars, moves>>

\* /set qport: stop() asks the old thread to end and joins it, ...
MoveChannel ==
  /\ frame = "tab" /\ moves < MaxMoves
  /\ \E p \in Ports : port' = p
  /\ running' = FALSE
  /\ moves' = moves + 1
  /\ frame' = "rebind"
  /\ UNCHANGED <<threadVars, queueVars, graphVars, clientVars>>

\* ... and a new QueryThread, with queues of its own, replaces it.
StartNewThread ==
  /\ frame = "rebind" /\ thread = "gone"
  /\ thread' = "binding" /\ running' = TRUE
  /\ inbox' = <<>> /\ outbox' = <<>>
  /\ frame' = "drain"
  /\ UNCHANGED <<socket, kernel, port, batch, graphVars, clientVars, moves>>

\* The loop ends and the channel is stopped; what follows may only join.
Quit ==
  /\ frame = "tab"
  /\ running' = FALSE
  /\ frame' = "closing"
  /\ UNCHANGED <<threadVars, port, queueVars, graphVars, clientVars, moves>>

JoinChannel ==
  /\ frame = "closing" /\ thread = "gone"
  /\ frame' = "leaving"
  /\ UNCHANGED <<threadVars, running, port, queueVars, graphVars, clientVars, moves>>

RenderThread == \/ Drain \/ Answer \/ EndAnswers \/ NoCommand \/ DeleteNode \/ SwitchProject
                \/ MoveChannel \/ StartNewThread \/ Quit \/ JoinChannel

------------------------------------------------------------------------------
(* A client: query_neighborhood of the bridge, or any tool that sends a        *)
(* datagram and waits.                                                         *)

\* Loopback: the datagram reaches the socket bound to its port, if there is one.
Send(c, d, dest) ==
  /\ call[c] = "idle"
  /\ call' = [call EXCEPT ![c] = "waiting"]
  /\ sent' = [sent EXCEPT ![c] = d.token]
  /\ kernel' = IF socket = dest THEN Append(kernel, d) ELSE kernel
  /\ UNCHANGED mail

\* The socket is closed.
HangUp(c) ==
  /\ call' = [call EXCEPT ![c] = "over"]
  /\ sent' = [sent EXCEPT ![c] = NoReply] /\ mail' = [mail EXCEPT ![c] = NoReply]
  /\ UNCHANGED kernel

TakeReply(c) ==
  /\ mail[c] # NoReply
  /\ HangUp(c)

\* The client's timeout; it does not ask again.
GiveUp(c) ==
  /\ call[c] = "waiting" /\ mail[c] = NoReply
  /\ HangUp(c)

UnchangedByClients == UNCHANGED <<thread, running, socket, port, queueVars, frame, graphVars, moves>>

\* An external tool asks at the port of the settings, with the token or without.
Tool(c) ==
  /\ \/ \E d \in Datagram(c) : Send(c, d, port)
     \/ TakeReply(c)
     \/ GiveUp(c)
  /\ UnchangedByClients

Next == SocketThread \/ RenderThread \/ \E c \in Clients : Tool(c)

Spec == Init /\ [][Next]_channelVars

------------------------------------------------------------------------------
(* Properties.                                                             *)

From(queue, c) == {k \in DOMAIN queue : queue[k].from = c}
To(queue, c) == {k \in DOMAIN queue : queue[k].to = c}

\* Two threads on each queue, the swaps and the rebinding never double a request:
\* it waits in one place, or its one reply does, or it is gone, so that no call has
\* two answers (query_thread.cpp:66-76 and 113-156, main.cpp:285-291).
OneCopy ==
  \A c \in Clients :
    Cardinality(From(kernel, c)) + Cardinality(From(inbox, c)) + Cardinality(From(batch, c))
      + Cardinality(To(outbox, c)) + (IF mail[c] = NoReply THEN 0 ELSE 1) <= 1

\* A request with the token that the inbox took is replied to, and the client that
\* still waits then has the reply in hand, unless the channel is stopped first: a
\* batch is not cut short by a request that is refused, and no reply is left behind
\* between two flushes (query_thread.cpp:114-128 and 154-156, main.cpp:285-291).
AcceptedIsAnswered ==
  \A c \in Clients :
    /\ (\E k \in From(inbox, c) : Authentic(inbox[k])) ~> To(outbox, c) # {} \/ ~running
    /\ To(outbox, c) # {} ~> mail[c] # NoReply \/ call[c] = "over" \/ ~running

\* The channel keeps the promise of ReadService.  A call is asked while a request
\* with the token, or the one with which it came, is on its way to answer_query.
OnItsWay(c) ==
  \E queue \in {kernel, inbox, batch} :
    \E k \in From(queue, c) : Parsed(queue[k]).token = Token
ReplyTo(c) == IF To(outbox, c) # {} THEN outbox[CHOOSE k \in To(outbox, c) : TRUE] ELSE mail[c]

RS == INSTANCE ReadService WITH
  call <- [c \in Clients |-> IF call[c] = "idle" THEN "idle"
                             ELSE IF OnItsWay(c) THEN "asked" ELSE "spent"],
  reply <- [c \in Clients |-> ReplyTo(c)]

ImplementsReadService == RS!Spec
===============================================================================

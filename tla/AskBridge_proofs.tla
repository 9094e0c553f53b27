--------------------------- MODULE AskBridge_proofs ---------------------------
(***************************************************************************)
(* Proofs about AskBridge and the channel under it, for any clients,       *)
(* projects, nodes, ports and limits: the types with the limit of the      *)
(* inbox, that a click never waits for a subprocess, and that no prompt    *)
(* holds what was deleted before the ask; that no request is doubled; and  *)
(* that the channel implements ReadService.                                *)
(*                                                                         *)
(* AskInv is inductive.  What makes a prompt clean is that nothing of a    *)
(* client is in the channel before its call (IdleUnseen), so whatever is   *)
(* there for the script was answered after the ask began, from tombstones  *)
(* that have only grown since (JobKept, AnswersClean).                     *)
(*                                                                         *)
(* OneCopy: a step moves the one datagram or reply of a call from one      *)
(* place to the next, or drops it, and only a client's one call makes a    *)
(* new one, when nothing of it is in the channel (IdleUnseen of AskInv).   *)
(*                                                                         *)
(* The refinement: answer_query's step is the abstract Answer, a command   *)
(* of the operator an Edit, a client's datagram a Call; every other step   *)
(* moves what there is of a call, or loses it, which is a Lapse.           *)
(***************************************************************************)
EXTENDS AskBridge, SequenceTheorems, FiniteSetTheorems, TLAPS

USE PortsAssumption, HomeAssumption, InboxAssumption, ChangesAssumption, ScriptsAssumption, TokenAssumption
USE DEF vars, channelVars, threadVars, queueVars, graphVars, clientVars, askVars,
        UnchangedByClients, HangUp

\* The first state is typed.
LEMMA InitTyped == AskInit => AskTypeOK
<1> SUFFICES ASSUME AskInit PROVE AskTypeOK
  OBVIOUS
<1>1. TypeOK
  BY DEF AskInit, Init, TypeOK
<1>2. QED
  BY <1>1 DEF AskInit, AskTypeOK

\* The data of the requests and replies.
LEMMA DatagramShape ==
  ASSUME NEW d \in Datagrams
  PROVE  /\ d.from \in Clients /\ d.kind \in Kinds /\ d.token \in {Token, NoToken}
         /\ d.id \in Nodes \cup {NoNode}
         /\ Parsed(d) \in Datagrams
<1>1. PICK c \in Clients : d \in Datagram(c)
  BY DEF Datagrams
<1>2. d \in [from : {c}, kind : Kinds, token : {Token, NoToken}, id : Nodes \cup {NoNode}]
  BY <1>1 DEF Datagram
<1>3. Parsed(d) \in Datagram(c)
  BY <1>1, <1>2 DEF Parsed, Datagram
<1> QED BY <1>2, <1>3 DEF Datagrams

\* The fields of a reply.
LEMMA ReplyShape ==
  ASSUME NEW r \in Replies
  PROVE  r.to \in Clients /\ r.graph \in Projects /\ r.ok \in BOOLEAN /\ r.nodes \subseteq Nodes
<1>1. PICK c \in Clients : r \in Reply(c)
  BY DEF Replies
<1> QED BY <1>1 DEF Reply

\* A response goes to whoever asked and shows the project that is open, without its
\* tombstones.
LEMMA ResponsesTyped ==
  ASSUME TypeOK, NEW d \in Datagrams, NEW r \in ResponsesTo(d)
  PROVE  /\ r \in Replies /\ r.to = d.from /\ r.graph = project
         /\ r.nodes \subseteq Live
<1>1. d.from \in Clients /\ d.kind \in Kinds /\ d.id \in Nodes \cup {NoNode}
  BY DatagramShape
<1>2. CASE Diagnosed(d)
  <2>1. r = [to |-> d.from, graph |-> project, ok |-> FALSE, nodes |-> {}]
    BY <1>2 DEF ResponsesTo, Error
  <2>2. r \in Reply(d.from)
    BY <1>1, <2>1 DEF Reply, TypeOK
  <2> QED BY <1>1, <2>1, <2>2 DEF Replies
<1>3. CASE ~Diagnosed(d)
  <2>1. PICK S \in Hits(d) : r = [to |-> d.from, graph |-> project, ok |-> TRUE, nodes |-> S]
    BY <1>3 DEF ResponsesTo, Found
  <2>2. S \subseteq Live
    BY <1>1, <1>3, <2>1 DEF Hits, Kinds, Diagnosed
  <2>3. r \in Reply(d.from)
    BY <1>1, <2>1, <2>2 DEF Reply, TypeOK, Live
  <2> QED BY <1>1, <2>1, <2>2, <2>3 DEF Replies
<1> QED BY <1>2, <1>3

\* What a client newly has in hand came from the outbox.
LEMMA DeliveredTyped ==
  ASSUME TypeOK, NEW c \in Clients
  PROVE  /\ Delivered(c) \in Replies \cup {NoReply}
         /\ Delivered(c) # mail[c] =>
              /\ call[c] = "waiting"
              /\ \E k \in DOMAIN outbox : outbox[k] = Delivered(c) /\ outbox[k].to = c
<1>1. CASE call[c] = "waiting" /\ \E r \in ToSet(outbox) : r.to = c
  <2>1. Delivered(c) \in ToSet(outbox) /\ Delivered(c).to = c
    BY <1>1 DEF Delivered
  <2>2. PICK k \in DOMAIN outbox : outbox[k] = Delivered(c)
    BY <2>1 DEF ToSet
  <2>3. outbox[k] \in Replies
    BY ElementOfSeq DEF TypeOK
  <2> QED BY <1>1, <2>1, <2>2, <2>3
<1>2. CASE ~(call[c] = "waiting" /\ \E r \in ToSet(outbox) : r.to = c)
  BY <1>2 DEF Delivered, TypeOK
<1> QED BY <1>1, <1>2

\* Every step keeps the types; with them the bound of the inbox.
LEMMA SocketThreadTyped == TypeOK /\ SocketThread => TypeOK'
<1> SUFFICES ASSUME TypeOK, SocketThread PROVE TypeOK'
  OBVIOUS
<1>1. CASE Bind
  BY <1>1 DEF Bind, TypeOK
<1>2. CASE Flush
  <2>1. mail' \in [Clients -> Replies \cup {NoReply}]
    BY <1>2, DeliveredTyped DEF Flush
  <2> QED BY <1>2, <2>1 DEF Flush, TypeOK
<1>3. CASE Receive
  <2>1. Head(kernel) \in Datagrams /\ Tail(kernel) \in Seq(Datagrams)
    BY <1>3 DEF Receive, TypeOK
  <2>2. Parsed(Head(kernel)) \in Datagrams
    BY <2>1, DatagramShape
  <2>3. inbox' \in Seq(Datagrams) /\ Len(inbox') <= MaxInbox
    BY <1>3, <2>2 DEF Receive, TypeOK, HasRoom
  <2> QED BY <1>3, <2>1, <2>3 DEF Receive, TypeOK
<1>4. CASE PollTimesOut
  BY <1>4 DEF PollTimesOut, TypeOK
<1>5. CASE ExitLoop
  BY <1>5 DEF ExitLoop, TypeOK
<1> QED BY <1>1, <1>2, <1>3, <1>4, <1>5 DEF SocketThread

\* The frame's steps keep the types.
LEMMA RenderThreadTyped == TypeOK /\ RenderThread => TypeOK'
<1> SUFFICES ASSUME TypeOK, RenderThread PROVE TypeOK'
  OBVIOUS
<1>1. CASE Drain
  BY <1>1 DEF Drain, TypeOK, AfterDrain
<1>2. CASE Answer
  <2>1. Head(batch) \in Datagrams /\ Tail(batch) \in Seq(Datagrams)
    BY <1>2 DEF Answer, TypeOK
  <2>2. outbox' \in Seq(Replies)
    <3>1. CASE Authentic(Head(batch))
      <4>1. PICK r \in ResponsesTo(Head(batch)) : outbox' = Append(outbox, r)
        BY <1>2, <3>1 DEF Answer
      <4>2. r \in Replies
        BY <2>1, ResponsesTyped
      <4> QED BY <4>1, <4>2 DEF TypeOK
    <3>2. CASE ~Authentic(Head(batch))
      BY <1>2, <3>2 DEF Answer, TypeOK
    <3> QED BY <3>1, <3>2
  <2> QED BY <1>2, <2>1, <2>2 DEF Answer, TypeOK, RestOfBatch
<1>3. CASE EndAnswers \/ NoCommand \/ Quit \/ JoinChannel
  BY <1>3 DEF EndAnswers, NoCommand, Quit, JoinChannel, TypeOK
<1>7. CASE StartNewThread
  BY <1>7 DEF StartNewThread, TypeOK
<1>4. CASE DeleteNode
  BY <1>4 DEF DeleteNode, Live, TypeOK
<1>5. CASE SwitchProject
  BY <1>5 DEF SwitchProject, TypeOK
<1>6. CASE MoveChannel
  <2>1. moves' \in 0..MaxMoves /\ port' \in Ports
    BY <1>6 DEF MoveChannel, TypeOK
  <2> QED BY <1>6, <2>1 DEF MoveChannel, TypeOK
<1> QED BY <1>1, <1>2, <1>3, <1>4, <1>5, <1>6, <1>7 DEF RenderThread

\* So does a call.
LEMMA CallsTyped ==
  ASSUME TypeOK, UnchangedByClients, NEW c \in Clients,
         \/ \E d \in Datagram(c), p \in Ports : Send(c, d, p)
         \/ TakeReply(c)
         \/ GiveUp(c)
  PROVE  TypeOK'
<1>1. CASE \E d \in Datagram(c), p \in Ports : Send(c, d, p)
  <2>1. PICK d \in Datagram(c), p \in Ports : Send(c, d, p)
    BY <1>1
  <2>2. d \in Datagrams /\ d.token \in {Token, NoToken}
    BY DatagramShape DEF Datagrams
  <2> QED BY <2>1, <2>2 DEF Send, TypeOK
<1>2. CASE TakeReply(c) \/ GiveUp(c)
  BY <1>2 DEF TakeReply, GiveUp, TypeOK
<1> QED BY <1>1, <1>2

------------------------------------------------------------------------------
(* The inductive invariant.                                                *)

Working == work \in {"probe", "read", "wait", "database", "model", "sent"}
UnderWay == Working \/ frame = "asking"

\* Until the worker has its result the state is Thinking, and a click that found it
\* otherwise meets only a worker that has one.
ResultPublished ==
  /\ Working => state = "Thinking"
  /\ frame = "asking" => state = "Thinking" /\ work \in {"none", "exiting", "gone"}

\* Tombstones are never taken back.
JobKept == UnderWay => job \in Job /\ \A p \in Projects : job.dead[p] \subseteq dead[p]

NoneFrom(c, queue) == \A k \in 1..Len(queue) : queue[k].from # c
NoneTo(c, queue) == \A k \in 1..Len(queue) : queue[k].to # c

\* Nothing of a client is in the channel before its call.
IdleUnseen ==
  \A c \in Clients : call[c] = "idle" =>
    /\ NoneFrom(c, kernel) /\ NoneFrom(c, inbox) /\ NoneFrom(c, batch)
    /\ NoneTo(c, outbox) /\ mail[c] = NoReply

Clean(r) == r.nodes \cap job.dead[r.graph] = {}

\* So what there is for the script was answered after the ask began.
AnswersClean ==
  UnderWay =>
    /\ \A k \in 1..Len(outbox) : outbox[k].to = job.script => Clean(outbox[k])
    /\ mail[job.script] # NoReply => Clean(mail[job.script])

PromptClean ==
  /\ context # Nobody => work \in {"model", "sent"}
  /\ work \in {"model", "sent"} => context \in Context /\ Clean(context)

AskInv == AskTypeOK /\ ResultPublished /\ JobKept /\ IdleUnseen /\ AnswersClean /\ PromptClean

\* The first state satisfies the invariant.
LEMMA InvInit == AskInit => AskInv
<1> SUFFICES ASSUME AskInit PROVE AskInv
  OBVIOUS
<1>1. AskTypeOK
  BY InitTyped
<1>2. ResultPublished /\ JobKept /\ IdleUnseen /\ AnswersClean /\ PromptClean
  BY DEF AskInit, Init, ResultPublished, JobKept, IdleUnseen, AnswersClean, PromptClean, UnderWay,
         Working, NoneFrom, NoneTo
<1> QED BY <1>1, <1>2 DEF AskInv

\* The queues of a client that is not in them.
LEMMA NoneFromTail ==
  ASSUME NEW c, NEW q \in Seq(Datagrams), q # <<>>, NoneFrom(c, q)
  PROVE  NoneFrom(c, Tail(q))
<1>1. Len(Tail(q)) = Len(q) - 1 /\ \A k \in 1..Len(Tail(q)) : Tail(q)[k] = q[k + 1]
  OBVIOUS
<1> QED BY <1>1 DEF NoneFrom

\* Another client's datagram changes nothing for it.
LEMMA NoneFromAppend ==
  ASSUME NEW c, NEW q \in Seq(Datagrams), NEW d \in Datagrams, d.from # c, NoneFrom(c, q)
  PROVE  NoneFrom(c, Append(q, d))
<1>1. Len(Append(q, d)) = Len(q) + 1
      /\ \A k \in 1..Len(q) + 1 : Append(q, d)[k] = IF k <= Len(q) THEN q[k] ELSE d
  OBVIOUS
<1> QED BY <1>1 DEF NoneFrom

\* What the socket thread does.
LEMMA SocketThreadInv == AskInv /\ SocketThread /\ UNCHANGED askVars => AskInv'
<1> SUFFICES ASSUME AskInv, SocketThread, UNCHANGED askVars PROVE AskInv'
  OBVIOUS
<1> USE DEF AskInv
<1>1. TypeOK
  BY DEF AskTypeOK
<1>2. AskTypeOK'
  BY <1>1, SocketThreadTyped DEF AskTypeOK
<1>3. frame' = frame /\ dead' = dead /\ call' = call /\ batch' = batch
  BY DEF SocketThread, Bind, Flush, Receive, PollTimesOut, ExitLoop
<1>4. ResultPublished' /\ JobKept' /\ PromptClean'
  BY <1>3 DEF ResultPublished, JobKept, PromptClean, UnderWay, Working, Clean
<1>5. CASE Bind \/ PollTimesOut \/ ExitLoop
  <2>1. IdleUnseen' /\ AnswersClean'
    BY <1>3, <1>5 DEF Bind, PollTimesOut, ExitLoop, IdleUnseen, AnswersClean, UnderWay, Working,
                      Clean, NoneFrom, NoneTo
  <2> QED BY <1>2, <1>4, <2>1
<1>6. CASE Flush
  <2>1. outbox' = <<>> /\ kernel' = kernel /\ inbox' = inbox
        /\ mail' = [c \in Clients |-> Delivered(c)]
    BY <1>6 DEF Flush
  <2>2. IdleUnseen'
    BY <1>1, <1>3, <2>1, DeliveredTyped DEF IdleUnseen, NoneFrom, NoneTo
  <2>3. ASSUME UnderWay, Delivered(job.script) # NoReply PROVE Clean(Delivered(job.script))
    <3>1. job.script \in Clients
      BY <2>3 DEF JobKept, Job
    <3>2. CASE Delivered(job.script) = mail[job.script]
      BY <2>3, <3>2 DEF AnswersClean
    <3>3. CASE Delivered(job.script) # mail[job.script]
      <4>1. PICK k \in DOMAIN outbox :
              outbox[k] = Delivered(job.script) /\ outbox[k].to = job.script
        BY <1>1, <3>1, <3>3, DeliveredTyped
      <4>2. k \in 1..Len(outbox)
        BY <1>1, <4>1 DEF TypeOK
      <4> QED BY <2>3, <4>1, <4>2 DEF AnswersClean
    <3> QED BY <3>2, <3>3
  <2>4. AnswersClean'
    <3>1. ASSUME UnderWay' PROVE job.script \in Clients /\ UnderWay
      BY <1>3, <3>1 DEF UnderWay, Working, JobKept, Job
    <3> QED BY <2>1, <2>3, <3>1 DEF AnswersClean, Clean
  <2> QED BY <1>2, <1>4, <2>2, <2>4
<1>7. CASE Receive
  <2>1. kernel # <<>> /\ kernel \in Seq(Datagrams) /\ inbox \in Seq(Datagrams)
        /\ kernel' = Tail(kernel) /\ outbox' = outbox /\ mail' = mail
        /\ inbox' \in {inbox, Append(inbox, Parsed(Head(kernel)))}
    BY <1>1, <1>7 DEF Receive, TypeOK
  <2>2. Parsed(Head(kernel)).from = kernel[1].from
    BY <2>1 DEF Parsed, Datagrams, Datagram
  <2>3. ASSUME NEW c \in Clients, NoneFrom(c, kernel), NoneFrom(c, inbox)
        PROVE  NoneFrom(c, kernel') /\ NoneFrom(c, inbox')
    <3>1. Head(kernel) \in Datagrams /\ Parsed(Head(kernel)) \in Datagrams
      BY <2>1, DatagramShape
    <3>2. Parsed(Head(kernel)).from # c
      BY <2>1, <2>2, <2>3 DEF NoneFrom
    <3> QED BY <2>1, <2>3, <3>1, <3>2, NoneFromTail, NoneFromAppend
  <2>4. IdleUnseen'
    BY <1>3, <2>1, <2>3 DEF IdleUnseen, NoneTo, NoneFrom
  <2>5. AnswersClean'
    BY <1>3, <2>1 DEF AnswersClean, UnderWay, Working, Clean
  <2> QED BY <1>2, <1>4, <2>4, <2>5
<1> QED BY <1>5, <1>6, <1>7 DEF SocketThread

\* What the render thread does, but for the asks.
LEMMA AnswerInv == AskInv /\ Answer /\ UNCHANGED askVars => IdleUnseen' /\ AnswersClean'
<1> SUFFICES ASSUME AskInv, Answer, UNCHANGED askVars PROVE IdleUnseen' /\ AnswersClean'
  OBVIOUS
<1>1. TypeOK /\ IdleUnseen /\ AnswersClean /\ JobKept
  BY DEF AskInv, AskTypeOK
<1>2. batch \in Seq(Datagrams) /\ batch # <<>> /\ outbox \in Seq(Replies)
      /\ frame' = frame /\ call' = call /\ kernel' = kernel /\ inbox' = inbox /\ mail' = mail
      /\ dead' = dead /\ batch' = Tail(batch)
  BY <1>1 DEF TypeOK, Answer, RestOfBatch
<1>3. CASE ~Authentic(Head(batch))
  <2>1. outbox' = outbox
    BY <1>3 DEF Answer
  <2>2. IdleUnseen'
    BY <1>1, <1>2, <2>1, NoneFromTail DEF IdleUnseen, NoneFrom, NoneTo
  <2>3. AnswersClean'
    BY <1>1, <1>2, <2>1 DEF AnswersClean, UnderWay, Working, Clean
  <2> QED BY <2>2, <2>3
<1>4. CASE Authentic(Head(batch))
  <2>1. PICK r \in ResponsesTo(Head(batch)) : outbox' = Append(outbox, r)
    BY <1>4 DEF Answer
  <2>2. Head(batch) \in Datagrams /\ Head(batch) = batch[1] /\ 1 \in 1..Len(batch)
    BY <1>2
  <2>3. r \in Replies /\ r.to = batch[1].from /\ r.graph = project /\ r.nodes \subseteq Live
    BY <1>1, <2>2, ResponsesTyped
  <2>4. Len(outbox') = Len(outbox) + 1
        /\ \A k \in 1..Len(outbox') : outbox'[k] = IF k <= Len(outbox) THEN outbox[k] ELSE r
    BY <1>2, <2>1, <2>3
  <2>5. IdleUnseen'
    <3> SUFFICES ASSUME NEW c \in Clients, call[c] = "idle"
                 PROVE  NoneFrom(c, batch') /\ NoneTo(c, outbox')
      BY <1>1, <1>2 DEF IdleUnseen, NoneFrom, NoneTo
    <3>1. NoneFrom(c, batch) /\ NoneTo(c, outbox)
      BY <1>1 DEF IdleUnseen
    <3>2. NoneFrom(c, batch')
      BY <1>2, <3>1, NoneFromTail
    <3>3. r.to # c
      BY <2>2, <2>3, <3>1 DEF NoneFrom
    <3>4. NoneTo(c, outbox')
      BY <1>2, <2>4, <3>1, <3>3 DEF NoneTo
    <3> QED BY <3>2, <3>4
  <2>6. ASSUME UnderWay PROVE r.nodes \cap job.dead[r.graph] = {}
    <3>1. job.dead[project] \subseteq dead[project]
      BY <1>1, <2>6 DEF JobKept, TypeOK
    <3> QED BY <2>3, <3>1 DEF Live
  <2>7. UnderWay' <=> UnderWay
    BY <1>2 DEF UnderWay, Working
  <2>8. ASSUME UnderWay, NEW k \in 1..Len(outbox'), outbox'[k].to = job.script
        PROVE  outbox'[k].nodes \cap job.dead[outbox'[k].graph] = {}
    BY <1>1, <2>4, <2>6, <2>8 DEF AnswersClean, Clean
  <2>9. AnswersClean'
    BY <1>1, <1>2, <2>7, <2>8 DEF AnswersClean, Clean
  <2> QED BY <2>5, <2>9
<1> QED BY <1>3, <1>4

\* All its other steps move whole queues.
LEMMA RenderThreadInv == AskInv /\ RenderThread /\ UNCHANGED askVars => AskInv'
<1> SUFFICES ASSUME AskInv, RenderThread, UNCHANGED askVars PROVE AskInv'
  OBVIOUS
<1>1. TypeOK /\ AskTypeOK /\ ResultPublished /\ JobKept /\ IdleUnseen /\ AnswersClean /\ PromptClean
  BY DEF AskInv, AskTypeOK
<1>2. AskTypeOK'
  BY <1>1, RenderThreadTyped DEF AskTypeOK
<1>3. frame # "asking" /\ frame' # "asking" /\ call' = call /\ mail' = mail
      /\ \A p \in Projects : dead[p] \subseteq dead'[p]
  BY <1>1 DEF TypeOK, RenderThread, Drain, Answer, EndAnswers, NoCommand, DeleteNode, SwitchProject,
         MoveChannel, StartNewThread, Quit, JoinChannel
<1>4. (UnderWay' <=> UnderWay) /\ (Working' <=> Working)
  BY <1>3 DEF UnderWay, Working
<1>5. ResultPublished' /\ JobKept' /\ PromptClean'
  BY <1>1, <1>3, <1>4 DEF ResultPublished, JobKept, PromptClean, Clean, Working
<1>6. CASE Answer
  BY <1>2, <1>5, <1>6, AnswerInv DEF AskInv
<1>7. CASE ~Answer
  <2>1. /\ kernel' = kernel
        /\ inbox' = inbox \/ inbox' = <<>>
        /\ batch' = batch \/ batch' = inbox
        /\ outbox' = outbox \/ outbox' = <<>>
    BY <1>7 DEF RenderThread, Drain, AfterDrain, EndAnswers, NoCommand, DeleteNode, SwitchProject,
         MoveChannel, StartNewThread, Quit, JoinChannel
  <2>2. IdleUnseen'
    BY <1>1, <1>3, <2>1 DEF IdleUnseen, NoneFrom, NoneTo
  <2>3. AnswersClean'
    BY <1>1, <1>3, <1>4, <2>1 DEF AnswersClean, Clean
  <2> QED BY <1>2, <1>5, <2>2, <2>3 DEF AskInv
<1> QED BY <1>6, <1>7

\* What a call changes in the channel, whoever makes it.
LEMMA CallInv ==
  ASSUME TypeOK, IdleUnseen, UnchangedByClients, NEW c \in Clients,
         \/ \E d \in Datagram(c), p \in Ports : Send(c, d, p)
         \/ TakeReply(c)
         \/ GiveUp(c)
  PROVE  /\ IdleUnseen'
         /\ \A b \in Clients : mail'[b] \in {mail[b], NoReply}
         /\ outbox' = outbox /\ frame' = frame /\ dead' = dead
<1>1. outbox' = outbox /\ frame' = frame /\ dead' = dead /\ inbox' = inbox /\ batch' = batch
  OBVIOUS
<1>2. CASE \E d \in Datagram(c), p \in Ports : Send(c, d, p)
  <2>1. PICK d \in Datagram(c), p \in Ports : Send(c, d, p)
    BY <1>2
  <2>2. d \in Datagrams /\ d.from = c
    BY <2>1 DEF Datagrams, Datagram
  <2>3. kernel \in Seq(Datagrams) /\ kernel' \in {kernel, Append(kernel, d)}
    BY <2>1 DEF Send, TypeOK
  <2>4. call' = [call EXCEPT ![c] = "waiting"] /\ mail' = mail
    BY <2>1 DEF Send
  <2>5. ASSUME NEW b \in Clients, call'[b] = "idle"
        PROVE  call[b] = "idle" /\ b # c
    BY <2>4, <2>5 DEF TypeOK
  <2>6. IdleUnseen'
    <3> SUFFICES ASSUME NEW b \in Clients, call'[b] = "idle"
                 PROVE  NoneFrom(b, kernel')
      BY <1>1, <2>4, <2>5 DEF IdleUnseen, NoneFrom, NoneTo
    <3>1. NoneFrom(b, kernel) /\ b # c
      BY <2>5 DEF IdleUnseen
    <3>2. NoneFrom(b, Append(kernel, d))
      BY <2>2, <2>3, <3>1, NoneFromAppend
    <3> QED BY <2>3, <3>1, <3>2
  <2> QED BY <1>1, <2>4, <2>6
<1>3. CASE TakeReply(c) \/ GiveUp(c)
  <2>1. call' = [call EXCEPT ![c] = "over"] /\ mail' = [mail EXCEPT ![c] = NoReply]
        /\ kernel' = kernel
    BY <1>3 DEF TakeReply, GiveUp
  <2>2. IdleUnseen'
    BY <1>1, <2>1 DEF IdleUnseen, NoneFrom, NoneTo, TypeOK
  <2>3. \A b \in Clients : mail'[b] \in {mail[b], NoReply}
    BY <2>1 DEF TypeOK
  <2> QED BY <1>1, <2>2, <2>3
<1> QED BY <1>2, <1>3

\* A step that changes of the channel only what a call changes, and of the asks
\* neither the job nor the result.
LEMMA CallKeepsClean ==
  ASSUME AskInv, NEW c \in Clients, UnchangedByClients,
         \/ \E d \in Datagram(c), p \in Ports : Send(c, d, p)
         \/ TakeReply(c)
         \/ GiveUp(c),
         state' = state, job' = job, UnderWay' => UnderWay
  PROVE  TypeOK' /\ JobKept' /\ IdleUnseen' /\ AnswersClean'
<1>1. TypeOK /\ JobKept /\ IdleUnseen /\ AnswersClean
  BY DEF AskInv, AskTypeOK
<1>2. TypeOK'
  BY <1>1, CallsTyped
<1>3. /\ IdleUnseen'
      /\ \A b \in Clients : mail'[b] \in {mail[b], NoReply}
      /\ outbox' = outbox /\ frame' = frame /\ dead' = dead
  BY <1>1, CallInv
<1>4. JobKept'
  BY <1>1, <1>3 DEF JobKept
<1>5. UnderWay' => job.script \in Clients
  BY <1>1 DEF JobKept, Job
<1>6. AnswersClean'
  BY <1>1, <1>3, <1>5 DEF AnswersClean, Clean
<1> QED BY <1>2, <1>3, <1>4, <1>6

\* What a tool does.
LEMMA ToolInv ==
  ASSUME AskInv, NEW c \in Clients, Tool(c), UNCHANGED askVars
  PROVE  AskInv'
<1>1. frame' = frame /\ UnchangedByClients
  BY DEF Tool
<1>2. \/ \E d \in Datagram(c), p \in Ports : Send(c, d, p)
      \/ TakeReply(c)
      \/ GiveUp(c)
  BY DEF Tool, AskInv, AskTypeOK, TypeOK
<1>3. UnderWay' => UnderWay
  BY <1>1 DEF UnderWay, Working
<1>4. TypeOK' /\ JobKept' /\ IdleUnseen' /\ AnswersClean'
  BY <1>1, <1>2, <1>3, CallKeepsClean
<1>5. AskTypeOK' /\ ResultPublished' /\ PromptClean'
  BY <1>1, <1>4 DEF AskInv, AskTypeOK, ResultPublished, PromptClean, Working, Clean
<1> QED BY <1>4, <1>5 DEF AskInv

\* The asks on the render thread.
LEMMA StartAskInv == AskInv /\ StartAsk => AskInv'
<1> SUFFICES ASSUME AskInv, StartAsk PROVE AskInv'
  OBVIOUS
<1>1. TypeOK /\ AskTypeOK /\ ResultPublished /\ IdleUnseen /\ PromptClean
  BY DEF AskInv, AskTypeOK
<1>2. PICK c \in Scripts, n \in Nodes :
        call[c] = "idle" /\ job' = [script |-> c, graph |-> project, anchor |-> n, dead |-> dead]
  BY DEF StartAsk
<1>3. /\ state' = "Thinking" /\ frame' = "asking" /\ work' = work /\ context' = context
      /\ outbox' = outbox /\ mail' = mail /\ call' = call /\ dead' = dead /\ kernel' = kernel
      /\ inbox' = inbox /\ batch' = batch /\ state # "Thinking"
  BY DEF StartAsk, Busy
<1>4. job' \in Job /\ c \in Clients
  BY <1>1, <1>2 DEF Job, TypeOK
<1>5. AskTypeOK'
  <2>1. TypeOK'
    BY <1>1, <1>3 DEF StartAsk, TypeOK
  <2> QED BY <1>1, <1>3, <1>4, <2>1 DEF StartAsk, AskTypeOK
<1>6. ~Working /\ work \in {"none", "exiting", "gone"}
  BY <1>1, <1>3 DEF ResultPublished, Working, AskTypeOK
<1>7. ResultPublished'
  BY <1>3, <1>6 DEF ResultPublished, Working
<1>8. JobKept'
  BY <1>2, <1>3, <1>4 DEF JobKept
<1>9. IdleUnseen'
  BY <1>1, <1>3 DEF IdleUnseen, NoneFrom, NoneTo
<1>10. NoneTo(c, outbox) /\ mail[c] = NoReply
  BY <1>1, <1>2, <1>4 DEF IdleUnseen
<1>11. AnswersClean'
  BY <1>2, <1>3, <1>10 DEF AnswersClean, NoneTo
<1>12. PromptClean'
  BY <1>1, <1>3, <1>6 DEF PromptClean
<1> QED BY <1>5, <1>7, <1>8, <1>9, <1>11, <1>12 DEF AskInv

\* The frame that starts the worker, the last join, and the guard.
LEMMA OtherFramesInv == AskInv /\ (StartWorker \/ Leave \/ LandPhantom) => AskInv'
<1> SUFFICES ASSUME AskInv, StartWorker \/ Leave \/ LandPhantom PROVE AskInv'
  OBVIOUS
<1> USE DEF AskInv, AskTypeOK
<1>1. /\ state' = state /\ job' = job /\ context' = context
      /\ outbox' = outbox /\ mail' = mail /\ call' = call /\ dead' = dead /\ kernel' = kernel
      /\ inbox' = inbox /\ batch' = batch
  BY DEF StartWorker, Leave, LandPhantom
<1>2. UnderWay' => UnderWay
  BY DEF UnderWay, Working, StartWorker, Leave, LandPhantom
<1>3. AskTypeOK'
  <2>1. TypeOK'
    BY DEF StartWorker, Leave, LandPhantom, TypeOK
  <2> QED BY <2>1 DEF StartWorker, Leave, LandPhantom
<1>4. ResultPublished' /\ PromptClean'
  BY <1>1 DEF StartWorker, Leave, LandPhantom, ResultPublished, PromptClean, Working, Clean
<1>5. JobKept' /\ IdleUnseen' /\ AnswersClean'
  BY <1>1, <1>2 DEF JobKept, IdleUnseen, AnswersClean, NoneFrom, NoneTo, Clean
<1> QED BY <1>3, <1>4, <1>5

\* The worker.
LEMMA WorkerInv == AskInv /\ Worker => AskInv'
<1> SUFFICES ASSUME AskInv, Worker PROVE AskInv'
  OBVIOUS
<1>1. /\ TypeOK /\ AskTypeOK /\ ResultPublished /\ JobKept /\ IdleUnseen /\ AnswersClean
      /\ PromptClean
  BY DEF AskInv, AskTypeOK
<1>2. CASE \/ ProbeFails \/ RunScript \/ ReadDatabase \/ ScriptFails \/ Emit \/ ScriptEnds
           \/ ThreadEnds
  <2>1. UNCHANGED channelVars
    BY <1>2 DEF ProbeFails, RunScript, ReadDatabase, ScriptFails, Emit, ScriptEnds, ThreadEnds
  <2>2. TypeOK' /\ IdleUnseen'
    BY <1>1, <2>1 DEF TypeOK, IdleUnseen, NoneFrom, NoneTo
  <2>3. CASE ProbeFails \/ ScriptFails \/ ScriptEnds
    <3>1. /\ state' \in {"ErrNoOllama", "ErrSubprocess", "Done"} /\ work' = "exiting"
          /\ job' = Nobody /\ context' = Nobody /\ inflight' = inflight /\ Working
      BY <2>3 DEF ProbeFails, ScriptFails, ScriptEnds, Exit, NoOllama, Working
    <3>2. frame' # "asking" /\ ~UnderWay'
      BY <1>1, <2>1, <3>1 DEF ResultPublished, Working, UnderWay
    <3> QED BY <1>1, <2>1, <2>2, <3>1, <3>2
            DEF AskInv, AskTypeOK, ResultPublished, JobKept, AnswersClean, PromptClean, Working
  <2>4. CASE RunScript \/ ThreadEnds
    <3>1. /\ state' = state /\ job' = job /\ context' = context /\ inflight' = inflight
          /\ work' \in {"read", "gone"} /\ (Working' <=> Working)
          /\ work' = "gone" \/ work = "probe"
      BY <2>4 DEF RunScript, ThreadEnds, Working
    <3>2. UnderWay' <=> UnderWay
      BY <2>1, <3>1 DEF UnderWay
    <3> QED BY <1>1, <2>1, <2>2, <3>1, <3>2
            DEF AskInv, AskTypeOK, ResultPublished, JobKept, AnswersClean, PromptClean, Working, Clean
  <2>5. CASE ReadDatabase \/ Emit
    <3>1. /\ state' = state /\ job' = job /\ Working /\ work' \in {"model", "sent"} /\ Working'
      BY <2>5 DEF ReadDatabase, Emit, Working
    <3>2. UnderWay' /\ UnderWay /\ job \in Job /\ \A p \in Projects : job.dead[p] \subseteq dead[p]
      BY <1>1, <3>1 DEF UnderWay, JobKept
    <3>3. context' \in Context /\ context'.nodes \cap job.dead[context'.graph] = {}
      <4>1. CASE ReadDatabase
        <5>1. PICK S \in SUBSET Rows : context' = [graph |-> job.graph, nodes |-> S \cup {job.anchor}]
          BY <4>1 DEF ReadDatabase
        <5>2. job.anchor \in Rows /\ Rows \subseteq Nodes /\ job.graph \in Projects
          BY <3>2, <4>1 DEF ReadDatabase, Rows, Job
        <5>3. Rows \cap job.dead[job.graph] = {}
          BY <3>2, <5>2 DEF Rows
        <5> QED BY <3>1, <5>1, <5>2, <5>3 DEF Context, Clean
      <4>2. CASE Emit
        BY <1>1, <3>1, <4>2 DEF Emit, PromptClean, Clean
      <4> QED BY <2>5, <4>1, <4>2
    <3>4. AskTypeOK'
      <4>1. CASE ReadDatabase
        BY <1>1, <2>2, <3>1, <3>3, <4>1 DEF ReadDatabase, AskTypeOK
      <4>2. CASE Emit
        <5>1. [tag |-> job.graph, graph |-> context.graph] \in Phantom
          BY <3>2, <3>3, <4>2 DEF Emit, Phantom, Job, Context
        <5> QED BY <1>1, <2>2, <3>1, <4>2, <5>1 DEF Emit, AskTypeOK
      <4> QED BY <2>5, <4>1, <4>2
    <3>5. ResultPublished' /\ JobKept' /\ AnswersClean'
      BY <1>1, <2>1, <3>1, <3>2 DEF ResultPublished, JobKept, AnswersClean, UnderWay, Working, Clean
    <3>6. PromptClean'
      BY <3>1, <3>3 DEF PromptClean, Clean
    <3> QED BY <2>2, <3>4, <3>5, <3>6 DEF AskInv
  <2> QED BY <1>2, <2>3, <2>4, <2>5
<1>3. CASE AskChannel \/ UseReply \/ TimeOut
  <2>1. /\ UnchangedByClients /\ state' = state /\ job' = job /\ inflight' = inflight
        /\ Working /\ Working' /\ work' \in {"wait", "model", "database"}
    BY <1>3 DEF AskChannel, UseReply, TimeOut, Working
  <2>2. UnderWay /\ job \in Job /\ job.script \in Clients
    BY <1>1, <2>1 DEF UnderWay, JobKept, Job
  <2>3. \/ \E d \in Datagram(job.script), p \in Ports : Send(job.script, d, p)
        \/ TakeReply(job.script)
        \/ GiveUp(job.script)
    <3>1. CASE AskChannel
      <4>1. Query \in Datagram(job.script)
        BY <2>2 DEF Query, Datagram, Kinds, Job
      <4> QED BY <3>1, <4>1 DEF AskChannel
    <3> QED BY <1>3, <3>1 DEF UseReply, TimeOut
  <2>4. TypeOK' /\ JobKept' /\ IdleUnseen' /\ AnswersClean'
    BY <2>1, <2>2, <2>3, CallKeepsClean
  <2>5. ResultPublished'
    BY <1>1, <2>1 DEF ResultPublished, Working
  <2>6. \/ /\ work' = "model" /\ mail[job.script] # NoReply
           /\ context' = [graph |-> mail[job.script].graph, nodes |-> mail[job.script].nodes]
        \/ work' # "model" /\ work' # "sent" /\ context' = context /\ context = Nobody
    BY <1>1, <1>3 DEF AskChannel, UseReply, TimeOut, TakeReply, PromptClean
  <2>7. mail[job.script] # NoReply =>
          /\ mail[job.script].graph \in Projects /\ mail[job.script].nodes \subseteq Nodes
          /\ mail[job.script].nodes \cap job.dead[mail[job.script].graph] = {}
    BY <1>1, <2>2, ReplyShape DEF TypeOK, AnswersClean, Clean
  <2>8. PromptClean'
    BY <2>1, <2>6, <2>7 DEF PromptClean, Clean, Context
  <2>9. AskTypeOK'
    BY <1>1, <2>1, <2>4, <2>6, <2>7 DEF AskTypeOK, Context
  <2> QED BY <2>4, <2>5, <2>8, <2>9 DEF AskInv
<1> QED BY <1>2, <1>3 DEF Worker

\* Every step keeps the invariant.
LEMMA AskInvStep == AskInv /\ [AskNext]_vars => AskInv'
<1> SUFFICES ASSUME AskInv, [AskNext]_vars PROVE AskInv'
  OBVIOUS
<1>1. CASE Channel
  BY <1>1, SocketThreadInv, RenderThreadInv, ToolInv DEF Channel
<1>2. CASE StartAsk \/ StartWorker \/ Leave \/ LandPhantom \/ Worker
  BY <1>2, StartAskInv, OtherFramesInv, WorkerInv
<1>3. CASE UNCHANGED vars
  BY <1>3 DEF AskInv, AskTypeOK, TypeOK, ResultPublished, JobKept, IdleUnseen, AnswersClean,
              PromptClean, UnderWay, Working, Clean, NoneFrom, NoneTo
<1> QED BY <1>1, <1>2, <1>3 DEF AskNext, Ended

------------------------------------------------------------------------------

\* AskInv holds whatever the clients, nodes, projects, ports and limits are.
THEOREM AskInvHolds == AskSpec => []AskInv
<1>1. AskInit => AskInv
  BY InvInit
<1>2. AskInv /\ [AskNext]_vars => AskInv'
  BY AskInvStep
<1> QED BY <1>1, <1>2, PTL DEF AskSpec

\* Types, and with them the limit of the inbox (query_thread.cpp:106-108 and 156).
THEOREM AskTypeCorrect == AskSpec => []AskTypeOK
<1>1. AskInv => AskTypeOK
  BY DEF AskInv
<1> QED BY <1>1, AskInvHolds, PTL

\* A click never joins a worker that has no result yet (ask.cpp:145-148).
THEOREM ClickNeverWaits == AskSpec => []JoinIsFast
<1>1. AskInv => JoinIsFast
  BY DEF AskInv, ResultPublished, JoinIsFast
<1> QED BY <1>1, AskInvHolds, PTL

\* By the channel or by the file, from this project or another, no prompt holds a
\* node deleted before the ask (llm_phantom.py:51, query_responder.cpp:21-24).
THEOREM PromptsAreClean == AskSpec => []PromptHasNoTombstones
<1>1. AskInv => PromptHasNoTombstones
  BY DEF AskInv, PromptClean, Clean, PromptHasNoTombstones
<1> QED BY <1>1, AskInvHolds, PTL

------------------------------------------------------------------------------
(* OneCopy, by counting the places of a client.                            *)

Copies(c) ==
  Cardinality(From(kernel, c)) + Cardinality(From(inbox, c)) + Cardinality(From(batch, c))
    + Cardinality(To(outbox, c)) + (IF mail[c] = NoReply THEN 0 ELSE 1)

\* The places of a queue are finitely many.
LEMMA PlacesFinite ==
  ASSUME NEW D, NEW q \in Seq(D), NEW S \in SUBSET (1..Len(q))
  PROVE  IsFiniteSet(S) /\ Cardinality(S) \in Nat
<1>1. IsFiniteSet(1..Len(q))
  BY FS_Interval
<1> QED BY <1>1, FS_Subset, FS_CardinalityType

LEMMA FromCount ==
  ASSUME NEW q \in Seq(Datagrams), NEW c
  PROVE  /\ From(q, c) \in SUBSET (1..Len(q)) /\ IsFiniteSet(From(q, c))
         /\ Cardinality(From(q, c)) \in Nat
         /\ NoneFrom(c, q) => Cardinality(From(q, c)) = 0
<1>1. From(q, c) \in SUBSET (1..Len(q))
  BY DEF From
<1>2. NoneFrom(c, q) => From(q, c) = {}
  BY <1>1 DEF NoneFrom, From
<1> QED BY <1>1, <1>2, PlacesFinite, FS_EmptySet

LEMMA ToCount ==
  ASSUME NEW q \in Seq(Replies), NEW c
  PROVE  /\ To(q, c) \in SUBSET (1..Len(q)) /\ IsFiniteSet(To(q, c))
         /\ Cardinality(To(q, c)) \in Nat
         /\ To(q, c) # {} => Cardinality(To(q, c)) >= 1
         /\ NoneTo(c, q) => Cardinality(To(q, c)) = 0
<1>1. To(q, c) \in SUBSET (1..Len(q))
  BY DEF To
<1>2. NoneTo(c, q) => To(q, c) = {}
  BY <1>1 DEF NoneTo, To
<1>3. IsFiniteSet(To(q, c)) /\ Cardinality(To(q, c)) \in Nat
  BY <1>1, PlacesFinite
<1>4. Cardinality(To(q, c)) = 0 <=> To(q, c) = {}
  BY <1>3, FS_EmptySet
<1> QED BY <1>1, <1>2, <1>3, <1>4

\* Nothing is in an empty queue.
LEMMA EmptyCount ==
  ASSUME NEW c
  PROVE  Cardinality(From(<<>>, c)) = 0 /\ Cardinality(To(<<>>, c)) = 0
<1>1. From(<<>>, c) = {} /\ To(<<>>, c) = {}
  BY DEF From, To
<1> QED BY <1>1, FS_EmptySet

\* A datagram pushed counts for its sender only.
LEMMA FromAppend ==
  ASSUME NEW q \in Seq(Datagrams), NEW d \in Datagrams, NEW c
  PROVE  Cardinality(From(Append(q, d), c))
           = Cardinality(From(q, c)) + (IF d.from = c THEN 1 ELSE 0)
<1>1. /\ DOMAIN Append(q, d) = 1..(Len(q) + 1) /\ DOMAIN q = 1..Len(q)
      /\ \A k \in 1..Len(q) : Append(q, d)[k] = q[k]
      /\ Append(q, d)[Len(q) + 1] = d /\ Len(q) \in Nat
  <2>1. Append(q, d) \in Seq(Datagrams) /\ Len(Append(q, d)) = Len(q) + 1 /\ Len(q) \in Nat
        /\ Append(q, d)[Len(q) + 1] = d
    BY AppendProperties, LenProperties
  <2>2. \A k \in 1..Len(q) : Append(q, d)[k] = q[k]
    BY AppendProperties
  <2> QED BY <2>1, <2>2, LenProperties
<1>2. /\ IsFiniteSet(From(q, c)) /\ Cardinality(From(q, c)) \in Nat
      /\ Len(q) + 1 \notin From(q, c)
  <2>1. From(q, c) \in SUBSET (1..Len(q)) /\ IsFiniteSet(From(q, c)) /\ Cardinality(From(q, c)) \in Nat
    BY FromCount
  <2> QED BY <1>1, <2>1
<1>3. CASE d.from = c
  <2>1. From(Append(q, d), c) = From(q, c) \cup {Len(q) + 1}
    BY <1>1, <1>3 DEF From
  <2> QED BY <1>2, <1>3, <2>1, FS_AddElement
<1>4. CASE d.from # c
  <2>1. From(Append(q, d), c) = From(q, c)
    BY <1>1, <1>4 DEF From
  <2> QED BY <1>2, <1>4, <2>1
<1> QED BY <1>3, <1>4

LEMMA ToAppend ==
  ASSUME NEW q \in Seq(Replies), NEW r \in Replies, NEW c
  PROVE  Cardinality(To(Append(q, r), c))
           = Cardinality(To(q, c)) + (IF r.to = c THEN 1 ELSE 0)
<1>1. /\ DOMAIN Append(q, r) = 1..(Len(q) + 1) /\ DOMAIN q = 1..Len(q)
      /\ \A k \in 1..Len(q) : Append(q, r)[k] = q[k]
      /\ Append(q, r)[Len(q) + 1] = r /\ Len(q) \in Nat
  <2>1. Append(q, r) \in Seq(Replies) /\ Len(Append(q, r)) = Len(q) + 1 /\ Len(q) \in Nat
        /\ Append(q, r)[Len(q) + 1] = r
    BY AppendProperties, LenProperties
  <2>2. \A k \in 1..Len(q) : Append(q, r)[k] = q[k]
    BY AppendProperties
  <2> QED BY <2>1, <2>2, LenProperties
<1>2. /\ IsFiniteSet(To(q, c)) /\ Cardinality(To(q, c)) \in Nat
      /\ Len(q) + 1 \notin To(q, c)
  <2>1. To(q, c) \in SUBSET (1..Len(q)) /\ IsFiniteSet(To(q, c)) /\ Cardinality(To(q, c)) \in Nat
    BY ToCount
  <2> QED BY <1>1, <2>1
<1>3. CASE r.to = c
  <2>1. To(Append(q, r), c) = To(q, c) \cup {Len(q) + 1}
    BY <1>1, <1>3 DEF To
  <2> QED BY <1>2, <1>3, <2>1, FS_AddElement
<1>4. CASE r.to # c
  <2>1. To(Append(q, r), c) = To(q, c)
    BY <1>1, <1>4 DEF To
  <2> QED BY <1>2, <1>4, <2>1
<1> QED BY <1>3, <1>4

\* A datagram taken no longer counts: k |-> k + 1 puts the places of the tail in
\* those of the queue but the first.
LEMMA FromTail ==
  ASSUME NEW q \in Seq(Datagrams), q # <<>>, NEW c
  PROVE  /\ Cardinality(From(Tail(q), c)) \in Nat
         /\ Cardinality(From(Tail(q), c)) + (IF Head(q).from = c THEN 1 ELSE 0)
              <= Cardinality(From(q, c))
<1> DEFINE rest == From(q, c) \ {1}
           shift == [k \in From(Tail(q), c) |-> k + 1]
<1>1. /\ Tail(q) \in Seq(Datagrams) /\ Len(Tail(q)) = Len(q) - 1 /\ Head(q) = q[1]
      /\ \A k \in 1..Len(Tail(q)) : Tail(q)[k] = q[k + 1]
      /\ Len(q) \in Nat /\ Len(q) >= 1 /\ DOMAIN q = 1..Len(q)
      /\ DOMAIN Tail(q) = 1..Len(Tail(q))
  BY HeadTailProperties, LenProperties, EmptySeq
<1>2. IsFiniteSet(From(q, c)) /\ Cardinality(From(q, c)) \in Nat
      /\ Cardinality(From(Tail(q), c)) \in Nat /\ From(Tail(q), c) \in SUBSET (1..Len(Tail(q)))
  BY <1>1, FromCount
<1>3. shift \in [From(Tail(q), c) -> rest]
  BY <1>1, <1>2 DEF From
<1>4. \A a, b \in From(Tail(q), c) : shift[a] = shift[b] => a = b
  BY <1>1, <1>2
<1>5. shift \in Injection(From(Tail(q), c), rest)
  BY <1>3, <1>4 DEF Injection, IsInjective
<1>6. IsFiniteSet(rest)
      /\ Cardinality(rest) = IF 1 \in From(q, c) THEN Cardinality(From(q, c)) - 1
                                                 ELSE Cardinality(From(q, c))
  BY <1>2, FS_RemoveElement
<1>7. Cardinality(From(Tail(q), c)) <= Cardinality(rest)
  BY <1>5, <1>6, FS_Injection
<1>8. Head(q).from = c <=> 1 \in From(q, c)
  BY <1>1 DEF From
<1> QED BY <1>2, <1>6, <1>7, <1>8

------------------------------------------------------------------------------
(* The steps.                                                              *)

\* Every count is a number.
LEMMA CountsTyped ==
  ASSUME TypeOK, NEW c
  PROVE  /\ Cardinality(From(kernel, c)) \in Nat /\ Cardinality(From(inbox, c)) \in Nat
         /\ Cardinality(From(batch, c)) \in Nat /\ Cardinality(To(outbox, c)) \in Nat
<1>1. /\ kernel \in Seq(Datagrams) /\ inbox \in Seq(Datagrams) /\ batch \in Seq(Datagrams)
      /\ outbox \in Seq(Replies)
  BY DEF TypeOK
<1> QED BY <1>1, FromCount, ToCount

\* A delivered reply leaves the outbox.
LEMMA FlushCopies ==
  ASSUME TypeOK, NEW c \in Clients, Flush
  PROVE  Copies(c)' <= Copies(c)
<1>1. /\ kernel' = kernel /\ inbox' = inbox /\ batch' = batch /\ outbox' = <<>>
      /\ mail'[c] = Delivered(c)
  BY DEF Flush
<1>2. ASSUME Delivered(c) # NoReply, mail[c] = NoReply
      PROVE  Cardinality(To(outbox, c)) >= 1
  <2>1. PICK k \in DOMAIN outbox : outbox[k].to = c
    BY <1>2, DeliveredTyped
  <2>2. To(outbox, c) # {} /\ outbox \in Seq(Replies)
    BY <2>1 DEF To, TypeOK
  <2> QED BY <2>2, ToCount
<1> QED BY <1>1, <1>2, CountsTyped, EmptyCount DEF Copies

\* A datagram received goes to the inbox or is dropped.
LEMMA ReceiveCopies ==
  ASSUME TypeOK, NEW c \in Clients, Receive
  PROVE  Copies(c)' <= Copies(c)
<1>1. /\ kernel \in Seq(Datagrams) /\ inbox \in Seq(Datagrams) /\ kernel # <<>>
      /\ kernel' = Tail(kernel) /\ inbox' \in {inbox, Append(inbox, Parsed(Head(kernel)))}
      /\ batch' = batch /\ outbox' = outbox /\ mail' = mail
  BY DEF Receive, TypeOK
<1>2. Head(kernel) \in Datagrams
  BY <1>1
<1>3. Parsed(Head(kernel)) \in Datagrams /\ Parsed(Head(kernel)).from = Head(kernel).from
  BY <1>2, DatagramShape DEF Parsed, Datagrams, Datagram
<1>4. /\ Cardinality(From(kernel', c)) \in Nat
      /\ Cardinality(From(kernel', c)) + (IF Head(kernel).from = c THEN 1 ELSE 0)
           <= Cardinality(From(kernel, c))
  BY <1>1, FromTail
<1>5. Cardinality(From(inbox', c)) \in
        {Cardinality(From(inbox, c)),
         Cardinality(From(inbox, c)) + (IF Head(kernel).from = c THEN 1 ELSE 0)}
  <2>1. CASE inbox' = inbox
    BY <2>1
  <2>2. CASE inbox' = Append(inbox, Parsed(Head(kernel)))
    <3>1. Cardinality(From(Append(inbox, Parsed(Head(kernel))), c))
            = Cardinality(From(inbox, c)) + (IF Parsed(Head(kernel)).from = c THEN 1 ELSE 0)
      BY <1>1, <1>3, FromAppend
    <3> QED BY <1>3, <2>2, <3>1
  <2> QED BY <1>1, <2>1, <2>2
<1>6. /\ Cardinality(From(batch', c)) = Cardinality(From(batch, c))
      /\ Cardinality(To(outbox', c)) = Cardinality(To(outbox, c)) /\ mail'[c] = mail[c]
  BY <1>1
<1>7. Cardinality(From(kernel', c)) + Cardinality(From(inbox', c))
        <= Cardinality(From(kernel, c)) + Cardinality(From(inbox, c))
      /\ Cardinality(From(inbox', c)) \in Nat
  BY <1>4, <1>5, CountsTyped
<1> QED BY <1>4, <1>6, <1>7, CountsTyped DEF Copies

\* A request answered leaves the batch, with or without a reply.
LEMMA AnswerCopies ==
  ASSUME TypeOK, NEW c \in Clients, Answer
  PROVE  Copies(c)' <= Copies(c)
<1>1. /\ batch \in Seq(Datagrams) /\ outbox \in Seq(Replies) /\ batch # <<>>
      /\ batch' = Tail(batch)
      /\ kernel' = kernel /\ inbox' = inbox /\ mail' = mail
  BY DEF Answer, TypeOK, RestOfBatch
<1>2. Head(batch) \in Datagrams
  BY <1>1
<1>3. /\ Cardinality(From(batch', c)) \in Nat
      /\ Cardinality(From(batch', c)) + (IF Head(batch).from = c THEN 1 ELSE 0)
           <= Cardinality(From(batch, c))
  BY <1>1, FromTail
<1>4. Cardinality(To(outbox', c)) \in
        {Cardinality(To(outbox, c)),
         Cardinality(To(outbox, c)) + (IF Head(batch).from = c THEN 1 ELSE 0)}
  <2>1. CASE Authentic(Head(batch))
    <3>1. PICK r \in ResponsesTo(Head(batch)) : outbox' = Append(outbox, r)
      BY <2>1 DEF Answer
    <3>2. r \in Replies /\ r.to = Head(batch).from
      BY <1>2, ResponsesTyped
    <3> QED BY <1>1, <3>1, <3>2, ToAppend
  <2>2. CASE ~Authentic(Head(batch))
    BY <2>2 DEF Answer
  <2> QED BY <2>1, <2>2
<1> QED BY <1>1, <1>3, <1>4, CountsTyped DEF Copies

\* The other steps of the two threads move or empty whole queues.
LEMMA ThreadCopies ==
  ASSUME TypeOK, NEW c \in Clients, SocketThread \/ RenderThread
  PROVE  Copies(c)' <= Copies(c)
<1>1. CASE Flush \/ Receive \/ Answer
  BY <1>1, FlushCopies, ReceiveCopies, AnswerCopies
<1>2. CASE ExitLoop
  <2>1. kernel' = <<>> /\ inbox' = inbox /\ batch' = batch /\ outbox' = outbox /\ mail' = mail
    BY <1>2 DEF ExitLoop
  <2> QED BY <2>1, CountsTyped, EmptyCount DEF Copies
<1>3. CASE Drain
  <2>1. kernel' = kernel /\ inbox' = <<>> /\ batch' = inbox /\ outbox' = outbox /\ mail' = mail
    BY <1>3 DEF Drain, AfterDrain
  <2> QED BY <2>1, CountsTyped, EmptyCount DEF Copies
<1>4. CASE StartNewThread
  <2>1. kernel' = kernel /\ inbox' = <<>> /\ batch' = batch /\ outbox' = <<>> /\ mail' = mail
    BY <1>4 DEF StartNewThread
  <2> QED BY <2>1, CountsTyped, EmptyCount DEF Copies
<1>5. CASE ~(Flush \/ Receive \/ Answer \/ ExitLoop \/ Drain \/ StartNewThread)
  <2>1. kernel' = kernel /\ inbox' = inbox /\ batch' = batch /\ outbox' = outbox /\ mail' = mail
    BY <1>5 DEF SocketThread, RenderThread, Bind, PollTimesOut, EndAnswers, NoCommand, DeleteNode,
                SwitchProject, MoveChannel, Quit, JoinChannel
  <2> QED BY <2>1, CountsTyped DEF Copies
<1> QED BY <1>1, <1>2, <1>3, <1>4, <1>5

\* A call makes the one copy there is of it; the end of a call drops the reply.
LEMMA CallCopies ==
  ASSUME TypeOK, IdleUnseen, OneCopy, UnchangedByClients, NEW b \in Clients,
         \/ \E d \in Datagram(b), p \in Ports : Send(b, d, p)
         \/ TakeReply(b)
         \/ GiveUp(b)
  PROVE  OneCopy'
<1>1. inbox' = inbox /\ batch' = batch /\ outbox' = outbox
  OBVIOUS
<1> SUFFICES ASSUME NEW c \in Clients PROVE Copies(c)' <= 1
  BY DEF OneCopy, Copies
<1>2. Copies(c) <= 1
  BY DEF OneCopy, Copies
<1>3. CASE TakeReply(b) \/ GiveUp(b)
  <2>1. kernel' = kernel /\ mail'[c] \in {mail[c], NoReply}
    BY <1>3 DEF TakeReply, GiveUp, TypeOK
  <2> QED BY <1>1, <1>2, <2>1, CountsTyped DEF Copies
<1>4. CASE \E d \in Datagram(b), p \in Ports : Send(b, d, p)
  <2>1. PICK d \in Datagram(b), p \in Ports : Send(b, d, p)
    BY <1>4
  <2>2. /\ d \in Datagrams /\ d.from = b /\ kernel \in Seq(Datagrams)
        /\ kernel' \in {kernel, Append(kernel, d)} /\ mail' = mail /\ call[b] = "idle"
    BY <2>1 DEF Send, TypeOK, Datagrams, Datagram
  <2>3. Cardinality(From(kernel', c)) \in
          {Cardinality(From(kernel, c)), Cardinality(From(kernel, c)) + (IF b = c THEN 1 ELSE 0)}
    <3>1. Cardinality(From(Append(kernel, d), c))
            = Cardinality(From(kernel, c)) + (IF d.from = c THEN 1 ELSE 0)
      BY <2>2, FromAppend
    <3>2. CASE kernel' = kernel
      BY <3>2
    <3>3. CASE kernel' = Append(kernel, d)
      BY <2>2, <3>1, <3>3
    <3> QED BY <2>2, <3>2, <3>3
  <2>4. CASE b # c
    BY <1>1, <1>2, <2>2, <2>3, <2>4, CountsTyped DEF Copies
  <2>5. CASE b = c
    <3>1. /\ NoneFrom(c, kernel) /\ NoneFrom(c, inbox) /\ NoneFrom(c, batch)
          /\ NoneTo(c, outbox) /\ mail[c] = NoReply
      BY <2>2, <2>5 DEF IdleUnseen
    <3>2. /\ kernel \in Seq(Datagrams) /\ inbox \in Seq(Datagrams) /\ batch \in Seq(Datagrams)
          /\ outbox \in Seq(Replies)
      BY DEF TypeOK
    <3>3. /\ Cardinality(From(kernel, c)) = 0 /\ Cardinality(From(inbox, c)) = 0
          /\ Cardinality(From(batch, c)) = 0 /\ Cardinality(To(outbox, c)) = 0
      BY <3>1, <3>2, FromCount, ToCount
    <3> QED BY <1>1, <2>2, <2>3, <2>5, <3>1, <3>3 DEF Copies
  <2> QED BY <2>4, <2>5
<1> QED BY <1>3, <1>4

\* Every step keeps at most one copy.
LEMMA OneCopyStep == AskInv /\ OneCopy /\ [AskNext]_vars => OneCopy'
<1> SUFFICES ASSUME AskInv, OneCopy, [AskNext]_vars PROVE OneCopy'
  OBVIOUS
<1>1. TypeOK /\ IdleUnseen /\ JobKept
  BY DEF AskInv, AskTypeOK
<1>2. CASE SocketThread \/ RenderThread
  <2> SUFFICES ASSUME NEW c \in Clients PROVE Copies(c)' <= 1
    BY DEF OneCopy, Copies
  <2>1. Copies(c)' <= Copies(c) /\ Copies(c) <= 1
    BY <1>1, <1>2, ThreadCopies DEF OneCopy, Copies
  <2>2. Copies(c) \in Nat /\ Copies(c)' \in Int
    <3>1. TypeOK'
      BY AskInvStep DEF AskInv, AskTypeOK
    <3>2. /\ kernel' \in Seq(Datagrams) /\ inbox' \in Seq(Datagrams) /\ batch' \in Seq(Datagrams)
          /\ outbox' \in Seq(Replies)
      BY <3>1 DEF TypeOK
    <3>3. /\ Cardinality(From(kernel', c)) \in Nat /\ Cardinality(From(inbox', c)) \in Nat
          /\ Cardinality(From(batch', c)) \in Nat /\ Cardinality(To(outbox', c)) \in Nat
      BY <3>2, FromCount, ToCount
    <3> QED BY <1>1, <3>3, CountsTyped DEF Copies
  <2> QED BY <2>1, <2>2
<1>3. CASE \E c \in Clients \ Scripts : Tool(c)
  <2>1. PICK c \in Clients : Tool(c)
    BY <1>3
  <2>2. \/ \E d \in Datagram(c), p \in Ports : Send(c, d, p)
        \/ TakeReply(c)
        \/ GiveUp(c)
    BY <1>1, <2>1 DEF Tool, TypeOK
  <2> QED BY <1>1, <2>1, <2>2, CallCopies DEF Tool
<1>4. CASE AskChannel \/ UseReply \/ TimeOut
  <2>1. UnchangedByClients
    BY <1>4 DEF AskChannel, UseReply, TimeOut
  <2>2. job \in Job /\ job.script \in Clients
    <3>1. UnderWay
      BY <1>4 DEF AskChannel, UseReply, TimeOut, UnderWay, Working
    <3> QED BY <1>1, <3>1, ScriptsAssumption DEF JobKept, Job
  <2>3. Query \in Datagram(job.script)
    BY <2>2 DEF Query, Datagram, Kinds, Job
  <2>4. \/ \E d \in Datagram(job.script), p \in Ports : Send(job.script, d, p)
        \/ TakeReply(job.script)
        \/ GiveUp(job.script)
    <3>1. CASE AskChannel
      BY <2>3, <3>1, PortsAssumption DEF AskChannel
    <3> QED BY <1>4, <3>1 DEF UseReply, TimeOut
  <2> QED BY <1>1, <2>1, <2>2, <2>4, CallCopies
<1>5. CASE \/ StartAsk \/ StartWorker \/ Leave \/ LandPhantom \/ ProbeFails \/ RunScript
           \/ ReadDatabase \/ ScriptFails \/ Emit \/ ScriptEnds \/ ThreadEnds \/ UNCHANGED vars
  <2>1. UNCHANGED <<kernel, inbox, batch, outbox, mail>>
    BY <1>5 DEF StartAsk, StartWorker, Leave, LandPhantom, ProbeFails, RunScript, ReadDatabase,
                ScriptFails, Emit, ScriptEnds, ThreadEnds
  <2> QED BY <2>1 DEF OneCopy
<1> QED BY <1>2, <1>3, <1>4, <1>5 DEF AskNext, Channel, Worker, Ended

\* No request is in two places and no call has two replies, however the socket
\* thread, the frame, a rebinding and the clients interleave (query_thread.cpp:66-76
\* and 113-156, main.cpp:285-291).
THEOREM OneCopyHolds == AskSpec => []OneCopy
<1>1. AskInit => OneCopy
  <2> SUFFICES ASSUME AskInit, NEW c \in Clients PROVE Copies(c) <= 1
    BY DEF OneCopy, Copies
  <2>1. kernel = <<>> /\ inbox = <<>> /\ batch = <<>> /\ outbox = <<>> /\ mail[c] = NoReply
    BY DEF AskInit, Init
  <2> QED BY <2>1, EmptyCount DEF Copies
<1>2. AskInv /\ OneCopy /\ [AskNext]_vars => OneCopy'
  BY OneCopyStep
<1> QED BY <1>1, <1>2, AskInvHolds, PTL DEF AskSpec
------------------------------------------------------------------------------
(* The channel implements ReadService.                                     *)

AbsCall == [c \in Clients |-> IF call[c] = "idle" THEN "idle"
                              ELSE IF OnItsWay(c) THEN "asked" ELSE "spent"]
AbsReply == [c \in Clients |-> ReplyTo(c)]

\* A request with the token waits in a queue.
AskedIn(queue, c) == \E k \in 1..Len(queue) : queue[k].from = c /\ Parsed(queue[k]).token = Token

LEMMA OnItsWayIs ==
  ASSUME NEW c, NEW kq \in Seq(Datagrams), NEW iq \in Seq(Datagrams), NEW bq \in Seq(Datagrams)
  PROVE  (\E queue \in {kq, iq, bq} : \E k \in From(queue, c) : Parsed(queue[k]).token = Token)
           <=> AskedIn(kq, c) \/ AskedIn(iq, c) \/ AskedIn(bq, c)
<1>1. \A queue \in {kq, iq, bq} :
        (\E k \in From(queue, c) : Parsed(queue[k]).token = Token) <=> AskedIn(queue, c)
  BY DEF From, AskedIn
<1> QED BY <1>1

\* Taking the first request of a queue adds none, and leaves the others'.
LEMMA AskedInTail ==
  ASSUME NEW q \in Seq(Datagrams), q # <<>>, NEW c
  PROVE  /\ AskedIn(Tail(q), c) => AskedIn(q, c)
         /\ Head(q).from # c => (AskedIn(Tail(q), c) <=> AskedIn(q, c))
<1>1. /\ Len(Tail(q)) = Len(q) - 1 /\ Len(q) \in Nat \ {0} /\ Head(q) = q[1]
      /\ \A k \in 1..Len(Tail(q)) : Tail(q)[k] = q[k + 1]
  OBVIOUS
<1>2. ASSUME AskedIn(Tail(q), c) PROVE AskedIn(q, c)
  <2>1. PICK k \in 1..Len(Tail(q)) : Tail(q)[k].from = c /\ Parsed(Tail(q)[k]).token = Token
    BY <1>2 DEF AskedIn
  <2>2. k + 1 \in 1..Len(q) /\ Tail(q)[k] = q[k + 1]
    BY <1>1
  <2> QED BY <2>1, <2>2 DEF AskedIn
<1>3. ASSUME AskedIn(q, c), q[1].from # c PROVE AskedIn(Tail(q), c)
  <2>1. PICK k \in 1..Len(q) : q[k].from = c /\ Parsed(q[k]).token = Token
    BY <1>3 DEF AskedIn
  <2>2. k - 1 \in 1..Len(Tail(q))
    BY <1>1, <1>3, <2>1
  <2>3. Tail(q)[k - 1] = q[k]
    BY <1>1, <2>2
  <2> QED BY <2>1, <2>2, <2>3 DEF AskedIn
<1> QED BY <1>1, <1>2, <1>3

\* Pushing a request adds its sender's.
LEMMA AskedInAppend ==
  ASSUME NEW q \in Seq(Datagrams), NEW d \in Datagrams, NEW c
  PROVE  AskedIn(Append(q, d), c)
           <=> AskedIn(q, c) \/ (d.from = c /\ Parsed(d).token = Token)
<1>1. Len(Append(q, d)) = Len(q) + 1 /\ Len(q) \in Nat
      /\ \A k \in 1..Len(q) + 1 : Append(q, d)[k] = IF k <= Len(q) THEN q[k] ELSE d
  OBVIOUS
<1>2. ASSUME AskedIn(Append(q, d), c)
      PROVE  AskedIn(q, c) \/ (d.from = c /\ Parsed(d).token = Token)
  BY <1>1, <1>2 DEF AskedIn
<1>3. ASSUME AskedIn(q, c) PROVE AskedIn(Append(q, d), c)
  BY <1>1, <1>3 DEF AskedIn
<1>4. ASSUME d.from = c, Parsed(d).token = Token PROVE AskedIn(Append(q, d), c)
  <2>1. Len(q) + 1 \in 1..Len(Append(q, d)) /\ Append(q, d)[Len(q) + 1] = d
    BY <1>1
  <2> QED BY <1>4, <2>1 DEF AskedIn
<1> QED BY <1>2, <1>3, <1>4

\* Nothing is asked in an empty queue.
LEMMA AskedInEmpty == ASSUME NEW c PROVE ~AskedIn(<<>>, c)
  BY DEF AskedIn

CopiesHeld(kq, iq, bq, oq, m, c) ==
  Cardinality(From(kq, c)) + Cardinality(From(iq, c)) + Cardinality(From(bq, c))
    + Cardinality(To(oq, c)) + (IF m = NoReply THEN 0 ELSE 1)

\* Where there is a reply for a client there is nothing else of it.
LEMMA ReplyIsAlone ==
  ASSUME NEW kq \in Seq(Datagrams), NEW iq \in Seq(Datagrams), NEW bq \in Seq(Datagrams),
         NEW oq \in Seq(Replies), NEW m, NEW c,
         CopiesHeld(kq, iq, bq, oq, m, c) <= 1, To(oq, c) # {}
  PROVE  /\ m = NoReply /\ ~AskedIn(kq, c) /\ ~AskedIn(iq, c) /\ ~AskedIn(bq, c)
         /\ \A j, k \in To(oq, c) : j = k
<1>1. /\ IsFiniteSet(From(kq, c)) /\ IsFiniteSet(From(iq, c)) /\ IsFiniteSet(From(bq, c))
      /\ Cardinality(From(kq, c)) \in Nat /\ Cardinality(From(iq, c)) \in Nat
      /\ Cardinality(From(bq, c)) \in Nat
  BY FromCount
<1>2. To(oq, c) \in SUBSET (1..Len(oq)) /\ Cardinality(To(oq, c)) \in Nat
      /\ Cardinality(To(oq, c)) >= 1
  BY ToCount
<1>3. /\ m = NoReply /\ Cardinality(To(oq, c)) = 1
      /\ Cardinality(From(kq, c)) = 0 /\ Cardinality(From(iq, c)) = 0
      /\ Cardinality(From(bq, c)) = 0
  BY <1>1, <1>2 DEF CopiesHeld
<1>4. From(kq, c) = {} /\ From(iq, c) = {} /\ From(bq, c) = {}
  BY <1>1, <1>3, FS_EmptySet
<1>5. IsFiniteSet(To(oq, c))
  BY <1>2, PlacesFinite
<1>6. \E x : To(oq, c) = {x}
  BY <1>3, <1>5, FS_Singleton
<1>7. ~AskedIn(kq, c) /\ ~AskedIn(iq, c) /\ ~AskedIn(bq, c)
  BY <1>4 DEF From, AskedIn
<1> QED BY <1>3, <1>6, <1>7

\* What the inbox and the batch hold has been parsed: what was invalid has no token.
Screened(queue) == \A k \in 1..Len(queue) : Parsed(queue[k]) = queue[k]
QueuesScreened == Screened(inbox) /\ Screened(batch)

LEMMA ParsedTwice ==
  ASSUME NEW d \in Datagrams
  PROVE  Parsed(d) \in Datagrams /\ Parsed(d).from = d.from /\ Parsed(Parsed(d)) = Parsed(d)
<1>1. PICK c \in Clients : d \in Datagram(c)
  BY DEF Datagrams
<1>2. Parsed(d).from = d.from /\ Parsed(Parsed(d)) = Parsed(d)
  BY <1>1 DEF Datagram, Parsed
<1> QED BY <1>2, DatagramShape

LEMMA ScreenedStep == AskInv /\ QueuesScreened /\ [AskNext]_vars => QueuesScreened'
<1> SUFFICES ASSUME AskInv, QueuesScreened, [AskNext]_vars PROVE QueuesScreened'
  OBVIOUS
<1>1. TypeOK
  BY DEF AskInv, AskTypeOK
<1>2. CASE Receive
  <2>1. kernel \in Seq(Datagrams) /\ inbox \in Seq(Datagrams) /\ kernel # <<>> /\ batch' = batch
        /\ inbox' \in {inbox, Append(inbox, Parsed(Head(kernel)))}
    BY <1>1, <1>2 DEF Receive, TypeOK
  <2>2. Head(kernel) \in Datagrams
    BY <2>1
  <2>3. PICK d \in Datagrams : d = Parsed(Head(kernel)) /\ Parsed(d) = d
    BY <2>2, ParsedTwice
  <2>4. Len(Append(inbox, d)) = Len(inbox) + 1
        /\ \A k \in 1..Len(inbox) + 1 : Append(inbox, d)[k] = IF k <= Len(inbox) THEN inbox[k] ELSE d
    BY <2>1
  <2>5. Screened(Append(inbox, d))
    BY <2>1, <2>3, <2>4 DEF QueuesScreened, Screened
  <2>6. inbox' = inbox \/ inbox' = Append(inbox, d)
    BY <2>1, <2>3
  <2>7. Screened(inbox)' /\ Screened(batch)'
    BY <2>1, <2>5, <2>6 DEF QueuesScreened, Screened
  <2> QED BY <2>7 DEF QueuesScreened
<1>3. CASE Answer
  <2>1. batch \in Seq(Datagrams) /\ batch # <<>> /\ batch' = Tail(batch) /\ inbox' = inbox
    BY <1>1, <1>3 DEF Answer, TypeOK, RestOfBatch
  <2>2. Len(Tail(batch)) = Len(batch) - 1
        /\ \A k \in 1..Len(Tail(batch)) : Tail(batch)[k] = batch[k + 1]
    BY <2>1
  <2>3. Len(batch) \in Nat
    BY <2>1, LenProperties
  <2>4. ASSUME NEW k \in 1..Len(Tail(batch)) PROVE Parsed(Tail(batch)[k]) = Tail(batch)[k]
    <3>1. k + 1 \in 1..Len(batch) /\ Tail(batch)[k] = batch[k + 1]
      BY <2>2, <2>3
    <3> QED BY <3>1 DEF QueuesScreened, Screened
  <2>5. Screened(Tail(batch))
    BY <2>4 DEF Screened
  <2> QED BY <2>1, <2>5 DEF QueuesScreened, Screened
<1>4. CASE Drain \/ StartNewThread
  BY <1>4 DEF Drain, AfterDrain, StartNewThread, QueuesScreened, Screened
<1>5. CASE ~(Receive \/ Answer \/ Drain \/ StartNewThread)
  <2>1. inbox' = inbox /\ batch' = batch
    BY <1>5 DEF AskNext, Channel, SocketThread, RenderThread, Tool, Worker, Ended,
                Bind, Flush, PollTimesOut, ExitLoop, EndAnswers, NoCommand, DeleteNode,
                SwitchProject, MoveChannel, Quit, JoinChannel, StartAsk, StartWorker, Leave,
                LandPhantom, ProbeFails, RunScript, AskChannel, UseReply, TimeOut, ReadDatabase,
                ScriptFails, Emit, ScriptEnds, ThreadEnds
  <2> QED BY <2>1 DEF QueuesScreened, Screened
<1> QED BY <1>2, <1>3, <1>4, <1>5
\* What the refinement rests on.
RefInv == AskInv /\ OneCopy /\ QueuesScreened

\* The types of the queues, now and after the step.
LEMMA QueueTypes ==
  ASSUME AskInv, [AskNext]_vars
  PROVE  /\ kernel \in Seq(Datagrams) /\ inbox \in Seq(Datagrams) /\ batch \in Seq(Datagrams)
         /\ outbox \in Seq(Replies)
         /\ kernel' \in Seq(Datagrams) /\ inbox' \in Seq(Datagrams) /\ batch' \in Seq(Datagrams)
         /\ outbox' \in Seq(Replies)
<1>1. AskInv'
  BY AskInvStep
<1>2. TypeOK /\ TypeOK'
  BY <1>1 DEF AskInv, AskTypeOK
<1> QED BY <1>2 DEF TypeOK

LEMMA OnItsWayBoth ==
  ASSUME AskInv, [AskNext]_vars, NEW c
  PROVE  /\ OnItsWay(c) <=> AskedIn(kernel, c) \/ AskedIn(inbox, c) \/ AskedIn(batch, c)
         /\ OnItsWay(c)' <=> AskedIn(kernel', c) \/ AskedIn(inbox', c) \/ AskedIn(batch', c)
<1>1. /\ kernel \in Seq(Datagrams) /\ inbox \in Seq(Datagrams) /\ batch \in Seq(Datagrams)
      /\ kernel' \in Seq(Datagrams) /\ inbox' \in Seq(Datagrams) /\ batch' \in Seq(Datagrams)
  BY QueueTypes
<1>2. OnItsWay(c) <=> AskedIn(kernel, c) \/ AskedIn(inbox, c) \/ AskedIn(batch, c)
  BY <1>1, OnItsWayIs DEF OnItsWay
<1>3. OnItsWay(c)' <=> AskedIn(kernel', c) \/ AskedIn(inbox', c) \/ AskedIn(batch', c)
  BY <1>1, OnItsWayIs DEF OnItsWay
<1> QED BY <1>2, <1>3

\* A step by which requests and replies only stay or go is a Lapse.
LEMMA LapseRefines ==
  ASSUME project' = project, dead' = dead,
         \A c \in Clients : /\ call'[c] = "idle" <=> call[c] = "idle"
                            /\ OnItsWay(c)' => OnItsWay(c)
                            /\ ReplyTo(c)' \in {ReplyTo(c), NoReply}
  PROVE  RS!Next
<1> DEFINE Spent == {c \in Clients : AbsCall[c] = "asked" /\ ~OnItsWay(c)'}
           Lost == {c \in Clients : ReplyTo(c)' # ReplyTo(c)}
<1>1. AbsCall' = [c \in Clients |-> IF c \in Spent THEN "spent" ELSE AbsCall[c]]
  BY DEF AbsCall
<1>2. AbsReply' = [c \in Clients |-> IF c \in Lost THEN NoReply ELSE AbsReply[c]]
  BY DEF AbsReply
<1>3. Spent \in SUBSET {c \in Clients : AbsCall[c] = "asked"} /\ Lost \in SUBSET Clients
  OBVIOUS
<1> HIDE DEF Spent, Lost
<1>4. \E S \in SUBSET {c \in Clients : AbsCall[c] = "asked"} :
        AbsCall' = [c \in Clients |-> IF c \in S THEN "spent" ELSE AbsCall[c]]
  BY <1>1, <1>3
<1>5. \E S \in SUBSET Clients :
        AbsReply' = [c \in Clients |-> IF c \in S THEN NoReply ELSE AbsReply[c]]
  BY <1>2, <1>3
<1>6. RS!Lapse
  BY <1>4, <1>5 DEF RS!Lapse, AbsCall, AbsReply
<1> QED BY <1>6 DEF RS!Next

\* A reply stays where it is, or is taken or lost.
LEMMA ReplyKept ==
  ASSUME NEW c, outbox' = outbox, mail'[c] \in {mail[c], NoReply}
  PROVE  ReplyTo(c)' \in {ReplyTo(c), NoReply}
  BY DEF ReplyTo

\* When the outbox is emptied, its replies are in the clients' hands or lost.
LEMMA ReplyFlushed ==
  ASSUME TypeOK, OneCopy, NEW c \in Clients, outbox' = <<>>, mail'[c] \in {mail[c], Delivered(c)}
  PROVE  ReplyTo(c)' \in {ReplyTo(c), NoReply}
<1>1. ReplyTo(c)' = mail'[c]
  <2>1. To(outbox', c) = {}
    BY DEF To
  <2> QED BY <2>1 DEF ReplyTo
<1>2. CASE To(outbox, c) = {}
  <2>1. ~ \E k \in DOMAIN outbox : outbox[k].to = c
    BY <1>2 DEF To
  <2>2. Delivered(c) = mail[c]
    BY <2>1, DeliveredTyped
  <2> QED BY <1>1, <1>2, <2>2 DEF ReplyTo
<1>3. CASE To(outbox, c) # {}
  <2>1. mail[c] = NoReply /\ \A j, k \in To(outbox, c) : j = k
    <3>1. /\ kernel \in Seq(Datagrams) /\ inbox \in Seq(Datagrams) /\ batch \in Seq(Datagrams)
          /\ outbox \in Seq(Replies)
      BY DEF TypeOK
    <3>2. CopiesHeld(kernel, inbox, batch, outbox, mail[c], c) <= 1
      BY DEF OneCopy, CopiesHeld
    <3> QED BY <1>3, <3>1, <3>2, ReplyIsAlone
  <2>2. CASE Delivered(c) = mail[c]
    BY <1>1, <2>1, <2>2
  <2>3. CASE Delivered(c) # mail[c]
    <3>1. PICK k \in DOMAIN outbox : outbox[k] = Delivered(c) /\ outbox[k].to = c
      BY <2>3, DeliveredTyped
    <3>2. k \in To(outbox, c)
      BY <3>1 DEF To
    <3>3. (CHOOSE j \in To(outbox, c) : TRUE) = k
      BY <2>1, <3>2
    <3>4. ReplyTo(c) = Delivered(c)
      BY <1>3, <3>1, <3>3 DEF ReplyTo
    <3> QED BY <1>1, <2>1, <3>4
  <2> QED BY <2>2, <2>3
<1> QED BY <1>2, <1>3

\* The socket thread moves requests and replies, or drops them.
LEMMA SocketThreadRefines ==
  ASSUME RefInv, AskNext, SocketThread
  PROVE  RS!Next
<1>1. TypeOK /\ AskInv /\ OneCopy /\ [AskNext]_vars
  BY DEF RefInv, AskInv, AskTypeOK
<1>2. project' = project /\ dead' = dead /\ call' = call /\ batch' = batch
  BY DEF SocketThread, Bind, Flush, Receive, PollTimesOut, ExitLoop
<1> SUFFICES ASSUME NEW c \in Clients
             PROVE  (OnItsWay(c)' => OnItsWay(c)) /\ ReplyTo(c)' \in {ReplyTo(c), NoReply}
  BY <1>2, LapseRefines
<1>3. CASE Bind \/ PollTimesOut \/ Flush \/ ExitLoop
  <2>1. inbox' = inbox /\ kernel' \in {kernel, <<>>}
    BY <1>3 DEF Bind, PollTimesOut, Flush, ExitLoop
  <2>2. OnItsWay(c)' => OnItsWay(c)
    BY <1>1, <1>2, <2>1, OnItsWayBoth, AskedInEmpty
  <2>3. CASE Flush
    <3>1. outbox' = <<>> /\ mail'[c] = Delivered(c)
      BY <2>3 DEF Flush
    <3> QED BY <1>1, <2>2, <3>1, ReplyFlushed
  <2>4. CASE ~Flush
    <3>1. outbox' = outbox /\ mail' = mail
      BY <1>3, <2>4 DEF Bind, PollTimesOut, ExitLoop
    <3> QED BY <2>2, <3>1, ReplyKept
  <2> QED BY <2>3, <2>4
<1>4. CASE Receive
  <2>1. /\ kernel # <<>> /\ kernel' = Tail(kernel) /\ outbox' = outbox /\ mail' = mail
        /\ inbox' \in {inbox, Append(inbox, Parsed(Head(kernel)))}
        /\ kernel \in Seq(Datagrams) /\ inbox \in Seq(Datagrams)
    BY <1>1, <1>4 DEF Receive, TypeOK
  <2>2. Head(kernel) \in Datagrams /\ Head(kernel) = kernel[1] /\ 1 \in 1..Len(kernel)
    BY <2>1
  <2>3. PICK d \in Datagrams : /\ d = Parsed(Head(kernel)) /\ d.from = Head(kernel).from
                               /\ Parsed(d) = Parsed(Head(kernel))
    BY <2>2, ParsedTwice
  <2>4. AskedIn(kernel', c) => AskedIn(kernel, c)
    BY <2>1, AskedInTail
  <2>5. d.from = c /\ Parsed(d).token = Token => AskedIn(kernel, c)
    BY <2>2, <2>3 DEF AskedIn
  <2>6. AskedIn(inbox', c) => AskedIn(inbox, c) \/ AskedIn(kernel, c)
    <3>1. inbox' = inbox \/ inbox' = Append(inbox, d)
      BY <2>1, <2>3
    <3>2. AskedIn(Append(inbox, d), c) => AskedIn(inbox, c) \/ (d.from = c /\ Parsed(d).token = Token)
      BY <2>1, AskedInAppend
    <3> QED BY <2>5, <3>1, <3>2
  <2>7. OnItsWay(c)' => OnItsWay(c)
    BY <1>1, <1>2, <2>4, <2>6, OnItsWayBoth
  <2>8. ReplyTo(c)' \in {ReplyTo(c), NoReply}
    BY <2>1, ReplyKept
  <2> QED BY <2>7, <2>8
<1> QED BY <1>3, <1>4 DEF SocketThread
\* A push leaves the replies of the others where they are.
LEMMA ReplyPushed ==
  ASSUME outbox \in Seq(Replies), NEW r \in Replies, outbox' = Append(outbox, r), NEW c \in Clients,
         r.to # c, mail' = mail
  PROVE  ReplyTo(c)' = ReplyTo(c)
<1>1. /\ DOMAIN outbox' = 1..Len(outbox) + 1 /\ DOMAIN outbox = 1..Len(outbox)
      /\ Len(outbox) \in Nat
      /\ \A k \in 1..Len(outbox) + 1 : outbox'[k] = IF k <= Len(outbox) THEN outbox[k] ELSE r
  OBVIOUS
<1>2. To(outbox', c) = To(outbox, c)
  BY <1>1 DEF To
<1>3. \A k \in To(outbox, c) : outbox'[k] = outbox[k]
  BY <1>1 DEF To
<1> QED BY <1>2, <1>3 DEF ReplyTo

\* A request that is answered is one that was asked, and its reply, from the graph as
\* it is now, is the only one.
LEMMA AnswerRefines ==
  ASSUME RefInv, AskNext, Answer
  PROVE  RS!Next
<1>1. TypeOK /\ AskInv /\ OneCopy /\ QueuesScreened /\ IdleUnseen /\ [AskNext]_vars
  BY DEF RefInv, AskInv, AskTypeOK
<1>2. /\ batch # <<>> /\ batch \in Seq(Datagrams) /\ batch' = Tail(batch) /\ outbox \in Seq(Replies)
      /\ UNCHANGED <<project, dead, call, kernel, inbox, mail>>
  BY <1>1 DEF Answer, TypeOK, RestOfBatch
<1>3. PICK d \in Datagrams : d = Head(batch) /\ d = batch[1] /\ 1 \in 1..Len(batch)
  BY <1>2
<1>4. d.from \in Clients
  BY DatagramShape
<1>5. CASE ~Authentic(d)
  <2> SUFFICES ASSUME NEW c \in Clients
               PROVE  (OnItsWay(c)' => OnItsWay(c)) /\ ReplyTo(c)' \in {ReplyTo(c), NoReply}
    BY <1>2, LapseRefines
  <2>1. outbox' = outbox
    BY <1>3, <1>5 DEF Answer
  <2>2. AskedIn(batch', c) => AskedIn(batch, c)
    BY <1>2, AskedInTail
  <2>3. OnItsWay(c)' => OnItsWay(c)
    BY <1>1, <1>2, <2>2, OnItsWayBoth
  <2>4. ReplyTo(c)' \in {ReplyTo(c), NoReply}
    BY <1>2, <2>1, ReplyKept
  <2> QED BY <2>3, <2>4
<1>6. CASE Authentic(d)
  <2>1. PICK r \in ResponsesTo(d) : outbox' = Append(outbox, r)
    BY <1>3, <1>6 DEF Answer
  <2>2. r \in Replies /\ r.to = d.from /\ r.graph = project /\ r.nodes \subseteq Live
    BY <1>1, ResponsesTyped
  <2>3. r \in RS!Answers(d.from)
    <3>1. CASE Diagnosed(d)
      <4>1. r = [to |-> d.from, graph |-> project, ok |-> FALSE, nodes |-> {}]
        BY <3>1 DEF ResponsesTo, Error
      <4> QED BY <4>1 DEF RS!Answers
    <3>2. CASE ~Diagnosed(d)
      <4>1. PICK S \in Hits(d) : r = [to |-> d.from, graph |-> project, ok |-> TRUE, nodes |-> S]
        BY <3>2 DEF ResponsesTo, Found
      <4>2. S \subseteq Nodes \ dead[project]
        BY <2>2, <4>1 DEF Live
      <4> QED BY <4>1, <4>2 DEF RS!Answers
    <3> QED BY <3>1, <3>2
  <2>4. OnItsWay(d.from) /\ call[d.from] # "idle"
    <3>1. Parsed(batch[1]).token = Token
      BY <1>1, <1>3, <1>6 DEF QueuesScreened, Screened, Authentic
    <3>2. AskedIn(batch, d.from)
      BY <1>3, <3>1 DEF AskedIn
    <3>3. OnItsWay(d.from)
      BY <1>1, <3>2, OnItsWayBoth
    <3>4. ~NoneFrom(d.from, batch)
      BY <1>3 DEF NoneFrom
    <3> QED BY <1>1, <1>4, <3>3, <3>4 DEF IdleUnseen
  <2>5. ~OnItsWay(d.from)' /\ ReplyTo(d.from)' = r
    <3>1. /\ kernel' \in Seq(Datagrams) /\ inbox' \in Seq(Datagrams) /\ batch' \in Seq(Datagrams)
          /\ outbox' \in Seq(Replies)
      BY <1>1, QueueTypes
    <3>2. OneCopy'
      BY <1>1, OneCopyStep
    <3>3. CopiesHeld(kernel', inbox', batch', outbox', mail'[d.from], d.from) <= 1
      BY <1>4, <3>2 DEF OneCopy, CopiesHeld
    <3>4. Len(outbox) + 1 \in To(outbox', d.from) /\ outbox'[Len(outbox) + 1] = r
      <4>1. DOMAIN outbox' = 1..Len(outbox) + 1 /\ Len(outbox) \in Nat
            /\ outbox'[Len(outbox) + 1] = r
        BY <1>2, <2>1, <2>2
      <4> QED BY <2>2, <4>1 DEF To
    <3>5. /\ ~AskedIn(kernel', d.from) /\ ~AskedIn(inbox', d.from) /\ ~AskedIn(batch', d.from)
          /\ \A j, k \in To(outbox', d.from) : j = k
      BY <3>1, <3>3, <3>4, ReplyIsAlone
    <3>6. ~OnItsWay(d.from)'
      BY <1>1, <3>5, OnItsWayBoth
    <3>7. (CHOOSE k \in To(outbox', d.from) : TRUE) = Len(outbox) + 1
      BY <3>4, <3>5
    <3>8. ReplyTo(d.from)' = r
      BY <3>4, <3>7 DEF ReplyTo
    <3> QED BY <3>6, <3>8
  <2>6. ASSUME NEW c \in Clients, c # d.from
        PROVE  (OnItsWay(c)' <=> OnItsWay(c)) /\ ReplyTo(c)' = ReplyTo(c)
    <3>1. AskedIn(batch', c) <=> AskedIn(batch, c)
      BY <1>2, <1>3, <2>6, AskedInTail
    <3>2. OnItsWay(c)' <=> OnItsWay(c)
      BY <1>1, <1>2, <3>1, OnItsWayBoth
    <3>3. ReplyTo(c)' = ReplyTo(c)
      BY <1>2, <2>1, <2>2, <2>6, ReplyPushed
    <3> QED BY <3>2, <3>3
  <2>7. AbsCall[d.from] = "asked"
    BY <1>4, <2>4 DEF AbsCall
  <2>8. AbsCall' = [AbsCall EXCEPT ![d.from] = "spent"]
    BY <1>2, <1>4, <2>4, <2>5, <2>6 DEF AbsCall
  <2>9. AbsReply' = [AbsReply EXCEPT ![d.from] = r]
    BY <1>4, <2>5, <2>6 DEF AbsReply
  <2>10. RS!Answer(d.from)
    BY <1>2, <2>3, <2>7, <2>8, <2>9 DEF RS!Answer, AbsCall, AbsReply
  <2> QED BY <1>4, <2>10 DEF RS!Next
<1> QED BY <1>5, <1>6

\* What the abstract call and reply are read from.
LEMMA NothingMoves ==
  ASSUME UNCHANGED <<call, kernel, inbox, batch, outbox, mail>>
  PROVE  AbsCall' = AbsCall /\ AbsReply' = AbsReply
  BY DEF AbsCall, AbsReply, OnItsWay, ReplyTo

\* The operator's commands edit the graph; every other frame step moves whole queues.
LEMMA RenderThreadRefines ==
  ASSUME RefInv, AskNext, RenderThread
  PROVE  RS!Next
<1>1. TypeOK /\ AskInv /\ OneCopy /\ [AskNext]_vars /\ TypeOK'
  BY AskInvStep DEF RefInv, AskInv, AskTypeOK
<1>2. CASE Answer
  BY <1>2, AnswerRefines
<1>3. CASE DeleteNode \/ SwitchProject
  <2>1. UNCHANGED <<call, kernel, inbox, batch, outbox, mail>>
    BY <1>3 DEF DeleteNode, SwitchProject
  <2>2. project' \in Projects /\ dead' \in [Projects -> SUBSET Nodes]
    BY <1>1 DEF TypeOK
  <2>3. \A p \in Projects : dead[p] \subseteq dead'[p]
    BY <1>1, <1>3 DEF DeleteNode, SwitchProject, TypeOK
  <2>4. AbsCall' = AbsCall /\ AbsReply' = AbsReply
    BY <2>1, NothingMoves
  <2>5. RS!Edit
    BY <2>2, <2>3, <2>4 DEF RS!Edit, AbsCall, AbsReply
  <2> QED BY <2>5 DEF RS!Next
<1>4. CASE ~(Answer \/ DeleteNode \/ SwitchProject)
  <2>1. /\ UNCHANGED <<project, dead, call, kernel, mail>>
        /\ \/ UNCHANGED <<inbox, batch, outbox>>
           \/ inbox' = <<>> /\ batch' = inbox /\ outbox' = outbox
           \/ inbox' = <<>> /\ batch' = batch /\ outbox' = <<>>
    BY <1>4 DEF RenderThread, Drain, AfterDrain, EndAnswers, NoCommand, MoveChannel, StartNewThread,
                Quit, JoinChannel
  <2> SUFFICES ASSUME NEW c \in Clients
               PROVE  (OnItsWay(c)' => OnItsWay(c)) /\ ReplyTo(c)' \in {ReplyTo(c), NoReply}
    BY <2>1, LapseRefines
  <2>2. OnItsWay(c)' => OnItsWay(c)
    BY <1>1, <2>1, OnItsWayBoth, AskedInEmpty
  <2>3. ReplyTo(c)' \in {ReplyTo(c), NoReply}
    BY <1>1, <2>1, ReplyKept, ReplyFlushed
  <2> QED BY <2>2, <2>3
<1> QED BY <1>2, <1>3, <1>4

\* A datagram sent is a Call, a socket closed a Lapse.
LEMMA CallRefines ==
  ASSUME RefInv, AskNext, UnchangedByClients, NEW b \in Clients,
         \/ \E d \in Datagram(b), p \in Ports : Send(b, d, p)
         \/ TakeReply(b)
         \/ GiveUp(b)
  PROVE  RS!Next
<1>1. TypeOK /\ AskInv /\ IdleUnseen /\ [AskNext]_vars
  BY DEF RefInv, AskInv, AskTypeOK
<1>2. UNCHANGED <<project, dead, inbox, batch, outbox>>
  OBVIOUS
<1>3. CASE TakeReply(b) \/ GiveUp(b)
  <2>1. /\ kernel' = kernel /\ call' = [call EXCEPT ![b] = "over"]
        /\ mail' = [mail EXCEPT ![b] = NoReply] /\ call[b] # "idle"
    BY <1>1, <1>3 DEF TakeReply, GiveUp, IdleUnseen
  <2>2. ASSUME NEW c \in Clients
        PROVE  /\ call'[c] = "idle" <=> call[c] = "idle"
               /\ OnItsWay(c)' => OnItsWay(c)
               /\ ReplyTo(c)' \in {ReplyTo(c), NoReply}
    <3>1. call'[c] = "idle" <=> call[c] = "idle"
      BY <1>1, <2>1 DEF TypeOK
    <3>2. OnItsWay(c)' => OnItsWay(c)
      BY <1>1, <1>2, <2>1, OnItsWayBoth
    <3>3. mail'[c] \in {mail[c], NoReply}
      BY <1>1, <2>1 DEF TypeOK
    <3>4. ReplyTo(c)' \in {ReplyTo(c), NoReply}
      BY <1>2, <3>3, ReplyKept
    <3> QED BY <3>1, <3>2, <3>4
  <2> QED BY <1>2, <2>2, LapseRefines
<1>4. CASE \E d \in Datagram(b), p \in Ports : Send(b, d, p)
  <2>1. PICK d \in Datagram(b), p \in Ports : Send(b, d, p)
    BY <1>4
  <2>2. /\ d \in Datagrams /\ d.from = b /\ kernel \in Seq(Datagrams)
        /\ kernel' = kernel \/ kernel' = Append(kernel, d)
        /\ mail' = mail /\ call[b] = "idle" /\ call' = [call EXCEPT ![b] = "waiting"]
    BY <1>1, <2>1 DEF Send, TypeOK, Datagrams, Datagram
  <2>3. ASSUME NEW c \in Clients, c # b PROVE OnItsWay(c)' <=> OnItsWay(c)
    <3>1. AskedIn(Append(kernel, d), c) <=> AskedIn(kernel, c)
      BY <2>2, <2>3, AskedInAppend
    <3>2. AskedIn(kernel', c) <=> AskedIn(kernel, c)
      <4>1. CASE kernel' = kernel
        BY <4>1
      <4>2. CASE kernel' = Append(kernel, d)
        BY <3>1, <4>2
      <4> QED BY <2>2, <4>1, <4>2
    <3> QED BY <1>1, <1>2, <3>2, OnItsWayBoth
  <2>4. AbsReply' = AbsReply
    BY <1>2, <2>2 DEF AbsReply, ReplyTo
  <2>5. AbsCall[b] = "idle"
    BY <2>2 DEF AbsCall
  <2>6. PICK s \in {"asked", "spent"} : s = IF OnItsWay(b)' THEN "asked" ELSE "spent"
    OBVIOUS
  <2>7. AbsCall' = [AbsCall EXCEPT ![b] = s]
    BY <1>1, <2>2, <2>3, <2>6 DEF AbsCall, TypeOK
  <2>8. RS!Call(b)
    BY <1>2, <2>4, <2>5, <2>7 DEF RS!Call, AbsCall, AbsReply
  <2> QED BY <2>8 DEF RS!Next
<1> QED BY <1>3, <1>4

\* Every step is one of the service, or one it does not see.
LEMMA StepRefines == RefInv /\ [AskNext]_vars => [RS!Next]_RS!vars
<1> SUFFICES ASSUME RefInv, [AskNext]_vars PROVE [RS!Next]_RS!vars
  OBVIOUS
<1>1. TypeOK /\ JobKept
  BY DEF RefInv, AskInv, AskTypeOK
<1>2. CASE AskNext /\ (SocketThread \/ RenderThread)
  BY <1>2, SocketThreadRefines, RenderThreadRefines
<1>3. CASE AskNext /\ \E c \in Clients \ Scripts : Tool(c)
  <2>1. PICK c \in Clients : Tool(c)
    BY <1>3
  <2>2. \/ \E d \in Datagram(c), p \in Ports : Send(c, d, p)
        \/ TakeReply(c)
        \/ GiveUp(c)
    BY <1>1, <2>1 DEF Tool, TypeOK
  <2> QED BY <1>3, <2>1, <2>2, CallRefines DEF Tool
<1>4. CASE AskNext /\ (AskChannel \/ UseReply \/ TimeOut)
  <2>1. UnchangedByClients
    BY <1>4 DEF AskChannel, UseReply, TimeOut
  <2>2. job \in Job /\ job.script \in Clients
    <3>1. UnderWay
      BY <1>4 DEF AskChannel, UseReply, TimeOut, UnderWay, Working
    <3> QED BY <1>1, <3>1, ScriptsAssumption DEF JobKept, Job
  <2>3. Query \in Datagram(job.script)
    BY <2>2 DEF Query, Datagram, Kinds, Job
  <2>4. \/ \E d \in Datagram(job.script), p \in Ports : Send(job.script, d, p)
        \/ TakeReply(job.script)
        \/ GiveUp(job.script)
    <3>1. CASE AskChannel
      BY <2>3, <3>1, PortsAssumption DEF AskChannel
    <3> QED BY <1>4, <3>1 DEF UseReply, TimeOut
  <2> QED BY <1>4, <2>1, <2>2, <2>4, CallRefines
<1>5. CASE \/ StartAsk \/ StartWorker \/ Leave \/ LandPhantom \/ ProbeFails \/ RunScript
           \/ ReadDatabase \/ ScriptFails \/ Emit \/ ScriptEnds \/ ThreadEnds \/ UNCHANGED vars
  <2>1. UNCHANGED <<project, dead, call, kernel, inbox, batch, outbox, mail>>
    BY <1>5 DEF StartAsk, StartWorker, Leave, LandPhantom, ProbeFails, RunScript, ReadDatabase,
                ScriptFails, Emit, ScriptEnds, ThreadEnds
  <2>2. AbsCall' = AbsCall /\ AbsReply' = AbsReply
    BY <2>1, NothingMoves
  <2>3. UNCHANGED RS!vars
    BY <2>1, <2>2 DEF RS!vars, AbsCall, AbsReply
  <2> QED BY <2>3
<1> QED BY <1>2, <1>3, <1>4, <1>5 DEF AskNext, Channel, Worker, Ended

\* The channel implements ReadService, whatever the asks, the tools and the operator
\* do: a call is answered at most once, only with the token, and with the live graph
\* of one moment between the call and its answer (query_thread.cpp:66-156,
\* main.cpp:285-291, query_responder.cpp:21-24).
THEOREM ChannelIsReadService == AskSpec => ImplementsReadService
<1>1. AskInit => RefInv /\ RS!Init
  <2> SUFFICES ASSUME AskInit PROVE RefInv /\ RS!Init
    OBVIOUS
  <2>1. /\ kernel = <<>> /\ inbox = <<>> /\ batch = <<>> /\ outbox = <<>>
        /\ call = [c \in Clients |-> "idle"] /\ mail = [c \in Clients |-> NoReply]
        /\ project = Home /\ dead = [p \in Projects |-> {}]
    BY DEF AskInit, Init
  <2>2. OneCopy
    <3> SUFFICES ASSUME NEW c \in Clients PROVE Copies(c) <= 1
      BY DEF OneCopy, Copies
    <3> QED BY <2>1, EmptyCount DEF Copies
  <2>3. QueuesScreened
    BY <2>1 DEF QueuesScreened, Screened
  <2>4. AbsCall = [c \in Clients |-> "idle"]
    BY <2>1 DEF AbsCall
  <2>5. AbsReply = [c \in Clients |-> NoReply]
    <3>1. \A c \in Clients : ReplyTo(c) = NoReply
      BY <2>1 DEF ReplyTo, To
    <3> QED BY <3>1 DEF AbsReply
  <2>6. RS!Init
    BY <2>1, <2>4, <2>5, HomeAssumption DEF RS!Init, AbsCall, AbsReply
  <2> QED BY <2>2, <2>3, <2>6, InvInit DEF RefInv
<1>2. RefInv /\ [AskNext]_vars => RefInv'
  BY AskInvStep, OneCopyStep, ScreenedStep DEF RefInv
<1>3. RefInv /\ [AskNext]_vars => [RS!Next]_RS!vars
  BY StepRefines
<1> QED BY <1>1, <1>2, <1>3, PTL DEF AskSpec, ImplementsReadService, RS!Spec
===============================================================================

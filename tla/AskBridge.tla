------------------------------- MODULE AskBridge -------------------------------
(***************************************************************************)
(* "Ask about selection": LlmAsk's state and worker thread, the bridge     *)
(* script the worker runs, and the phantom that comes back, composed with  *)
(* the query channel the script reads the graph through (ask.cpp,          *)
(* cli_tab.cpp:373-415, inspector_tab.cpp:339-348, llm_phantom.py:81-110   *)
(* and 675-788).  Between the click and the phantom the operator may       *)
(* delete nodes, switch projects, move the channel or quit.                *)
(***************************************************************************)
EXTENDS QueryChannel

CONSTANTS
  Scripts,  \* the clients that are runs of the bridge script; the rest are tools
  Nobody    \* no run of the script, no context

ASSUME ScriptsAssumption == Scripts \subseteq Clients /\ Nobody \notin Clients

VARIABLES
  state,     \* LlmAsk::state_
  work,      \* where the worker thread, and the script it runs, is
  job,       \* the ask: the run of the script, the project whose database path it was
             \* given, the node asked about, and the tombstones there were then
  context,   \* the nodes in the script's prompt, and the project they are read from
  inflight   \* phantoms sent, not yet seen by a frame's cross-project guard

askVars == <<state, work, job, context, inflight>>
vars == <<channelVars, askVars>>

Job == [script : Scripts, graph : Projects, anchor : Nodes, dead : [Projects -> SUBSET Nodes]]
Context == [graph : Projects, nodes : SUBSET Nodes]
\* What a phantom of the script is: tagged with the stem of the database path, and
\* connected to nodes of the prompt.
Phantom == [tag : Projects, graph : Projects]

AskTypeOK ==
  /\ TypeOK
  /\ state \in {"Idle", "Thinking", "Done", "ErrNoOllama", "ErrSubprocess"}
  /\ work \in {"none", "probe", "read", "wait", "database", "model", "sent", "exiting", "gone"}
  /\ job \in Job \cup {Nobody}
  /\ context \in Context \cup {Nobody}
  /\ inflight \subseteq Phantom

AskInit ==
  /\ Init
  /\ state = "Idle" /\ work = "none" /\ job = Nobody
  /\ context = Nobody /\ inflight = {}

Joinable == work \in {"none", "gone"}

------------------------------------------------------------------------------
(* LlmAsk, on the render thread.                                           *)

NeverBusy == FALSE                                    \* mutant: no single flight
Busy == state = "Thinking"

\* The inspector's button or /ask, while no ask is in flight.  The inspector asks about
\* a selected tombstone too.  start() enters Thinking under the mutex, ...
StartAsk ==
  /\ frame = "tab" /\ ~Busy
  /\ \E c \in Scripts, n \in Nodes :
       call[c] = "idle" /\ job' = [script |-> c, graph |-> project, anchor |-> n, dead |-> dead]
  /\ state' = "Thinking"
  /\ frame' = "asking"
  /\ UNCHANGED <<threadVars, running, port, queueVars, graphVars, clientVars, moves,
                 work, context, inflight>>

\* ... joins the worker of the ask before, and starts its own.
StartWorker ==
  /\ frame = "asking" /\ Joinable
  /\ work' = "probe"
  /\ frame' = "drain"
  /\ UNCHANGED <<threadVars, running, port, queueVars, graphVars, clientVars, moves,
                 state, job, context, inflight>>

\* main returns, and ~Session with it: the destructor joins the worker.
Leave ==
  /\ frame = "leaving" /\ Joinable
  /\ frame' = "closed"
  /\ UNCHANGED <<threadVars, running, port, queueVars, graphVars, clientVars, moves, askVars>>

\* The telemetry thread adds the phantom, and the cross-project guard of a later
\* frame lets it pass or drops it.
LandPhantom ==
  /\ frame = "tab"
  /\ \E ph \in inflight : inflight' = inflight \ {ph}
  /\ UNCHANGED <<channelVars, state, work, job, context>>

Passes(ph) == ph.tag = project

------------------------------------------------------------------------------
(* LlmAsk::run, on the worker thread, and the script it waits for.         *)

\* Each exit of run() sets the state under the mutex and returns.
Exit(s) == state' = s /\ work' = "exiting" /\ job' = Nobody /\ context' = Nobody

StaysThinking == "Thinking"                           \* mutant: an exit without a state
NoOllama == "ErrNoOllama"

\* The script file is missing, or nothing listens at Ollama's port.
ProbeFails ==
  /\ work = "probe"
  /\ \E s \in {NoOllama, "ErrSubprocess"} : Exit(s)
  /\ UNCHANGED <<channelVars, inflight>>

RunScript ==
  /\ work = "probe"
  /\ work' = "read"
  /\ UNCHANGED <<channelVars, state, job, context, inflight>>

\* The script has the token from the file beside the database, and asks at the
\* default port for the neighbourhood of the anchor.
Query == [from |-> job.script, kind |-> "Neighborhood", token |-> Token, id |-> job.anchor]

AskChannel ==
  /\ work = "read"
  /\ Send(job.script, Query, DefaultPort)
  /\ work' = "wait"
  /\ UnchangedByClients
  /\ UNCHANGED <<state, job, context, inflight>>

UseReply ==
  /\ work = "wait"
  /\ TakeReply(job.script)
  /\ IF mail[job.script].ok
       THEN work' = "model" /\ context' = [graph |-> mail[job.script].graph, nodes |-> mail[job.script].nodes]
       ELSE work' = "database" /\ UNCHANGED context
  /\ UnchangedByClients
  /\ UNCHANGED <<state, job, inflight>>

TimeOut ==
  /\ work = "wait"
  /\ GiveUp(job.script)
  /\ work' = "database"
  /\ UnchangedByClients
  /\ UNCHANGED <<state, job, context, inflight>>

Rows == Nodes \ dead[job.graph]

\* Without an answer the script reads the database: the anchor and some of its
\* neighbours in space.
ReadDatabase ==
  /\ work = "database" /\ job.anchor \in Rows
  /\ \E S \in SUBSET Rows : context' = [graph |-> job.graph, nodes |-> S \cup {job.anchor}]
  /\ work' = "model"
  /\ UNCHANGED <<channelVars, state, job, inflight>>

\* No such anchor or too few nodes; no model, or an answer that is no phantom; the
\* subprocess ends with a code.
ScriptFails ==
  /\ work \in {"database", "model"}
  /\ Exit("ErrSubprocess")
  /\ UNCHANGED <<channelVars, inflight>>

Emit ==
  /\ work = "model"
  /\ inflight' = inflight \cup {[tag |-> job.graph, graph |-> context.graph]}
  /\ work' = "sent"
  /\ UNCHANGED <<channelVars, state, job, context>>

ScriptEnds ==
  /\ work = "sent"
  /\ Exit("Done")
  /\ UNCHANGED <<channelVars, inflight>>

ThreadEnds ==
  /\ work = "exiting"
  /\ work' = "gone"
  /\ UNCHANGED <<channelVars, state, job, context, inflight>>

Worker == \/ ProbeFails \/ RunScript \/ AskChannel \/ UseReply \/ TimeOut \/ ReadDatabase
          \/ ScriptFails \/ Emit \/ ScriptEnds \/ ThreadEnds

------------------------------------------------------------------------------

Channel == /\ SocketThread \/ RenderThread \/ \E c \in Clients \ Scripts : Tool(c)
           /\ UNCHANGED askVars
Frames == (RenderThread /\ UNCHANGED askVars) \/ StartAsk \/ StartWorker \/ Leave

\* The program has ended; tools may still time out.
Ended == frame = "closed" /\ UNCHANGED vars

AskNext == Channel \/ StartAsk \/ StartWorker \/ Leave \/ LandPhantom \/ Worker \/ Ended

AskSpec == AskInit /\ [][AskNext]_vars

\* Frames go on, the socket thread polls at most 100 ms at a time, and every wait
\* of the worker is bounded: the probe, the script's timeouts, the model's.
\* Operator, tools and phantoms need do nothing.
FairAskSpec == /\ AskSpec
               /\ WF_vars(SocketThread /\ UNCHANGED askVars)
               /\ WF_vars(Frames)
               /\ WF_vars(Worker)

------------------------------------------------------------------------------
(* Properties.                                                             *)

\* ask.cpp:145-147: when start() joins the previous worker, "join is fast": that
\* worker has published its result and only has to return, so a click never waits
\* for a subprocess.
JoinIsFast == frame = "asking" => work \in {"none", "exiting", "gone"}

\* llm_phantom.py:51: "Soft-deleted nodes must not re-enter LLM prompts via Ask":
\* whichever project it is read from, and by whichever path, no prompt holds a node
\* that was deleted before the ask began.
PromptHasNoTombstones ==
  context # Nobody => context.nodes \cap job.dead[context.graph] = {}

\* Every ask ends: the button comes back whatever the subprocess, the channel and
\* the operator do (ask.cpp:164-229).
AskEnds == state = "Thinking" ~> state # "Thinking"

\* Quitting ends too, although it joins the socket thread and a worker whose
\* questions nobody answers any more (main.cpp:478-480, ask.cpp:130-136).
QuitEnds == frame = "closing" ~> frame = "closed"

\* main.cpp:299-303 and llm_phantom.py:769-772: with the guard, "an Ask that lands
\* after a project switch can't pin wrong-graph edges": a phantom that passes the
\* guard connects nodes of the project that is open.
RightGraph ==
  [][\A ph \in inflight \ inflight' : Passes(ph) => ph.graph = project]_vars
===============================================================================

------------------------------ MODULE ReadService ------------------------------
(***************************************************************************)
(* What the query channel promises its clients: a call is answered at most *)
(* once, only if it carried the session's token, and the answer is the     *)
(* live graph of one moment between the call and its answer: the project   *)
(* that was open then, without the nodes that were tombstones.  The        *)
(* channel does not promise an answer.                                     *)
(***************************************************************************)
CONSTANTS Clients, Projects, Nodes, NoReply

VARIABLES
  project,  \* the project that is open
  dead,     \* the tombstones of each project
  call,     \* "idle", "asked" while an answer is still possible, "spent" after
  reply     \* what is on its way to the client, or in its hands

vars == <<project, dead, call, reply>>

Answers(c) == [to : {c}, graph : {project}, ok : {TRUE}, nodes : SUBSET (Nodes \ dead[project])]
              \cup [to : {c}, graph : {project}, ok : {FALSE}, nodes : {{}}]

Init == /\ project \in Projects
        /\ dead \in [Projects -> SUBSET Nodes]
        /\ call = [c \in Clients |-> "idle"]
        /\ reply = [c \in Clients |-> NoReply]

\* A call without the token, or to where nobody listens, is spent at once.
Call(c) == /\ call[c] = "idle"
           /\ \E s \in {"asked", "spent"} : call' = [call EXCEPT ![c] = s]
           /\ UNCHANGED <<project, dead, reply>>

Answer(c) == /\ call[c] = "asked"
             /\ call' = [call EXCEPT ![c] = "spent"]
             /\ \E r \in Answers(c) : reply' = [reply EXCEPT ![c] = r]
             /\ UNCHANGED <<project, dead>>

\* Calls and replies are lost, several at once when the channel closes.
Lapse == /\ \E S \in SUBSET {c \in Clients : call[c] = "asked"} :
              call' = [c \in Clients |-> IF c \in S THEN "spent" ELSE call[c]]
         /\ \E S \in SUBSET Clients :
              reply' = [c \in Clients |-> IF c \in S THEN NoReply ELSE reply[c]]
         /\ UNCHANGED <<project, dead>>

\* The operator opens projects and deletes nodes, and deletes for good.
Edit == /\ project' \in Projects
        /\ dead' \in [Projects -> SUBSET Nodes]
        /\ \A p \in Projects : dead[p] \subseteq dead'[p]
        /\ UNCHANGED <<call, reply>>

Next == Lapse \/ Edit \/ \E c \in Clients : Call(c) \/ Answer(c)

Spec == Init /\ [][Next]_vars
===============================================================================

-------------------------- MODULE SessionStore_proofs --------------------------
(***************************************************************************)
(* Proofs about SessionStore, for any projects and bounds: what the        *)
(* database holds between and during the commands, and that every image a  *)
(* file may be found with keeps the promise of DurableGraph.               *)
(*                                                                         *)
(* A command leaves the memory ahead of the database by the writes in      *)
(* todo, so the invariant says of each command in flight which rows the    *)
(* database still lacks (Appending) or has the old column of (Retiering,   *)
(* Rekinding, Deleting).                                                   *)
(***************************************************************************)
EXTENDS SessionStore, SequenceTheorems, WellFoundedInduction, TLAPS

USE ProjectsAssumption, SeedAssumption, BoundsAssumption, NoTxnAssumption
USE DEF vars, memory

\* What an image keeps to, whenever it was committed.
Numbered(img) == \E n \in 1..MaxNodes : DOMAIN img.nodes = 1..n
NoneDangling(img) ==
  \A k \in 1..Len(img.edges) : img.edges[k].ends \in (DOMAIN img.nodes) \X (DOMAIN img.nodes)
EventsFit(img) == \A row \in img.events : NamesRow(img, row)
ImageOK(img) ==
  /\ img.whole => Numbered(img) /\ NoneDangling(img)
  /\ ~img.whole => \A i \in DOMAIN img.nodes : i > SeedSize
  /\ EventsFit(img)
ImagesOK == \A p \in Projects : \A k \in 1..Len(files[p]) : ImageOK(files[p][k])

\* The memory of a process that has loaded its project.
InMemory == app \in {"up", "saving"}
MemoryOK ==
  /\ InMemory => /\ nodes # <<>> /\ (selfIdx = Nobody \/ selfIdx \in 1..Len(nodes))
                 /\ \A k \in 1..Len(edges) : edges[k].ends \in (1..Len(nodes)) \X (1..Len(nodes))
  /\ InMemory \/ app = "opening" => files[project] # <<>>

\* What runs alone: the writes of a command, a save, the deletion of a project.
ControlOK ==
  /\ todo # <<>> => app = "up" /\ victim = Nobody
  /\ txn # NoTxn => app = "saving"
  /\ victim # Nobody =>
       /\ app \in {"opening", "up", "saving"}
       /\ IF app = "saving" THEN victim = project /\ goal \in Projects \ {project}
                            ELSE victim # project

\* The image c has the first n nodes and the first e edges of the memory, but for
\* the tiers, the tombstones and the kinds in the three sets.  Before the first whole
\* save it has only the nodes that were added to the seed, and of the edges nothing is said.
Holds(c, n, e, tiers, tombs, kinds) ==
  /\ DOMAIN c.nodes \subseteq 1..n
  /\ c.whole =>
       /\ DOMAIN c.nodes = 1..n /\ Len(c.edges) = e
       /\ \A i \in 1..n : /\ i \notin tiers => c.nodes[i].self = nodes[i].self
                          /\ i \notin tombs => c.nodes[i].deleted = nodes[i].deleted
       /\ \A k \in 1..e : /\ c.edges[k].ends = edges[k].ends
                          /\ Unparalleled(k) /\ k \notin kinds => c.edges[k] = edges[k]
  /\ ~c.whole =>
       /\ SeedSize <= n /\ DOMAIN c.nodes = SeedSize + 1..n
       /\ \A i \in DOMAIN c.nodes : i \notin tombs => c.nodes[i].deleted = nodes[i].deleted
HoldsAllBut(c, tiers, tombs, kinds) == Holds(c, Len(nodes), Len(edges), tiers, tombs, kinds)

\* The writes of a new node, of its last m edges and of its event that the image c
\* is still to see, and t to make.
Fits(c, e) == /\ e[2] \in 1..Len(nodes)
              /\ e[1] = "node_delete" => nodes[e[2]].deleted
              /\ e[1] = "phantom_pin" => c.whole \/ SeedSize < e[2]
Pending(t, c, a, m, b) ==
  /\ Len(t) = a + m + b /\ Len(nodes) > a
  /\ a = 1 => t[1] = <<"insert_node", Len(nodes), nodes[Len(nodes)]>>
  /\ \A k \in 1..m : t[a + k] = <<"insert_edge", edges[Len(edges) - m + k]>>
  /\ b = 1 => \E e \in Event : t[a + m + 1] = <<"log_event", e>> /\ Fits(c, e)
  /\ Holds(c, Len(nodes) - a, Len(edges) - m, {}, {}, {})
SomePending(t, c) == \E a, b \in 0..1, m \in 0..Len(edges) : Pending(t, c, a, m, b)
Appending == SomePending(todo, Current)
Retiering == \E i \in 1..Len(nodes) :
  todo = <<<<"update_tier", i, nodes[i].self>>>> /\ HoldsAllBut(Current, {i}, {}, {})
Rekinding == \E k \in 1..Len(edges) :
  todo = <<<<"update_edge", edges[k].ends, edges[k].kind>>>> /\ HoldsAllBut(Current, {}, {}, {k})
Deleting == \E i \in 1..Len(nodes) :
  todo = DeleteWrites(i) /\ nodes[i].deleted /\ HoldsAllBut(Current, {}, {i}, {})
WritesOK == app = "up" => Appending \/ Retiering \/ Rekinding \/ Deleting

\* save_graph: the table it fills is the memory's, and the memory is what was saved.
SavingOK == app = "saving" =>
  /\ HoldsAllBut(Current, {}, {}, {})
  /\ txn # NoTxn => /\ txn.nodes \in {<<>>, nodes} /\ txn.edges \in {<<>>, edges}
                    /\ txn.events = Current.events /\ txn.whole = Current.whole
  /\ txn = NoTxn => Current.whole

StoreInv == TypeOK /\ ImagesOK /\ MemoryOK /\ ControlOK /\ WritesOK /\ SavingOK
------------------------------------------------------------------------------
(* Sequences and images.                                                   *)

LEMMA FunIsSeq ==
  ASSUME NEW S, NEW n \in Nat, NEW f \in [1..n -> S]
  PROVE  f \in Seq(S) /\ Len(f) = n
<1>1. f \in Seq(S)
  BY SeqDef
<1>2. Len(f) \in Nat /\ DOMAIN f = 1..Len(f) /\ DOMAIN f = 1..n
  BY <1>1, LenProperties
<1> QED BY <1>1, <1>2

LEMMA AppendedIs ==
  ASSUME NEW S, NEW s \in Seq(S), NEW e \in S
  PROVE  /\ Append(s, e) \in Seq(S) /\ Len(Append(s, e)) = Len(s) + 1
         /\ \A k \in 1..Len(s) : Append(s, e)[k] = s[k]
         /\ Append(s, e)[Len(s) + 1] = e
<1>1. Len(s) \in Nat /\ s \in [1..Len(s) -> S]
  BY LenProperties
<1> QED BY <1>1

LEMMA ConcatIs ==
  ASSUME NEW S, NEW s \in Seq(S), NEW t \in Seq(S)
  PROVE  /\ s \o t \in Seq(S) /\ Len(s \o t) = Len(s) + Len(t)
         /\ \A k \in 1..Len(s) : (s \o t)[k] = s[k]
         /\ \A k \in 1..Len(t) : (s \o t)[Len(s) + k] = t[k]
<1>1. s \o t \in Seq(S) /\ Len(s \o t) = Len(s) + Len(t)
  BY ConcatProperties
<1>2. \A k \in 1..Len(s) : (s \o t)[k] = s[k]
  OBVIOUS
<1>3. \A k \in 1..Len(t) : (s \o t)[Len(s) + k] = t[k]
  OBVIOUS
<1> QED BY <1>1, <1>2, <1>3

LEMMA Singleton ==
  ASSUME NEW S, NEW e \in S
  PROVE  <<e>> \in Seq(S) /\ Len(<<e>>) = 1 /\ <<e>>[1] = e
OBVIOUS

LEMMA EmptyLength ==
  ASSUME NEW S, NEW s \in Seq(S)
  PROVE  Len(s) \in Nat /\ (Len(s) = 0 <=> s = <<>>)
BY EmptySeq, LenProperties

\* The parts of an image, and what makes one.
LEMMA ImageParts ==
  ASSUME NEW img \in Image
  PROVE  /\ DOMAIN img.nodes \subseteq 1..MaxNodes /\ img.nodes \in [DOMAIN img.nodes -> Node]
         /\ img.edges \in Seq(Edge) /\ img.events \subseteq EventRow /\ img.whole \in BOOLEAN
         /\ img = [nodes |-> img.nodes, edges |-> img.edges, events |-> img.events,
                   whole |-> img.whole]
<1>1. PICK ids \in SUBSET (1..MaxNodes) : img.nodes \in [ids -> Node]
  BY DEF Image
<1>2. DOMAIN img.nodes = ids
  BY <1>1
<1> QED BY <1>1, <1>2 DEF Image

LEMMA ImageExcept ==
  ASSUME NEW img \in Image, NEW x
  PROVE  /\ [img EXCEPT !.nodes = x] = [nodes |-> x, edges |-> img.edges,
                                        events |-> img.events, whole |-> img.whole]
         /\ [img EXCEPT !.edges = x] = [nodes |-> img.nodes, edges |-> x,
                                        events |-> img.events, whole |-> img.whole]
         /\ [img EXCEPT !.events = x] = [nodes |-> img.nodes, edges |-> img.edges,
                                         events |-> x, whole |-> img.whole]
         /\ [img EXCEPT !.whole = x] = [nodes |-> img.nodes, edges |-> img.edges,
                                        events |-> img.events, whole |-> x]
<1>1. img = [nodes |-> img.nodes, edges |-> img.edges, events |-> img.events,
             whole |-> img.whole]
  BY ImageParts
<1> QED BY <1>1

LEMMA MakeImage ==
  ASSUME NEW ids \in SUBSET (1..MaxNodes), NEW ns \in [ids -> Node], NEW es \in Seq(Edge),
         NEW ev \in SUBSET EventRow, NEW w \in BOOLEAN
  PROVE  [nodes |-> ns, edges |-> es, events |-> ev, whole |-> w] \in Image
BY DEF Image

\* What each write does to an image.
LEMMA InsertNodeDoes ==
  ASSUME NEW img \in Image, NEW i \in 1..MaxNodes, NEW row \in Node
  PROVE  LET new == InsertNode(img, i, row)
         IN /\ new \in Image /\ DOMAIN new.nodes = DOMAIN img.nodes \cup {i}
            /\ \A j \in DOMAIN img.nodes : j # i => new.nodes[j] = img.nodes[j]
            /\ new.nodes[i] = row
            /\ new.edges = img.edges /\ new.events = img.events /\ new.whole = img.whole
<1> DEFINE ns == [j \in DOMAIN img.nodes \cup {i} |-> IF j = i THEN row ELSE img.nodes[j]]
           new == [nodes |-> ns, edges |-> img.edges, events |-> img.events,
                   whole |-> img.whole]
<1>1. InsertNode(img, i, row) = new
  BY ImageExcept DEF InsertNode
<1>2. ns \in [DOMAIN img.nodes \cup {i} -> Node] /\ DOMAIN img.nodes \cup {i} \subseteq 1..MaxNodes
  BY ImageParts
<1>3. new \in Image
  BY <1>2, ImageParts, MakeImage
<1>4. /\ DOMAIN ns = DOMAIN img.nodes \cup {i} /\ ns[i] = row
      /\ \A j \in DOMAIN img.nodes : j # i => ns[j] = img.nodes[j]
  OBVIOUS
<1>5. new.nodes = ns /\ new.edges = img.edges /\ new.events = img.events /\ new.whole = img.whole
  OBVIOUS
<1> HIDE DEF ns, new
<1> QED BY <1>1, <1>3, <1>4, <1>5

LEMMA InsertEdgeDoes ==
  ASSUME NEW img \in Image, NEW e \in Edge
  PROVE  LET new == InsertEdge(img, e)
         IN /\ new \in Image /\ new.nodes = img.nodes /\ new.edges = Append(img.edges, e)
            /\ new.events = img.events /\ new.whole = img.whole
<1> DEFINE new == [nodes |-> img.nodes, edges |-> Append(img.edges, e), events |-> img.events,
                   whole |-> img.whole]
<1>1. InsertEdge(img, e) = new
  BY ImageExcept DEF InsertEdge
<1>2. Append(img.edges, e) \in Seq(Edge)
  BY ImageParts, AppendedIs
<1>3. new \in Image
  BY <1>2, ImageParts, MakeImage
<1>4. /\ new.nodes = img.nodes /\ new.edges = Append(img.edges, e)
      /\ new.events = img.events /\ new.whole = img.whole
  OBVIOUS
<1> HIDE DEF new
<1> QED BY <1>1, <1>3, <1>4

LEMMA MarkDeletedDoes ==
  ASSUME NEW img \in Image, NEW i \in 1..MaxNodes
  PROVE  LET new == MarkDeleted(img, i)
         IN /\ new \in Image /\ DOMAIN new.nodes = DOMAIN img.nodes
            /\ \A j \in DOMAIN img.nodes :
                 /\ new.nodes[j].self = img.nodes[j].self
                 /\ new.nodes[j].deleted = (j = i \/ img.nodes[j].deleted)
            /\ new.edges = img.edges /\ new.events = img.events /\ new.whole = img.whole
<1> DEFINE ns == [j \in DOMAIN img.nodes |-> IF j = i THEN [img.nodes[j] EXCEPT !.deleted = TRUE]
                                                       ELSE img.nodes[j]]
           new == [nodes |-> ns, edges |-> img.edges, events |-> img.events,
                   whole |-> img.whole]
<1>1. MarkDeleted(img, i) = new
  BY ImageExcept DEF MarkDeleted
<1>2. ASSUME NEW j \in DOMAIN img.nodes
      PROVE  /\ ns[j] \in Node /\ ns[j].self = img.nodes[j].self
             /\ ns[j].deleted = (j = i \/ img.nodes[j].deleted)
  <2>1. img.nodes[j] \in Node
    BY ImageParts
  <2> QED BY <2>1 DEF Node
<1>3. ns \in [DOMAIN img.nodes -> Node] /\ DOMAIN ns = DOMAIN img.nodes
  BY <1>2
<1>4. new.nodes = ns /\ new.edges = img.edges /\ new.events = img.events /\ new.whole = img.whole
  OBVIOUS
<1> HIDE DEF ns
<1>5. new \in Image
  BY <1>3, ImageParts, MakeImage
<1> HIDE DEF new
<1> QED BY <1>1, <1>2, <1>3, <1>4, <1>5

LEMMA UpdateTierDoes ==
  ASSUME NEW img \in Image, NEW i \in 1..MaxNodes, NEW self \in BOOLEAN
  PROVE  LET new == UpdateTier(img, i, self)
         IN /\ new \in Image /\ DOMAIN new.nodes = DOMAIN img.nodes
            /\ \A j \in DOMAIN img.nodes :
                 /\ new.nodes[j].self = IF j = i THEN self ELSE img.nodes[j].self
                 /\ new.nodes[j].deleted = img.nodes[j].deleted
            /\ new.edges = img.edges /\ new.events = img.events /\ new.whole = img.whole
<1> DEFINE ns == [j \in DOMAIN img.nodes |-> IF j = i THEN [img.nodes[j] EXCEPT !.self = self]
                                                       ELSE img.nodes[j]]
           new == [nodes |-> ns, edges |-> img.edges, events |-> img.events,
                   whole |-> img.whole]
<1>1. UpdateTier(img, i, self) = new
  BY ImageExcept DEF UpdateTier
<1>2. ASSUME NEW j \in DOMAIN img.nodes
      PROVE  /\ ns[j] \in Node /\ ns[j].self = IF j = i THEN self ELSE img.nodes[j].self
             /\ ns[j].deleted = img.nodes[j].deleted
  <2>1. img.nodes[j] \in Node
    BY ImageParts
  <2> QED BY <2>1 DEF Node
<1>3. ns \in [DOMAIN img.nodes -> Node] /\ DOMAIN ns = DOMAIN img.nodes
  BY <1>2
<1>4. new.nodes = ns /\ new.edges = img.edges /\ new.events = img.events /\ new.whole = img.whole
  OBVIOUS
<1> HIDE DEF ns
<1>5. new \in Image
  BY <1>3, ImageParts, MakeImage
<1> HIDE DEF new
<1> QED BY <1>1, <1>2, <1>3, <1>4, <1>5

LEMMA UpdateEdgeDoes ==
  ASSUME NEW img \in Image, NEW ends \in (1..MaxNodes) \X (1..MaxNodes), NEW kind \in Kinds
  PROVE  LET new == UpdateEdge(img, ends, kind)
         IN /\ new \in Image /\ new.nodes = img.nodes /\ Len(new.edges) = Len(img.edges)
            /\ \A k \in 1..Len(img.edges) :
                 /\ new.edges[k].ends = img.edges[k].ends
                 /\ img.edges[k].ends = ends => new.edges[k].kind = kind
                 /\ img.edges[k].ends # ends => new.edges[k] = img.edges[k]
            /\ new.events = img.events /\ new.whole = img.whole
<1> DEFINE es == [k \in DOMAIN img.edges |->
                    IF img.edges[k].ends = ends THEN [img.edges[k] EXCEPT !.kind = kind]
                                                ELSE img.edges[k]]
           new == [nodes |-> img.nodes, edges |-> es, events |-> img.events,
                   whole |-> img.whole]
<1>1. UpdateEdge(img, ends, kind) = new
  BY ImageExcept DEF UpdateEdge
<1>2. Len(img.edges) \in Nat /\ DOMAIN img.edges = 1..Len(img.edges)
  BY ImageParts, LenProperties
<1>3. ASSUME NEW k \in DOMAIN img.edges
      PROVE  /\ es[k] \in Edge /\ es[k].ends = img.edges[k].ends
             /\ img.edges[k].ends = ends => es[k].kind = kind
             /\ img.edges[k].ends # ends => es[k] = img.edges[k]
  <2>1. img.edges[k] \in Edge
    BY <1>2, ImageParts, ElementOfSeq
  <2> QED BY <2>1 DEF Edge
<1>4. es \in [1..Len(img.edges) -> Edge]
  BY <1>2, <1>3
<1>5. es \in Seq(Edge) /\ Len(es) = Len(img.edges)
  BY <1>2, <1>4, FunIsSeq
<1>6. new \in Image
  BY <1>5, ImageParts, MakeImage
<1>7. /\ new.nodes = img.nodes /\ new.edges = es
      /\ new.events = img.events /\ new.whole = img.whole
  OBVIOUS
<1> HIDE DEF es, new
<1> QED BY <1>1, <1>2, <1>3, <1>5, <1>6, <1>7

LEMMA LogEventDoes ==
  ASSUME NEW img \in Image, NEW e \in Event
  PROVE  LET new == LogEvent(img, e)
         IN /\ new \in Image /\ new.nodes = img.nodes /\ new.edges = img.edges
            /\ new.events = img.events \cup {<<e, img.whole>>}
            /\ new.whole = img.whole
<1> DEFINE new == [nodes |-> img.nodes, edges |-> img.edges,
                   events |-> img.events \cup {<<e, img.whole>>}, whole |-> img.whole]
<1>1. LogEvent(img, e) = new
  BY ImageExcept DEF LogEvent
<1>2. img.events \cup {<<e, img.whole>>} \in SUBSET EventRow
  BY ImageParts DEF EventRow
<1>3. new \in Image
  BY <1>2, ImageParts, MakeImage
<1> QED BY <1>1, <1>3

------------------------------------------------------------------------------
(* What each write makes of an image that lags behind the memory.          *)

\* The lengths and the rows of the memory.
LEMMA Lengths ==
  ASSUME TypeOK
  PROVE  /\ Len(nodes) \in 0..MaxNodes /\ DOMAIN nodes = 1..Len(nodes)
         /\ Len(edges) \in Nat /\ DOMAIN edges = 1..Len(edges)
         /\ \A i \in 1..Len(nodes) : i \in 1..MaxNodes /\ nodes[i] \in Node
         /\ \A k \in 1..Len(edges) : edges[k] \in Edge
         /\ Len(nodes) = 0 <=> nodes = <<>>
<1>1. nodes \in Seq(Node) /\ Len(nodes) <= MaxNodes /\ edges \in Seq(Edge) /\ MaxNodes \in Nat
  BY DEF TypeOK
<1>2. Len(nodes) \in Nat /\ DOMAIN nodes = 1..Len(nodes) /\ (Len(nodes) = 0 <=> nodes = <<>>)
  BY <1>1, LenProperties, EmptyLength
<1>3. Len(edges) \in Nat /\ DOMAIN edges = 1..Len(edges)
  BY <1>1, LenProperties
<1>4. Len(nodes) \in 0..MaxNodes /\ \A i \in 1..Len(nodes) : i \in 1..MaxNodes
  BY <1>1, <1>2
<1>5. \A i \in 1..Len(nodes) : nodes[i] \in Node
  BY <1>1, ElementOfSeq
<1>6. \A k \in 1..Len(edges) : edges[k] \in Edge
  BY <1>1, ElementOfSeq
<1> QED BY <1>2, <1>3, <1>4, <1>5, <1>6

LEMMA InsertNodeHolds ==
  ASSUME TypeOK, NEW c \in Image, NEW e \in Nat, Len(nodes) > 1,
         Holds(c, Len(nodes) - 1, e, {}, {}, {}), ImageOK(c)
  PROVE  LET new == InsertNode(c, Len(nodes), nodes[Len(nodes)])
         IN Holds(new, Len(nodes), e, {}, {}, {}) /\ ImageOK(new)
<1>a. Len(nodes) \in 0..MaxNodes
  BY Lengths
<1>b. Len(nodes) \in 1..MaxNodes
  BY <1>a
<1> PICK n \in 1..MaxNodes : n = Len(nodes)
  BY <1>b
<1> DEFINE new == InsertNode(c, n, nodes[n])
<1>1. nodes[n] \in Node /\ n > 1 /\ n \in Nat
  BY Lengths
<1>2. /\ DOMAIN new.nodes = DOMAIN c.nodes \cup {n} /\ new.nodes[n] = nodes[n]
      /\ \A j \in DOMAIN c.nodes : j # n => new.nodes[j] = c.nodes[j]
      /\ new.edges = c.edges /\ new.events = c.events /\ new.whole = c.whole
  BY <1>1, InsertNodeDoes
<1> HIDE DEF new
<1>3. /\ DOMAIN c.nodes \subseteq 1..n-1
      /\ c.whole =>
           /\ DOMAIN c.nodes = 1..n-1 /\ Len(c.edges) = e
           /\ \A i \in 1..n-1 : c.nodes[i].self = nodes[i].self /\ c.nodes[i].deleted = nodes[i].deleted
           /\ \A k \in 1..e : /\ c.edges[k].ends = edges[k].ends
                              /\ Unparalleled(k) => c.edges[k] = edges[k]
  BY DEF Holds
<1>4. /\ DOMAIN new.nodes \subseteq 1..n /\ n \notin DOMAIN c.nodes
      /\ c.whole => DOMAIN new.nodes = 1..n
  BY <1>1, <1>2, <1>3
<1>5. \A j \in DOMAIN c.nodes : new.nodes[j] = c.nodes[j]
  BY <1>2, <1>4
<1>6. c.whole => \A i \in 1..n : new.nodes[i].self = nodes[i].self
                                 /\ new.nodes[i].deleted = nodes[i].deleted
  BY <1>1, <1>2, <1>3, <1>5
<1>7. c.whole => Holds(new, n, e, {}, {}, {})
  BY <1>2, <1>3, <1>4, <1>6 DEF Holds
<1>c. ~c.whole => /\ SeedSize <= n - 1 /\ DOMAIN c.nodes = SeedSize + 1..n - 1
                  /\ \A i \in DOMAIN c.nodes : c.nodes[i].deleted = nodes[i].deleted
  BY DEF Holds
<1>d. ~c.whole => DOMAIN new.nodes = SeedSize + 1..n
  BY <1>1, <1>2, <1>c
<1>e. ~c.whole => \A i \in DOMAIN new.nodes : new.nodes[i].deleted = nodes[i].deleted
  BY <1>2, <1>5, <1>c
<1>f. ~c.whole => Holds(new, n, e, {}, {}, {})
  BY <1>1, <1>2, <1>4, <1>c, <1>d, <1>e DEF Holds
<1>8. new.whole => Numbered(new) /\ NoneDangling(new)
  BY <1>2, <1>4 DEF ImageOK, Numbered, NoneDangling
<1>9. ~new.whole => \A i \in DOMAIN new.nodes : i > SeedSize
  BY <1>2, <1>d
<1>10. EventsFit(new)
  BY <1>2, <1>5 DEF ImageOK, EventsFit, NamesRow, DeletionShows
<1> QED BY <1>7, <1>f, <1>8, <1>9, <1>10 DEF ImageOK, new

LEMMA InsertEdgeHolds ==
  ASSUME TypeOK, MemoryOK, InMemory, NEW c \in Image, NEW e \in Nat, e < Len(edges),
         Holds(c, Len(nodes), e, {}, {}, {}), ImageOK(c)
  PROVE  LET new == InsertEdge(c, edges[e + 1])
         IN Holds(new, Len(nodes), e + 1, {}, {}, {}) /\ ImageOK(new)
<1> DEFINE new == InsertEdge(c, edges[e + 1])
<1>1. e + 1 \in 1..Len(edges) /\ edges[e + 1] \in Edge /\ e \in 0..Len(edges)
  BY Lengths
<1>2. /\ new.nodes = c.nodes /\ new.edges = Append(c.edges, edges[e + 1])
      /\ new.events = c.events /\ new.whole = c.whole
  BY <1>1, InsertEdgeDoes
<1> HIDE DEF new
<1>3. /\ Len(c.edges) \in Nat /\ Len(new.edges) = Len(c.edges) + 1
      /\ \A k \in 1..Len(c.edges) : new.edges[k] = c.edges[k]
      /\ new.edges[Len(c.edges) + 1] = edges[e + 1]
  BY <1>1, <1>2, ImageParts, LenProperties, AppendedIs
<1>4. c.whole => /\ Len(c.edges) = e
                 /\ \A k \in 1..e : /\ c.edges[k].ends = edges[k].ends
                                    /\ Unparalleled(k) => c.edges[k] = edges[k]
  BY DEF Holds
<1>5. c.whole => /\ Len(new.edges) = e + 1
                 /\ \A k \in 1..e + 1 : /\ new.edges[k].ends = edges[k].ends
                                        /\ Unparalleled(k) => new.edges[k] = edges[k]
  <2> SUFFICES ASSUME c.whole, NEW k \in 1..e + 1
               PROVE  /\ Len(new.edges) = e + 1 /\ new.edges[k].ends = edges[k].ends
                      /\ Unparalleled(k) => new.edges[k] = edges[k]
    OBVIOUS
  <2>1. CASE k = e + 1
    BY <2>1, <1>3, <1>4
  <2>2. CASE k \in 1..e
    BY <2>2, <1>3, <1>4
  <2> QED BY <2>1, <2>2
<1>6. Holds(new, Len(nodes), e + 1, {}, {}, {})
  BY <1>2, <1>5 DEF Holds
<1>7. c.whole => DOMAIN c.nodes = 1..Len(nodes)
  BY DEF Holds
<1>8. c.whole => NoneDangling(new)
  <2> SUFFICES ASSUME c.whole, NEW k \in 1..Len(new.edges)
               PROVE  new.edges[k].ends \in (1..Len(nodes)) \X (1..Len(nodes))
    BY <1>2, <1>7 DEF NoneDangling
  <2>1. k \in 1..Len(edges) /\ new.edges[k].ends = edges[k].ends
    BY <1>1, <1>5
  <2> QED BY <2>1 DEF MemoryOK
<1> QED BY <1>2, <1>6, <1>8 DEF ImageOK, Numbered, EventsFit, NamesRow, DeletionShows, new

LEMMA LogEventHolds ==
  ASSUME TypeOK, NEW c \in Image, NEW e \in Event, Fits(c, e),
         HoldsAllBut(c, {}, {}, {}), ImageOK(c)
  PROVE  HoldsAllBut(LogEvent(c, e), {}, {}, {}) /\ ImageOK(LogEvent(c, e))
<1> DEFINE new == LogEvent(c, e)
<1>1. /\ new.nodes = c.nodes /\ new.edges = c.edges /\ new.whole = c.whole
      /\ new.events = c.events \cup {<<e, c.whole>>}
  BY LogEventDoes
<1> HIDE DEF new
<1>2. HoldsAllBut(new, {}, {}, {})
  BY <1>1 DEF HoldsAllBut, Holds
<1>a. /\ Len(nodes) \in Nat /\ c.whole \in BOOLEAN /\ e[2] \in 1..Len(nodes)
      /\ e[1] \in {"phantom_pin", "node_delete"}
  BY Lengths, ImageParts DEF Event, Fits
<1>3. c.whole => e[2] \in DOMAIN c.nodes /\ (e[1] = "node_delete" => c.nodes[e[2]].deleted)
  BY DEF HoldsAllBut, Holds, Fits
<1>b. ~c.whole /\ SeedSize < e[2] =>
        e[2] \in DOMAIN c.nodes /\ (e[1] = "node_delete" => c.nodes[e[2]].deleted)
  BY <1>a DEF HoldsAllBut, Holds, Fits
<1>c. ~c.whole /\ e[2] <= SeedSize => e[1] = "node_delete"
  BY <1>a DEF Fits
<1>d. NamesRow(c, <<e, c.whole>>)
  BY <1>a, <1>3, <1>b, <1>c DEF NamesRow, DeletionShows
<1>4. EventsFit(new)
  BY <1>1, <1>d DEF ImageOK, EventsFit, NamesRow, DeletionShows
<1> QED BY <1>1, <1>2, <1>4 DEF ImageOK, Numbered, NoneDangling, new

LEMMA UpdateTierHolds ==
  ASSUME TypeOK, NEW c \in Image, NEW i \in 1..Len(nodes),
         HoldsAllBut(c, {i}, {}, {}), ImageOK(c)
  PROVE  LET new == UpdateTier(c, i, nodes[i].self)
         IN HoldsAllBut(new, {}, {}, {}) /\ ImageOK(new)
<1> DEFINE new == UpdateTier(c, i, nodes[i].self)
<1>1. i \in 1..MaxNodes /\ nodes[i].self \in BOOLEAN
  BY Lengths DEF Node
<1>2. /\ DOMAIN new.nodes = DOMAIN c.nodes
      /\ \A j \in DOMAIN c.nodes : /\ new.nodes[j].self = IF j = i THEN nodes[i].self ELSE c.nodes[j].self
                                   /\ new.nodes[j].deleted = c.nodes[j].deleted
      /\ new.edges = c.edges /\ new.events = c.events /\ new.whole = c.whole
  BY <1>1, UpdateTierDoes
<1> HIDE DEF new
<1>3. HoldsAllBut(new, {}, {}, {})
  BY <1>2 DEF HoldsAllBut, Holds
<1> QED BY <1>2, <1>3 DEF ImageOK, Numbered, NoneDangling, EventsFit, NamesRow, DeletionShows, new

LEMMA MarkDeletedHolds ==
  ASSUME TypeOK, NEW c \in Image, NEW i \in 1..Len(nodes), nodes[i].deleted,
         HoldsAllBut(c, {}, {i}, {}), ImageOK(c)
  PROVE  HoldsAllBut(MarkDeleted(c, i), {}, {}, {}) /\ ImageOK(MarkDeleted(c, i))
<1> DEFINE new == MarkDeleted(c, i)
<1>1. i \in 1..MaxNodes /\ nodes[i].deleted = TRUE
  BY Lengths DEF Node
<1>2. /\ DOMAIN new.nodes = DOMAIN c.nodes
      /\ \A j \in DOMAIN c.nodes : /\ new.nodes[j].self = c.nodes[j].self
                                   /\ new.nodes[j].deleted = (j = i \/ c.nodes[j].deleted)
      /\ new.edges = c.edges /\ new.events = c.events /\ new.whole = c.whole
  BY <1>1, MarkDeletedDoes
<1>3. \A j \in DOMAIN c.nodes : c.nodes[j].deleted \in BOOLEAN
  BY ImageParts DEF Node
<1> HIDE DEF new
<1>4. \A j \in DOMAIN c.nodes : new.nodes[j].deleted = IF j = i THEN TRUE ELSE c.nodes[j].deleted
  BY <1>2, <1>3
<1>5. HoldsAllBut(new, {}, {}, {})
  <2> PICK n : n = Len(nodes)
    OBVIOUS
  <2>1. /\ DOMAIN c.nodes \subseteq 1..n
        /\ c.whole => /\ DOMAIN c.nodes = 1..n
                      /\ \A j \in 1..n : /\ c.nodes[j].self = nodes[j].self
                                         /\ j # i => c.nodes[j].deleted = nodes[j].deleted
    BY DEF HoldsAllBut, Holds
  <2>2. c.whole => \A j \in 1..n : /\ new.nodes[j].self = nodes[j].self
                                    /\ new.nodes[j].deleted = nodes[j].deleted
    BY <1>1, <1>2, <1>4, <2>1
  <2>3. c.whole => /\ Len(c.edges) = Len(edges)
                   /\ \A k \in 1..Len(edges) : /\ c.edges[k].ends = edges[k].ends
                                               /\ Unparalleled(k) => c.edges[k] = edges[k]
    BY DEF HoldsAllBut, Holds
  <2>4. ~c.whole => /\ SeedSize <= n /\ DOMAIN c.nodes = SeedSize + 1..n
                    /\ \A j \in DOMAIN c.nodes : j # i => c.nodes[j].deleted = nodes[j].deleted
    BY DEF HoldsAllBut, Holds
  <2>5. ~c.whole => \A j \in DOMAIN new.nodes : new.nodes[j].deleted = nodes[j].deleted
    BY <1>1, <1>2, <1>4, <2>4
  <2> QED BY <1>2, <2>1, <2>2, <2>3, <2>4, <2>5 DEF HoldsAllBut, Holds
<1>6. EventsFit(new)
  BY <1>2, <1>4 DEF ImageOK, EventsFit, NamesRow, DeletionShows
<1> QED BY <1>2, <1>5, <1>6 DEF ImageOK, Numbered, NoneDangling, new

LEMMA UpdateEdgeHolds ==
  ASSUME TypeOK, NEW c \in Image, NEW k \in 1..Len(edges),
         HoldsAllBut(c, {}, {}, {k}), ImageOK(c)
  PROVE  LET new == UpdateEdge(c, edges[k].ends, edges[k].kind)
         IN HoldsAllBut(new, {}, {}, {}) /\ ImageOK(new)
<1> DEFINE new == UpdateEdge(c, edges[k].ends, edges[k].kind)
<1>1. edges[k] \in Edge /\ edges[k].ends \in (1..MaxNodes) \X (1..MaxNodes) /\ edges[k].kind \in Kinds
  BY Lengths DEF Edge
<1>2. /\ new \in Image /\ new.nodes = c.nodes /\ Len(new.edges) = Len(c.edges)
      /\ \A j \in 1..Len(c.edges) :
           /\ new.edges[j].ends = c.edges[j].ends
           /\ c.edges[j].ends = edges[k].ends => new.edges[j].kind = edges[k].kind
           /\ c.edges[j].ends # edges[k].ends => new.edges[j] = c.edges[j]
      /\ new.events = c.events /\ new.whole = c.whole
  <2>1. PICK ends \in (1..MaxNodes) \X (1..MaxNodes), kind \in Kinds :
          ends = edges[k].ends /\ kind = edges[k].kind
    BY <1>1
  <2>2. new = UpdateEdge(c, ends, kind)
    BY <2>1
  <2> HIDE DEF new
  <2>3. /\ new \in Image /\ new.nodes = c.nodes /\ Len(new.edges) = Len(c.edges)
        /\ new.events = c.events /\ new.whole = c.whole
    BY <2>2, UpdateEdgeDoes
  <2>4. \A j \in 1..Len(c.edges) :
          /\ new.edges[j].ends = c.edges[j].ends
          /\ c.edges[j].ends = ends => new.edges[j].kind = kind
          /\ c.edges[j].ends # ends => new.edges[j] = c.edges[j]
    BY <2>2, UpdateEdgeDoes
  <2> QED BY <2>1, <2>3, <2>4
<1> HIDE DEF new
<1>3. c.whole => /\ Len(c.edges) = Len(edges)
                 /\ \A j \in 1..Len(edges) :
                      /\ c.edges[j].ends = edges[j].ends
                      /\ Unparalleled(j) /\ j # k => c.edges[j] = edges[j]
  BY DEF HoldsAllBut, Holds
<1>4. ASSUME c.whole, NEW j \in 1..Len(edges), Unparalleled(j)
      PROVE  new.edges[j] = edges[j]
  <2>1. CASE edges[j].ends = edges[k].ends
    <3>1. j = k
      BY <2>1, <1>4 DEF Unparalleled
    <3>2. new.edges[k].ends = edges[k].ends /\ new.edges[k].kind = edges[k].kind
      BY <1>2, <1>3, <1>4
    <3>3. new.edges[k] \in Edge
      BY <1>2, <1>3, <1>4, ImageParts, ElementOfSeq
    <3> QED BY <3>1, <3>2, <3>3, <1>1 DEF Edge
  <2>2. CASE edges[j].ends # edges[k].ends
    BY <2>2, <1>2, <1>3, <1>4
  <2> QED BY <2>1, <2>2
<1>5. HoldsAllBut(new, {}, {}, {})
  BY <1>2, <1>3, <1>4 DEF HoldsAllBut, Holds
<1> QED BY <1>2, <1>5 DEF ImageOK, Numbered, NoneDangling, EventsFit, NamesRow, DeletionShows, new

------------------------------------------------------------------------------
(* The next write of a command.                                            *)

LEMMA WriteIs ==
  ASSUME NEW c
  PROVE  /\ \A i, row : Write(c, <<"insert_node", i, row>>) = InsertNode(c, i, row)
         /\ \A e : Write(c, <<"insert_edge", e>>) = InsertEdge(c, e)
         /\ \A i : Write(c, <<"mark_deleted", i>>) = MarkDeleted(c, i)
         /\ \A i, self : Write(c, <<"update_tier", i, self>>) = UpdateTier(c, i, self)
         /\ \A ends, kind : Write(c, <<"update_edge", ends, kind>>) = UpdateEdge(c, ends, kind)
         /\ \A e : Write(c, <<"log_event", e>>) = LogEvent(c, e)
BY DEF Write

\* The image a file is found with now.
LEMMA CurrentIs ==
  ASSUME TypeOK, ImagesOK, files[project] # <<>>
  PROVE  /\ Current \in Image /\ ImageOK(Current)
         /\ Len(files[project]) \in Nat \ {0} /\ files[project] \in Seq(Image)
<1>1. files[project] \in Seq(Image) /\ project \in Projects
  BY DEF TypeOK
<1>2. Len(files[project]) \in Nat \ {0}
  BY <1>1, EmptyLength
<1>3. Current \in Image
  BY <1>1, <1>2, ElementOfSeq DEF Current, Final
<1> QED BY <1>1, <1>2, <1>3 DEF ImagesOK, Current, Final

LEMMA TailOf ==
  ASSUME TypeOK, todo # <<>>
  PROVE  /\ Head(todo) = todo[1] /\ Tail(todo) \in Seq(Writes)
         /\ Len(todo) \in Nat \ {0} /\ Len(Tail(todo)) = Len(todo) - 1
         /\ \A k \in 1..Len(todo) - 1 : Tail(todo)[k] = todo[k + 1]
<1>1. todo \in Seq(Writes)
  BY DEF TypeOK
<1>2. Len(todo) \in Nat \ {0} /\ Len(Tail(todo)) = Len(todo) - 1
  BY <1>1, HeadTailProperties, EmptyLength
<1>3. Head(todo) = todo[1]
  BY <1>1
<1> QED BY <1>1, <1>2, <1>3, HeadTailProperties

\* Edges and an event are left to write.
LEMMA EdgesPending ==
  ASSUME NEW t, NEW c, NEW m \in Nat, NEW b \in 0..1, Len(nodes) \in Nat, Len(nodes) > 0,
         Len(t) = m + b,
         \A k \in 1..m : t[k] = <<"insert_edge", edges[Len(edges) - m + k]>>,
         b = 1 => \E e \in Event : t[m + 1] = <<"log_event", e>> /\ Fits(c, e),
         Holds(c, Len(nodes), Len(edges) - m, {}, {}, {})
  PROVE  Pending(t, c, 0, m, b)
<1>1. Len(nodes) - 0 = Len(nodes) /\ 0 + m = m /\ 0 # 1 /\ \A k \in 1..m : 0 + k = k
  OBVIOUS
<1>2. Holds(c, Len(nodes) - 0, Len(edges) - m, {}, {}, {})
  BY <1>1
<1>3. \A k \in 1..m : t[0 + k] = <<"insert_edge", edges[Len(edges) - m + k]>>
  BY <1>1
<1>4. Len(t) = 0 + m + b /\ t[0 + m + 1] = t[m + 1]
  BY <1>1
<1> QED BY <1>1, <1>2, <1>3, <1>4 DEF Pending

\* Whatever the command, its next write makes an image that its other writes go with.
LEMMA NextWriteFits ==
  ASSUME TypeOK, ImagesOK, MemoryOK, WritesOK, app = "up", todo # <<>>
  PROVE  LET new == Write(Current, Head(todo))
         IN new \in Image /\ ImageOK(new) /\ SomePending(Tail(todo), new)
<1> PICK c \in Image : c = Current
  BY CurrentIs DEF MemoryOK, InMemory
<1> DEFINE new == Write(c, Head(todo))
<1> SUFFICES new \in Image /\ ImageOK(new) /\ SomePending(Tail(todo), new)
  OBVIOUS
<1>1. ImageOK(c) /\ InMemory
  BY CurrentIs DEF MemoryOK, InMemory
<1>2. CASE Appending
  <2>1. PICK a \in 0..1, b \in 0..1, m \in 0..Len(edges) : Pending(todo, c, a, m, b)
    BY <1>2 DEF Appending, SomePending
  <2>2. CASE a = 1
    <3>1. Len(nodes) > 1 /\ Len(nodes) \in 1..MaxNodes /\ nodes[Len(nodes)] \in Node
          /\ Len(edges) - m \in Nat
      BY <2>1, <2>2, Lengths DEF Pending
    <3>2. new = InsertNode(c, Len(nodes), nodes[Len(nodes)])
      <4>1. Head(todo) = <<"insert_node", Len(nodes), nodes[Len(nodes)]>>
        BY <2>1, <2>2, TailOf DEF Pending
      <4> QED BY <4>1, WriteIs
    <3>3. Holds(c, Len(nodes) - 1, Len(edges) - m, {}, {}, {})
      BY <2>1, <2>2 DEF Pending
    <3>4. new \in Image
      BY <3>1, <3>2, InsertNodeDoes
    <3>5. Holds(new, Len(nodes), Len(edges) - m, {}, {}, {}) /\ ImageOK(new)
      BY <1>1, <3>1, <3>2, <3>3, InsertNodeHolds
    <3>6. Pending(Tail(todo), new, 0, m, b)
      <4> PICK t : t = Tail(todo)
        OBVIOUS
      <4>a. Len(edges) \in Nat /\ m \in Nat /\ Len(nodes) \in Nat
        BY Lengths
      <4>1. Len(t) = m + b /\ \A k \in 1..m + b : t[k] = todo[k + 1]
        BY <2>1, <2>2, TailOf DEF Pending
      <4>2. \A k \in 1..m : t[k] = <<"insert_edge", edges[Len(edges) - m + k]>>
        BY <2>1, <2>2, <4>1 DEF Pending
      <4>b. new.whole = c.whole
        BY <3>1, <3>2, InsertNodeDoes
      <4>3. b = 1 => \E e \in Event : t[m + 1] = <<"log_event", e>> /\ Fits(new, e)
        <5> SUFFICES ASSUME b = 1
                     PROVE  \E e \in Event : t[m + 1] = <<"log_event", e>> /\ Fits(new, e)
          OBVIOUS
        <5>1. PICK e \in Event : todo[a + m + 1] = <<"log_event", e>> /\ Fits(c, e)
          BY <2>1 DEF Pending
        <5>2. Fits(new, e)
          BY <4>b, <5>1 DEF Fits
        <5>3. t[m + 1] = todo[a + m + 1]
          BY <2>2, <4>a, <4>1
        <5> QED BY <5>1, <5>2, <5>3
      <4>4. Len(nodes) > 0 /\ Holds(new, Len(nodes), Len(edges) - m, {}, {}, {})
        BY <3>1, <3>5
      <4> PICK d : d = new
        OBVIOUS
      <4>5. Holds(d, Len(nodes), Len(edges) - m, {}, {}, {})
        BY <4>4
      <4>6. Pending(t, d, 0, m, b)
        BY <4>a, <4>1, <4>2, <4>3, <4>4, <4>5, EdgesPending
      <4> QED BY <4>6
    <3> QED BY <3>4, <3>5, <3>6 DEF SomePending
  <2>3. CASE a = 0 /\ m > 0
    <3>1. Len(edges) - m \in Nat /\ Len(edges) - m < Len(edges)
          /\ edges[Len(edges) - m + 1] \in Edge
      BY <2>3, Lengths
    <3>2. new = InsertEdge(c, edges[Len(edges) - m + 1])
      <4>1. 1 \in 1..m /\ a + 1 = 1
        BY <2>3
      <4>2. Head(todo) = <<"insert_edge", edges[Len(edges) - m + 1]>>
        BY <2>1, <4>1, TailOf DEF Pending
      <4> QED BY <4>2, WriteIs
    <3>3. Holds(c, Len(nodes), Len(edges) - m, {}, {}, {})
      BY <2>1, <2>3, Lengths DEF Pending
    <3>4. new \in Image
      BY <3>1, <3>2, InsertEdgeDoes
    <3>5. Holds(new, Len(nodes), Len(edges) - (m - 1), {}, {}, {}) /\ ImageOK(new)
      BY <1>1, <3>1, <3>2, <3>3, InsertEdgeHolds
    <3>6. Pending(Tail(todo), new, 0, m - 1, b)
      <4> PICK l \in Nat : l = Len(edges)
        BY Lengths
      <4> PICK n \in Nat : n = m - 1
        BY <2>3
      <4> PICK t : t = Tail(todo)
        OBVIOUS
      <4>a. Len(nodes) \in Nat /\ Len(nodes) > 0
        BY <2>1, <2>3, Lengths DEF Pending
      <4>1. Len(t) = n + b /\ \A k \in 1..n + b : t[k] = todo[k + 1]
        BY <2>1, <2>3, TailOf DEF Pending
      <4>2. \A k \in 1..n : t[k] = <<"insert_edge", edges[l - n + k]>>
        <5>1. \A k \in 1..m : todo[k] = <<"insert_edge", edges[l - m + k]>>
          BY <2>1, <2>3 DEF Pending
        <5> SUFFICES ASSUME NEW k \in 1..n PROVE t[k] = <<"insert_edge", edges[l - n + k]>>
          OBVIOUS
        <5>2. k + 1 \in 1..m /\ l - m + (k + 1) = l - n + k /\ k \in 1..n + b
          BY <2>3
        <5>3. t[k] = todo[k + 1]
          BY <4>1, <5>2
        <5> QED BY <5>1, <5>2, <5>3
      <4>b. new.whole = c.whole
        BY <3>1, <3>2, InsertEdgeDoes
      <4>3. b = 1 => \E e \in Event : t[n + 1] = <<"log_event", e>> /\ Fits(new, e)
        <5> SUFFICES ASSUME b = 1
                     PROVE  \E e \in Event : t[n + 1] = <<"log_event", e>> /\ Fits(new, e)
          OBVIOUS
        <5>1. PICK e \in Event : todo[a + m + 1] = <<"log_event", e>> /\ Fits(c, e)
          BY <2>1 DEF Pending
        <5>2. Fits(new, e)
          BY <4>b, <5>1 DEF Fits
        <5>3. t[n + 1] = todo[a + m + 1]
          BY <2>3, <4>1
        <5> QED BY <5>1, <5>2, <5>3
      <4>4. Pending(t, new, 0, n, b)
        BY <3>5, <4>a, <4>1, <4>2, <4>3, EdgesPending
      <4> QED BY <4>4
    <3> QED BY <2>3, <3>4, <3>5, <3>6, Lengths DEF SomePending
  <2>4. CASE a = 0 /\ m = 0
    <3>1. b = 1
      BY <2>1, <2>4, TailOf DEF Pending
    <3>2. PICK e \in Event : todo[1] = <<"log_event", e>> /\ Fits(c, e)
      BY <2>1, <2>4, <3>1 DEF Pending
    <3>3. new = LogEvent(c, e)
      BY <3>2, WriteIs, TailOf
    <3>4. HoldsAllBut(c, {}, {}, {})
      BY <2>1, <2>4, Lengths DEF Pending, HoldsAllBut
    <3>5. new \in Image /\ HoldsAllBut(new, {}, {}, {}) /\ ImageOK(new)
      BY <1>1, <3>2, <3>3, <3>4, LogEventDoes, LogEventHolds
    <3>6. Pending(Tail(todo), new, 0, 0, 0)
      BY <2>1, <2>4, <3>1, <3>5, TailOf, Lengths DEF Pending, HoldsAllBut
    <3> QED BY <3>5, <3>6, Lengths DEF SomePending
  <2> QED BY <2>2, <2>3, <2>4
<1>3. CASE Retiering
  <2>1. PICK i \in 1..Len(nodes) : /\ todo = <<<<"update_tier", i, nodes[i].self>>>>
                                   /\ HoldsAllBut(c, {i}, {}, {})
    BY <1>3 DEF Retiering
  <2>2. i \in 1..MaxNodes /\ nodes[i].self \in BOOLEAN /\ Len(nodes) > 0
    BY Lengths DEF Node
  <2>3. new = UpdateTier(c, i, nodes[i].self)
    BY <2>1, WriteIs
  <2>4. new \in Image /\ HoldsAllBut(new, {}, {}, {}) /\ ImageOK(new)
    BY <1>1, <2>1, <2>2, <2>3, UpdateTierDoes, UpdateTierHolds
  <2>5. Pending(Tail(todo), new, 0, 0, 0)
    BY <2>1, <2>2, <2>4, TailOf, Lengths DEF Pending, HoldsAllBut
  <2> QED BY <2>4, <2>5, Lengths DEF SomePending
<1>4. CASE Rekinding
  <2>1. PICK k \in 1..Len(edges) : /\ todo = <<<<"update_edge", edges[k].ends, edges[k].kind>>>>
                                   /\ HoldsAllBut(c, {}, {}, {k})
    BY <1>4 DEF Rekinding
  <2>2. edges[k].ends \in (1..MaxNodes) \X (1..MaxNodes) /\ edges[k].kind \in Kinds
    BY Lengths DEF Edge
  <2>3. Len(nodes) > 0
    BY <1>1, Lengths DEF MemoryOK
  <2>4. new = UpdateEdge(c, edges[k].ends, edges[k].kind)
    BY <2>1, WriteIs
  <2>5. new \in Image /\ HoldsAllBut(new, {}, {}, {}) /\ ImageOK(new)
    BY <1>1, <2>1, <2>2, <2>4, UpdateEdgeDoes, UpdateEdgeHolds
  <2>6. Pending(Tail(todo), new, 0, 0, 0)
    BY <2>1, <2>3, <2>5, TailOf, Lengths DEF Pending, HoldsAllBut
  <2> QED BY <2>5, <2>6, Lengths DEF SomePending
<1>5. CASE Deleting
  <2>1. PICK i \in 1..Len(nodes) : /\ todo = DeleteWrites(i) /\ nodes[i].deleted
                                   /\ HoldsAllBut(c, {}, {i}, {})
    BY <1>5 DEF Deleting
  <2>2. i \in 1..MaxNodes /\ Len(nodes) > 0
    BY Lengths
  <2>3. new = MarkDeleted(c, i)
    BY <2>1, WriteIs DEF DeleteWrites
  <2>4. new \in Image /\ HoldsAllBut(new, {}, {}, {}) /\ ImageOK(new)
    <3>1. new \in Image
      BY <2>2, <2>3, MarkDeletedDoes
    <3>2. HoldsAllBut(new, {}, {}, {}) /\ ImageOK(new)
      BY <1>1, <2>1, <2>3, MarkDeletedHolds
    <3> QED BY <3>1, <3>2
  <2>5. Len(Tail(todo)) = 1 /\ Tail(todo)[1] = <<"log_event", <<"node_delete", i>>>>
    BY <2>1, TailOf DEF DeleteWrites
  <2>6. <<"node_delete", i>> \in Event /\ Fits(new, <<"node_delete", i>>)
    BY <2>1, <2>2 DEF Event, Fits
  <2>7. Pending(Tail(todo), new, 0, 0, 1)
    <3>1. Holds(new, Len(nodes) - 0, Len(edges) - 0, {}, {}, {})
      BY <2>4, Lengths DEF HoldsAllBut
    <3>2. PICK t, ev : t = Tail(todo) /\ ev = <<"node_delete", i>>
      OBVIOUS
    <3>3. /\ Len(t) = 0 + 0 + 1 /\ Len(nodes) > 0 /\ 0 # 1
          /\ \A k \in 1..0 : t[0 + k] = <<"insert_edge", edges[Len(edges) - 0 + k]>>
      BY <2>2, <2>5, <3>2
    <3>4. t[0 + 0 + 1] = <<"log_event", ev>> /\ ev \in Event /\ Fits(new, ev)
      BY <2>5, <2>6, <3>2
    <3>5. Pending(t, new, 0, 0, 1)
      BY <3>1, <3>3, <3>4 DEF Pending
    <3> QED BY <3>2, <3>5
  <2> QED BY <2>4, <2>7, Lengths DEF SomePending
<1> QED BY <1>2, <1>3, <1>4, <1>5 DEF WritesOK

------------------------------------------------------------------------------
(* The invariant, action by action.                                        *)

LEMMA CommitFiles ==
  ASSUME TypeOK, ImagesOK, NEW img \in Image, ImageOK(img),
         files' = Committed(img), UNCHANGED project
  PROVE  /\ files' \in [Projects -> Seq(Image)] /\ ImagesOK'
         /\ Current' = img /\ files'[project] # <<>>
         /\ files'[project] = Append(files[project], img)
         /\ \A p \in Projects \ {project} : files'[p] = files[p]
<1> PICK p \in Projects : p = project
  BY DEF TypeOK
<1>1. files \in [Projects -> Seq(Image)] /\ files[p] \in Seq(Image)
  BY DEF TypeOK
<1>2. files' = [files EXCEPT ![p] = Append(files[p], img)]
  BY <1>1 DEF Committed
<1>3. /\ Append(files[p], img) \in Seq(Image) /\ Len(files[p]) \in Nat
      /\ Len(Append(files[p], img)) = Len(files[p]) + 1
      /\ \A k \in 1..Len(files[p]) : Append(files[p], img)[k] = files[p][k]
      /\ Append(files[p], img)[Len(files[p]) + 1] = img
  BY <1>1, AppendedIs, EmptyLength
<1>4. files'[p] = Append(files[p], img) /\ \A q \in Projects \ {p} : files'[q] = files[q]
  BY <1>1, <1>2
<1>5. files' \in [Projects -> Seq(Image)]
  BY <1>1, <1>2, <1>3
<1>6. ASSUME NEW q \in Projects, NEW k \in 1..Len(files'[q]) PROVE ImageOK(files'[q][k])
  <2>1. CASE q # p
    BY <2>1, <1>4 DEF ImagesOK
  <2>2. CASE q = p /\ k = Len(files[p]) + 1
    BY <2>2, <1>3, <1>4
  <2>3. CASE q = p /\ k \in 1..Len(files[p])
    BY <2>3, <1>3, <1>4 DEF ImagesOK
  <2> QED BY <2>1, <2>2, <2>3, <1>3, <1>4
<1>7. files'[p] # <<>>
  BY <1>3, <1>4, EmptyLength
<1> QED BY <1>3, <1>4, <1>5, <1>6, <1>7 DEF ImagesOK, Current, Final

\* What an image holds of the memory depends on the memory's nodes and edges alone.
LEMMA HoldsSame ==
  ASSUME UNCHANGED <<nodes, edges>>, NEW c, NEW n, NEW e, NEW tiers, NEW tombs, NEW kinds
  PROVE  /\ Holds(c, n, e, tiers, tombs, kinds)' = Holds(c, n, e, tiers, tombs, kinds)
         /\ HoldsAllBut(c, tiers, tombs, kinds)' = HoldsAllBut(c, tiers, tombs, kinds)
BY DEF Holds, HoldsAllBut, Unparalleled

LEMMA PendingSame ==
  ASSUME UNCHANGED <<nodes, edges>>, NEW t, NEW c, SomePending(t, c)
  PROVE  SomePending(t, c)'
<1>1. PICK a \in 0..1, b \in 0..1, m \in 0..Len(edges) : Pending(t, c, a, m, b)
  BY DEF SomePending
<1>2. Holds(c, Len(nodes) - a, Len(edges) - m, {}, {}, {})'
  BY <1>1 DEF Pending, Holds, Unparalleled
<1>3. Pending(t, c, a, m, b)'
  BY <1>1, <1>2 DEF Pending, Fits
<1> QED BY <1>3 DEF SomePending

\* A process that has gone leaves only its files.
LEMMA GoneFits ==
  ASSUME TypeOK, app' = "down", Forget, files' \in [Projects -> Seq(Image)], ImagesOK',
         last' \in Projects, project' \in Projects
  PROVE  StoreInv'
<1>1. /\ nodes' \in Seq(Node) /\ Len(nodes') <= MaxNodes /\ edges' \in Seq(Edge)
      /\ todo' \in Seq(Writes)
  BY EmptySeq DEF Forget
<1>2. TypeOK'
  BY <1>1 DEF TypeOK, Forget, App, Goal
<1> QED BY <1>2 DEF StoreInv, MemoryOK, InMemory, ControlOK, WritesOK, SavingOK, Forget

LEMMA CommitWriteKeeps == ASSUME StoreInv, CommitWrite PROVE StoreInv'
<1>1. TypeOK /\ ImagesOK /\ MemoryOK /\ ControlOK /\ WritesOK
      /\ app = "up" /\ todo # <<>> /\ victim = Nobody /\ files[project] # <<>>
  BY DEF StoreInv, CommitWrite, ControlOK, MemoryOK, InMemory
<1>2. PICK new \in Image, rest \in Seq(Writes) :
        /\ new = Write(Current, Head(todo)) /\ rest = Tail(todo)
        /\ ImageOK(new) /\ SomePending(rest, new)
  BY <1>1, NextWriteFits, TailOf
<1>a. files' = Committed(new) /\ todo' = rest
  BY <1>2 DEF CommitWrite, Current
<1>3. files' \in [Projects -> Seq(Image)] /\ ImagesOK' /\ Current' = new /\ files'[project] # <<>>
  BY <1>1, <1>2, <1>a, CommitFiles DEF CommitWrite
<1>4. TypeOK'
  BY <1>1, <1>a, <1>3 DEF CommitWrite, TypeOK
<1>5. MemoryOK'
  BY <1>1, <1>3 DEF CommitWrite, MemoryOK, InMemory
<1>6. ControlOK'
  BY <1>1 DEF CommitWrite, ControlOK
<1>7. SomePending(rest, new)'
  BY <1>2, PendingSame DEF CommitWrite
<1>8. WritesOK' /\ SavingOK'
  BY <1>1, <1>a, <1>3, <1>7 DEF CommitWrite, WritesOK, SavingOK, Appending
<1> QED BY <1>3, <1>4, <1>5, <1>6, <1>8 DEF StoreInv

\* What is in flight depends on the current image, the memory and the writes left.
LEMMA InFlightSame ==
  ASSUME UNCHANGED <<app, nodes, edges, todo, txn>>, Current' = Current
  PROVE  WritesOK' = WritesOK /\ SavingOK' = SavingOK
BY DEF WritesOK, SavingOK, Appending, SomePending, Pending, Retiering, Rekinding, Deleting,
       DeleteWrites, Fits, Holds, HoldsAllBut, Unparalleled

LEMMA CheckpointKeeps == ASSUME StoreInv, Checkpoint PROVE StoreInv'
<1>1. TypeOK /\ ImagesOK /\ MemoryOK /\ ControlOK /\ WritesOK /\ SavingOK
  BY DEF StoreInv
<1>2. PICK p \in Projects : Len(files[p]) > 1 /\ files' = [files EXCEPT ![p] = <<Final(files[p])>>]
  BY DEF Checkpoint
<1>3. files[p] \in Seq(Image) /\ Len(files[p]) \in Nat
  BY <1>1, EmptyLength DEF TypeOK
<1>4. Final(files[p]) \in Image /\ ImageOK(Final(files[p]))
  BY <1>1, <1>2, <1>3, ElementOfSeq DEF Final, ImagesOK
<1>5. /\ files' \in [Projects -> Seq(Image)] /\ files'[p] = <<Final(files[p])>>
      /\ \A q \in Projects \ {p} : files'[q] = files[q]
  BY <1>1, <1>2, <1>4 DEF TypeOK
<1>6. ASSUME NEW q \in Projects, NEW k \in 1..Len(files'[q]) PROVE ImageOK(files'[q][k])
  BY <1>1, <1>4, <1>5 DEF ImagesOK
<1>7. \A q \in Projects : files[q] # <<>> => files'[q] # <<>> /\ Final(files'[q]) = Final(files[q])
  <2>1. files'[p] # <<>> /\ Final(files'[p]) = Final(files[p])
    <3>1. Len(<<Final(files[p])>>) = 1 /\ <<Final(files[p])>>[1] = Final(files[p])
      OBVIOUS
    <3> QED BY <3>1, <1>5, EmptySeq DEF Final
  <2> QED BY <2>1, <1>5
<1>8. TypeOK'
  BY <1>1, <1>5 DEF Checkpoint, TypeOK
<1>9. MemoryOK' /\ ControlOK'
  <2>1. files[project] # <<>> => files'[project'] # <<>>
    BY <1>1, <1>7 DEF Checkpoint, TypeOK
  <2> QED BY <1>1, <2>1 DEF Checkpoint, MemoryOK, InMemory, ControlOK
<1>10. WritesOK' /\ SavingOK'
  <2>1. CASE files[project] # <<>>
    <3>1. Current' = Current
      BY <2>1, <1>1, <1>7 DEF Checkpoint, Current, TypeOK
    <3> QED BY <3>1, <1>1, InFlightSame DEF Checkpoint
  <2>2. CASE files[project] = <<>>
    BY <2>2, <1>1 DEF Checkpoint, MemoryOK, InMemory, WritesOK, SavingOK
  <2> QED BY <2>1, <2>2
<1> QED BY <1>1, <1>6, <1>8, <1>9, <1>10 DEF StoreInv, ImagesOK

\* Between commands the database is as far as the memory.
LEMMA FreeHolds ==
  ASSUME TypeOK, WritesOK, app = "up", todo = <<>>
  PROVE  HoldsAllBut(Current, {}, {}, {})
<1>1. CASE Appending
  <2>1. PICK a \in 0..1, b \in 0..1, m \in 0..Len(edges) : Pending(todo, Current, a, m, b)
    BY <1>1 DEF Appending, SomePending
  <2>2. a = 0 /\ m = 0
    BY <2>1, Lengths DEF Pending
  <2> QED BY <2>1, <2>2, Lengths DEF Pending, HoldsAllBut
<1>2. ~Retiering /\ ~Rekinding /\ ~Deleting
  BY DEF Retiering, Rekinding, Deleting, DeleteWrites
<1> QED BY <1>1, <1>2 DEF WritesOK

\* What a command starts from.
LEMMA EditingMeans ==
  ASSUME StoreInv, Editing
  PROVE  /\ TypeOK /\ ImagesOK /\ MemoryOK /\ app = "up" /\ todo = <<>> /\ victim = Nobody
         /\ txn = NoTxn /\ files[project] # <<>> /\ Len(nodes) \in 1..MaxNodes
         /\ \A k \in 1..Len(edges) : edges[k].ends \in (1..Len(nodes)) \X (1..Len(nodes))
         /\ HoldsAllBut(Current, {}, {}, {})
<1>1. TypeOK /\ ImagesOK /\ MemoryOK /\ ControlOK /\ WritesOK /\ app = "up" /\ todo = <<>> /\ victim = Nobody
  BY DEF StoreInv, Editing, Free
<1>2. nodes # <<>> /\ files[project] # <<>> /\ txn = NoTxn
      /\ \A k \in 1..Len(edges) : edges[k].ends \in (1..Len(nodes)) \X (1..Len(nodes))
  BY <1>1 DEF MemoryOK, InMemory, ControlOK
<1>3. Len(nodes) \in 0..MaxNodes /\ Len(nodes) # 0
  BY <1>1, <1>2, Lengths
<1> QED BY <1>1, <1>2, <1>3, FreeHolds

\* A command that changes the memory, and not the files, keeps all but what it writes.
LEMMA CommandFits ==
  ASSUME StoreInv, Editing, UNCHANGED <<files, last, app, Others, txn, goal, victim>>,
         nodes' \in Seq(Node), Len(nodes') \in Len(nodes)..MaxNodes, edges' \in Seq(Edge),
         disabled' \subseteq 1..MaxNodes, todo' \in Seq(Writes),
         \A k \in 1..Len(edges') : edges'[k].ends \in (1..Len(nodes')) \X (1..Len(nodes')),
         (Appending \/ Retiering \/ Rekinding \/ Deleting)'
  PROVE  StoreInv'
<1>1. TypeOK /\ ImagesOK /\ MemoryOK /\ app = "up" /\ victim = Nobody /\ txn = NoTxn
      /\ files[project] # <<>> /\ Len(nodes) \in 1..MaxNodes
  BY EditingMeans
<1>2. Len(nodes') <= MaxNodes /\ 1..Len(nodes) \subseteq 1..Len(nodes') /\ nodes' # <<>>
  BY <1>1, EmptyLength
<1>3. TypeOK'
  BY <1>1, <1>2 DEF TypeOK, Others
<1>4. MemoryOK'
  BY <1>1, <1>2 DEF MemoryOK, InMemory, Others
<1>5. ControlOK'
  BY <1>1 DEF ControlOK
<1>6. ImagesOK'
  BY <1>1 DEF ImagesOK
<1> QED BY <1>1, <1>3, <1>4, <1>5, <1>6 DEF StoreInv, WritesOK, SavingOK

\* The writes of a new node: its row, its edges and its event, in this order.
WritesInOrder(t, i, row, es, events) ==
  /\ t \in Seq(Writes) /\ Len(t) = 1 + Len(es) + Len(events)
  /\ t[1] = <<"insert_node", i, row>>
  /\ \A k \in 1..Len(es) : t[1 + k] = <<"insert_edge", es[k]>>
  /\ \A k \in 1..Len(events) : t[1 + Len(es) + k] = events[k]

LEMMA NodeFirstWrites ==
  ASSUME NEW i \in 1..MaxNodes, NEW row \in Node, NEW es \in Seq(Edge), NEW events \in Seq(Writes),
         NEW t, t = NodeFirst(i, row, es) \o events
  PROVE  WritesInOrder(t, i, row, es, events)
<1> PICK m \in Nat, b \in Nat : m = Len(es) /\ b = Len(events)
  BY LenProperties
<1>1. PICK rows : rows = [k \in 1..Len(es) |-> <<"insert_edge", es[k]>>]
  OBVIOUS
<1>2. PICK first : first = <<<<"insert_node", i, row>>>>
  OBVIOUS
<1>3. \A k \in 1..m : es[k] \in Edge
  BY ElementOfSeq
<1>4. rows \in [1..m -> Writes] /\ \A k \in 1..m : rows[k] = <<"insert_edge", es[k]>>
  BY <1>1, <1>3 DEF Writes
<1>5. rows \in Seq(Writes) /\ Len(rows) = m
  BY <1>4, FunIsSeq
<1>6. first \in Seq(Writes) /\ 1 = Len(first) /\ first[1] = <<"insert_node", i, row>>
  BY <1>2 DEF Writes
<1>7. PICK both : both = first \o rows
  OBVIOUS
<1>8. /\ both \in Seq(Writes) /\ Len(both) = 1 + m /\ both[1] = first[1]
      /\ \A k \in 1..m : both[1 + k] = rows[k]
  <2>1. first \in Seq(Writes) /\ rows \in Seq(Writes)
    BY <1>5, <1>6
  <2>2. /\ both \in Seq(Writes) /\ Len(both) = Len(first) + Len(rows)
        /\ \A k \in 1..Len(first) : both[k] = first[k]
        /\ \A k \in 1..Len(rows) : both[Len(first) + k] = rows[k]
    BY <2>1, <1>7, ConcatIs
  <2>3. Len(first) = 1 /\ Len(rows) = m
    BY <1>5, <1>6
  <2>4. Len(both) = 1 + m /\ both[1] = first[1]
    BY <2>2, <2>3
  <2>5. \A k \in 1..m : both[1 + k] = rows[k]
    BY <2>2, <2>3
  <2> QED BY <2>2, <2>4, <2>5
<1>9. t = both \o events
  BY <1>1, <1>2, <1>7 DEF NodeFirst
<1>10. 1 + m \in Nat /\ 1 \in 1..1 + m /\ \A k \in 1..m : 1 + k \in 1..1 + m
  OBVIOUS
<1>11. /\ t \in Seq(Writes) /\ Len(t) = (1 + m) + b
       /\ \A k \in 1..1 + m : t[k] = both[k]
       /\ \A k \in 1..b : t[(1 + m) + k] = events[k]
  <2>1. /\ t \in Seq(Writes) /\ Len(t) = Len(both) + Len(events)
        /\ \A k \in 1..Len(both) : t[k] = both[k]
        /\ \A k \in 1..Len(events) : t[Len(both) + k] = events[k]
    <3>1. both \in Seq(Writes)
      BY <1>8
    <3> QED BY <3>1, <1>9, ConcatIs
  <2>2. Len(both) = 1 + m
    BY <1>8
  <2> QED BY <2>1, <2>2
<1>13. t[1] = <<"insert_node", i, row>> /\ \A k \in 1..m : t[1 + k] = <<"insert_edge", es[k]>>
  BY <1>4, <1>6, <1>8, <1>10, <1>11
<1>14. t \in Seq(Writes) /\ Len(t) = 1 + m + b /\ \A k \in 1..b : t[1 + m + k] = events[k]
  BY <1>11
<1> QED BY <1>13, <1>14 DEF WritesInOrder

LEMMA AppendNodeKeeps ==
  ASSUME StoreInv, NEW ends \in Seq((1..NewId) \X (1..NewId)), NEW events \in Seq(Writes),
         \/ events = <<>>
         \/ events = <<<<"log_event", <<"phantom_pin", NewId>>>>>>,
         AppendNode(ends, events)
  PROVE  StoreInv'
<1>1. TypeOK /\ HoldsAllBut(Current, {}, {}, {}) /\ Len(nodes) \in 1..MaxNodes /\ Editing
      /\ \A k \in 1..Len(edges) : edges[k].ends \in (1..Len(nodes)) \X (1..Len(nodes))
  BY EditingMeans DEF AppendNode
<1> DEFINE row == [self |-> FALSE, deleted |-> FALSE]
<1>2. PICK kind \in Kinds :
        LET es == [k \in 1..Len(ends) |-> [ends |-> ends[k], kind |-> kind]]
        IN /\ NewId <= MaxNodes /\ nodes' = Append(nodes, row) /\ edges' = edges \o es
           /\ todo' = NodeFirst(NewId, row, es) \o events
  BY DEF AppendNode
<1>3. PICK n \in 1..MaxNodes : n = Len(nodes) + 1 /\ n = NewId
  BY <1>1, <1>2 DEF NewId
<1>4. PICK m \in Nat : m = Len(ends)
  BY LenProperties
<1>5. PICK e \in Nat : e = Len(edges)
  BY <1>1, Lengths
<1>6. PICK es : es = [k \in 1..Len(ends) |-> [ends |-> ends[k], kind |-> kind]]
  OBVIOUS
<1>7. \A k \in 1..m : ends[k] \in (1..n) \X (1..n)
  BY <1>3, <1>4, ElementOfSeq
<1>8. ASSUME NEW k \in 1..m PROVE es[k].ends \in (1..n) \X (1..n) /\ es[k] \in Edge
  <2>1. es[k] = [ends |-> ends[k], kind |-> kind]
    BY <1>4, <1>6
  <2>2. ends[k] \in (1..MaxNodes) \X (1..MaxNodes)
    <3>1. ends[k] \in (1..n) \X (1..n) /\ 1..n \subseteq 1..MaxNodes
      BY <1>7
    <3> QED BY <3>1
  <2> QED BY <2>1, <2>2, <1>2, <1>7 DEF Edge
<1>9. es \in [1..m -> Edge]
  BY <1>4, <1>6, <1>8
<1>10. es \in Seq(Edge) /\ Len(es) = m
  BY <1>9, FunIsSeq
<1>11. nodes' = Append(nodes, row) /\ edges' = edges \o es /\ todo' = NodeFirst(n, row, es) \o events
  BY <1>2, <1>3, <1>6
<1>12. row \in Node
  BY DEF Node
<1>13. /\ nodes' \in Seq(Node) /\ Len(nodes') = n /\ nodes'[n] = row
       /\ \A i \in 1..n-1 : nodes'[i] = nodes[i]
  BY <1>1, <1>3, <1>11, <1>12, AppendedIs DEF TypeOK
<1>14. /\ edges' \in Seq(Edge) /\ Len(edges') = e + m
       /\ \A k \in 1..e : edges'[k] = edges[k]
       /\ \A k \in 1..m : edges'[e + k] = es[k]
  <2>1. edges \in Seq(Edge)
    BY <1>1 DEF TypeOK
  <2>2. /\ edges' \in Seq(Edge) /\ Len(edges') = Len(edges) + Len(es)
        /\ \A k \in 1..Len(edges) : edges'[k] = edges[k]
        /\ \A k \in 1..Len(es) : edges'[Len(edges) + k] = es[k]
    BY <2>1, <1>10, <1>11, ConcatIs
  <2> QED BY <2>2, <1>5, <1>10
<1>15. \A k \in 1..e : edges'[k] = edges[k]
  BY <1>14
<1>16. \A k \in 1..m : edges'[e + k] = es[k]
  BY <1>14
<1>a. \/ events = <<>> /\ Len(events) = 0
      \/ events = <<<<"log_event", <<"phantom_pin", n>>>>>> /\ Len(events) = 1
  <2>1. CASE events = <<>>
    <3>1. Len(<<>>) = 0
      OBVIOUS
    <3> QED BY <2>1, <3>1
  <2>2. CASE events = <<<<"log_event", <<"phantom_pin", n>>>>>>
    <3>1. Len(<<<<"log_event", <<"phantom_pin", n>>>>>>) = 1
      OBVIOUS
    <3> QED BY <2>2, <3>1
  <2> QED BY <2>1, <2>2, <1>3
<1>17. PICK b \in 0..1 : /\ b = Len(events)
                         /\ b = 1 => events = <<<<"log_event", <<"phantom_pin", n>>>>>>
  BY <1>a
<1>18. /\ todo' \in Seq(Writes) /\ Len(todo') = 1 + m + b
       /\ todo'[1] = <<"insert_node", n, row>>
       /\ \A k \in 1..m : todo'[1 + k] = <<"insert_edge", es[k]>>
       /\ \A k \in 1..b : todo'[1 + m + k] = events[k]
  <2>1. m = Len(es) /\ b \in Nat
    BY <1>10
  <2> HIDE DEF row
  <2>2. PICK t : t = NodeFirst(n, row, es) \o events
    OBVIOUS
  <2>3. es \in Seq(Edge) /\ row \in Node
    BY <1>10, <1>12
  <2>4. WritesInOrder(t, n, row, es, events)
    BY <2>2, <2>3, NodeFirstWrites
  <2> QED BY <2>1, <2>2, <2>4, <1>11, <1>17 DEF WritesInOrder
<1>19. ASSUME NEW k \in 1..Len(edges')
       PROVE  edges'[k].ends \in (1..Len(nodes')) \X (1..Len(nodes'))
  <2>1. CASE k \in 1..e
    BY <2>1, <1>1, <1>3, <1>5, <1>13, <1>15
  <2>2. CASE k > e
    <3>1. k - e \in 1..m /\ k = e + (k - e)
      BY <2>2, <1>14
    <3> QED BY <3>1, <1>8, <1>13, <1>16
  <2> QED BY <2>1, <2>2, <1>14
<1>20. Current' = Current
  BY DEF AppendNode, Others, Current
<1>21. ASSUME NEW k \in 1..e, Unparalleled(k)' PROVE Unparalleled(k)
  <2> SUFFICES ASSUME NEW j \in 1..e, edges[j].ends = edges[k].ends PROVE j = k
    BY <1>5 DEF Unparalleled
  <2>1. j \in 1..Len(edges') /\ edges'[j].ends = edges'[k].ends
    BY <1>14
  <2> QED BY <2>1, <1>21 DEF Unparalleled
<1>22. Holds(Current, n - 1, e, {}, {}, {})'
  <2>1. Holds(Current, n - 1, e, {}, {}, {})
    BY <1>1, <1>3, <1>5 DEF HoldsAllBut
  <2> QED BY <2>1, <1>13, <1>15, <1>20, <1>21 DEF Holds
<1>23. ASSUME b = 1
       PROVE  \E ev \in Event : todo'[1 + m + 1] = <<"log_event", ev>> /\ Fits(Current, ev)'
  <2>1. events = <<<<"log_event", <<"phantom_pin", n>>>>>>
    BY <1>17, <1>23
  <2>2. todo'[1 + m + 1] = <<"log_event", <<"phantom_pin", n>>>>
    BY <2>1, <1>18, <1>23
  <2>3. Current'.whole \/ SeedSize < n
    BY <1>1, <1>3, <1>22, <1>13, SeedAssumption DEF Holds
  <2>4. <<"phantom_pin", n>> \in Event /\ Fits(Current, <<"phantom_pin", n>>)'
    BY <1>13, <2>3 DEF Event, Fits
  <2> QED BY <2>2, <2>4
<1>24. Pending(todo, Current, 1, m, b)'
  <2>1. Len(nodes') - 1 = n - 1 /\ Len(edges') - m = e /\ Len(nodes') > 1
    BY <1>1, <1>3, <1>13, <1>14
  <2>2. \A k \in 1..m : todo'[1 + k] = <<"insert_edge", edges'[Len(edges') - m + k]>>
    BY <2>1, <1>16, <1>18
  <2> QED BY <2>1, <2>2, <1>13, <1>18, <1>22, <1>23 DEF Pending
<1>25. Appending'
  BY <1>14, <1>24 DEF Appending, SomePending
<1>26. disabled' \subseteq 1..MaxNodes /\ UNCHANGED <<files, last, app, Others, txn, goal, victim>>
  BY <1>1 DEF AppendNode, TypeOK
<1>27. Len(nodes') \in Len(nodes)..MaxNodes
  BY <1>1, <1>3, <1>13
<1> QED BY <1>1, <1>13, <1>14, <1>18, <1>19, <1>25, <1>26, <1>27, CommandFits

\* Edges to live nodes, and a journal's edges from self and to the selection.
LEMMA CreatesKeep == ASSUME StoreInv, CreateNode \/ PinPhantom \/ Journal PROVE StoreInv'
<1>1. ASSUME NEW n \in Nat, NEW events \in Seq(Writes), AppendLinked(n, events),
             events = <<>> \/ events = <<<<"log_event", <<"phantom_pin", NewId>>>>>>
      PROVE  StoreInv'
  <2>1. PICK to \in [1..n -> AliveNodes] : AppendNode([k \in 1..n |-> <<NewId, to[k]>>], events)
    BY <1>1 DEF AppendLinked
  <2>2. Editing
    BY <2>1 DEF AppendNode
  <2>3. Len(nodes) \in 1..MaxNodes
    BY <2>2, EditingMeans
  <2>4. NewId \in 1..NewId /\ AliveNodes \subseteq 1..NewId
    BY <2>3 DEF NewId, AliveNodes
  <2>5. [k \in 1..n |-> <<NewId, to[k]>>] \in [1..n -> (1..NewId) \X (1..NewId)]
    BY <2>4
  <2>6. [k \in 1..n |-> <<NewId, to[k]>>] \in Seq((1..NewId) \X (1..NewId))
    BY <2>5, FunIsSeq
  <2> QED BY <1>1, <2>1, <2>6, AppendNodeKeeps
<1>2. CASE CreateNode
  <2>1. PICK n \in 0..1 : AppendLinked(n, <<>>)
    BY <1>2 DEF CreateNode
  <2>2. <<>> \in Seq(Writes) /\ n \in Nat
    BY EmptySeq
  <2> QED BY <2>1, <2>2, <1>1
<1>3. CASE PinPhantom
  <2>1. PICK n \in 0..MaxProposed :
          AppendLinked(n, <<<<"log_event", <<"phantom_pin", NewId>>>>>>)
    BY <1>3 DEF PinPhantom
  <2>2. NewId \in 1..MaxNodes
    <3>1. Editing /\ NewId <= MaxNodes
      BY <2>1 DEF AppendLinked, AppendNode
    <3> QED BY <3>1, EditingMeans DEF NewId
  <2>3. <<"log_event", <<"phantom_pin", NewId>>>> \in Writes
    BY <2>2 DEF Writes, Event
  <2> QED BY <2>1, <2>3, <1>1
<1>4. CASE Journal
  <2>1. PICK about \in {<<>>} \cup AboutNodes : AppendNode(FromSelf \o about, <<>>)
    BY <1>4 DEF Journal
  <2>2. Editing
    BY <2>1 DEF AppendNode
  <2>3. Len(nodes) \in 1..MaxNodes /\ (selfIdx = Nobody \/ selfIdx \in 1..Len(nodes))
    BY <2>2, EditingMeans DEF MemoryOK, InMemory
  <2>4. FromSelf \in Seq((1..NewId) \X (1..NewId))
    <3>1. CASE selfIdx = Nobody
      BY <3>1, EmptySeq DEF FromSelf
    <3>2. CASE selfIdx # Nobody
      <4>1. <<selfIdx, NewId>> \in (1..NewId) \X (1..NewId)
        BY <3>2, <2>3 DEF NewId
      <4> QED BY <3>2, <4>1, Singleton DEF FromSelf
    <3> QED BY <3>1, <3>2
  <2>5. about \in Seq((1..NewId) \X (1..NewId))
    <3>1. CASE about = <<>>
      BY <3>1, EmptySeq
    <3>2. CASE about \in AboutNodes
      <4>1. PICK a \in 1..Len(nodes) : about = <<<<NewId, a>>>>
        BY <3>2 DEF AboutNodes
      <4>2. <<NewId, a>> \in (1..NewId) \X (1..NewId)
        BY <2>3 DEF NewId
      <4> QED BY <4>1, <4>2, Singleton
    <3> QED BY <3>1, <3>2
  <2>6. FromSelf \o about \in Seq((1..NewId) \X (1..NewId))
    BY <2>4, <2>5, ConcatIs
  <2>7. <<>> \in Seq(Writes)
    BY EmptySeq
  <2> QED BY <2>1, <2>6, <2>7, AppendNodeKeeps
<1> QED BY <1>2, <1>3, <1>4

LEMMA CreateEdgeKeeps == ASSUME StoreInv, CreateEdge PROVE StoreInv'
<1>1. Editing
  BY DEF CreateEdge
<1>2. /\ TypeOK /\ Len(nodes) \in 1..MaxNodes /\ HoldsAllBut(Current, {}, {}, {})
      /\ \A k \in 1..Len(edges) : edges[k].ends \in (1..Len(nodes)) \X (1..Len(nodes))
  BY <1>1, EditingMeans
<1>3. PICK a \in 1..Len(nodes), b \in 1..Len(nodes), kind \in Kinds :
        LET e == [ends |-> <<a, b>>, kind |-> kind]
        IN edges' = Append(edges, e) /\ todo' = <<<<"insert_edge", e>>>>
  BY DEF CreateEdge
<1>4. PICK e : e = [ends |-> <<a, b>>, kind |-> kind]
  OBVIOUS
<1>5. e \in Edge /\ e.ends \in (1..Len(nodes)) \X (1..Len(nodes))
  BY <1>2, <1>4 DEF Edge
<1>6. edges' = Append(edges, e) /\ todo' = <<<<"insert_edge", e>>>> /\ UNCHANGED nodes
  BY <1>3, <1>4 DEF CreateEdge
<1>7. PICK m \in Nat : m = Len(edges)
  BY <1>2, Lengths
<1>8. /\ edges' \in Seq(Edge) /\ Len(edges') = m + 1
      /\ \A k \in 1..m : edges'[k] = edges[k]
      /\ edges'[m + 1] = e
  BY <1>2, <1>5, <1>6, <1>7, AppendedIs DEF TypeOK
<1>9. ASSUME NEW k \in 1..Len(edges')
      PROVE  edges'[k].ends \in (1..Len(nodes')) \X (1..Len(nodes'))
  <2>1. CASE k \in 1..m
    BY <2>1, <1>2, <1>6, <1>7, <1>8
  <2>2. CASE k = m + 1
    BY <2>2, <1>5, <1>6, <1>8
  <2> QED BY <2>1, <2>2, <1>8
<1>10. ASSUME NEW k \in 1..m, Unparalleled(k)' PROVE Unparalleled(k)
  <2> SUFFICES ASSUME NEW j \in 1..m, edges[j].ends = edges[k].ends PROVE j = k
    BY <1>7 DEF Unparalleled
  <2>1. j \in 1..Len(edges') /\ edges'[j].ends = edges'[k].ends
    BY <1>8
  <2> QED BY <2>1, <1>10 DEF Unparalleled
<1>11. Current' = Current
  BY DEF CreateEdge, Others, Current
<1>12. Holds(Current, Len(nodes), m, {}, {}, {})'
  <2>1. Holds(Current, Len(nodes), m, {}, {}, {})
    BY <1>2, <1>7 DEF HoldsAllBut
  <2> QED BY <2>1, <1>6, <1>8, <1>10, <1>11 DEF Holds
<1>13. todo' \in Seq(Writes) /\ Len(todo') = 1 /\ todo'[1] = <<"insert_edge", e>>
  BY <1>5, <1>6 DEF Writes
<1>14. Pending(todo, Current, 0, 1, 0)'
  <2>1. Len(edges') - 1 = m /\ Len(nodes') > 0 /\ Len(nodes') - 0 = Len(nodes')
    BY <1>2, <1>6, <1>8
  <2> QED BY <2>1, <1>8, <1>12, <1>13 DEF Pending
<1>15. Appending'
  BY <1>8, <1>14 DEF Appending, SomePending
<1> QED BY <1>1, <1>2, <1>6, <1>8, <1>9, <1>13, <1>15, CommandFits DEF CreateEdge, TypeOK

\* Updating one row of a sequence.
LEMMA ExceptIs ==
  ASSUME NEW S, NEW s \in Seq(S), NEW i \in 1..Len(s), NEW e \in S
  PROVE  LET new == [s EXCEPT ![i] = e]
         IN /\ new \in Seq(S) /\ Len(new) = Len(s) /\ new[i] = e
            /\ \A j \in 1..Len(s) : j # i => new[j] = s[j]
BY ExceptSeq

LEMMA EditEdgeKeeps == ASSUME StoreInv, EditEdge PROVE StoreInv'
<1>1. Editing
  BY DEF EditEdge
<1>2. /\ TypeOK /\ Len(nodes) \in 1..MaxNodes /\ HoldsAllBut(Current, {}, {}, {})
      /\ \A k \in 1..Len(edges) : edges[k].ends \in (1..Len(nodes)) \X (1..Len(nodes))
  BY <1>1, EditingMeans
<1>3. PICK k \in 1..Len(edges), kind \in Kinds :
        /\ edges' = [edges EXCEPT ![k].kind = kind]
        /\ todo' = <<<<"update_edge", edges[k].ends, kind>>>>
  BY DEF EditEdge
<1>4. PICK row : row = [edges[k] EXCEPT !.kind = kind]
  OBVIOUS
<1>5. edges[k] \in Edge
  BY <1>2, Lengths
<1>6. row \in Edge /\ row.ends = edges[k].ends /\ row.kind = kind
  BY <1>4, <1>5 DEF Edge
<1>7. edges' = [edges EXCEPT ![k] = row] /\ UNCHANGED nodes
  BY <1>3, <1>4 DEF EditEdge
<1>8. /\ edges' \in Seq(Edge) /\ Len(edges') = Len(edges) /\ edges'[k] = row
      /\ \A j \in 1..Len(edges) : j # k => edges'[j] = edges[j]
  BY <1>2, <1>6, <1>7, ExceptIs DEF TypeOK
<1>9. \A j \in 1..Len(edges) : edges'[j].ends = edges[j].ends
  BY <1>6, <1>8
<1>10. \A j \in 1..Len(edges) : Unparalleled(j)' = Unparalleled(j)
  BY <1>8, <1>9 DEF Unparalleled
<1>11. Current' = Current
  BY DEF EditEdge, Others, Current
<1>12. HoldsAllBut(Current, {}, {}, {k})'
  BY <1>2, <1>7, <1>8, <1>9, <1>10, <1>11 DEF HoldsAllBut, Holds
<1>13. todo' = <<<<"update_edge", edges'[k].ends, edges'[k].kind>>>>
  BY <1>3, <1>6, <1>8
<1>14. Rekinding'
  BY <1>8, <1>12, <1>13 DEF Rekinding
<1>15. todo' \in Seq(Writes)
  <2>1. edges[k].ends \in (1..MaxNodes) \X (1..MaxNodes)
    BY <1>5 DEF Edge
  <2>2. <<"update_edge", edges[k].ends, kind>> \in Writes
    BY <2>1 DEF Writes
  <2> QED BY <2>2, <1>3, Singleton
<1>16. \A j \in 1..Len(edges') : edges'[j].ends \in (1..Len(nodes')) \X (1..Len(nodes'))
  BY <1>2, <1>7, <1>8, <1>9
<1> QED BY <1>1, <1>2, <1>7, <1>8, <1>14, <1>15, <1>16, CommandFits DEF EditEdge, TypeOK

LEMMA SetTierKeeps == ASSUME StoreInv, SetTier PROVE StoreInv'
<1>1. Editing
  BY DEF SetTier
<1>2. /\ TypeOK /\ Len(nodes) \in 1..MaxNodes /\ HoldsAllBut(Current, {}, {}, {})
      /\ \A k \in 1..Len(edges) : edges[k].ends \in (1..Len(nodes)) \X (1..Len(nodes))
  BY <1>1, EditingMeans
<1>3. PICK i \in 1..Len(nodes), self \in BOOLEAN :
        nodes' = [nodes EXCEPT ![i].self = self] /\ todo' = <<<<"update_tier", i, self>>>>
  BY DEF SetTier
<1>4. PICK row : row = [nodes[i] EXCEPT !.self = self]
  OBVIOUS
<1>5. nodes[i] \in Node /\ i \in 1..MaxNodes
  BY <1>2, Lengths
<1>6. row \in Node /\ row.self = self /\ row.deleted = nodes[i].deleted
  BY <1>4, <1>5 DEF Node
<1>7. nodes' = [nodes EXCEPT ![i] = row] /\ UNCHANGED edges
  BY <1>3, <1>4 DEF SetTier
<1>8. /\ nodes' \in Seq(Node) /\ Len(nodes') = Len(nodes) /\ nodes'[i] = row
      /\ \A j \in 1..Len(nodes) : j # i => nodes'[j] = nodes[j]
  BY <1>2, <1>6, <1>7, ExceptIs DEF TypeOK
<1>9. Current' = Current
  BY DEF SetTier, Others, Current
<1>10. HoldsAllBut(Current, {i}, {}, {})'
  BY <1>2, <1>6, <1>7, <1>8, <1>9 DEF HoldsAllBut, Holds, Unparalleled
<1>11. Retiering'
  BY <1>3, <1>6, <1>8, <1>10 DEF Retiering
<1>12. todo' \in Seq(Writes)
  <2>1. <<"update_tier", i, self>> \in Writes
    BY <1>5 DEF Writes
  <2> QED BY <2>1, <1>3, Singleton
<1>13. \A j \in 1..Len(edges') : edges'[j].ends \in (1..Len(nodes')) \X (1..Len(nodes'))
  BY <1>2, <1>7, <1>8
<1> QED BY <1>1, <1>2, <1>7, <1>8, <1>11, <1>12, <1>13, CommandFits DEF SetTier, TypeOK

LEMMA DeleteNodeKeeps == ASSUME StoreInv, DeleteNode PROVE StoreInv'
<1>1. Editing
  BY DEF DeleteNode
<1>2. /\ TypeOK /\ Len(nodes) \in 1..MaxNodes /\ HoldsAllBut(Current, {}, {}, {})
      /\ \A k \in 1..Len(edges) : edges[k].ends \in (1..Len(nodes)) \X (1..Len(nodes))
  BY <1>1, EditingMeans
<1>3. PICK i \in 1..Len(nodes) :
        /\ nodes' = [nodes EXCEPT ![i].deleted = TRUE]
        /\ disabled' = disabled \cup {i} /\ todo' = DeleteWrites(i)
  BY DEF DeleteNode
<1>4. PICK row : row = [nodes[i] EXCEPT !.deleted = TRUE]
  OBVIOUS
<1>5. nodes[i] \in Node /\ i \in 1..MaxNodes
  BY <1>2, Lengths
<1>6. row \in Node /\ row.deleted = TRUE /\ row.self = nodes[i].self
  BY <1>4, <1>5 DEF Node
<1>7. nodes' = [nodes EXCEPT ![i] = row] /\ UNCHANGED edges
  BY <1>3, <1>4 DEF DeleteNode
<1>8. /\ nodes' \in Seq(Node) /\ Len(nodes') = Len(nodes) /\ nodes'[i] = row
      /\ \A j \in 1..Len(nodes) : j # i => nodes'[j] = nodes[j]
  BY <1>2, <1>6, <1>7, ExceptIs DEF TypeOK
<1>9. Current' = Current
  BY DEF DeleteNode, Others, Current
<1>10. HoldsAllBut(Current, {}, {i}, {})'
  BY <1>2, <1>6, <1>7, <1>8, <1>9 DEF HoldsAllBut, Holds, Unparalleled
<1>11. Deleting'
  BY <1>3, <1>6, <1>8, <1>10 DEF Deleting, DeleteWrites
<1>12. todo' \in Seq(Writes)
  <2>1. <<"mark_deleted", i>> \in Writes /\ <<"log_event", <<"node_delete", i>>>> \in Writes
    BY <1>5 DEF Writes, Event
  <2> QED BY <2>1, <1>3 DEF DeleteWrites
<1>13. \A j \in 1..Len(edges') : edges'[j].ends \in (1..Len(nodes')) \X (1..Len(nodes'))
  BY <1>2, <1>7, <1>8
<1>14. disabled' \subseteq 1..MaxNodes
  BY <1>2, <1>3, <1>5 DEF TypeOK
<1> QED BY <1>1, <1>2, <1>7, <1>8, <1>11, <1>12, <1>13, <1>14, CommandFits DEF DeleteNode, TypeOK

LEMMA CommandKeeps == ASSUME StoreInv, Command PROVE StoreInv'
BY CreatesKeep, CreateEdgeKeeps, EditEdgeKeeps, SetTierKeeps, DeleteNodeKeeps DEF Command

------------------------------------------------------------------------------
(* The invariant through save_graph, opening, failure and the wipe.        *)

\* A sequence of nodes fills a table of nodes.
LEMMA TableOf ==
  ASSUME NEW ns \in Seq(Node), Len(ns) <= MaxNodes, NEW es \in Seq(Edge),
         NEW ev \in SUBSET EventRow, NEW w \in BOOLEAN
  PROVE  [nodes |-> ns, edges |-> es, events |-> ev, whole |-> w] \in Image
<1>1. Len(ns) \in Nat /\ ns \in [1..Len(ns) -> Node]
  BY LenProperties
<1>2. 1..Len(ns) \in SUBSET (1..MaxNodes)
  BY <1>1
<1> QED BY <1>1, <1>2, MakeImage

LEMMA ClearedIs ==
  ASSUME NEW img \in Image
  PROVE  /\ Cleared(img) \in Image /\ Cleared(img).nodes = <<>> /\ Cleared(img).edges = <<>>
         /\ Cleared(img).events = img.events /\ Cleared(img).whole = img.whole
<1> DEFINE new == [nodes |-> <<>>, edges |-> <<>>, events |-> img.events, whole |-> img.whole]
<1>1. Cleared(img) = new
  <2>1. PICK mid : mid = [img EXCEPT !.nodes = <<>>]
    OBVIOUS
  <2>2. mid = [nodes |-> <<>>, edges |-> img.edges, events |-> img.events, whole |-> img.whole]
    BY <2>1, ImageExcept
  <2>3. [mid EXCEPT !.edges = <<>>] = new
    BY <2>2
  <2> QED BY <2>1, <2>3 DEF Cleared
<1>2. <<>> \in Seq(Node) /\ <<>> \in Seq(Edge) /\ Len(<<>>) <= MaxNodes
  BY EmptySeq
<1>3. new \in Image
  BY <1>2, ImageParts, TableOf
<1> QED BY <1>1, <1>3

LEMMA BeginSaveKeeps ==
  ASSUME StoreInv, NEW g \in Goal, BeginSave(g), UNCHANGED <<files, last, memory, todo>>,
         victim' = Nobody \/ (victim' = project /\ g \in Projects \ {project})
  PROVE  StoreInv'
<1>1. /\ TypeOK /\ ImagesOK /\ MemoryOK /\ ControlOK /\ WritesOK /\ app = "up" /\ todo = <<>>
      /\ victim = Nobody /\ app' = "saving" /\ goal' = g /\ txn' = Cleared(Current)
  BY DEF StoreInv, BeginSave, Free, Current
<1>2. files[project] # <<>>
  BY <1>1 DEF MemoryOK, InMemory
<1>3. Current \in Image
  BY <1>1, <1>2, CurrentIs
<1>4. /\ txn' \in Image /\ txn'.nodes = <<>> /\ txn'.edges = <<>>
      /\ txn'.events = Current.events /\ txn'.whole = Current.whole
  BY <1>1, <1>3, ClearedIs
<1>5. HoldsAllBut(Current, {}, {}, {})
  BY <1>1, FreeHolds
<1>6. TypeOK'
  BY <1>1, <1>4 DEF TypeOK, App
<1>7. MemoryOK' /\ ImagesOK' /\ WritesOK'
  BY <1>1 DEF MemoryOK, InMemory, ImagesOK, WritesOK
<1>8. ControlOK'
  BY <1>1, <1>4 DEF ControlOK
<1>9. Current' = Current
  BY DEF Current
<1>10. HoldsAllBut(Current, {}, {}, {})'
  BY <1>5, <1>9 DEF HoldsAllBut, Holds, Unparalleled
<1>11. SavingOK'
  BY <1>4, <1>9, <1>10 DEF SavingOK
<1> QED BY <1>6, <1>7, <1>8, <1>11 DEF StoreInv

LEMMA SavesKeep == ASSUME StoreInv, SaveToDisk \/ Quit \/ Switch \/ DeleteProject PROVE StoreInv'
<1>1. victim = Nobody
  BY DEF SaveToDisk, Quit, Switch, DeleteProject, BeginSave, Free
<1>2. CASE SaveToDisk
  BY <1>1, <1>2, BeginSaveKeeps DEF SaveToDisk, Goal
<1>3. CASE Quit
  BY <1>1, <1>3, BeginSaveKeeps DEF Quit, Goal
<1>4. CASE Switch
  BY <1>1, <1>4, BeginSaveKeeps DEF Switch, Goal
<1>5. CASE DeleteProject
  BY <1>5, BeginSaveKeeps DEF DeleteProject, Goal
<1> QED BY <1>2, <1>3, <1>4, <1>5

\* What a save in progress knows.
LEMMA SavingMeans ==
  ASSUME StoreInv, app = "saving"
  PROVE  /\ TypeOK /\ ImagesOK /\ MemoryOK /\ ControlOK /\ todo = <<>> /\ files[project] # <<>>
         /\ Current \in Image /\ ImageOK(Current) /\ HoldsAllBut(Current, {}, {}, {})
         /\ Len(nodes) \in 1..MaxNodes /\ nodes \in Seq(Node) /\ edges \in Seq(Edge)
         /\ \A k \in 1..Len(edges) : edges[k].ends \in (1..Len(nodes)) \X (1..Len(nodes))
<1>1. TypeOK /\ ImagesOK /\ MemoryOK /\ ControlOK /\ SavingOK
  BY DEF StoreInv
<1>2. /\ files[project] # <<>> /\ todo = <<>> /\ nodes # <<>>
      /\ \A k \in 1..Len(edges) : edges[k].ends \in (1..Len(nodes)) \X (1..Len(nodes))
  BY <1>1 DEF MemoryOK, InMemory, ControlOK
<1>3. Len(nodes) \in 0..MaxNodes /\ Len(nodes) # 0 /\ nodes \in Seq(Node) /\ edges \in Seq(Edge)
  BY <1>1, <1>2, Lengths DEF TypeOK
<1>4. Current \in Image /\ ImageOK(Current)
  BY <1>1, <1>2, CurrentIs
<1> QED BY <1>1, <1>2, <1>3, <1>4 DEF SavingOK

LEMMA SaveRowsKeeps == ASSUME StoreInv, SaveRows PROVE StoreInv'
<1>1. /\ TypeOK /\ ImagesOK /\ MemoryOK /\ ControlOK /\ SavingOK /\ app = "saving" /\ txn # NoTxn
      /\ UNCHANGED <<files, last, app, memory, todo, goal, victim>>
  BY DEF StoreInv, SaveRows, RowsPending
<1>2. /\ nodes \in Seq(Node) /\ Len(nodes) <= MaxNodes /\ edges \in Seq(Edge) /\ txn \in Image
      /\ HoldsAllBut(Current, {}, {}, {})
  BY <1>1, SavingMeans DEF TypeOK
<1>3. /\ txn.nodes \in {<<>>, nodes} /\ txn.edges \in {<<>>, edges}
      /\ txn.events = Current.events /\ txn.whole = Current.whole
  BY <1>1 DEF SavingOK
<1>4. /\ txn' \in Image /\ txn'.nodes \in {<<>>, nodes} /\ txn'.edges \in {<<>>, edges}
      /\ txn'.events = Current.events /\ txn'.whole = Current.whole
  <2>1. CASE txn' = [txn EXCEPT !.nodes = nodes]
    <3>1. txn' = [nodes |-> nodes, edges |-> txn.edges, events |-> txn.events, whole |-> txn.whole]
      BY <2>1, <1>2, ImageExcept
    <3>2. txn' \in Image
      BY <3>1, <1>2, ImageParts, TableOf
    <3> QED BY <3>1, <3>2, <1>3
  <2>2. CASE Len(txn.nodes) = Len(nodes) /\ txn' = [txn EXCEPT !.edges = edges]
    <3>1. txn' = [nodes |-> txn.nodes, edges |-> edges, events |-> txn.events, whole |-> txn.whole]
      BY <2>2, <1>2, ImageExcept
    <3>2. DOMAIN txn.nodes \in SUBSET (1..MaxNodes) /\ txn.nodes \in [DOMAIN txn.nodes -> Node]
          /\ txn.events \in SUBSET EventRow /\ txn.whole \in BOOLEAN
      BY <1>2, ImageParts
    <3>3. txn' \in Image
      BY <3>1, <3>2, <1>2, MakeImage
    <3> QED BY <3>1, <3>3, <1>3
  <2> QED BY <2>1, <2>2 DEF SaveRows
<1>5. Current' = Current
  BY <1>1 DEF Current
<1>6. HoldsAllBut(Current, {}, {}, {})'
  BY <1>1, <1>2, <1>5 DEF HoldsAllBut, Holds, Unparalleled
<1>7. TypeOK'
  BY <1>1, <1>4 DEF TypeOK
<1>8. MemoryOK' /\ ImagesOK' /\ WritesOK' /\ ControlOK'
  BY <1>1 DEF MemoryOK, InMemory, ImagesOK, WritesOK, ControlOK
<1>9. SavingOK'
  BY <1>1, <1>4, <1>5, <1>6 DEF SavingOK
<1> QED BY <1>7, <1>8, <1>9 DEF StoreInv

\* The saved image is the memory, and its events name rows that it has.
LEMMA SavedImage ==
  ASSUME StoreInv, app = "saving", txn # NoTxn,
         Len(txn.nodes) = Len(nodes), Len(txn.edges) = Len(edges)
  PROVE  LET img == [txn EXCEPT !.whole = TRUE]
         IN /\ img = [nodes |-> nodes, edges |-> edges, events |-> Current.events, whole |-> TRUE]
            /\ img \in Image /\ ImageOK(img) /\ HoldsAllBut(img, {}, {}, {})
<1> DEFINE img == [nodes |-> nodes, edges |-> edges, events |-> Current.events, whole |-> TRUE]
<1>1. /\ TypeOK /\ Current \in Image /\ ImageOK(Current) /\ HoldsAllBut(Current, {}, {}, {})
      /\ Len(nodes) \in 1..MaxNodes /\ nodes \in Seq(Node) /\ edges \in Seq(Edge)
      /\ \A k \in 1..Len(edges) : edges[k].ends \in (1..Len(nodes)) \X (1..Len(nodes))
  BY SavingMeans
<1>2. /\ txn.nodes \in {<<>>, nodes} /\ txn.edges \in {<<>>, edges} /\ txn.events = Current.events
      /\ txn \in Image
  BY <1>1 DEF StoreInv, SavingOK, TypeOK
<1>3. txn.nodes = nodes
  <2>1. Len(<<>>) = 0
    OBVIOUS
  <2> QED BY <2>1, <1>1, <1>2
<1>4. txn.edges = edges
  BY <1>1, <1>2, EmptyLength
<1>5. [txn EXCEPT !.whole = TRUE] = img
  BY <1>2, <1>3, <1>4, ImageExcept
<1>6. DOMAIN nodes = 1..Len(nodes) /\ Len(edges) \in Nat
  BY <1>1, Lengths
<1>7. img.nodes = nodes /\ img.edges = edges /\ img.events = Current.events /\ img.whole
  OBVIOUS
<1>8. img \in Image
  <2>1. Current.events \in SUBSET EventRow /\ Len(nodes) <= MaxNodes
    BY <1>1, ImageParts
  <2> QED BY <2>1, <1>1, TableOf
<1> HIDE DEF img
<1>9. HoldsAllBut(img, {}, {}, {})
  BY <1>6, <1>7 DEF HoldsAllBut, Holds
<1>10. Numbered(img) /\ NoneDangling(img)
  BY <1>1, <1>6, <1>7 DEF Numbered, NoneDangling
<1>11. EventsFit(img)
  <2> SUFFICES ASSUME NEW row \in Current.events
               PROVE  NamesRow(img, row)
    BY <1>7 DEF EventsFit
  <2>1. NamesRow(Current, row)
    BY <1>1 DEF ImageOK, EventsFit
  <2>2. ASSUME NEW i \in DOMAIN Current.nodes
        PROVE  i \in DOMAIN nodes /\ Current.nodes[i].deleted = nodes[i].deleted
    <3>1. i \in 1..Len(nodes)
      BY <1>1 DEF HoldsAllBut, Holds
    <3>2. CASE Current.whole
      BY <3>1, <3>2, <1>1, <1>6 DEF HoldsAllBut, Holds
    <3>3. CASE ~Current.whole
      BY <3>1, <3>3, <1>1, <1>6 DEF HoldsAllBut, Holds
    <3> QED BY <3>2, <3>3
  <2> QED BY <2>1, <2>2, <1>7 DEF NamesRow, DeletionShows
<1> QED BY <1>5, <1>7, <1>8, <1>9, <1>10, <1>11 DEF ImageOK, img

LEMMA CommitSaveKeeps == ASSUME StoreInv, CommitSave PROVE StoreInv'
<1>1. /\ TypeOK /\ ImagesOK /\ MemoryOK /\ ControlOK /\ app = "saving" /\ txn # NoTxn
      /\ todo = <<>> /\ files[project] # <<>>
  BY SavingMeans DEF CommitSave
<1>2. PICK img \in Image : /\ img = [txn EXCEPT !.whole = TRUE] /\ img.whole
                           /\ ImageOK(img) /\ HoldsAllBut(img, {}, {}, {})
  BY SavedImage DEF CommitSave
<1>3. files' = Committed(img) /\ txn' = NoTxn /\ UNCHANGED <<last, app, memory, todo, goal, victim>>
  BY <1>2 DEF CommitSave
<1>4. files' \in [Projects -> Seq(Image)] /\ ImagesOK' /\ Current' = img /\ files'[project] # <<>>
  BY <1>1, <1>2, <1>3, CommitFiles
<1>5. TypeOK'
  BY <1>1, <1>3, <1>4 DEF TypeOK
<1>6. MemoryOK' /\ ControlOK' /\ WritesOK'
  BY <1>1, <1>3, <1>4 DEF MemoryOK, InMemory, ControlOK, WritesOK
<1>7. HoldsAllBut(img, {}, {}, {})'
  BY <1>2, <1>3, HoldsSame
<1>8. SavingOK'
  BY <1>2, <1>3, <1>4, <1>7 DEF SavingOK
<1> QED BY <1>4, <1>5, <1>6, <1>8 DEF StoreInv

\* The save is done: the operator goes on, or leaves.
LEMMA StayKeeps == ASSUME StoreInv, Stay PROVE StoreInv'
<1>1. /\ app = "saving" /\ txn = NoTxn /\ goal = "stay" /\ app' = "up"
      /\ UNCHANGED <<files, last, memory, todo, txn, goal, victim>>
  BY DEF Stay, SaveDone
<1>2. /\ TypeOK /\ ImagesOK /\ MemoryOK /\ ControlOK /\ todo = <<>> /\ files[project] # <<>>
      /\ HoldsAllBut(Current, {}, {}, {}) /\ Len(nodes) \in 1..MaxNodes
  BY <1>1, SavingMeans
<1>3. victim = Nobody
  BY <1>1, <1>2 DEF ControlOK
<1>4. Current' = Current
  BY <1>1 DEF Current
<1>5. Holds(Current, Len(nodes), Len(edges), {}, {}, {})'
  BY <1>1, <1>2, <1>4 DEF HoldsAllBut, Holds, Unparalleled
<1>6. Pending(todo, Current, 0, 0, 0)'
  <2>1. Len(todo') = 0 /\ Len(nodes') - 0 = Len(nodes') /\ Len(edges') - 0 = Len(edges')
        /\ Len(nodes') > 0
    BY <1>1, <1>2, Lengths
  <2> QED BY <2>1, <1>5 DEF Pending
<1>7. Appending'
  <2>1. 0 \in 0..Len(edges')
    BY <1>1, <1>2, Lengths
  <2> QED BY <2>1, <1>6 DEF Appending, SomePending
<1>8. TypeOK'
  BY <1>1, <1>2 DEF TypeOK, App
<1>9. ImagesOK' /\ MemoryOK' /\ ControlOK' /\ SavingOK'
  BY <1>1, <1>2, <1>3 DEF ImagesOK, MemoryOK, InMemory, ControlOK, SavingOK
<1> QED BY <1>7, <1>8, <1>9 DEF StoreInv, WritesOK

LEMMA GoneKeeps ==
  ASSUME StoreInv, Exit \/ Refuse \/ Kill \/ WipeDone
  PROVE  StoreInv'
<1>1. TypeOK /\ ImagesOK /\ app' = "down" /\ Forget /\ UNCHANGED <<files, last, project>>
  BY DEF StoreInv, Exit, Refuse, Kill, WipeDone
<1>2. files' \in [Projects -> Seq(Image)] /\ ImagesOK' /\ last' \in Projects /\ project' \in Projects
  BY <1>1 DEF TypeOK, ImagesOK
<1> QED BY <1>1, <1>2, GoneFits

\* A loss of power leaves a prefix of every file.
LEMMA PowerLossKeeps == ASSUME StoreInv, PowerLoss PROVE StoreInv'
<1>1. TypeOK /\ ImagesOK /\ app' = "down" /\ Forget /\ UNCHANGED <<last, project>>
  BY DEF StoreInv, PowerLoss
<1>2. PICK keep \in [Projects -> 0..MaxLoose + 1] :
        /\ \A p \in Projects : IF files[p] = <<>> THEN keep[p] = 0
                                                  ELSE keep[p] \in 1..Len(files[p])
        /\ files' = [p \in Projects |-> SubSeq(files[p], 1, keep[p])]
  BY DEF PowerLoss
<1>3. ASSUME NEW p \in Projects
      PROVE  /\ SubSeq(files[p], 1, keep[p]) \in Seq(Image)
             /\ \A k \in 1..Len(SubSeq(files[p], 1, keep[p])) :
                  ImageOK(SubSeq(files[p], 1, keep[p])[k])
  <2>1. PICK f \in Seq(Image) : f = files[p]
    BY <1>1 DEF TypeOK
  <2>2. PICK n \in 0..MaxLoose + 1 : n = keep[p]
    OBVIOUS
  <2>3. Len(f) \in Nat /\ n \in 0..Len(f)
    <3>1. CASE f = <<>>
      <4>1. n = 0 /\ Len(f) = 0
        BY <3>1, <2>1, <2>2, <1>2, EmptyLength
      <4> QED BY <4>1
    <3>2. CASE f # <<>>
      <4>1. n \in 1..Len(f) /\ Len(f) \in Nat
        BY <3>2, <2>1, <2>2, <1>2, EmptyLength
      <4> QED BY <4>1
    <3> QED BY <3>1, <3>2
  <2>4. \A i \in 1..n : f[i] \in Image /\ ImageOK(f[i])
    BY <1>1, <2>1, <2>3, ElementOfSeq DEF ImagesOK
  <2>5. /\ SubSeq(f, 1, n) \in Seq(Image)
        /\ Len(SubSeq(f, 1, n)) = IF 1 <= n THEN n - 1 + 1 ELSE 0
        /\ \A i \in 1..n - 1 + 1 : SubSeq(f, 1, n)[i] = f[1 + i - 1]
    BY <2>4, SubSeqProperties
  <2>6. Len(SubSeq(f, 1, n)) = n /\ \A i \in 1..n : SubSeq(f, 1, n)[i] = f[i]
    BY <2>5
  <2> QED BY <2>1, <2>2, <2>4, <2>5, <2>6
<1>4. files' \in [Projects -> Seq(Image)]
  BY <1>2, <1>3
<1>5. ImagesOK'
  BY <1>2, <1>3 DEF ImagesOK
<1>6. last' \in Projects /\ project' \in Projects
  BY <1>1 DEF TypeOK
<1> QED BY <1>1, <1>4, <1>5, <1>6, GoneFits

LEMMA EmptyImageFits == EmptyImage \in Image /\ ImageOK(EmptyImage)
<1>1. <<>> \in Seq(Node) /\ <<>> \in Seq(Edge) /\ Len(<<>>) = 0
  BY EmptySeq
<1>2. EmptyImage \in Image
  <2>1. Len(<<>>) <= MaxNodes /\ {} \in SUBSET EventRow /\ FALSE \in BOOLEAN
    BY <1>1
  <2>2. [nodes |-> <<>>, edges |-> <<>>, events |-> {}, whole |-> FALSE] \in Image
    BY <1>1, <2>1, TableOf
  <2> QED BY <2>2 DEF EmptyImage
<1>3. DOMAIN <<>> = 1..0
  BY <1>1, LenProperties
<1>4. EmptyImage.nodes = <<>> /\ EmptyImage.events = {} /\ EmptyImage.whole = FALSE
  BY DEF EmptyImage
<1> QED BY <1>2, <1>3, <1>4 DEF ImageOK, EventsFit

\* The marker is set and the file is there, but nothing is in memory yet.
LEMMA GoToKeeps ==
  ASSUME StoreInv, app \in {"saving", "down"}, txn = NoTxn, NEW p \in Projects, GoTo(p),
         goal' \in Goal, UNCHANGED victim, victim # Nobody => victim # p
  PROVE  StoreInv'
<1>1. TypeOK /\ ImagesOK /\ ControlOK /\ todo = <<>>
  BY DEF StoreInv, ControlOK
<1>2. PICK f : f = IF files[p] = <<>> THEN <<EmptyImage>> ELSE files[p]
  OBVIOUS
<1>3. /\ app' = "opening" /\ project' = p /\ last' = p /\ todo' = todo /\ txn' = txn
      /\ nodes' = <<>> /\ edges' = <<>> /\ selfIdx' = Nobody /\ disabled' = {}
      /\ files' = [files EXCEPT ![p] = f]
  BY <1>2 DEF GoTo
<1>4. f \in Seq(Image) /\ f # <<>> /\ \A k \in 1..Len(f) : ImageOK(f[k])
  <2>1. CASE files[p] = <<>>
    <3>1. f = <<EmptyImage>> /\ EmptyImage \in Image
      BY <2>1, <1>2, EmptyImageFits
    <3>2. f \in Seq(Image) /\ Len(f) = 1 /\ f[1] = EmptyImage
      BY <3>1, Singleton
    <3>3. f # <<>>
      BY <3>2, EmptyLength
    <3>4. \A k \in 1..Len(f) : f[k] = EmptyImage
      BY <3>2
    <3> QED BY <3>2, <3>3, <3>4, EmptyImageFits
  <2>2. CASE files[p] # <<>>
    BY <2>2, <1>1, <1>2 DEF TypeOK, ImagesOK
  <2> QED BY <2>1, <2>2
<1>5. /\ files' \in [Projects -> Seq(Image)] /\ files'[p] = f
      /\ \A q \in Projects \ {p} : files'[q] = files[q]
  BY <1>1, <1>3, <1>4 DEF TypeOK
<1>6. ImagesOK'
  <2> SUFFICES ASSUME NEW q \in Projects, NEW k \in 1..Len(files'[q]) PROVE ImageOK(files'[q][k])
    BY DEF ImagesOK
  <2>1. CASE q = p
    BY <2>1, <1>4, <1>5
  <2>2. CASE q # p
    BY <2>2, <1>1, <1>5 DEF ImagesOK
  <2> QED BY <2>1, <2>2
<1>7. nodes' \in Seq(Node) /\ Len(nodes') <= MaxNodes /\ edges' \in Seq(Edge)
  BY <1>3, EmptySeq
<1>8. TypeOK'
  BY <1>1, <1>3, <1>5, <1>7 DEF TypeOK, App
<1>9. MemoryOK' /\ ControlOK' /\ WritesOK' /\ SavingOK'
  BY <1>1, <1>3, <1>4, <1>5 DEF MemoryOK, InMemory, ControlOK, WritesOK, SavingOK
<1> QED BY <1>6, <1>8, <1>9 DEF StoreInv

LEMMA MovesKeep == ASSUME StoreInv, Move \/ Launch PROVE StoreInv'
<1>1. TypeOK /\ ControlOK
  BY DEF StoreInv
<1>2. CASE Move
  <2>1. /\ app = "saving" /\ txn = NoTxn /\ goal \in Projects /\ GoTo(goal) /\ goal' = "stay"
        /\ UNCHANGED victim
    BY <1>2 DEF Move, SaveDone
  <2>2. victim # Nobody => victim # goal
    BY <1>1, <2>1 DEF ControlOK
  <2> QED BY <2>1, <2>2, GoToKeeps DEF Goal
<1>3. CASE Launch
  <2>1. app = "down" /\ GoTo(last) /\ UNCHANGED <<goal, victim>> /\ last \in Projects
    BY <1>1, <1>3 DEF Launch, TypeOK
  <2>2. victim = Nobody /\ txn = NoTxn
    BY <1>1, <2>1 DEF ControlOK
  <2> QED BY <1>1, <2>1, <2>2, GoToKeeps DEF TypeOK
<1> QED BY <1>2, <1>3

LEMMA Least ==
  ASSUME NEW T, T \subseteq Nat, T # {}
  PROVE  \E x \in T : \A y \in T : x <= y
<1> DEFINE R == {ss \in Nat \X Nat : ss[1] < ss[2]}
<1>1. IsWellFoundedOn(R, Nat)
  BY NatLessThanWellFounded DEF OpToRel
<1> HIDE DEF R
<1>2. PICK x \in T : \A y \in T : <<y, x>> \notin R
  BY <1>1, WFMin
<1>3. ASSUME NEW y \in T PROVE x <= y
  <2>1. ~(y < x)
    BY <1>2 DEF R
  <2> QED BY <2>1
<1> QED BY <1>2, <1>3

\* self_idx is a node that is there.
LEMMA FirstSelfFits ==
  ASSUME NEW ns \in Seq(Node)
  PROVE  FirstSelf(ns) = Nobody \/ FirstSelf(ns) \in 1..Len(ns)
<1> DEFINE S == {i \in DOMAIN ns : ns[i].self}
<1>1. DOMAIN ns = 1..Len(ns) /\ Len(ns) \in Nat
  BY LenProperties
<1>2. S \subseteq 1..Len(ns)
  BY <1>1
<1>3. S # {} => \E i \in S : \A j \in S : i <= j
  <2>1. S \subseteq Nat
    BY <1>2
  <2> HIDE DEF S
  <2> QED BY <2>1, Least
<1>4. FirstSelf(ns) = IF S = {} THEN Nobody ELSE CHOOSE i \in S : \A j \in S : i <= j
  BY DEF FirstSelf
<1> HIDE DEF S
<1> QED BY <1>2, <1>3, <1>4

\* make_initial_graph has self and the nodes around it.
LEMMA SeedFits == Seed \in Seq(Node) /\ Len(Seed) = SeedSize /\ Len(Seed) \in 1..MaxNodes
<1>1. Seed \in [1..SeedSize -> Node]
  BY DEF Seed, Node
<1> QED BY <1>1, FunIsSeq

\* An image that load_graph accepts was saved as a whole.
LEMMA AcceptedIsWhole ==
  ASSUME NEW img \in Image, ImageOK(img), DOMAIN img.nodes # {}, Contiguous(img)
  PROVE  /\ img.whole /\ img.nodes \in Seq(Node) /\ Len(img.nodes) \in 1..MaxNodes
         /\ DOMAIN img.nodes = 1..Len(img.nodes) /\ NoneDangling(img)
<1>1. PICK n \in 0..MaxNodes : DOMAIN img.nodes = 1..n
  BY DEF Contiguous
<1>2. 1 \in DOMAIN img.nodes /\ n \in 1..MaxNodes
  BY <1>1
<1>3. img.nodes \in [1..n -> Node] /\ img.whole \in BOOLEAN
  BY <1>1, ImageParts
<1>4. img.nodes \in Seq(Node) /\ Len(img.nodes) = n
  BY <1>2, <1>3, FunIsSeq
<1> QED BY <1>1, <1>2, <1>3, <1>4 DEF ImageOK

LEMMA LoadKeeps == ASSUME StoreInv, Load PROVE StoreInv'
<1>1. /\ TypeOK /\ ImagesOK /\ MemoryOK /\ ControlOK /\ app = "opening" /\ app' = "up"
      /\ selfIdx' = FirstSelf(nodes')
      /\ UNCHANGED <<files, last, project, disabled, todo, txn, goal, victim>>
  BY DEF StoreInv, Load
<1>2. files[project] # <<>> /\ todo = <<>> /\ txn = NoTxn /\ (victim # Nobody => victim # project)
  BY <1>1 DEF MemoryOK, ControlOK
<1>3. Current \in Image /\ ImageOK(Current) /\ Current' = Current
  BY <1>1, <1>2, CurrentIs DEF Current
<1>4. /\ nodes' \in Seq(Node) /\ Len(nodes') \in 1..MaxNodes /\ edges' \in Seq(Edge)
      /\ \A k \in 1..Len(edges') : edges'[k].ends \in (1..Len(nodes')) \X (1..Len(nodes'))
      /\ HoldsAllBut(Current, {}, {}, {})'
  <2>1. CASE DOMAIN Current.nodes = {}
    <3>1. nodes' = Seed /\ edges' = <<>>
      BY <2>1 DEF Load, Current
    <3>2. ~Current.whole
      <4> SUFFICES ASSUME Current.whole PROVE FALSE
        OBVIOUS
      <4>1. PICK n \in 1..MaxNodes : DOMAIN Current.nodes = 1..n
        BY <1>3 DEF ImageOK, Numbered
      <4>2. 1 \in 1..n
        OBVIOUS
      <4> QED BY <4>1, <4>2, <2>1
    <3>3. Len(edges') = 0 /\ edges' \in Seq(Edge)
      BY <3>1, EmptySeq
    <3>4. HoldsAllBut(Current, {}, {}, {})'
      <4> PICK n \in Nat : n = Len(nodes')
        BY <3>1, SeedFits
      <4>1. n = SeedSize /\ SeedSize + 1..n = {}
        BY <3>1, SeedFits
      <4>2. DOMAIN Current'.nodes = {} /\ ~Current'.whole
        BY <2>1, <3>2, <1>3
      <4>3. Holds(Current, n, Len(edges), {}, {}, {})'
        BY <4>1, <4>2 DEF Holds
      <4> QED BY <4>3 DEF HoldsAllBut
    <3> QED BY <3>1, <3>3, <3>4, SeedFits
  <2>2. CASE DOMAIN Current.nodes # {}
    <3>1. Contiguous(Current) /\ nodes' = Current.nodes /\ edges' = Current.edges
      BY <2>2 DEF Load, Current
    <3>2. /\ Current.whole /\ Current.nodes \in Seq(Node) /\ Len(Current.nodes) \in 1..MaxNodes
          /\ DOMAIN Current.nodes = 1..Len(Current.nodes) /\ NoneDangling(Current)
      BY <2>2, <3>1, <1>3, AcceptedIsWhole
    <3>3. HoldsAllBut(Current, {}, {}, {})'
      BY <3>1, <3>2, <1>3 DEF HoldsAllBut, Holds
    <3>4. Current.edges \in Seq(Edge)
      BY <1>3, ImageParts
    <3> QED BY <3>1, <3>2, <3>3, <3>4 DEF NoneDangling
  <2> QED BY <2>1, <2>2
<1>5. selfIdx' = Nobody \/ selfIdx' \in 1..Len(nodes')
  BY <1>1, <1>4, FirstSelfFits
<1>6. nodes' # <<>> /\ Len(edges') \in Nat
  BY <1>4, EmptyLength
<1>7. TypeOK'
  BY <1>1, <1>4, <1>5 DEF TypeOK, App
<1>8. ImagesOK' /\ MemoryOK' /\ ControlOK'
  BY <1>1, <1>2, <1>4, <1>5, <1>6 DEF ImagesOK, MemoryOK, InMemory, ControlOK
<1>9. Pending(todo, Current, 0, 0, 0)'
  <2>1. Len(todo') = 0 /\ Len(nodes') - 0 = Len(nodes') /\ Len(edges') - 0 = Len(edges')
        /\ Len(nodes') > 0
    BY <1>1, <1>2, <1>4, <1>6
  <2> QED BY <2>1, <1>4 DEF Pending, HoldsAllBut
<1>10. WritesOK' /\ SavingOK'
  BY <1>1, <1>6, <1>9 DEF WritesOK, SavingOK, Appending, SomePending
<1> QED BY <1>7, <1>8, <1>10 DEF StoreInv

\* Removing a file that is not the current one, or wiping.
LEMMA RemovesKeep == ASSUME StoreInv, RemoveVictim \/ Panic \/ WipeFile PROVE StoreInv'
<1>1. TypeOK /\ ImagesOK /\ MemoryOK /\ ControlOK /\ WritesOK /\ SavingOK
  BY DEF StoreInv
<1>2. CASE Panic
  <2>1. app' = "wiping" /\ todo = <<>> /\ victim = Nobody /\ txn = NoTxn
        /\ UNCHANGED <<files, last, memory, todo, txn, goal, victim>>
    BY <1>1, <1>2 DEF Panic, Free, ControlOK
  <2>2. TypeOK'
    BY <1>1, <2>1 DEF TypeOK, App
  <2> QED BY <1>1, <2>1, <2>2 DEF StoreInv, ImagesOK, MemoryOK, InMemory, ControlOK, WritesOK, SavingOK
<1>3. ASSUME NEW p \in Projects, files' = [files EXCEPT ![p] = <<>>]
      PROVE  /\ files' \in [Projects -> Seq(Image)] /\ ImagesOK'
             /\ \A q \in Projects : q # p => files'[q] = files[q]
  <2>1. <<>> \in Seq(Image) /\ Len(<<>>) = 0
    BY EmptySeq
  <2>2. /\ files' \in [Projects -> Seq(Image)] /\ files'[p] = <<>>
        /\ \A q \in Projects : q # p => files'[q] = files[q]
    BY <1>1, <1>3, <2>1 DEF TypeOK
  <2>3. ASSUME NEW q \in Projects, NEW k \in 1..Len(files'[q]) PROVE ImageOK(files'[q][k])
    <3>1. q # p
      BY <2>1, <2>2, <2>3
    <3> QED BY <3>1, <1>1, <2>2 DEF ImagesOK
  <2> QED BY <2>2, <2>3 DEF ImagesOK
<1>4. CASE WipeFile
  <2>1. /\ app = "wiping" /\ todo = <<>> /\ txn = NoTxn /\ victim = Nobody
        /\ UNCHANGED <<app, memory, todo, txn, goal, victim>> /\ last' \in Projects
    BY <1>1, <1>4 DEF WipeFile, ControlOK, TypeOK
  <2>2. files' \in [Projects -> Seq(Image)] /\ ImagesOK'
    BY <1>1, <1>3, <1>4 DEF WipeFile, TypeOK, ImagesOK
  <2>3. TypeOK'
    BY <1>1, <2>1, <2>2 DEF TypeOK
  <2> QED BY <2>1, <2>2, <2>3 DEF StoreInv, MemoryOK, InMemory, ControlOK, WritesOK, SavingOK
<1>5. CASE RemoveVictim
  <2>1. /\ app = "up" /\ victim # Nobody /\ victim' = Nobody
        /\ files' = [files EXCEPT ![victim] = <<>>]
        /\ UNCHANGED <<last, app, memory, todo, txn, goal>>
    BY <1>5 DEF RemoveVictim
  <2>2. victim \in Projects /\ victim # project /\ project \in Projects /\ todo = <<>> /\ txn = NoTxn
    BY <1>1, <2>1 DEF ControlOK, TypeOK
  <2>3. files' \in [Projects -> Seq(Image)] /\ ImagesOK' /\ files'[project] = files[project]
    BY <1>3, <2>1, <2>2
  <2>4. TypeOK'
    BY <1>1, <2>1, <2>3 DEF TypeOK
  <2>5. Current' = Current
    BY <2>1, <2>3 DEF Current
  <2>6. WritesOK' /\ SavingOK'
    BY <1>1, <2>1, <2>5, InFlightSame
  <2> QED BY <1>1, <2>1, <2>2, <2>3, <2>4, <2>6 DEF StoreInv, MemoryOK, InMemory, ControlOK
<1> QED BY <1>2, <1>4, <1>5

------------------------------------------------------------------------------
(* The theorems.                                                           *)

LEMMA SavedSeedFits == SavedSeed \in Image /\ ImageOK(SavedSeed)
<1> DEFINE img == [nodes |-> Seed, edges |-> <<>>, events |-> {}, whole |-> TRUE]
<1>1. SavedSeed = img
  <2>1. EmptyImage = [nodes |-> <<>>, edges |-> <<>>, events |-> {}, whole |-> FALSE]
    BY DEF EmptyImage
  <2>2. PICK mid : mid = [EmptyImage EXCEPT !.nodes = Seed]
    OBVIOUS
  <2>3. mid = [nodes |-> Seed, edges |-> <<>>, events |-> {}, whole |-> FALSE]
    BY <2>1, <2>2
  <2>4. mid \in Image
    <3>1. <<>> \in Seq(Edge) /\ {} \in SUBSET EventRow /\ FALSE \in BOOLEAN
      BY EmptySeq
    <3> QED BY <3>1, <2>3, SeedFits, TableOf
  <2>5. [mid EXCEPT !.whole = TRUE] = img
    BY <2>3, <2>4, ImageExcept
  <2> QED BY <2>2, <2>5 DEF SavedSeed
<1>2. <<>> \in Seq(Edge) /\ Len(<<>>) = 0 /\ {} \in SUBSET EventRow
  BY EmptySeq
<1>3. img \in Image
  BY <1>2, SeedFits, TableOf
<1>4. DOMAIN Seed = 1..SeedSize /\ SeedSize \in 1..MaxNodes
  BY DEF Seed
<1>5. img.nodes = Seed /\ img.edges = <<>> /\ img.events = {} /\ img.whole = TRUE
  OBVIOUS
<1> HIDE DEF img
<1>6. Numbered(img) /\ NoneDangling(img) /\ EventsFit(img)
  BY <1>2, <1>4, <1>5 DEF Numbered, NoneDangling, EventsFit
<1> QED BY <1>1, <1>3, <1>5, <1>6 DEF ImageOK

LEMMA StoreInit == Init => StoreInv
<1> SUFFICES ASSUME Init PROVE StoreInv
  OBVIOUS
<1>1. ASSUME NEW p \in Projects
      PROVE  files[p] \in Seq(Image) /\ \A k \in 1..Len(files[p]) : ImageOK(files[p][k])
  <2>1. files[p] = <<>> \/ files[p] = <<SavedSeed>>
    BY DEF Init
  <2>2. <<>> \in Seq(Image) /\ Len(<<>>) = 0
    BY EmptySeq
  <2>3. <<SavedSeed>> \in Seq(Image) /\ Len(<<SavedSeed>>) = 1 /\ <<SavedSeed>>[1] = SavedSeed
    BY SavedSeedFits, Singleton
  <2>4. CASE files[p] = <<>>
    <3>1. files[p] \in Seq(Image) /\ Len(files[p]) = 0
      BY <2>2, <2>4
    <3> QED BY <3>1
  <2>5. CASE files[p] = <<SavedSeed>>
    <3>1. files[p] \in Seq(Image) /\ Len(files[p]) = 1 /\ files[p][1] = SavedSeed
      BY <2>3, <2>5
    <3>2. \A k \in 1..Len(files[p]) : files[p][k] = SavedSeed
      BY <3>1
    <3> QED BY <3>1, <3>2, SavedSeedFits
  <2> QED BY <2>1, <2>4, <2>5
<1>2. files \in [Projects -> Seq(Image)] /\ ImagesOK
  BY <1>1 DEF Init, ImagesOK
<1>3. <<>> \in Seq(Node) /\ <<>> \in Seq(Edge) /\ <<>> \in Seq(Writes) /\ Len(<<>>) <= MaxNodes
  BY EmptySeq
<1>4. TypeOK
  BY <1>2, <1>3 DEF Init, TypeOK, App, Goal
<1> QED BY <1>2, <1>4 DEF Init, StoreInv, MemoryOK, InMemory, ControlOK, WritesOK, SavingOK

LEMMA StoreStep == StoreInv /\ [Next]_vars => StoreInv'
<1> SUFFICES ASSUME StoreInv, [Next]_vars PROVE StoreInv'
  OBVIOUS
<1>1. CASE UNCHANGED vars
  <2>1. TypeOK /\ ImagesOK /\ MemoryOK /\ ControlOK /\ WritesOK /\ SavingOK
    BY DEF StoreInv
  <2>2. Current' = Current
    BY <1>1 DEF Current
  <2>3. WritesOK' /\ SavingOK'
    BY <1>1, <2>1, <2>2, InFlightSame
  <2>4. TypeOK' /\ ImagesOK'
    BY <1>1, <2>1 DEF TypeOK, ImagesOK
  <2>5. MemoryOK' /\ ControlOK'
    BY <1>1, <2>1 DEF MemoryOK, InMemory, ControlOK
  <2> QED BY <2>3, <2>4, <2>5 DEF StoreInv
<1>2. CASE CommitWrite \/ Checkpoint \/ Command
  BY <1>2, CommitWriteKeeps, CheckpointKeeps, CommandKeeps
<1>3. CASE Saving
  BY <1>3, SavesKeep, SaveRowsKeeps, CommitSaveKeeps, StayKeeps, GoneKeeps DEF Saving
<1>4. CASE Opening
  BY <1>4, MovesKeep, LoadKeeps, GoneKeeps, RemovesKeep DEF Opening
<1>5. CASE Failure \/ Wiping
  BY <1>5, GoneKeeps, PowerLossKeeps, RemovesKeep DEF Failure, Wiping
<1> QED BY <1>1, <1>2, <1>3, <1>4, <1>5 DEF Next

\* The invariant holds in every state of every session.
THEOREM StoreInvariant == Spec => []StoreInv
BY StoreInit, StoreStep, PTL DEF Spec

\* Type correctness: every image a file may be found with is an image, whatever was
\* written, lost and reopened before.
THEOREM StoreTypeCorrect == Spec => []TypeOK
<1>1. StoreInv => TypeOK
  BY DEF StoreInv
<1> QED BY <1>1, StoreInvariant, PTL

\* Between commands the database holds what is on screen (db.cpp:360-616).
LEMMA InvWritesThrough == StoreInv => WriteThrough
<1> SUFFICES ASSUME StoreInv, Free, Current.whole
             PROVE  /\ Current.nodes = nodes /\ Ends(Current.edges) = Ends(edges)
                    /\ \A k \in 1..Len(edges) : Unparalleled(k) => Current.edges[k] = edges[k]
  BY DEF WriteThrough
<1>1. TypeOK /\ HoldsAllBut(Current, {}, {}, {}) /\ Current \in Image
  BY FreeHolds, CurrentIs DEF StoreInv, Free, MemoryOK, InMemory
<1>2. /\ DOMAIN Current.nodes = 1..Len(nodes) /\ Len(Current.edges) = Len(edges)
      /\ \A i \in 1..Len(nodes) : /\ Current.nodes[i].self = nodes[i].self
                                  /\ Current.nodes[i].deleted = nodes[i].deleted
      /\ \A k \in 1..Len(edges) : /\ Current.edges[k].ends = edges[k].ends
                                  /\ Unparalleled(k) => Current.edges[k] = edges[k]
  BY <1>1 DEF HoldsAllBut, Holds
<1>3. ASSUME NEW i \in 1..Len(nodes) PROVE Current.nodes[i] = nodes[i]
  <2>1. Current.nodes[i] \in Node /\ nodes[i] \in Node
    BY <1>1, <1>2, ImageParts, Lengths
  <2> QED BY <2>1, <1>2 DEF Node
<1>4. Current.nodes = nodes
  <2>1. Current.nodes = [i \in 1..Len(nodes) |-> Current.nodes[i]]
    BY <1>1, <1>2, ImageParts
  <2>2. nodes = [i \in 1..Len(nodes) |-> nodes[i]]
    BY <1>1, LenProperties DEF TypeOK
  <2> QED BY <2>1, <2>2, <1>3
<1>5. Ends(Current.edges) = Ends(edges)
  BY <1>2 DEF Ends
<1> QED BY <1>2, <1>4, <1>5

\* Between commands the file of a project that was saved once as a whole holds what the
\* screen shows, whatever crashed or was reopened before: the row writes of each command
\* are enough (db.cpp:360-616).
THEOREM DatabaseIsScreen == Spec => []WriteThrough
BY StoreInvariant, InvWritesThrough, PTL

\* An insert never meets a row with its id, whatever was saved, lost or reopened
\* before (session.cpp:13-24).
LEMMA InvInsertsFit == StoreInv => InsertFits
<1> SUFFICES ASSUME StoreInv, NEW k \in 1..Len(todo), todo[k][1] = "insert_node"
             PROVE  todo[k][2] \notin DOMAIN Current.nodes
  BY DEF InsertFits
<1>1. TypeOK /\ ControlOK /\ WritesOK
  BY DEF StoreInv
<1>2. todo # <<>> /\ Len(todo) \in Nat /\ app = "up"
  BY <1>1, EmptyLength DEF ControlOK, TypeOK
<1>3. CASE Appending
  <2>1. PICK a \in 0..1, b \in 0..1, m \in 0..Len(edges) : Pending(todo, Current, a, m, b)
    BY <1>3 DEF Appending, SomePending
  <2>2. CASE k <= a
    <3>1. a = 1 /\ k = 1
      BY <2>2
    <3>2. /\ todo[1] = <<"insert_node", Len(nodes), nodes[Len(nodes)]>>
          /\ DOMAIN Current.nodes \subseteq 1..Len(nodes) - 1 /\ Len(nodes) > 1
      BY <2>1, <3>1 DEF Pending, Holds
    <3>3. Len(nodes) \in Nat /\ Len(nodes) \notin 1..Len(nodes) - 1
      BY <1>1, Lengths
    <3> QED BY <3>1, <3>2, <3>3
  <2>3. CASE k > a /\ k <= a + m
    <3>1. k - a \in 1..m /\ a + (k - a) = k
      BY <2>3, Lengths, <1>1
    <3>2. todo[k] = <<"insert_edge", edges[Len(edges) - m + (k - a)]>>
      BY <2>1, <3>1 DEF Pending
    <3> QED BY <3>2
  <2>4. CASE k > a + m
    <3>1. Len(todo) = a + m + b /\ m \in Nat
      BY <2>1, <1>1, Lengths DEF Pending
    <3>2. b = 1 /\ k = a + m + 1
      BY <2>4, <3>1
    <3>3. PICK e \in Event : todo[k] = <<"log_event", e>>
      BY <2>1, <3>2 DEF Pending
    <3> QED BY <3>3
  <2> QED BY <2>2, <2>3, <2>4, <1>1, Lengths
<1>4. CASE Retiering
  <2>1. PICK i : todo = <<<<"update_tier", i, nodes[i].self>>>>
    BY <1>4 DEF Retiering
  <2> QED BY <2>1
<1>5. CASE Rekinding
  <2>1. PICK j : todo = <<<<"update_edge", edges[j].ends, edges[j].kind>>>>
    BY <1>5 DEF Rekinding
  <2> QED BY <2>1
<1>6. CASE Deleting
  <2>1. PICK i : todo = <<<<"mark_deleted", i>>, <<"log_event", <<"node_delete", i>>>>>>
    BY <1>6 DEF Deleting, DeleteWrites
  <2> QED BY <2>1
<1> QED BY <1>1, <1>2, <1>3, <1>4, <1>5, <1>6 DEF WritesOK

\* No row write is refused for its id, whatever was saved, lost or reopened before
\* (session.cpp:13-24, db.cpp:360-616).
THEOREM InsertsFit == Spec => []InsertFits
BY StoreInvariant, InvInsertsFit, PTL

\* However the process or the machine stops, the event of a pin names a row, and the event
\* of a deletion a tombstone, unless it is of a seed node and was logged before the graph
\* was first saved as a whole (db.cpp:590-616, inspector_tab.cpp:313, pin.cpp:15-67).
THEOREM EventsNamed == Spec => []EventsNameRows
<1>1. StoreInv => EventsNameRows
  BY DEF StoreInv, ImagesOK, ImageOK, EventsFit, EventsNameRows
<1> QED BY <1>1, StoreInvariant, PTL

------------------------------------------------------------------------------
(* The files keep the promise of DurableGraph.                             *)

\* The image of a project that was saved as a whole is a graph.
LEMMA WholeIs ==
  ASSUME NEW c \in Image, ImageOK(c), c.whole
  PROVE  /\ c.nodes \in Seq(Node) /\ Len(c.nodes) \in 1..MaxNodes
         /\ DOMAIN c.nodes = 1..Len(c.nodes) /\ NoneDangling(c)
<1>1. PICK n \in 1..MaxNodes : DOMAIN c.nodes = 1..n
  BY DEF ImageOK, Numbered
<1>2. 1 \in DOMAIN c.nodes
  BY <1>1
<1>3. Contiguous(c)
  BY <1>1 DEF Contiguous
<1> QED BY <1>2, <1>3, AcceptedIsWhole

LEMMA EndsOf ==
  ASSUME NEW es \in Seq(Edge)
  PROVE  /\ Ends(es) \in Seq((1..MaxNodes) \X (1..MaxNodes)) /\ Len(Ends(es)) = Len(es)
         /\ Len(es) \in Nat /\ \A k \in 1..Len(es) : Ends(es)[k] = es[k].ends
<1>1. Len(es) \in Nat
  BY LenProperties
<1>2. ASSUME NEW k \in 1..Len(es) PROVE es[k].ends \in (1..MaxNodes) \X (1..MaxNodes)
  <2>1. es[k] \in Edge
    BY ElementOfSeq
  <2> QED BY <2>1 DEF Edge
<1>3. Ends(es) \in [1..Len(es) -> (1..MaxNodes) \X (1..MaxNodes)]
  BY <1>2 DEF Ends
<1>4. \A k \in 1..Len(es) : Ends(es)[k] = es[k].ends
  BY DEF Ends
<1> QED BY <1>1, <1>3, <1>4, FunIsSeq

\* The graph of an image, and when it is one that load_graph accepts.
LEMMA GraphIs ==
  ASSUME NEW c \in Image, ImageOK(c), c.whole
  PROVE  /\ GraphOf(c) = [nodes |-> c.nodes, edges |-> Ends(c.edges)]
         /\ GraphOf(c) # DG!NoGraph /\ DG!IsGraph(GraphOf(c))
<1> DEFINE g == [nodes |-> c.nodes, edges |-> Ends(c.edges)]
<1>1. GraphOf(c) = g
  BY DEF GraphOf
<1>2. /\ c.nodes \in Seq(Node) /\ Len(c.nodes) \in 1..MaxNodes
      /\ DOMAIN c.nodes = 1..Len(c.nodes) /\ NoneDangling(c)
  BY WholeIs
<1>3. c.nodes # <<>>
  BY <1>2, EmptyLength
<1>4. c.edges \in Seq(Edge)
  BY ImageParts
<1>5. /\ Len(Ends(c.edges)) = Len(c.edges)
      /\ \A k \in 1..Len(c.edges) : Ends(c.edges)[k] = c.edges[k].ends
  BY <1>4, EndsOf
<1>6. \A k \in 1..Len(Ends(c.edges)) :
        Ends(c.edges)[k] \in (1..Len(c.nodes)) \X (1..Len(c.nodes))
  BY <1>2, <1>5 DEF NoneDangling
<1>7. g.nodes = c.nodes /\ g.edges = Ends(c.edges)
  OBVIOUS
<1> HIDE DEF g
<1>8. g # DG!NoGraph
  <2>1. DG!NoGraph.nodes = <<>>
    BY DEF DG!NoGraph
  <2> QED BY <2>1, <1>3, <1>7
<1>9. DG!IsGraph(g)
  BY <1>2, <1>3, <1>6, <1>7 DEF DG!IsGraph, DG!Node, Node
<1> QED BY <1>1, <1>8, <1>9 DEF g

\* Updating one field of a graph.
LEMMA GraphExcept ==
  ASSUME NEW ns, NEW es, NEW x, NEW g, g = [nodes |-> ns, edges |-> es]
  PROVE  /\ [g EXCEPT !.nodes = x] = [nodes |-> x, edges |-> es]
         /\ [g EXCEPT !.edges = x] = [nodes |-> ns, edges |-> x]
         /\ g.nodes = ns /\ g.edges = es
OBVIOUS

LEMMA InsertedRow ==
  ASSUME NEW c \in Image, NEW i, NEW row
  PROVE  /\ InsertNode(c, i, row).nodes
              = [j \in DOMAIN c.nodes \cup {i} |-> IF j = i THEN row ELSE c.nodes[j]]
         /\ InsertNode(c, i, row).edges = c.edges /\ InsertNode(c, i, row).whole = c.whole
<1> DEFINE ns == [j \in DOMAIN c.nodes \cup {i} |-> IF j = i THEN row ELSE c.nodes[j]]
           new == [nodes |-> ns, edges |-> c.edges, events |-> c.events, whole |-> c.whole]
<1>1. InsertNode(c, i, row) = new
  BY ImageExcept DEF InsertNode
<1>2. new.nodes = ns /\ new.edges = c.edges /\ new.whole = c.whole
  OBVIOUS
<1> HIDE DEF new
<1> QED BY <1>1, <1>2

LEMMA InsertNodeCommits ==
  ASSUME NEW c \in Image, ImageOK(c), c.whole, NEW row \in Node, NEW i \in 1..MaxNodes,
         i = Len(c.nodes) + 1, ImageOK(InsertNode(c, i, row))
  PROVE  DG!Commits(GraphOf(c), GraphOf(InsertNode(c, i, row)))
<1> PICK new, rows :
      /\ new = InsertNode(c, i, row)
      /\ rows = [j \in DOMAIN c.nodes \cup {i} |-> IF j = i THEN row ELSE c.nodes[j]]
  OBVIOUS
<1>a. new \in Image /\ ImageOK(new)
  BY InsertNodeDoes
<1>b. new.nodes = rows
  BY InsertedRow
<1>c. new.edges = c.edges
  BY InsertNodeDoes
<1>d. new.whole = c.whole
  BY InsertedRow
<1>1. /\ DOMAIN new.nodes = DOMAIN c.nodes \cup {i} /\ new.nodes[i] = row
      /\ \A j \in DOMAIN c.nodes : j # i => new.nodes[j] = c.nodes[j]
      /\ new.edges = c.edges /\ new.whole = c.whole
  BY <1>b, <1>c, <1>d
<1>2. /\ c.nodes \in Seq(Node) /\ Len(c.nodes) \in 1..MaxNodes /\ DOMAIN c.nodes = 1..Len(c.nodes)
      /\ new.nodes \in Seq(Node) /\ Len(new.nodes) \in 1..MaxNodes
      /\ DOMAIN new.nodes = 1..Len(new.nodes)
  BY <1>1, <1>a, WholeIs
<1>3. PICK n \in 1..MaxNodes : n = Len(c.nodes) /\ i = n + 1
  BY <1>2
<1>4. Len(new.nodes) = n + 1
  <2>1. \A j \in Nat : j \in 1..Len(new.nodes) <=> j \in 1..n \cup {n + 1}
    BY <1>1, <1>2, <1>3
  <2>2. n + 1 \in 1..Len(new.nodes) /\ Len(new.nodes) \in 1..n \cup {n + 1}
    BY <2>1, <1>2
  <2> QED BY <2>2, <1>2
<1>5. /\ Append(c.nodes, row) \in Seq(Node) /\ Len(Append(c.nodes, row)) = n + 1
      /\ \A j \in 1..n : Append(c.nodes, row)[j] = c.nodes[j]
      /\ Append(c.nodes, row)[n + 1] = row
  BY <1>2, <1>3, AppendedIs
<1>6. \A j \in 1..n + 1 : new.nodes[j] = Append(c.nodes, row)[j]
  BY <1>1, <1>2, <1>3, <1>5
<1>7. new.nodes = Append(c.nodes, row)
  BY <1>2, <1>4, <1>5, <1>6, SeqEqual
<1>8. /\ GraphOf(c) = [nodes |-> c.nodes, edges |-> Ends(c.edges)]
      /\ GraphOf(new) = [nodes |-> Append(c.nodes, row), edges |-> Ends(c.edges)]
      /\ GraphOf(c) # DG!NoGraph /\ GraphOf(new) # DG!NoGraph
  BY <1>1, <1>a, <1>7, GraphIs
<1>9. GraphOf(new) = [GraphOf(c) EXCEPT !.nodes = Append(GraphOf(c).nodes, row)]
  <2>1. PICK g, ns, es : g = GraphOf(c) /\ ns = c.nodes /\ es = Ends(c.edges)
    OBVIOUS
  <2>2. g = [nodes |-> ns, edges |-> es]
    BY <1>8, <2>1
  <2>3. /\ g.nodes = ns
        /\ [g EXCEPT !.nodes = Append(ns, row)] = [nodes |-> Append(ns, row), edges |-> es]
    <3>1. g.nodes = ns
      BY <2>2
    <3>2. \A x : [g EXCEPT !.nodes = x] = [nodes |-> x, edges |-> es]
      BY <2>2, GraphExcept
    <3> QED BY <3>1, <3>2
  <2>4. [g EXCEPT !.nodes = Append(g.nodes, row)] = [nodes |-> Append(ns, row), edges |-> es]
    BY <2>3
  <2> QED BY <1>8, <2>1, <2>4
<1>10. DG!AddsNode(GraphOf(c), GraphOf(new))
  BY <1>9 DEF DG!AddsNode, DG!Node, Node
<1> QED BY <1>8, <1>10 DEF DG!Commits

LEMMA InsertEdgeCommits ==
  ASSUME NEW c \in Image, ImageOK(c), c.whole, NEW e \in Edge, ImageOK(InsertEdge(c, e))
  PROVE  DG!Commits(GraphOf(c), GraphOf(InsertEdge(c, e)))
<1> DEFINE new == InsertEdge(c, e)
<1>1. /\ new \in Image /\ new.nodes = c.nodes /\ new.edges = Append(c.edges, e)
      /\ new.whole = c.whole /\ ImageOK(new)
  BY InsertEdgeDoes
<1> HIDE DEF new
<1>2. c.edges \in Seq(Edge) /\ new.edges \in Seq(Edge)
  BY <1>1, ImageParts
<1>3. PICK m \in Nat : m = Len(c.edges)
  BY <1>2, LenProperties
<1>4. /\ Len(new.edges) = m + 1 /\ new.edges[m + 1] = e
      /\ \A k \in 1..m : new.edges[k] = c.edges[k]
  BY <1>1, <1>2, <1>3, AppendedIs
<1> DEFINE Pair == (1..MaxNodes) \X (1..MaxNodes)
<1>5. /\ Ends(c.edges) \in Seq(Pair) /\ Len(Ends(c.edges)) = m
      /\ \A k \in 1..m : Ends(c.edges)[k] = c.edges[k].ends
  BY <1>2, <1>3, EndsOf
<1>6. /\ Ends(new.edges) \in Seq(Pair) /\ Len(Ends(new.edges)) = m + 1
      /\ \A k \in 1..m + 1 : Ends(new.edges)[k] = new.edges[k].ends
  BY <1>2, <1>4, EndsOf
<1>7. e.ends \in Pair
  BY DEF Edge
<1> HIDE DEF Pair
<1>8. /\ Append(Ends(c.edges), e.ends) \in Seq(Pair)
      /\ Len(Append(Ends(c.edges), e.ends)) = m + 1
      /\ \A k \in 1..m : Append(Ends(c.edges), e.ends)[k] = Ends(c.edges)[k]
      /\ Append(Ends(c.edges), e.ends)[m + 1] = e.ends
  BY <1>5, <1>7, AppendedIs
<1>9. ASSUME NEW k \in 1..m + 1 PROVE Ends(new.edges)[k] = Append(Ends(c.edges), e.ends)[k]
  <2>1. CASE k \in 1..m
    BY <2>1, <1>4, <1>5, <1>6, <1>8
  <2>2. CASE k = m + 1
    <3>1. m + 1 \in 1..m + 1
      OBVIOUS
    <3>2. Ends(new.edges)[m + 1] = new.edges[m + 1].ends
      BY <3>1, <1>6
    <3>3. Ends(new.edges)[m + 1] = Append(Ends(c.edges), e.ends)[m + 1]
      BY <3>2, <1>4, <1>8
    <3> QED BY <2>2, <3>3
  <2>3. k \in 1..m \/ k = m + 1
    OBVIOUS
  <2> QED BY <2>1, <2>2, <2>3
<1>10. Ends(new.edges) = Append(Ends(c.edges), e.ends)
  BY <1>6, <1>8, <1>9, SeqEqual
<1>11. /\ GraphOf(c) = [nodes |-> c.nodes, edges |-> Ends(c.edges)]
       /\ GraphOf(new) = [nodes |-> c.nodes, edges |-> Append(Ends(c.edges), e.ends)]
       /\ GraphOf(c) # DG!NoGraph /\ GraphOf(new) # DG!NoGraph
  BY <1>1, <1>10, GraphIs
<1>12. e.ends \in (1..Len(GraphOf(c).nodes)) \X (1..Len(GraphOf(c).nodes))
  <2>1. m + 1 \in 1..Len(new.edges) /\ DOMAIN c.nodes = 1..Len(c.nodes) /\ NoneDangling(new)
    <3>1. m + 1 \in 1..m + 1
      OBVIOUS
    <3> QED BY <3>1, <1>1, <1>4, WholeIs
  <2>2. e.ends \in (1..Len(c.nodes)) \X (1..Len(c.nodes))
    BY <2>1, <1>1, <1>4 DEF NoneDangling
  <2> QED BY <2>2, <1>11
<1>13. GraphOf(new) = [GraphOf(c) EXCEPT !.edges = Append(GraphOf(c).edges, e.ends)]
  <2>1. PICK g, ns, es : g = GraphOf(c) /\ ns = c.nodes /\ es = Ends(c.edges)
    OBVIOUS
  <2>2. g = [nodes |-> ns, edges |-> es]
    BY <1>11, <2>1
  <2>3. /\ g.edges = es
        /\ [g EXCEPT !.edges = Append(es, e.ends)] = [nodes |-> ns, edges |-> Append(es, e.ends)]
    BY <2>2, GraphExcept
  <2>4. [g EXCEPT !.edges = Append(g.edges, e.ends)] = [nodes |-> ns, edges |-> Append(es, e.ends)]
    BY <2>3
  <2> QED BY <1>11, <2>1, <2>4
<1>14. DG!AddsEdge(GraphOf(c), GraphOf(new))
  BY <1>12, <1>13 DEF DG!AddsEdge
<1> QED BY <1>11, <1>14 DEF DG!Commits, new

\* A change of one column of one node.
LEMMA ColumnExcept ==
  ASSUME NEW ns, NEW es, NEW b, NEW i \in DOMAIN ns, NEW g, g = [nodes |-> ns, edges |-> es]
  PROVE  /\ [g EXCEPT !.nodes[i].self = b]
              = [nodes |-> [j \in DOMAIN ns |-> IF j = i THEN [ns[j] EXCEPT !.self = b]
                                                         ELSE ns[j]], edges |-> es]
         /\ [g EXCEPT !.nodes[i].deleted = b]
              = [nodes |-> [j \in DOMAIN ns |-> IF j = i THEN [ns[j] EXCEPT !.deleted = b]
                                                         ELSE ns[j]], edges |-> es]
<1>1. g.nodes = ns
  OBVIOUS
<1>2. /\ [g EXCEPT !.nodes = [ns EXCEPT ![i].self = b]]
           = [nodes |-> [ns EXCEPT ![i].self = b], edges |-> es]
      /\ [g EXCEPT !.nodes = [ns EXCEPT ![i].deleted = b]]
           = [nodes |-> [ns EXCEPT ![i].deleted = b], edges |-> es]
  BY GraphExcept
<1>3. /\ [ns EXCEPT ![i].self = b]
           = [j \in DOMAIN ns |-> IF j = i THEN [ns[j] EXCEPT !.self = b] ELSE ns[j]]
      /\ [ns EXCEPT ![i].deleted = b]
           = [j \in DOMAIN ns |-> IF j = i THEN [ns[j] EXCEPT !.deleted = b] ELSE ns[j]]
  OBVIOUS
<1>4. /\ [g EXCEPT !.nodes[i].self = b] = [g EXCEPT !.nodes = [ns EXCEPT ![i].self = b]]
      /\ [g EXCEPT !.nodes[i].deleted = b] = [g EXCEPT !.nodes = [ns EXCEPT ![i].deleted = b]]
  BY <1>1
<1> QED BY <1>2, <1>3, <1>4

LEMMA UpdateTierCommits ==
  ASSUME NEW c \in Image, ImageOK(c), c.whole, NEW i \in DOMAIN c.nodes, NEW self \in BOOLEAN,
         ImageOK(UpdateTier(c, i, self))
  PROVE  DG!Commits(GraphOf(c), GraphOf(UpdateTier(c, i, self)))
<1> DEFINE ns == [j \in DOMAIN c.nodes |-> IF j = i THEN [c.nodes[j] EXCEPT !.self = self]
                                                   ELSE c.nodes[j]]
           new == UpdateTier(c, i, self)
<1>1. new = [nodes |-> ns, edges |-> c.edges, events |-> c.events, whole |-> c.whole]
  BY ImageExcept DEF UpdateTier
<1>2. new.nodes = ns /\ new.edges = c.edges /\ new.whole = c.whole
  BY <1>1
<1>3. i \in 1..MaxNodes
  BY ImageParts
<1>4. new \in Image /\ ImageOK(new)
  BY <1>3, UpdateTierDoes
<1> HIDE DEF new
<1>5. /\ GraphOf(c) = [nodes |-> c.nodes, edges |-> Ends(c.edges)]
      /\ GraphOf(new) = [nodes |-> ns, edges |-> Ends(c.edges)]
      /\ GraphOf(c) # DG!NoGraph /\ GraphOf(new) # DG!NoGraph
  BY <1>2, <1>4, GraphIs
<1>6. i \in 1..Len(GraphOf(c).nodes)
  <2>1. GraphOf(c).nodes = c.nodes
    BY <1>5
  <2> QED BY <2>1, WholeIs
<1>7. GraphOf(new) = [GraphOf(c) EXCEPT !.nodes[i].self = self]
  <2>1. PICK g, es : g = GraphOf(c) /\ es = Ends(c.edges)
    OBVIOUS
  <2>2. g = [nodes |-> c.nodes, edges |-> es]
    BY <1>5, <2>1
  <2>3. [g EXCEPT !.nodes[i].self = self] = [nodes |-> ns, edges |-> es]
    BY <2>2, ColumnExcept
  <2> QED BY <1>5, <2>1, <2>3
<1>8. DG!Retiers(GraphOf(c), GraphOf(new))
  BY <1>6, <1>7 DEF DG!Retiers
<1> QED BY <1>5, <1>8 DEF DG!Commits, new

LEMMA MarkDeletedCommits ==
  ASSUME NEW c \in Image, ImageOK(c), c.whole, NEW i \in DOMAIN c.nodes,
         ImageOK(MarkDeleted(c, i))
  PROVE  DG!Commits(GraphOf(c), GraphOf(MarkDeleted(c, i)))
<1> DEFINE ns == [j \in DOMAIN c.nodes |-> IF j = i THEN [c.nodes[j] EXCEPT !.deleted = TRUE]
                                                   ELSE c.nodes[j]]
           new == MarkDeleted(c, i)
<1>1. new = [nodes |-> ns, edges |-> c.edges, events |-> c.events, whole |-> c.whole]
  BY ImageExcept DEF MarkDeleted
<1>2. new.nodes = ns /\ new.edges = c.edges /\ new.whole = c.whole
  BY <1>1
<1>3. i \in 1..MaxNodes
  BY ImageParts
<1>4. new \in Image /\ ImageOK(new)
  BY <1>3, MarkDeletedDoes
<1> HIDE DEF new
<1>5. /\ GraphOf(c) = [nodes |-> c.nodes, edges |-> Ends(c.edges)]
      /\ GraphOf(new) = [nodes |-> ns, edges |-> Ends(c.edges)]
      /\ GraphOf(c) # DG!NoGraph /\ GraphOf(new) # DG!NoGraph
  BY <1>2, <1>4, GraphIs
<1>6. i \in 1..Len(GraphOf(c).nodes)
  <2>1. GraphOf(c).nodes = c.nodes
    BY <1>5
  <2> QED BY <2>1, WholeIs
<1>7. GraphOf(new) = [GraphOf(c) EXCEPT !.nodes[i].deleted = TRUE]
  <2>1. PICK g, es : g = GraphOf(c) /\ es = Ends(c.edges)
    OBVIOUS
  <2>2. g = [nodes |-> c.nodes, edges |-> es]
    BY <1>5, <2>1
  <2>3. PICK b \in BOOLEAN : b = TRUE
    OBVIOUS
  <2>4. [g EXCEPT !.nodes[i].deleted = b]
          = [nodes |-> [j \in DOMAIN c.nodes |-> IF j = i THEN [c.nodes[j] EXCEPT !.deleted = b]
                                                         ELSE c.nodes[j]], edges |-> es]
    BY <2>2, ColumnExcept
  <2>5. [g EXCEPT !.nodes[i].deleted = TRUE] = [nodes |-> ns, edges |-> es]
    BY <2>3, <2>4
  <2> QED BY <1>5, <2>1, <2>5
<1>8. DG!Retires(GraphOf(c), GraphOf(new))
  BY <1>6, <1>7 DEF DG!Retires
<1> QED BY <1>5, <1>8 DEF DG!Commits, new

\* Two images with the same nodes and the same ends are the same graph.
LEMMA SameGraph ==
  ASSUME NEW c \in Image, NEW new \in Image, new.whole = c.whole, new.nodes = c.nodes,
         Len(new.edges) = Len(c.edges),
         \A k \in 1..Len(c.edges) : new.edges[k].ends = c.edges[k].ends
  PROVE  GraphOf(new) = GraphOf(c)
<1>1. Ends(new.edges) = Ends(c.edges)
  BY DEF Ends
<1> QED BY <1>1 DEF GraphOf

LEMMA UpdateEdgeCommits ==
  ASSUME NEW c \in Image, NEW ends \in (1..MaxNodes) \X (1..MaxNodes), NEW kind \in Kinds
  PROVE  DG!Commits(GraphOf(c), GraphOf(UpdateEdge(c, ends, kind)))
<1> DEFINE new == UpdateEdge(c, ends, kind)
<1>1. /\ new \in Image /\ new.nodes = c.nodes /\ Len(new.edges) = Len(c.edges)
      /\ \A k \in 1..Len(c.edges) : new.edges[k].ends = c.edges[k].ends
      /\ new.whole = c.whole
  BY UpdateEdgeDoes
<1> HIDE DEF new
<1>2. GraphOf(new) = GraphOf(c)
  BY <1>1, SameGraph
<1> QED BY <1>2 DEF DG!Commits, new

LEMMA LogEventCommits ==
  ASSUME NEW c \in Image, NEW e \in Event
  PROVE  DG!Commits(GraphOf(c), GraphOf(LogEvent(c, e)))
<1> DEFINE new == LogEvent(c, e)
<1>1. new \in Image /\ new.nodes = c.nodes /\ new.edges = c.edges /\ new.whole = c.whole
  BY LogEventDoes
<1> HIDE DEF new
<1>2. GraphOf(new) = GraphOf(c)
  BY <1>1, SameGraph
<1> QED BY <1>2 DEF DG!Commits, new

\* A write of a command is one commit of the graph: no write makes a whole image of
\* one that was never saved as a whole.
LEMMA WritesStayUnsaved ==
  ASSUME NEW c \in Image, NEW w \in Writes
  PROVE  Write(c, w) \in Image /\ Write(c, w).whole = c.whole
<1>1. ASSUME NEW i \in 1..MaxNodes, NEW row \in Node, w = <<"insert_node", i, row>>
      PROVE  Write(c, w) \in Image /\ Write(c, w).whole = c.whole
  BY <1>1, WriteIs, InsertNodeDoes
<1>2. ASSUME NEW e \in Edge, w = <<"insert_edge", e>>
      PROVE  Write(c, w) \in Image /\ Write(c, w).whole = c.whole
  BY <1>2, WriteIs, InsertEdgeDoes
<1>3. ASSUME NEW i \in 1..MaxNodes, w = <<"mark_deleted", i>>
      PROVE  Write(c, w) \in Image /\ Write(c, w).whole = c.whole
  BY <1>3, WriteIs, MarkDeletedDoes
<1>4. ASSUME NEW i \in 1..MaxNodes, NEW self \in BOOLEAN, w = <<"update_tier", i, self>>
      PROVE  Write(c, w) \in Image /\ Write(c, w).whole = c.whole
  BY <1>4, WriteIs, UpdateTierDoes
<1>5. ASSUME NEW ends \in (1..MaxNodes) \X (1..MaxNodes), NEW kind \in Kinds,
             w = <<"update_edge", ends, kind>>
      PROVE  Write(c, w) \in Image /\ Write(c, w).whole = c.whole
  BY <1>5, WriteIs, UpdateEdgeDoes
<1>6. ASSUME NEW e \in Event, w = <<"log_event", e>>
      PROVE  Write(c, w) \in Image /\ Write(c, w).whole = c.whole
  <2>1. Write(c, w) = LogEvent(c, e)
    BY <1>6, WriteIs
  <2>2. LogEvent(c, e) \in Image
    BY LogEventDoes
  <2>3. LogEvent(c, e).whole = c.whole
    BY LogEventDoes
  <2> QED BY <2>1, <2>2, <2>3
<1>7. \/ \E i \in 1..MaxNodes, row \in Node : w = <<"insert_node", i, row>>
      \/ \E e \in Edge : w = <<"insert_edge", e>>
      \/ \E i \in 1..MaxNodes : w = <<"mark_deleted", i>>
      \/ \E i \in 1..MaxNodes, self \in BOOLEAN : w = <<"update_tier", i, self>>
      \/ \E ends \in (1..MaxNodes) \X (1..MaxNodes), kind \in Kinds : w = <<"update_edge", ends, kind>>
      \/ \E e \in Event : w = <<"log_event", e>>
  BY DEF Writes
<1> QED BY <1>1, <1>2, <1>3, <1>4, <1>5, <1>6, <1>7

LEMMA NextWriteCommits ==
  ASSUME TypeOK, ImagesOK, MemoryOK, WritesOK, app = "up", todo # <<>>
  PROVE  DG!Commits(GraphOf(Current), GraphOf(Write(Current, Head(todo))))
<1> PICK c \in Image : c = Current
  BY CurrentIs DEF MemoryOK, InMemory
<1>1. ImageOK(c)
  BY CurrentIs DEF MemoryOK, InMemory
<1> PICK w \in Writes : w = Head(todo)
  <2>1. todo \in Seq(Writes) /\ Len(todo) \in Nat \ {0} /\ Head(todo) = todo[1]
    BY TailOf DEF TypeOK
  <2>2. todo[1] \in Writes
    BY <2>1, ElementOfSeq
  <2> QED BY <2>1, <2>2
<1> SUFFICES DG!Commits(GraphOf(c), GraphOf(Write(c, w)))
  OBVIOUS
<1>2. Write(c, w) \in Image /\ Write(c, w).whole = c.whole /\ ImageOK(Write(c, w))
  BY WritesStayUnsaved, NextWriteFits
<1>3. CASE ~c.whole
  <2>1. GraphOf(Write(c, w)) = GraphOf(c)
    BY <1>2, <1>3 DEF GraphOf
  <2> QED BY <2>1 DEF DG!Commits
<1>4. CASE c.whole /\ Appending
  <2>1. PICK a \in 0..1, b \in 0..1, m \in 0..Len(edges) : Pending(todo, c, a, m, b)
    BY <1>4 DEF Appending, SomePending
  <2>2. CASE a = 1
    <3>1. /\ w = <<"insert_node", Len(nodes), nodes[Len(nodes)]>>
          /\ Len(nodes) \in 1..MaxNodes /\ nodes[Len(nodes)] \in Node
      BY <2>1, <2>2, TailOf, Lengths DEF Pending
    <3>2. PICK i \in 1..MaxNodes, row \in Node : i = Len(nodes) /\ row = nodes[Len(nodes)]
      BY <3>1
    <3>3. Write(c, w) = InsertNode(c, i, row)
      BY <3>1, <3>2, WriteIs
    <3>4. DOMAIN c.nodes = 1..i - 1
      BY <1>4, <2>1, <2>2, <3>2 DEF Pending, Holds
    <3>5. Len(c.nodes) \in Nat /\ DOMAIN c.nodes = 1..Len(c.nodes)
      BY <1>1, <1>4, WholeIs
    <3>6. i = Len(c.nodes) + 1
      BY <3>2, <3>4, <3>5
    <3> QED BY <1>1, <1>2, <1>4, <3>3, <3>6, InsertNodeCommits
  <2>3. CASE a = 0 /\ m > 0
    <3>1. 1 \in 1..m /\ a + 1 = 1 /\ Len(edges) - m + 1 \in 1..Len(edges)
      BY <2>3, Lengths
    <3>2. PICK e \in Edge : e = edges[Len(edges) - m + 1]
      BY <3>1, Lengths
    <3>3. w = <<"insert_edge", e>>
      BY <2>1, <3>1, <3>2, TailOf DEF Pending
    <3>4. Write(c, w) = InsertEdge(c, e)
      BY <3>3, WriteIs
    <3> QED BY <1>1, <1>2, <1>4, <3>4, InsertEdgeCommits
  <2>4. CASE a = 0 /\ m = 0
    <3>1. b = 1
      BY <2>1, <2>4, TailOf DEF Pending
    <3>2. PICK e \in Event : todo[1] = <<"log_event", e>>
      BY <2>1, <2>4, <3>1 DEF Pending
    <3>3. Write(c, w) = LogEvent(c, e)
      BY <3>2, WriteIs, TailOf
    <3> QED BY <3>3, LogEventCommits
  <2> QED BY <2>2, <2>3, <2>4
<1>5. CASE c.whole /\ Retiering
  <2>1. PICK i \in 1..Len(nodes) : /\ todo = <<<<"update_tier", i, nodes[i].self>>>>
                                   /\ HoldsAllBut(c, {i}, {}, {})
    BY <1>5 DEF Retiering
  <2>2. i \in DOMAIN c.nodes /\ nodes[i].self \in BOOLEAN
    BY <1>5, <2>1, Lengths DEF Node, HoldsAllBut, Holds
  <2>3. Write(c, w) = UpdateTier(c, i, nodes[i].self)
    BY <2>1, WriteIs
  <2> QED BY <1>1, <1>2, <1>5, <2>2, <2>3, UpdateTierCommits
<1>6. CASE c.whole /\ Rekinding
  <2>1. PICK k \in 1..Len(edges) : todo = <<<<"update_edge", edges[k].ends, edges[k].kind>>>>
    BY <1>6 DEF Rekinding
  <2>2. edges[k].ends \in (1..MaxNodes) \X (1..MaxNodes) /\ edges[k].kind \in Kinds
    BY Lengths DEF Edge
  <2>3. Write(c, w) = UpdateEdge(c, edges[k].ends, edges[k].kind)
    BY <2>1, WriteIs
  <2> QED BY <2>2, <2>3, UpdateEdgeCommits
<1>7. CASE c.whole /\ Deleting
  <2>1. PICK i \in 1..Len(nodes) : todo = DeleteWrites(i) /\ HoldsAllBut(c, {}, {i}, {})
    BY <1>7 DEF Deleting
  <2>2. i \in DOMAIN c.nodes
    BY <1>7, <2>1, Lengths DEF HoldsAllBut, Holds
  <2>3. Write(c, w) = MarkDeleted(c, i)
    BY <2>1, WriteIs DEF DeleteWrites
  <2> QED BY <1>1, <1>2, <1>7, <2>2, <2>3, MarkDeletedCommits
<1> QED BY <1>3, <1>4, <1>5, <1>6, <1>7 DEF WritesOK

\* The transaction of save_graph is one commit: of the same graph, or of the first.
LEMMA SaveCommits ==
  ASSUME StoreInv, app = "saving", txn # NoTxn,
         Len(txn.nodes) = Len(nodes), Len(txn.edges) = Len(edges)
  PROVE  DG!Commits(GraphOf(Current), GraphOf([txn EXCEPT !.whole = TRUE]))
<1> PICK c \in Image, img \in Image :
      /\ c = Current /\ img = [txn EXCEPT !.whole = TRUE]
      /\ img.whole /\ img.nodes = nodes /\ img.edges = edges
      /\ ImageOK(c) /\ ImageOK(img) /\ HoldsAllBut(c, {}, {}, {})
  <2>1. Current \in Image /\ ImageOK(Current) /\ HoldsAllBut(Current, {}, {}, {})
    BY SavingMeans
  <2>2. PICK img : /\ img = [txn EXCEPT !.whole = TRUE] /\ img \in Image /\ ImageOK(img)
                   /\ img = [nodes |-> nodes, edges |-> edges, events |-> Current.events,
                             whole |-> TRUE]
    BY SavedImage
  <2>3. img.whole /\ img.nodes = nodes /\ img.edges = edges
    BY <2>2
  <2> QED BY <2>1, <2>2, <2>3
<1> SUFFICES DG!Commits(GraphOf(c), GraphOf(img))
  OBVIOUS
<1>1. CASE ~c.whole
  <2>1. GraphOf(c) = DG!NoGraph
    BY <1>1 DEF GraphOf, DG!NoGraph
  <2>2. DG!IsGraph(GraphOf(img))
    BY GraphIs
  <2> QED BY <2>1, <2>2 DEF DG!Commits
<1>2. CASE c.whole
  <2>1. /\ DOMAIN c.nodes = 1..Len(nodes) /\ Len(c.edges) = Len(edges)
        /\ \A i \in 1..Len(nodes) : /\ c.nodes[i].self = nodes[i].self
                                    /\ c.nodes[i].deleted = nodes[i].deleted
        /\ \A k \in 1..Len(edges) : c.edges[k].ends = edges[k].ends
    BY <1>2 DEF HoldsAllBut, Holds
  <2>2. TypeOK /\ nodes \in Seq(Node)
    BY SavingMeans
  <2>3. c.nodes \in Seq(Node) /\ Len(c.nodes) \in Nat /\ DOMAIN c.nodes = 1..Len(c.nodes)
    BY <1>2, WholeIs
  <2>4. Len(c.nodes) = Len(nodes) /\ Len(nodes) \in Nat
    BY <2>1, <2>2, <2>3, Lengths
  <2>5. ASSUME NEW i \in 1..Len(nodes) PROVE c.nodes[i] = nodes[i]
    <3>1. c.nodes[i] \in Node /\ nodes[i] \in Node
      BY <2>2, <2>3, <2>4, ElementOfSeq
    <3> QED BY <2>1, <3>1 DEF Node
  <2>6. c.nodes = nodes
    BY <2>2, <2>3, <2>4, <2>5, SeqEqual
  <2>7. GraphOf(img) = GraphOf(c)
    BY <1>2, <2>1, <2>6, SameGraph
  <2> QED BY <2>7 DEF DG!Commits
<1> QED BY <1>1, <1>2

------------------------------------------------------------------------------
(* The history of graphs of a file.                                        *)

Graphs(s) == [k \in 1..Len(s) |-> GraphOf(s[k])]

LEMMA GraphsOf ==
  ASSUME NEW s \in Seq(Image)
  PROVE  /\ Len(s) \in Nat /\ Graphs(s) \in Seq({GraphOf(img) : img \in Image})
         /\ Len(Graphs(s)) = Len(s) /\ \A k \in 1..Len(s) : Graphs(s)[k] = GraphOf(s[k])
         /\ (Graphs(s) = <<>> <=> s = <<>>)
<1> DEFINE G == {GraphOf(img) : img \in Image}
<1>1. Len(s) \in Nat /\ \A k \in 1..Len(s) : s[k] \in Image
  BY LenProperties, ElementOfSeq
<1>2. Graphs(s) \in [1..Len(s) -> G]
  BY <1>1 DEF Graphs
<1>3. \A k \in 1..Len(s) : Graphs(s)[k] = GraphOf(s[k])
  BY DEF Graphs
<1> HIDE DEF G
<1>4. Graphs(s) \in Seq(G) /\ Len(Graphs(s)) = Len(s)
  BY <1>1, <1>2, FunIsSeq
<1>5. Graphs(s) = <<>> <=> s = <<>>
  BY <1>1, <1>4, EmptyLength
<1> QED BY <1>1, <1>3, <1>4, <1>5 DEF G

LEMMA PrefixIs ==
  ASSUME NEW S, NEW s \in Seq(S), NEW n \in 0..Len(s)
  PROVE  /\ SubSeq(s, 1, n) \in Seq(S) /\ Len(SubSeq(s, 1, n)) = n
         /\ \A k \in 1..n : SubSeq(s, 1, n)[k] = s[k]
<1>1. Len(s) \in Nat
  BY LenProperties
<1>2. \A k \in 1..n : s[k] \in S
  BY <1>1, ElementOfSeq
<1>3. SubSeq(s, 1, n) = [k \in 1..n |-> s[k]]
  BY <1>1
<1>4. [k \in 1..n |-> s[k]] \in [1..n -> S]
  BY <1>2
<1>5. n \in Nat
  BY <1>1
<1> QED BY <1>3, <1>4, <1>5, FunIsSeq

\* The history of what a file becomes.
LEMMA GraphsAppend ==
  ASSUME NEW s \in Seq(Image), NEW img \in Image
  PROVE  /\ Len(Graphs(Append(s, img))) = Len(Graphs(s)) + 1
         /\ SubSeq(Graphs(Append(s, img)), 1, Len(Graphs(s))) = Graphs(s)
         /\ DG!Final(Graphs(Append(s, img))) = GraphOf(img)
<1> DEFINE G == {GraphOf(i) : i \in Image}
<1>1. /\ Append(s, img) \in Seq(Image) /\ Len(Append(s, img)) = Len(s) + 1
      /\ \A k \in 1..Len(s) : Append(s, img)[k] = s[k]
      /\ Append(s, img)[Len(s) + 1] = img
  BY AppendedIs
<1> PICK t \in Seq(Image) : t = Append(s, img)
  BY <1>1
<1> PICK n \in Nat : n = Len(s)
  BY LenProperties
<1> PICK g, h : g = Graphs(s) /\ h = Graphs(t)
  OBVIOUS
<1> HIDE DEF G
<1>2. g \in Seq(G) /\ Len(g) = n /\ \A k \in 1..n : g[k] = GraphOf(s[k])
  BY GraphsOf DEF G
<1>3. h \in Seq(G) /\ Len(h) = n + 1 /\ \A k \in 1..n + 1 : h[k] = GraphOf(t[k])
  BY <1>1, GraphsOf DEF G
<1>4. n + 1 \in 1..n + 1 /\ n \in 0..n + 1
  OBVIOUS
<1>5. h[n + 1] = GraphOf(img)
  BY <1>1, <1>3, <1>4
<1>6. \A k \in 1..n : h[k] = g[k]
  BY <1>1, <1>2, <1>3
<1>7. SubSeq(h, 1, n) \in Seq(G) /\ Len(SubSeq(h, 1, n)) = n /\ \A k \in 1..n : SubSeq(h, 1, n)[k] = h[k]
  BY <1>3, <1>4, PrefixIs
<1>8. SubSeq(h, 1, n) = g
  BY <1>2, <1>6, <1>7, SeqEqual
<1> QED BY <1>2, <1>3, <1>5, <1>8 DEF DG!Final

LEMMA GraphsPrefix ==
  ASSUME NEW s \in Seq(Image), NEW n \in 0..Len(s)
  PROVE  Graphs(SubSeq(s, 1, n)) = SubSeq(Graphs(s), 1, n)
<1> DEFINE G == {GraphOf(i) : i \in Image}
<1>1. /\ SubSeq(s, 1, n) \in Seq(Image) /\ Len(SubSeq(s, 1, n)) = n
      /\ \A k \in 1..n : SubSeq(s, 1, n)[k] = s[k]
  BY PrefixIs
<1> PICK t \in Seq(Image) : t = SubSeq(s, 1, n)
  BY <1>1
<1> PICK g, h : g = Graphs(s) /\ h = Graphs(t)
  OBVIOUS
<1> HIDE DEF G
<1>a. Len(s) \in Nat /\ g \in Seq(G) /\ Len(g) = Len(s)
  BY GraphsOf DEF G
<1>b. \A k \in 1..Len(s) : g[k] = GraphOf(s[k])
  BY DEF Graphs
<1>2. /\ Len(s) \in Nat /\ n \in Nat /\ g \in Seq(G) /\ Len(g) = Len(s)
      /\ \A k \in 1..Len(s) : g[k] = GraphOf(s[k])
  BY <1>a, <1>b
<1>3. h \in Seq(G) /\ Len(h) = n /\ \A k \in 1..n : h[k] = GraphOf(t[k])
  BY <1>1, GraphsOf DEF G
<1>4. SubSeq(g, 1, n) \in Seq(G) /\ Len(SubSeq(g, 1, n)) = n /\ \A k \in 1..n : SubSeq(g, 1, n)[k] = g[k]
  BY <1>2, PrefixIs
<1>5. \A k \in 1..n : h[k] = SubSeq(g, 1, n)[k]
  BY <1>1, <1>2, <1>3, <1>4
<1> QED BY <1>2, <1>3, <1>4, <1>5, SeqEqual

LEMMA GraphsOne ==
  ASSUME NEW img \in Image
  PROVE  Graphs(<<img>>) = <<GraphOf(img)>>
<1>1. Len(<<img>>) = 1 /\ <<img>>[1] = img
  BY Singleton
<1>2. Graphs(<<img>>) = [k \in 1..1 |-> GraphOf(img)]
  BY <1>1 DEF Graphs
<1> QED BY <1>2

LEMMA FinalGraph ==
  ASSUME NEW s \in Seq(Image), s # <<>>
  PROVE  DG!Final(Graphs(s)) = GraphOf(Final(s)) /\ Final(s) \in Image
<1>1. Len(s) \in Nat \ {0}
  BY EmptyLength
<1>2. PICK n : n = Len(s) /\ n \in 1..n
  BY <1>1
<1>3. Len(Graphs(s)) = n /\ \A k \in 1..n : Graphs(s)[k] = GraphOf(s[k])
  BY <1>2, GraphsOf
<1>4. Graphs(s)[n] = GraphOf(s[n]) /\ s[n] \in Image
  BY <1>1, <1>2, <1>3, ElementOfSeq
<1> QED BY <1>2, <1>3, <1>4 DEF Final, DG!Final

\* The steps of DurableGraph, of the histories of the files.
LEMMA DurableMoves ==
  ASSUME NEW p \in Projects, NEW g, NEW h, g = Graphs(files[p]), h = Graphs(files'[p])
  PROVE  /\ g = <<>> /\ h = <<DG!NoGraph>> => DG!Create(p)
         /\ (g # <<>> /\ Len(h) = Len(g) + 1 /\ SubSeq(h, 1, Len(g)) = g
              /\ DG!Commits(DG!Final(g), DG!Final(h))) => DG!Commit(p)
         /\ g # <<>> /\ h = <<DG!Final(g)>> => DG!Checkpoint(p)
         /\ (\E k \in 1..Len(g) : h = SubSeq(g, 1, k)) => DG!LosePower(p)
         /\ h = <<>> => DG!Remove(p)
BY DEF Graphs, DG!Create, DG!Commit, DG!Checkpoint, DG!LosePower, DG!Remove

\* A step that changes no file is none of DurableGraph's.
LEMMA FilesSame ==
  ASSUME UNCHANGED files
  PROVE  [DG!Next]_([p \in Projects |-> [k \in 1..Len(files[p]) |-> GraphOf(files[p][k])]])
OBVIOUS

\* A step that changes one file is one of its project's.
LEMMA OneFile ==
  ASSUME NEW p \in Projects, \A q \in Projects \ {p} : files'[q] = files[q],
         DG!Create(p) \/ DG!Commit(p) \/ DG!Checkpoint(p) \/ DG!Remove(p)
  PROVE  DG!Next
BY DEF DG!Next

LEMMA CommitRefines ==
  ASSUME TypeOK, ImagesOK, files[project] # <<>>, NEW img \in Image, ImageOK(img),
         files' = Committed(img), UNCHANGED project,
         DG!Commits(GraphOf(Current), GraphOf(img))
  PROVE  DG!Next
<1> PICK p \in Projects : p = project
  BY DEF TypeOK
<1>1. files[p] \in Seq(Image) /\ files[p] # <<>>
  BY DEF TypeOK
<1>2. files'[p] = Append(files[p], img) /\ \A q \in Projects \ {p} : files'[q] = files[q]
  BY CommitFiles
<1> PICK g, h : g = Graphs(files[p]) /\ h = Graphs(files'[p])
  OBVIOUS
<1>3. g # <<>> /\ DG!Final(g) = GraphOf(Current)
  BY <1>1, GraphsOf, FinalGraph DEF Current
<1>4. Len(h) = Len(g) + 1 /\ SubSeq(h, 1, Len(g)) = g /\ DG!Final(h) = GraphOf(img)
  BY <1>1, <1>2, GraphsAppend
<1>5. DG!Commit(p)
  BY <1>3, <1>4, DurableMoves
<1> QED BY <1>2, <1>5, OneFile

LEMMA WritesRefine == ASSUME StoreInv, CommitWrite \/ CommitSave PROVE DG!Next
<1>1. CASE CommitWrite
  <2>1. TypeOK /\ ImagesOK /\ MemoryOK /\ WritesOK /\ app = "up" /\ todo # <<>>
        /\ files[project] # <<>>
    BY <1>1 DEF StoreInv, CommitWrite, MemoryOK, InMemory
  <2>2. PICK new \in Image : /\ new = Write(Current, Head(todo)) /\ ImageOK(new)
                             /\ DG!Commits(GraphOf(Current), GraphOf(new))
    BY <2>1, NextWriteFits, NextWriteCommits
  <2>3. files' = Committed(new) /\ UNCHANGED project
    BY <1>1, <2>2 DEF CommitWrite, Current
  <2> QED BY <2>1, <2>2, <2>3, CommitRefines
<1>2. CASE CommitSave
  <2>1. TypeOK /\ ImagesOK /\ files[project] # <<>> /\ app = "saving" /\ txn # NoTxn
        /\ Len(txn.nodes) = Len(nodes) /\ Len(txn.edges) = Len(edges)
    BY <1>2, SavingMeans DEF CommitSave
  <2>2. PICK img \in Image : /\ img = [txn EXCEPT !.whole = TRUE] /\ ImageOK(img)
                             /\ DG!Commits(GraphOf(Current), GraphOf(img))
    BY <2>1, SavedImage, SaveCommits
  <2>3. files' = Committed(img) /\ UNCHANGED project
    BY <1>2, <2>2 DEF CommitSave
  <2> QED BY <2>1, <2>2, <2>3, CommitRefines
<1> QED BY <1>1, <1>2

LEMMA CheckpointRefines == ASSUME StoreInv, Checkpoint PROVE DG!Next
<1>1. TypeOK
  BY DEF StoreInv
<1>2. PICK p \in Projects : Len(files[p]) > 1 /\ files' = [files EXCEPT ![p] = <<Final(files[p])>>]
  BY DEF Checkpoint
<1>3. files[p] \in Seq(Image) /\ files[p] # <<>> /\ files \in [Projects -> Seq(Image)]
  BY <1>1, <1>2, EmptyLength DEF TypeOK
<1>4. files'[p] = <<Final(files[p])>> /\ \A q \in Projects \ {p} : files'[q] = files[q]
  BY <1>2, <1>3
<1> PICK g, h : g = Graphs(files[p]) /\ h = Graphs(files'[p])
  OBVIOUS
<1>5. g # <<>> /\ h = <<DG!Final(g)>>
  <2>1. Final(files[p]) \in Image /\ DG!Final(g) = GraphOf(Final(files[p])) /\ g # <<>>
    BY <1>3, FinalGraph, GraphsOf
  <2>2. h = <<GraphOf(Final(files[p]))>>
    BY <2>1, <1>4, GraphsOne
  <2> QED BY <2>1, <2>2
<1>6. DG!Checkpoint(p)
  BY <1>5, DurableMoves
<1> QED BY <1>4, <1>6, OneFile

\* Opening creates the file of a project that has none, and nothing else.
LEMMA GoToRefines ==
  ASSUME StoreInv, NEW p \in Projects, GoTo(p)
  PROVE  DG!Next \/ UNCHANGED files
<1>1. files \in [Projects -> Seq(Image)]
  BY DEF StoreInv, TypeOK
<1>2. CASE files[p] # <<>>
  <2>1. files' = [files EXCEPT ![p] = files[p]]
    BY <1>2 DEF GoTo
  <2> QED BY <2>1, <1>1
<1>3. CASE files[p] = <<>>
  <2>1. files' = [files EXCEPT ![p] = <<EmptyImage>>]
    BY <1>3 DEF GoTo
  <2>2. files'[p] = <<EmptyImage>> /\ \A q \in Projects \ {p} : files'[q] = files[q]
    BY <2>1, <1>1
  <2> PICK g, h : g = Graphs(files[p]) /\ h = Graphs(files'[p])
    OBVIOUS
  <2>3. EmptyImage.whole = FALSE
    BY DEF EmptyImage
  <2>4. GraphOf(EmptyImage) = DG!NoGraph
    BY <2>3 DEF GraphOf, DG!NoGraph
  <2>5. g = <<>> /\ h = <<DG!NoGraph>>
    BY <1>1, <1>3, <2>2, <2>4, GraphsOf, GraphsOne, EmptyImageFits
  <2>6. DG!Create(p)
    BY <2>5, DurableMoves
  <2> QED BY <2>2, <2>6, OneFile
<1> QED BY <1>2, <1>3

LEMMA RemoveRefines ==
  ASSUME StoreInv, NEW p \in Projects, files' = [files EXCEPT ![p] = <<>>]
  PROVE  DG!Next
<1>1. files \in [Projects -> Seq(Image)]
  BY DEF StoreInv, TypeOK
<1>2. files'[p] = <<>> /\ \A q \in Projects \ {p} : files'[q] = files[q]
  BY <1>1
<1>3. <<>> \in Seq(Image)
  BY EmptySeq
<1>4. Graphs(files'[p]) = <<>>
  BY <1>2, <1>3, GraphsOf
<1>5. DG!Remove(p)
  BY <1>4, DurableMoves
<1> QED BY <1>2, <1>5, OneFile

\* A loss of power strikes every file, and takes the end of its history.
LEMMA PowerLossRefines == ASSUME StoreInv, PowerLoss PROVE DG!Next
<1>1. PICK keep \in [Projects -> 0..MaxLoose + 1] :
        /\ \A p \in Projects : IF files[p] = <<>> THEN keep[p] = 0
                                                  ELSE keep[p] \in 1..Len(files[p])
        /\ files' = [p \in Projects |-> SubSeq(files[p], 1, keep[p])]
  BY DEF PowerLoss
<1>2. ASSUME NEW p \in Projects PROVE files'[p] = files[p] \/ DG!LosePower(p)
  <2>1. PICK f \in Seq(Image) : f = files[p]
    BY DEF StoreInv, TypeOK
  <2>2. PICK n : n = keep[p]
    OBVIOUS
  <2>3. files'[p] = SubSeq(f, 1, n) /\ Len(f) \in Nat
    BY <1>1, <2>1, <2>2, EmptyLength
  <2>4. CASE f = <<>>
    <3>1. n = 0 /\ Len(f) = 0
      BY <1>1, <2>1, <2>2, <2>4
    <3>2. n \in 0..Len(f)
      BY <3>1
    <3>3. SubSeq(f, 1, n) \in Seq(Image) /\ Len(SubSeq(f, 1, n)) = 0
      BY <3>1, <3>2, PrefixIs
    <3> QED BY <2>1, <2>3, <2>4, <3>3, EmptyLength
  <2>5. CASE f # <<>>
    <3>1. n \in 1..Len(f)
      BY <1>1, <2>1, <2>2, <2>5
    <3>2. n \in 0..Len(f)
      BY <3>1, <2>3
    <3> PICK g, h : g = Graphs(files[p]) /\ h = Graphs(files'[p])
      OBVIOUS
    <3>3. Len(g) = Len(f) /\ h = SubSeq(g, 1, n)
      BY <2>1, <2>3, <3>2, GraphsOf, GraphsPrefix
    <3>4. DG!LosePower(p)
      BY <3>1, <3>3, DurableMoves
    <3> QED BY <3>4
  <2> QED BY <2>4, <2>5
<1>3. \A p \in Projects : files'[p] = files[p] \/ DG!LosePower(p)
  BY <1>2
<1> QED BY <1>3 DEF DG!Next

LEMMA DurableStep ==
  ASSUME StoreInv, [Next]_vars
  PROVE  [DG!Next]_([p \in Projects |-> [k \in 1..Len(files[p]) |-> GraphOf(files[p][k])]])
<1>1. CASE UNCHANGED files
  BY <1>1, FilesSame
<1>2. CASE CommitWrite \/ CommitSave
  BY <1>2, WritesRefine
<1>3. CASE Checkpoint
  BY <1>3, CheckpointRefines
<1>4. CASE Move \/ Launch
  <2>1. PICK p \in Projects : GoTo(p)
    BY <1>4 DEF Move, Launch, StoreInv, TypeOK
  <2> QED BY <1>1, <2>1, GoToRefines
<1>5. CASE RemoveVictim
  <2>1. victim \in Projects /\ files' = [files EXCEPT ![victim] = <<>>]
    BY <1>5 DEF RemoveVictim, StoreInv, TypeOK
  <2> QED BY <2>1, RemoveRefines
<1>6. CASE WipeFile
  BY <1>1, <1>6, RemoveRefines DEF WipeFile
<1>7. CASE PowerLoss
  BY <1>7, PowerLossRefines
<1>8. CASE Command
  <2>1. UNCHANGED files
    BY <1>8 DEF Command, CreateNode, Journal, PinPhantom, AppendLinked, AppendNode,
                CreateEdge, EditEdge, SetTier, DeleteNode
  <2> QED BY <1>1, <2>1
<1>9. CASE SaveToDisk \/ Quit \/ Switch \/ DeleteProject \/ SaveRows \/ Stay \/ Exit
  <2>1. UNCHANGED files
    BY <1>9 DEF SaveToDisk, Quit, Switch, DeleteProject, SaveRows, RowsPending, Stay, Exit
  <2> QED BY <1>1, <2>1
<1>10. CASE Load \/ Refuse \/ Kill \/ Panic \/ WipeDone \/ UNCHANGED vars
  <2>1. UNCHANGED files
    BY <1>10 DEF Load, Refuse, Kill, Panic, WipeDone
  <2> QED BY <1>1, <2>1
<1> QED BY <1>2, <1>3, <1>4, <1>5, <1>6, <1>7, <1>8, <1>9, <1>10
        DEF Next, Saving, Opening, Failure, Wiping

LEMMA DurableInit == ASSUME Init PROVE DG!Init
<1>1. StoreInv
  BY StoreInit
<1>2. ASSUME NEW p \in Projects, NEW g, g = Graphs(files[p])
      PROVE  g = <<>> \/ (g = <<DG!Final(g)>> /\ DG!IsGraph(DG!Final(g)))
  <2>1. CASE files[p] = <<>>
    BY <2>1, <1>1, <1>2, GraphsOf DEF StoreInv, TypeOK
  <2>2. CASE files[p] = <<SavedSeed>>
    <3>1. SavedSeed \in Image /\ ImageOK(SavedSeed) /\ SavedSeed.whole
      BY SavedSeedFits, ImageExcept, EmptyImageFits DEF SavedSeed, EmptyImage
    <3>2. g = <<GraphOf(SavedSeed)>> /\ DG!IsGraph(GraphOf(SavedSeed))
      BY <1>2, <2>2, <3>1, GraphsOne, GraphIs
    <3>3. DG!Final(g) = GraphOf(SavedSeed)
      BY <3>2 DEF DG!Final
    <3> QED BY <3>2, <3>3
  <2>3. files[p] = <<>> \/ files[p] = <<SavedSeed>>
    BY DEF Init
  <2> QED BY <2>1, <2>2, <2>3
<1> QED BY <1>2 DEF DG!Init, Graphs

\* The files keep the promise of DurableGraph, for any projects, seed, kinds and
\* bounds: whatever was committed, checkpointed, killed or lost with the power, every
\* graph a project may be found with was on screen and is one load_graph accepts
\* (db.cpp:360-616, session.cpp:35-110).
THEOREM FilesAreDurable == Spec => ImplementsDurableGraph
<1>1. Init => DG!Init
  BY DurableInit
<1>2. StoreInv /\ [Next]_vars =>
        [DG!Next]_([p \in Projects |-> [k \in 1..Len(files[p]) |-> GraphOf(files[p][k])]])
  BY DurableStep
<1> QED BY <1>1, <1>2, StoreInvariant, PTL DEF Spec, ImplementsDurableGraph, DG!Spec

================================================================================

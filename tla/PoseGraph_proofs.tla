--------------------------- MODULE PoseGraph_proofs ---------------------------
(***************************************************************************)
(* Proofs about PoseGraph, for any places, ids and numbers of commands:    *)
(* what every command, reload and crash leaves behind, that ids keep their *)
(* place, and that shortest_path finds shortest paths.                     *)
(*                                                                         *)
(* GraphInv is not inductive: what a reload makes of the file depends on   *)
(* the file.  IInv adds what a file may say: nodes that carry different    *)
(* ids, all given before, each of which is free or still has its place.    *)
(* And it adds what makes carried ids good names: no two nodes carry the   *)
(* same one, and none carries the id that another one has.                 *)
(***************************************************************************)
EXTENDS PoseGraph, FiniteSetTheorems, WellFoundedInduction, TLAPS

-----------------------------------------------------------------------------
(* The invariant, of any graph g.                                          *)

Ids == 0..MaxId

IsGraph(g) ==
  /\ g = [poseToId |-> g.poseToId, idToPose |-> g.idToPose,
          adjacency |-> g.adjacency, nextId |-> g.nextId]
  /\ g.poseToId \in [DOMAIN g.poseToId -> Ids] /\ DOMAIN g.poseToId \subseteq Nodes
  /\ g.idToPose \in [DOMAIN g.idToPose -> Nodes] /\ DOMAIN g.idToPose \subseteq Ids
  /\ g.adjacency \in [DOMAIN g.adjacency -> SUBSET Ids]
  /\ g.nextId \in 0..(MaxId + 1)

(* The two dictionaries say the same.                                      *)
Agree(g) ==
  /\ \A p \in DOMAIN g.poseToId : /\ g.poseToId[p] \in DOMAIN g.idToPose
                                  /\ g.idToPose[g.poseToId[p]] = p
  /\ \A i \in DOMAIN g.idToPose : /\ g.idToPose[i] \in DOMAIN g.poseToId
                                  /\ g.poseToId[g.idToPose[i]] = i

(* Edges have ends, and a node filed under the id it carries has a list of *)
(* edges.                                                                  *)
Edges(g) ==
  /\ DOMAIN g.adjacency \subseteq DOMAIN g.idToPose
  /\ \A i \in DOMAIN g.adjacency : g.adjacency[i] \subseteq DOMAIN g.idToPose
  /\ \A i \in DOMAIN g.idToPose : g.idToPose[i].id = i => i \in DOMAIN g.adjacency

(* Ids that are had or carried were given before, and name one node.       *)
Names(g) ==
  /\ \A p \in DOMAIN g.poseToId : p.id < g.nextId /\ g.poseToId[p] < g.nextId
  /\ \A p, q \in DOMAIN g.poseToId : p.id \in {q.id, g.poseToId[q]} => p = q

Sound(g) == IsGraph(g) /\ Agree(g) /\ Edges(g) /\ Names(g)

(* What a file that says c may be loaded beside g: ids of c were given     *)
(* before, and name the same node in g or none.                            *)
Backed(c, g) ==
  /\ c \in Files
  /\ \A p, q \in c.nodes : p.id = q.id => p = q
  /\ \A p \in c.nodes : /\ p.id < g.nextId
                        /\ p.id \in DOMAIN g.idToPose => g.idToPose[p.id] = p

IInv ==
  /\ Sound(graph) /\ CarriesItsId
  /\ previous \in DOMAIN graph.poseToId \cup {NoNode}
  /\ \A c \in {file, writing} : c # Torn => Backed(c, graph)
  /\ commands \in 0..MaxCommands /\ orphans \subseteq Nodes

(* h names with g's ids what g names, and with other ids only new ones.    *)
Keeps(g, h) ==
  /\ g.nextId <= h.nextId
  /\ \A i \in DOMAIN h.idToPose :
       IF i \in DOMAIN g.idToPose THEN h.idToPose[i] = g.idToPose[i]
       ELSE i >= g.nextId

(* A pose h has under an id that it does not carry, g has there, too.      *)
Carries(g, h) ==
  \A p \in DOMAIN h.poseToId :
    \/ h.poseToId[p] = p.id
    \/ p \in DOMAIN g.poseToId /\ h.poseToId[p] = g.poseToId[p]

-----------------------------------------------------------------------------
(* Numbers.                                                                *)

(* Every set of natural numbers that is not empty has a least element.     *)
LEMMA LeastNumber ==
  ASSUME NEW S \in SUBSET Nat, S # {}
  PROVE  \E n \in S : \A m \in S : n <= m
  <1>. DEFINE R == {p \in Nat \X Nat : p[1] < p[2]}
  <1>1. IsWellFoundedOn(R, Nat)
    BY NatLessThanWellFounded DEF OpToRel
  <1>2. PICK n \in S : \A m \in S : <<m, n>> \notin R
    <2>. HIDE DEF R
    <2>. QED
      BY <1>1, WFMin
  <1>3. \A m \in S : <<m, n>> \in R <=> m < n
    OBVIOUS
  <1>. HIDE DEF R
  <1>4. ASSUME NEW m \in S PROVE n <= m
    <2>1. ~(m < n) /\ m \in Nat /\ n \in Nat
      BY <1>2, <1>3
    <2>. QED
      BY <2>1
  <1>. QED
    BY <1>4

(* NextAfter goes on after the largest id.                                 *)
LEMMA NextAfterFacts ==
  ASSUME NEW S \in SUBSET Ids
  PROVE  NextAfter(S) \in 0..(MaxId + 1) /\ \A i \in S : i < NextAfter(S)
  <1>. DEFINE Above == {n \in Nat : \A i \in S : i <= n}
  <1>1. MaxId \in Nat
    BY GraphAssumption
  <1>2. PICK n \in Above : \A m \in Above : n <= m
    <2>1. Above \in SUBSET Nat /\ MaxId \in Above
      BY <1>1 DEF Ids
    <2>. QED
      BY <2>1, LeastNumber
  <1>3. ASSUME S # {} PROVE n \in S
    <2>1. SUFFICES ASSUME n \notin S PROVE FALSE
      OBVIOUS
    <2>2. PICK i \in S : i <= n
      BY <1>3
    <2>3. n - 1 \in Above
      BY <1>1, <2>1, <2>2 DEF Ids
    <2>. QED
      BY <1>2, <2>3
  <1>4. ASSUME S # {}
        PROVE  \E i \in S : NextAfter(S) = 1 + i /\ \A j \in S : j <= i
    <2>. DEFINE top == CHOOSE i \in S : \A j \in S : j <= i
    <2>1. top \in S /\ \A j \in S : j <= top
      BY <1>3, <1>4
    <2>. QED
      BY <1>4, <2>1 DEF NextAfter
  <1>. QED
    BY <1>1, <1>4 DEF NextAfter, Ids

-----------------------------------------------------------------------------
(* The operations of the class keep a graph sound.                         *)

(* The empty graph is sound.                                               *)
LEMMA EmptyIsSound == Sound(EmptyGraph) /\ DOMAIN EmptyGraph.poseToId = {}
                      /\ DOMAIN EmptyGraph.idToPose = {}
  <1>1. DOMAIN Nothing = {} /\ \A S : Nothing \in [{} -> S]
    BY DEF Nothing
  <1>2. /\ EmptyGraph.poseToId = Nothing /\ EmptyGraph.idToPose = Nothing
        /\ EmptyGraph.adjacency = Nothing /\ EmptyGraph.nextId = 0
        /\ EmptyGraph = [poseToId |-> Nothing, idToPose |-> Nothing,
                         adjacency |-> Nothing, nextId |-> 0]
    BY DEF EmptyGraph
  <1>. QED
    BY <1>1, <1>2, GraphAssumption DEF Sound, IsGraph, Agree, Edges, Names

(* add_node                                                                *)
LEMMA AddNodeFacts ==
  ASSUME NEW g, Sound(g), g.nextId <= MaxId, NEW s \in Spots,
         NEW added \in AddNode(g, s)
  PROVE  /\ Sound(added.graph) /\ Keeps(g, added.graph) /\ Carries(g, added.graph)
         /\ added.node \in DOMAIN added.graph.poseToId
         /\ DOMAIN g.poseToId \subseteq DOMAIN added.graph.poseToId
  <1>. DEFINE same == {p \in Nearby(g) : p.spot = s}
              node == NewNode(g, s)
              h == [poseToId  |-> Put(g.poseToId, node, g.nextId),
                    idToPose  |-> Put(g.idToPose, g.nextId, node),
                    adjacency |-> Put(g.adjacency, g.nextId, {}),
                    nextId    |-> g.nextId + 1]
  <1>1. /\ IsGraph(g) /\ Agree(g) /\ Edges(g) /\ Names(g)
        /\ MaxId \in Nat /\ g.nextId \in Ids
        /\ g.poseToId \in [DOMAIN g.poseToId -> Ids]
        /\ g.idToPose \in [DOMAIN g.idToPose -> Nodes]
        /\ g.adjacency \in [DOMAIN g.adjacency -> SUBSET Ids]
    BY GraphAssumption DEF Sound, IsGraph, Ids
  <1>2. CASE \E p \in same : added = [graph |-> g, node |-> p]
    <2>1. PICK p \in same : added = [graph |-> g, node |-> p]
      BY <1>2
    <2>2. added.graph = g /\ added.node \in DOMAIN g.poseToId
      BY <2>1 DEF Nearby
    <2>. QED
      BY <1>1, <2>2 DEF Keeps, Carries, IsGraph
  <1>3. CASE added = [graph |-> h, node |-> node]
    <2>1. added.graph = h /\ added.node = node
      BY <1>3
    <2>2. node \in Nodes /\ node.id = g.nextId /\ {} \in SUBSET Ids
      BY <1>1 DEF NewNode, Nodes, Ids
    <2>3. /\ h.poseToId = Put(g.poseToId, node, g.nextId)
          /\ h.idToPose = Put(g.idToPose, g.nextId, node)
          /\ h.adjacency = Put(g.adjacency, g.nextId, {})
          /\ h.nextId = g.nextId + 1
      OBVIOUS
    <2>4. h = [poseToId |-> h.poseToId, idToPose |-> h.idToPose,
               adjacency |-> h.adjacency, nextId |-> h.nextId]
      OBVIOUS
    <2>. HIDE DEF node, h
    <2>5. /\ DOMAIN h.poseToId = DOMAIN g.poseToId \cup {node}
          /\ h.poseToId[node] = g.nextId
          /\ \A p \in DOMAIN g.poseToId \ {node} : h.poseToId[p] = g.poseToId[p]
          /\ h.poseToId \in [DOMAIN h.poseToId -> Ids]
      BY <1>1, <2>3 DEF Put
    <2>6. /\ DOMAIN h.idToPose = DOMAIN g.idToPose \cup {g.nextId}
          /\ h.idToPose[g.nextId] = node
          /\ \A i \in DOMAIN g.idToPose \ {g.nextId} : h.idToPose[i] = g.idToPose[i]
          /\ h.idToPose \in [DOMAIN h.idToPose -> Nodes]
      BY <1>1, <2>2, <2>3 DEF Put
    <2>7. /\ DOMAIN h.adjacency = DOMAIN g.adjacency \cup {g.nextId}
          /\ h.adjacency[g.nextId] = {}
          /\ \A i \in DOMAIN g.adjacency \ {g.nextId} : h.adjacency[i] = g.adjacency[i]
          /\ h.adjacency \in [DOMAIN h.adjacency -> SUBSET Ids]
      BY <1>1, <2>3 DEF Put
    <2>8. g.nextId \notin DOMAIN g.idToPose /\ node \notin DOMAIN g.poseToId
      BY <1>1, <2>2 DEF Agree, Names, IsGraph, Nodes, Ids
    <2>9. IsGraph(h)
      BY <1>1, <2>2, <2>3, <2>4, <2>5, <2>6, <2>7 DEF IsGraph, Ids
    <2>10. Agree(h)
      BY <1>1, <2>5, <2>6, <2>8 DEF Agree
    <2>11. Edges(h)
      BY <1>1, <2>6, <2>7, <2>8 DEF Edges
    <2>12. Names(h)
      BY <1>1, <2>2, <2>3, <2>5, <2>8 DEF Names, IsGraph, Nodes, Ids
    <2>. QED
      BY <1>1, <2>1, <2>2, <2>3, <2>5, <2>6, <2>8, <2>9, <2>10, <2>11, <2>12
         DEF Sound, Keeps, Carries, Ids
  <1>. QED
    BY <1>2, <1>3 DEF AddNode

(* add_edge and delete_edge: only edges change.                            *)
LEMMA EdgeFacts ==
  ASSUME NEW g, Sound(g), NEW a, a \in [DOMAIN a -> SUBSET (DOMAIN g.idToPose)],
         DOMAIN g.adjacency \subseteq DOMAIN a, DOMAIN a \subseteq DOMAIN g.idToPose,
         NEW h, h = [g EXCEPT !.adjacency = a]
  PROVE  Sound(h) /\ h.poseToId = g.poseToId /\ h.idToPose = g.idToPose
         /\ h.nextId = g.nextId
  <1>1. /\ h.poseToId = g.poseToId /\ h.idToPose = g.idToPose
        /\ h.nextId = g.nextId /\ h.adjacency = a
        /\ h = [poseToId |-> h.poseToId, idToPose |-> h.idToPose,
                adjacency |-> h.adjacency, nextId |-> h.nextId]
    BY DEF Sound, IsGraph
  <1>2. a \in [DOMAIN a -> SUBSET Ids]
    BY DEF Sound, IsGraph
  <1>. QED
    BY <1>1, <1>2 DEF Sound, IsGraph, Agree, Edges, Names

LEMMA AddEdgeFacts ==
  ASSUME NEW g, Sound(g), NEW s, NEW t, NEW h, h = AddEdge(g, s, t)
  PROVE  Sound(h) /\ h.poseToId = g.poseToId /\ h.idToPose = g.idToPose
         /\ h.nextId = g.nextId
  <1>. DEFINE old == g.adjacency
              a == Put(old, s, (IF s \in DOMAIN old THEN old[s] ELSE {}) \cup {t})
  <1>1. CASE {s, t} \subseteq DOMAIN g.idToPose
    <2>1. h = [g EXCEPT !.adjacency = a]
      BY <1>1 DEF AddEdge
    <2>2. old \in [DOMAIN old -> SUBSET (DOMAIN g.idToPose)]
          /\ DOMAIN old \subseteq DOMAIN g.idToPose
      BY DEF Sound, IsGraph, Edges
    <2>3. a \in [DOMAIN a -> SUBSET (DOMAIN g.idToPose)]
          /\ DOMAIN old \subseteq DOMAIN a /\ DOMAIN a \subseteq DOMAIN g.idToPose
      BY <1>1, <2>2 DEF Put
    <2>. HIDE DEF a
    <2>. QED
      BY <2>1, <2>3, EdgeFacts
  <1>2. CASE ~({s, t} \subseteq DOMAIN g.idToPose)
    BY <1>2 DEF AddEdge
  <1>. QED
    BY <1>1, <1>2

LEMMA DeleteEdgeFacts ==
  ASSUME NEW g, Sound(g), NEW s, NEW t, NEW h, h = DeleteEdge(g, s, t)
  PROVE  Sound(h) /\ h.poseToId = g.poseToId /\ h.idToPose = g.idToPose
         /\ h.nextId = g.nextId
  <1>. DEFINE a == [g.adjacency EXCEPT ![s] = @ \ {t}]
  <1>1. CASE s \in DOMAIN g.adjacency
    <2>1. h = [g EXCEPT !.adjacency = a]
      BY <1>1 DEF DeleteEdge, Sound, IsGraph
    <2>2. a \in [DOMAIN a -> SUBSET (DOMAIN g.idToPose)] /\ DOMAIN a = DOMAIN g.adjacency
      BY DEF Sound, IsGraph, Edges
    <2>3. DOMAIN a \subseteq DOMAIN g.idToPose
      BY <2>2 DEF Sound, Edges
    <2>. HIDE DEF a
    <2>. QED
      BY <2>1, <2>2, <2>3, EdgeFacts
  <1>2. CASE s \notin DOMAIN g.adjacency
    BY <1>2 DEF DeleteEdge
  <1>. QED
    BY <1>1, <1>2

(* delete_node                                                             *)
LEMMA DeleteNodeFacts ==
  ASSUME NEW g, Sound(g), NEW n, NEW h, h = DeleteNode(g, n)
  PROVE  /\ Sound(h) /\ Keeps(g, h) /\ Carries(g, h) /\ h.nextId = g.nextId
         /\ DOMAIN h.poseToId \subseteq DOMAIN g.poseToId
         /\ \A p \in DOMAIN h.poseToId : h.poseToId[p] = g.poseToId[p]
  <1>1. /\ IsGraph(g) /\ Agree(g) /\ Edges(g) /\ Names(g) /\ MaxId \in Nat
    BY GraphAssumption DEF Sound
  <1>2. CASE n \in DOMAIN g.idToPose
    <2>1. /\ h.idToPose = Without(g.idToPose, n)
          /\ h.poseToId = Without(g.poseToId, g.idToPose[n])
          /\ h.adjacency = [i \in DOMAIN g.adjacency \ {n} |-> g.adjacency[i] \ {n}]
          /\ h.nextId = g.nextId
          /\ h = [poseToId |-> h.poseToId, idToPose |-> h.idToPose,
                  adjacency |-> h.adjacency, nextId |-> h.nextId]
      BY <1>1, <1>2 DEF DeleteNode, IsGraph
    <2>2. /\ DOMAIN h.poseToId = DOMAIN g.poseToId \ {g.idToPose[n]}
          /\ \A p \in DOMAIN h.poseToId : h.poseToId[p] = g.poseToId[p]
          /\ h.poseToId \in [DOMAIN h.poseToId -> Ids]
      BY <1>1, <2>1 DEF Without, IsGraph
    <2>3. /\ DOMAIN h.idToPose = DOMAIN g.idToPose \ {n}
          /\ \A i \in DOMAIN h.idToPose : h.idToPose[i] = g.idToPose[i]
          /\ h.idToPose \in [DOMAIN h.idToPose -> Nodes]
      BY <1>1, <2>1 DEF Without, IsGraph
    <2>4. /\ DOMAIN h.adjacency = DOMAIN g.adjacency \ {n}
          /\ \A i \in DOMAIN h.adjacency : h.adjacency[i] = g.adjacency[i] \ {n}
          /\ h.adjacency \in [DOMAIN h.adjacency -> SUBSET Ids]
      BY <1>1, <2>1 DEF IsGraph
    <2>5. IsGraph(h)
      BY <1>1, <2>1, <2>2, <2>3, <2>4 DEF IsGraph
    <2>6. Agree(h)
      BY <1>1, <1>2, <2>2, <2>3 DEF Agree
    <2>7. Edges(h)
      BY <1>1, <2>3, <2>4 DEF Edges
    <2>8. Names(h)
      BY <1>1, <2>1, <2>2 DEF Names
    <2>. QED
      BY <1>1, <2>1, <2>2, <2>3, <2>5, <2>6, <2>7, <2>8
         DEF Sound, Keeps, Carries, IsGraph
  <1>3. CASE n \notin DOMAIN g.idToPose
    BY <1>1, <1>3 DEF DeleteNode, Sound, Keeps, Carries, IsGraph
  <1>. QED
    BY <1>2, <1>3

(* _get_or_assign_id of a pose that was in the graph before: it is there,  *)
(* or put back under the next id.                                          *)
LEMMA ComesBack ==
  ASSUME NEW g, Sound(g), NEW n, NEW h, h = DeleteNode(g, n),
         NEW p \in DOMAIN g.poseToId,
         NEW k, k = GetOrAssign(h, p), k.nextId <= MaxId + 1
  PROVE  /\ Sound(k) /\ Keeps(h, k) /\ p \in DOMAIN k.poseToId
         /\ \A q \in DOMAIN k.poseToId :
              \/ q = p /\ p \notin DOMAIN h.poseToId
              \/ q \in DOMAIN h.poseToId /\ k.poseToId[q] = h.poseToId[q]
  <1>1. /\ IsGraph(h) /\ Agree(h) /\ Edges(h) /\ Names(h) /\ h.nextId = g.nextId
        /\ DOMAIN h.poseToId \subseteq DOMAIN g.poseToId
        /\ \A q \in DOMAIN h.poseToId : h.poseToId[q] = g.poseToId[q]
    BY DeleteNodeFacts DEF Sound
  <1>2. IsGraph(g) /\ Names(g) /\ MaxId \in Nat
    BY GraphAssumption DEF Sound
  <1>3. CASE p \in DOMAIN h.poseToId
    BY <1>1, <1>3 DEF GetOrAssign, Sound, Keeps, IsGraph
  <1>4. CASE p \notin DOMAIN h.poseToId
    <2>1. /\ k.poseToId = Put(h.poseToId, p, h.nextId)
          /\ k.idToPose = Put(h.idToPose, h.nextId, p)
          /\ k.adjacency = h.adjacency /\ k.nextId = h.nextId + 1
          /\ k = [poseToId |-> k.poseToId, idToPose |-> k.idToPose,
                  adjacency |-> k.adjacency, nextId |-> k.nextId]
      BY <1>1, <1>4 DEF GetOrAssign, IsGraph
    <2>2. p \in Nodes /\ p.id < h.nextId /\ h.nextId \in Ids
      BY <1>1, <1>2, <2>1 DEF IsGraph, Names, Ids
    <2>3. /\ DOMAIN k.poseToId = DOMAIN h.poseToId \cup {p}
          /\ k.poseToId[p] = h.nextId
          /\ \A q \in DOMAIN h.poseToId \ {p} : k.poseToId[q] = h.poseToId[q]
          /\ k.poseToId \in [DOMAIN k.poseToId -> Ids]
      BY <1>1, <2>1, <2>2 DEF Put, IsGraph
    <2>4. /\ DOMAIN k.idToPose = DOMAIN h.idToPose \cup {h.nextId}
          /\ k.idToPose[h.nextId] = p
          /\ \A i \in DOMAIN h.idToPose \ {h.nextId} : k.idToPose[i] = h.idToPose[i]
          /\ k.idToPose \in [DOMAIN k.idToPose -> Nodes]
      BY <1>1, <2>1, <2>2 DEF Put, IsGraph
    <2>5. h.nextId \notin DOMAIN h.idToPose
      BY <1>1 DEF Agree, Names, IsGraph
    <2>6. IsGraph(k)
      BY <1>1, <1>2, <2>1, <2>2, <2>3, <2>4 DEF IsGraph, Ids
    <2>7. Agree(k)
      BY <1>1, <1>4, <2>3, <2>4, <2>5 DEF Agree
    <2>8. Edges(k)
      BY <1>1, <2>1, <2>2, <2>4, <2>5 DEF Edges, Nodes, Ids
    <2>9. Names(k)
      <3>1. \A q \in DOMAIN h.poseToId :
              p.id \notin {q.id, h.poseToId[q]} /\ q.id < h.nextId /\ q.id \in Nat
              /\ h.poseToId[q] < h.nextId /\ h.poseToId[q] \in Nat
        BY <1>1, <1>2, <1>4 DEF Names, IsGraph, Nodes, Ids
      <3>2. p.id \in Nat /\ h.nextId \in Nat
        BY <2>2 DEF Nodes, Ids
      <3>3. \A q \in DOMAIN k.poseToId : q.id < k.nextId /\ k.poseToId[q] < k.nextId
        BY <1>4, <2>1, <2>2, <2>3, <3>1, <3>2
      <3>. QED
        BY <1>1, <1>4, <2>2, <2>3, <3>1, <3>2, <3>3 DEF Names
    <2>. QED
      BY <1>1, <1>4, <2>1, <2>2, <2>3, <2>4, <2>5, <2>6, <2>7, <2>8, <2>9
         DEF Sound, Keeps, Ids
  <1>. QED
    BY <1>3, <1>4

-----------------------------------------------------------------------------
(* The file.                                                               *)

(* What is saved may be loaded beside the graph, and beside any that keeps *)
(* its ids.                                                                *)
LEMMA ContentsFacts ==
  ASSUME NEW g, Sound(g)
  PROVE  Backed(Contents(g), g)
  <1>. DEFINE edges == {e \in (DOMAIN g.adjacency) \X (DOMAIN g.idToPose) :
                          e[2] \in g.adjacency[e[1]]}
  <1>1. Contents(g).nodes = DOMAIN g.poseToId /\ Contents(g).edges = edges
        /\ Contents(g) = [nodes |-> DOMAIN g.poseToId, edges |-> edges]
    BY DEF Contents
  <1>2. edges \subseteq Ids \X Ids /\ DOMAIN g.poseToId \subseteq Nodes
    BY DEF Sound, IsGraph, Edges
  <1>. HIDE DEF edges
  <1>3. Contents(g) \in Files
    BY <1>1, <1>2 DEF Files, Ids
  <1>. QED
    BY <1>1, <1>3 DEF Backed, Sound, Agree, Names

LEMMA BackedFacts ==
  ASSUME NEW c, NEW g, NEW h, Backed(c, g), Keeps(g, h), IsGraph(g), IsGraph(h)
  PROVE  Backed(c, h)
  <1>1. MaxId \in Nat /\ g.nextId \in Nat /\ h.nextId \in Nat
        /\ \A p \in c.nodes : p.id \in Nat
    BY GraphAssumption DEF Backed, Files, Nodes, IsGraph
  <1>. QED
    BY <1>1 DEF Backed, Keeps

(* load_from_file                                                          *)
LEMMA LoadFacts ==
  ASSUME NEW c, NEW g, Backed(c, g), NEW h, h = LoadContents(c)
  PROVE  /\ Sound(h) /\ Backed(c, h)
         /\ \A p \in DOMAIN h.poseToId : h.poseToId[p] = p.id
         /\ \A i \in DOMAIN h.idToPose \cap DOMAIN g.idToPose :
              h.idToPose[i] = g.idToPose[i]
  <1>. DEFINE ids == {p.id : p \in c.nodes}
  <1>1. /\ h.poseToId = [p \in c.nodes |-> p.id]
        /\ h.idToPose = [i \in ids |-> CHOOSE p \in c.nodes : p.id = i]
        /\ h.adjacency = [i \in ids |-> {t \in ids : <<i, t>> \in c.edges}]
        /\ h.nextId = NextAfter(ids)
        /\ h = [poseToId |-> h.poseToId, idToPose |-> h.idToPose,
                adjacency |-> h.adjacency, nextId |-> h.nextId]
    BY DEF LoadContents
  <1>2. /\ c.nodes \subseteq Nodes /\ ids \subseteq Ids
        /\ \A p, q \in c.nodes : p.id = q.id => p = q
    BY DEF Backed, Files, Nodes, Ids
  <1>3. \A p \in c.nodes : (CHOOSE q \in c.nodes : q.id = p.id) = p
    BY <1>2
  <1>4. /\ DOMAIN h.poseToId = c.nodes
        /\ \A p \in c.nodes : h.poseToId[p] = p.id /\ p.id \in ids
    BY <1>1
  <1>5. /\ DOMAIN h.idToPose = ids
        /\ \A p \in c.nodes : h.idToPose[p.id] = p
    BY <1>1, <1>3
  <1>6. \A i \in ids : h.idToPose[i] \in c.nodes /\ h.idToPose[i].id = i
    BY <1>5
  <1>7. /\ DOMAIN h.adjacency = ids
        /\ \A i \in ids : h.adjacency[i] \subseteq ids
    BY <1>1
  <1>8. h.nextId \in 0..(MaxId + 1) /\ \A i \in ids : i < h.nextId
    BY <1>1, <1>2, NextAfterFacts
  <1>9. IsGraph(h)
    <2>1. h.poseToId \in [DOMAIN h.poseToId -> Ids]
      BY <1>1, <1>2, <1>4
    <2>2. h.idToPose \in [DOMAIN h.idToPose -> Nodes]
      BY <1>1, <1>2, <1>5, <1>6
    <2>3. h.adjacency \in [DOMAIN h.adjacency -> SUBSET Ids]
      BY <1>1, <1>2, <1>7
    <2>. HIDE DEF ids
    <2>. QED
      BY <1>1, <1>2, <1>4, <1>5, <1>8, <2>1, <2>2, <2>3 DEF IsGraph
  <1>. HIDE DEF ids
  <1>10. Agree(h)
    BY <1>4, <1>5, <1>6 DEF Agree
  <1>11. Edges(h)
    BY <1>5, <1>7 DEF Edges
  <1>12. Names(h)
    BY <1>2, <1>4, <1>8 DEF Names
  <1>13. Backed(c, h)
    BY <1>4, <1>5, <1>8 DEF Backed
  <1>. QED
    BY <1>4, <1>5, <1>6, <1>9, <1>10, <1>11, <1>12, <1>13 DEF Sound, Backed

(* A graph whose nodes carry the ids they have survives a save and a       *)
(* reload.                                                                 *)
LEMMA SoundSurvives ==
  ASSUME Sound(graph)
  PROVE  RoundTrip
  <1>. DEFINE c == Contents(graph)
              ids == {p.id : p \in c.nodes}
              h == LoadContents(c)
  <1>. SUFFICES ASSUME \A p \in DOMAIN graph.poseToId : graph.poseToId[p] = p.id
                PROVE  [h EXCEPT !.nextId = graph.nextId] = graph
    BY DEF RoundTrip
  <1>1. IsGraph(graph) /\ Agree(graph) /\ Edges(graph) /\ Names(graph)
    BY DEF Sound
  <1>2. /\ h.poseToId = [p \in c.nodes |-> p.id]
        /\ h.idToPose = [i \in ids |-> CHOOSE p \in c.nodes : p.id = i]
        /\ h.adjacency = [i \in ids |-> {t \in ids : <<i, t>> \in c.edges}]
        /\ h = [poseToId |-> h.poseToId, idToPose |-> h.idToPose,
                adjacency |-> h.adjacency, nextId |-> h.nextId]
    BY DEF LoadContents
  <1>3. /\ c.nodes = DOMAIN graph.poseToId
        /\ c.edges = {e \in (DOMAIN graph.adjacency) \X (DOMAIN graph.idToPose) :
                        e[2] \in graph.adjacency[e[1]]}
    BY DEF Contents
  <1>4. ids = DOMAIN graph.idToPose /\ ids = DOMAIN graph.adjacency
    BY <1>1, <1>3 DEF Agree, Edges
  <1>5. h.poseToId = graph.poseToId
    BY <1>1, <1>2, <1>3 DEF IsGraph
  <1>6. h.idToPose = graph.idToPose
    <2>1. \A i \in ids : (CHOOSE p \in c.nodes : p.id = i) = graph.idToPose[i]
      BY <1>1, <1>3, <1>4 DEF Agree, Names
    <2>2. h.idToPose = [i \in ids |-> graph.idToPose[i]]
      BY <1>2, <2>1
    <2>3. graph.idToPose = [i \in ids |-> graph.idToPose[i]]
      BY <1>1, <1>4 DEF IsGraph
    <2>. QED
      BY <2>2, <2>3
  <1>7. h.adjacency = graph.adjacency
    <2>1. \A i \in ids : {t \in ids : <<i, t>> \in c.edges} = graph.adjacency[i]
      BY <1>1, <1>3, <1>4 DEF Edges
    <2>. QED
      BY <1>1, <1>2, <1>4, <2>1 DEF IsGraph
  <1>. HIDE DEF h
  <1>. QED
    BY <1>1, <1>2, <1>5, <1>6, <1>7 DEF IsGraph

-----------------------------------------------------------------------------
(* The invariant is inductive.                                             *)

IdsKept == \A i \in DOMAIN graph.idToPose \cap DOMAIN graph'.idToPose :
             graph'.idToPose[i] = graph.idToPose[i]

LEMMA InitFacts == Init => IInv
  <1>. SUFFICES ASSUME Init PROVE IInv
    OBVIOUS
  <1>1. /\ graph = EmptyGraph /\ previous = NoNode /\ file = Torn /\ writing = Torn
        /\ commands = 0 /\ orphans = {}
    BY DEF Init
  <1>. QED
    BY <1>1, EmptyIsSound, GraphAssumption DEF IInv, CarriesItsId

(* What an edit has to see to.                                             *)
LEMMA EditFacts ==
  ASSUME IInv, Sound(graph'), Keeps(graph, graph'), CarriesItsId',
         previous' \in DOMAIN graph'.poseToId \cup {NoNode},
         \A c \in {file', writing'} :
           c = Torn \/ c \in {file, writing} \/ Backed(c, graph'),
         commands' \in 0..MaxCommands, orphans' \subseteq Nodes
  PROVE  IInv' /\ IdsKept
  <1>1. \A c \in {file', writing'} : c # Torn => Backed(c, graph')
    BY BackedFacts DEF IInv, Sound
  <1>. QED
    BY <1>1 DEF IInv, Keeps, IdsKept

(* A loaded graph is the file's.                                           *)
LEMMA ReloadFacts ==
  ASSUME IInv, graph' = Load(file), file' = file, writing' = Torn,
         previous' = NoNode, orphans' = {}, commands' \in 0..MaxCommands
  PROVE  IInv' /\ IdsKept
  <1>1. CASE file = Torn
    <2>1. graph' = EmptyGraph
      BY <1>1 DEF Load
    <2>. QED
      BY <1>1, <2>1, EmptyIsSound DEF IInv, CarriesItsId, IdsKept
  <1>2. CASE file # Torn
    <2>1. graph' = LoadContents(file) /\ Backed(file, graph)
      BY <1>2 DEF Load, IInv
    <2>2. /\ Sound(graph') /\ Backed(file, graph') /\ IdsKept
          /\ \A p \in DOMAIN graph'.poseToId : graph'.poseToId[p] = p.id
      BY <2>1, LoadFacts DEF IdsKept
    <2>. QED
      BY <2>2 DEF IInv, CarriesItsId
  <1>. QED
    BY <1>1, <1>2

LEMMA SameGraph ==
  ASSUME IInv, graph' = graph
  PROVE  Sound(graph') /\ Keeps(graph, graph')
  <1>. MaxId \in Nat /\ graph.nextId \in Nat
    BY GraphAssumption DEF IInv, Sound, IsGraph
  <1>. QED
    BY DEF IInv, Keeps

(* _add_node                                                               *)
LEMMA AddStep ==
  ASSUME IInv, NEW s \in Spots, Add(s)
  PROVE  IInv' /\ IdsKept
  <1>1. PICK added \in AddNode(graph, s) :
          LET g == added.graph
              Parents == {previous, NoNode}
                           \cup {g.idToPose[i] : i \in DOMAIN g.idToPose}
          IN  \/ \E parent \in Parents :
                   /\ graph' = IF parent = NoNode THEN g
                               ELSE Linked(g, parent, added.node)
                   /\ previous' = added.node
                   /\ Save(graph')
              \/ /\ Parents # {NoNode}
                 /\ graph' = g
                 /\ UNCHANGED <<previous, file, writing>>
    BY DEF Add
  <1>. DEFINE g == added.graph
              node == added.node
  <1>2. /\ Sound(g) /\ Keeps(graph, g) /\ Carries(graph, g)
        /\ node \in DOMAIN g.poseToId /\ DOMAIN graph.poseToId \subseteq DOMAIN g.poseToId
    BY AddNodeFacts DEF Add, IInv
  <1>3. Sound(g) /\ Agree(g) /\ orphans' = orphans /\ commands' \in 0..MaxCommands
        /\ orphans' \subseteq Nodes
    BY <1>2, GraphAssumption DEF Sound, Add, Prompt, IInv
  <1>4. ASSUME NEW parent \in DOMAIN g.poseToId, graph' = Linked(g, parent, node)
        PROVE  /\ Sound(graph') /\ graph'.poseToId = g.poseToId
               /\ graph'.idToPose = g.idToPose /\ graph'.nextId = g.nextId
    <2>. DEFINE i == g.poseToId[parent]
                j == g.poseToId[node]
                h == AddEdge(g, i, j)
    <2>1. GetOrAssign(GetOrAssign(g, parent), node) = g
      BY <1>2 DEF GetOrAssign
    <2>2. graph' = AddEdge(h, j, i)
      BY <1>4, <2>1 DEF Linked
    <2>3. Sound(h) /\ h.poseToId = g.poseToId /\ h.idToPose = g.idToPose
          /\ h.nextId = g.nextId
      BY <1>3, AddEdgeFacts
    <2>. HIDE DEF h, i, j
    <2>. QED
      BY <2>2, <2>3, AddEdgeFacts
  <1>5. CASE \E parent \in {previous, NoNode} \cup {g.idToPose[i] : i \in DOMAIN g.idToPose} :
               /\ graph' = IF parent = NoNode THEN g ELSE Linked(g, parent, node)
               /\ previous' = node
               /\ Save(graph')
    <2>1. PICK parent \in {previous, NoNode}
                          \cup {g.idToPose[i] : i \in DOMAIN g.idToPose} :
            /\ graph' = IF parent = NoNode THEN g ELSE Linked(g, parent, node)
            /\ previous' = node
            /\ Save(graph')
      BY <1>5
    <2>2. parent # NoNode => parent \in DOMAIN g.poseToId
      BY <1>2, <1>3 DEF Agree, IInv
    <2>3. /\ Sound(graph') /\ graph'.poseToId = g.poseToId
          /\ graph'.idToPose = g.idToPose /\ graph'.nextId = g.nextId
      BY <1>3, <1>4, <2>1, <2>2
    <2>. HIDE DEF g, node
    <2>4. Keeps(graph, graph') /\ CarriesItsId'
      BY <1>2, <1>3, <2>3 DEF Keeps, Carries, CarriesItsId, IInv
    <2>5. previous' \in DOMAIN graph'.poseToId
      BY <1>2, <2>1, <2>3
    <2>6. \A c \in {file', writing'} : c = Torn \/ Backed(c, graph')
      BY <2>1, <2>3, ContentsFacts DEF Save
    <2>. QED
      BY <1>3, <2>3, <2>4, <2>5, <2>6, EditFacts
  <1>6. CASE graph' = g /\ UNCHANGED <<previous, file, writing>>
    <2>. HIDE DEF g, node
    <2>1. CarriesItsId'
      BY <1>2, <1>3, <1>6 DEF Carries, CarriesItsId, IInv
    <2>2. previous' \in DOMAIN graph'.poseToId \cup {NoNode}
      BY <1>2, <1>6 DEF IInv
    <2>. QED
      BY <1>2, <1>3, <1>6, <2>1, <2>2, EditFacts
  <1>. QED
    BY <1>1, <1>5, <1>6

(* _delete_node                                                            *)
LEMMA DeleteNodeStep ==
  ASSUME IInv, NEW n \in Ids, DeleteNodeCommand(n)
  PROVE  IInv' /\ IdsKept
  <1>. DEFINE g == DeleteNode(graph, n)
              h == IF previous = NoNode THEN g ELSE GetOrAssign(g, previous)
  <1>1. /\ graph' = h /\ Save(g) /\ h.nextId <= MaxId + 1
        /\ orphans' = orphans \cup ({previous} \ ({NoNode} \cup DOMAIN g.poseToId))
        /\ commands' \in 0..MaxCommands /\ previous' \in {previous, NoNode}
        /\ Sound(graph) /\ orphans \subseteq Nodes
    BY GraphAssumption DEF DeleteNodeCommand, Prompt, IInv
  <1>2. /\ Sound(g) /\ Keeps(graph, g) /\ g.nextId = graph.nextId
        /\ DOMAIN g.poseToId \subseteq DOMAIN graph.poseToId
        /\ \A p \in DOMAIN g.poseToId : g.poseToId[p] = graph.poseToId[p]
    BY <1>1, DeleteNodeFacts
  <1>3. /\ Sound(h) /\ Keeps(g, h)
        /\ previous # NoNode => previous \in DOMAIN h.poseToId
        /\ \A q \in DOMAIN h.poseToId :
             \/ q = previous /\ q # NoNode /\ q \notin DOMAIN g.poseToId
             \/ q \in DOMAIN g.poseToId /\ h.poseToId[q] = g.poseToId[q]
    <2>1. CASE previous = NoNode
      <3>1. h = g /\ g.nextId \in Nat
        BY <1>2, <2>1, GraphAssumption DEF Sound, IsGraph
      <3>. HIDE DEF g, h
      <3>. QED
        BY <1>2, <2>1, <3>1 DEF Keeps
    <2>2. CASE previous # NoNode
      <3>1. previous \in DOMAIN graph.poseToId /\ h = GetOrAssign(g, previous)
        BY <2>2 DEF IInv
      <3>2. h.nextId <= MaxId + 1
        BY <1>1
      <3>. HIDE DEF h
      <3>. QED
        BY <1>1, <2>2, <3>1, <3>2, ComesBack
    <2>. QED
      BY <2>1, <2>2
  <1>. HIDE DEF g, h
  <1>4. Keeps(graph, h)
    <2>1. /\ graph.nextId \in Nat /\ g.nextId \in Nat /\ h.nextId \in Nat
          /\ DOMAIN h.idToPose \subseteq Nat
      BY <1>1, <1>2, <1>3, GraphAssumption DEF Sound, IsGraph, Ids
    <2>2. ASSUME NEW i \in DOMAIN h.idToPose
          PROVE  IF i \in DOMAIN graph.idToPose THEN h.idToPose[i] = graph.idToPose[i]
                 ELSE i >= graph.nextId
      <3>1. CASE i \in DOMAIN g.idToPose
        BY <1>2, <1>3, <3>1 DEF Keeps
      <3>2. CASE i \notin DOMAIN g.idToPose
        <4>1. i >= g.nextId /\ i \in Nat
          BY <1>3, <2>1, <3>2 DEF Keeps
        <4>2. i \notin DOMAIN graph.idToPose
          BY <1>1, <1>2, <2>1, <4>1 DEF Sound, Agree, Names, IsGraph
        <4>. QED
          BY <1>2, <4>1, <4>2
      <3>. QED
        BY <3>1, <3>2
    <2>. QED
      BY <1>2, <1>3, <2>1, <2>2 DEF Keeps
  <1>5. CarriesItsId'
    BY <1>1, <1>2, <1>3 DEF CarriesItsId, IInv
  <1>6. \A c \in {file', writing'} : c = Torn \/ Backed(c, h)
    BY <1>1, <1>2, <1>3, ContentsFacts, BackedFacts DEF Save, Sound
  <1>7. previous' \in DOMAIN h.poseToId \cup {NoNode}
    BY <1>1, <1>3
  <1>8. orphans' \subseteq Nodes
    BY <1>1 DEF IInv, Sound, IsGraph
  <1>. QED
    BY <1>1, <1>3, <1>4, <1>5, <1>6, <1>7, <1>8, EditFacts

(* Every step.                                                             *)
LEMMA StepFacts ==
  ASSUME IInv, [Next]_vars
  PROVE  IInv' /\ IdsKept
  <1>1. /\ Sound(graph) /\ CarriesItsId /\ orphans \subseteq Nodes
        /\ previous \in DOMAIN graph.poseToId \cup {NoNode}
        /\ commands \in 0..MaxCommands /\ MaxCommands \in Nat
    BY GraphAssumption DEF IInv
  <1>2. ASSUME NEW s \in Spots, Add(s) PROVE IInv' /\ IdsKept
    BY <1>2, AddStep
  <1>3. CASE SetParent
    <2>1. /\ UNCHANGED <<graph, file, writing, orphans>>
          /\ previous' \in DOMAIN graph.poseToId \cup {NoNode}
          /\ commands' \in 0..MaxCommands
      BY <1>1, <1>3 DEF SetParent, Prompt
    <2>2. CarriesItsId'
      BY <1>1, <2>1 DEF CarriesItsId
    <2>. QED
      BY <1>1, <2>1, <2>2, SameGraph, EditFacts
  <1>4. ASSUME commands' \in 0..MaxCommands, Sound(graph'), Save(graph'),
               graph'.poseToId = graph.poseToId, graph'.idToPose = graph.idToPose,
               graph'.nextId = graph.nextId, UNCHANGED <<previous, orphans>>
        PROVE  IInv' /\ IdsKept
    <2>1. CarriesItsId' /\ previous' \in DOMAIN graph'.poseToId \cup {NoNode}
      BY <1>1, <1>4 DEF CarriesItsId
    <2>2. graph.nextId \in Nat
      BY <1>1, GraphAssumption DEF Sound, IsGraph
    <2>3. Keeps(graph, graph')
      BY <1>4, <2>2 DEF Keeps
    <2>4. \A c \in {file', writing'} : c = Torn \/ Backed(c, graph')
      BY <1>4, ContentsFacts DEF Save
    <2>. QED
      BY <1>1, <1>4, <2>1, <2>3, <2>4, EditFacts
  <1>5. ASSUME NEW s \in Ids, NEW t \in Ids, AddEdgeCommand(s, t)
        PROVE  IInv' /\ IdsKept
    <2>1. /\ graph' = AddEdge(graph, graph.idToPose[s].id, graph.idToPose[t].id)
          /\ Save(graph') /\ UNCHANGED <<previous, orphans>>
          /\ commands' \in 0..MaxCommands
      BY <1>1, <1>5 DEF AddEdgeCommand, Prompt
    <2>. QED
      BY <1>1, <1>4, <2>1, AddEdgeFacts
  <1>6. ASSUME NEW s \in Ids, NEW t \in Ids, DeleteEdgeCommand(s, t)
        PROVE  IInv' /\ IdsKept
    <2>1. /\ graph' = DeleteEdge(graph, s, t)
          /\ Save(graph') /\ UNCHANGED <<previous, orphans>>
          /\ commands' \in 0..MaxCommands
      BY <1>1, <1>6 DEF DeleteEdgeCommand, Prompt
    <2>. QED
      BY <1>1, <1>4, <2>1, DeleteEdgeFacts
  <1>7. ASSUME NEW n \in Ids, DeleteNodeCommand(n) PROVE IInv' /\ IdsKept
    BY <1>7, DeleteNodeStep
  <1>8. CASE SaveCommand
    <2>1. /\ graph' = graph /\ Save(graph') /\ UNCHANGED <<previous, orphans>>
          /\ commands' \in 0..MaxCommands
      BY <1>1, <1>8 DEF SaveCommand, Prompt
    <2>. QED
      BY <1>1, <1>4, <2>1
  <1>9. CASE Reload
    <2>1. /\ graph' = Load(file) /\ file' = file /\ writing' = Torn
          /\ previous' = NoNode /\ orphans' = {} /\ commands' \in 0..MaxCommands
      BY <1>1, <1>9 DEF Reload, Prompt
    <2>. QED
      BY <2>1, ReloadFacts
  <1>10. CASE NewSession
    BY <1>1, <1>10, ReloadFacts DEF NewSession
  <1>11. CASE Written
    <2>1. /\ UNCHANGED <<graph, previous, commands, orphans>>
          /\ file' = writing /\ writing' = Torn
      BY <1>11 DEF Written
    <2>2. CarriesItsId'
      BY <1>1, <2>1 DEF CarriesItsId
    <2>. QED
      BY <1>1, <2>1, <2>2, SameGraph, EditFacts
  <1>12. CASE UNCHANGED vars
    <2>1. UNCHANGED <<graph, previous, file, writing, commands, orphans>>
      BY <1>12 DEF vars
    <2>2. CarriesItsId'
      BY <1>1, <2>1 DEF CarriesItsId
    <2>. QED
      BY <1>1, <2>1, <2>2, SameGraph, EditFacts
  <1>. QED
    BY <1>2, <1>3, <1>5, <1>6, <1>7, <1>8, <1>9, <1>10, <1>11, <1>12 DEF Next, Ids

-----------------------------------------------------------------------------
(* What shortest_path returns.  The search and the reference it is held    *)
(* against are recursive; a recursive function has the value its           *)
(* definition says if there is such a function.  For one that collects     *)
(* what it finds on the way there is: the least one, which holds what      *)
(* every function that is closed under the rule holds.                     *)
Unfolds(f, D, base, next) ==
  f = [T \in D |-> base[T] \cup UNION {f[U] : U \in next[T]}]

LEMMA RecursionExists ==
  ASSUME NEW D, NEW R, NEW base \in [D -> SUBSET R], NEW next \in [D -> SUBSET D]
  PROVE  \E f \in [D -> SUBSET R] : Unfolds(f, D, base, next)
  <1>. DEFINE Body(h, T) == base[T] \cup UNION {h[U] : U \in next[T]}
              Closed(h) == \A T \in D : Body(h, T) \subseteq h[T]
              f == [T \in D |-> {x \in R : \A h \in [D -> SUBSET R] :
                                            Closed(h) => x \in h[T]}]
              g == [T \in D |-> Body(f, T)]
  <1>1. f \in [D -> SUBSET R]
    OBVIOUS
  <1>2. \A T \in D : base[T] \subseteq R /\ next[T] \subseteq D
    OBVIOUS
  <1>3. ASSUME NEW h \in [D -> SUBSET R], Closed(h), NEW T \in D
        PROVE  f[T] \subseteq h[T]
    BY <1>3
  <1>4. \A T \in D : Body(f, T) \subseteq f[T]
    <2>1. ASSUME NEW T \in D, NEW h \in [D -> SUBSET R], Closed(h)
          PROVE  Body(f, T) \subseteq h[T]
      <3>1. \A U \in next[T] : f[U] \subseteq h[U]
        <4>. HIDE DEF f, Closed
        <4>. QED BY <1>3, <2>1, <1>2
      <3>. HIDE DEF f
      <3>2. Body(f, T) \subseteq Body(h, T)
        BY <3>1
      <3>. QED
        BY <3>2, <2>1
    <2>2. ASSUME NEW T \in D PROVE Body(f, T) \subseteq R
      <3>. HIDE DEF f
      <3>. QED BY <1>1, <1>2
    <2>. HIDE DEF Body, Closed
    <2>. QED
      BY <2>1, <2>2
  <1>5. g \in [D -> SUBSET R] /\ Closed(g)
    <2>. HIDE DEF f
    <2>1. \A T \in D : g[T] = Body(f, T)
      OBVIOUS
    <2>2. g \in [D -> SUBSET R]
      BY <1>1, <1>2
    <2>. HIDE DEF g
    <2>3. ASSUME NEW T \in D PROVE Body(g, T) \subseteq Body(f, T)
      <3>1. \A U \in next[T] : g[U] \subseteq f[U]
        BY <2>1, <1>4, <1>2
      <3>. QED
        BY <3>1
    <2>. QED
      BY <2>1, <2>2, <2>3
  <1>6. \A T \in D : f[T] \subseteq Body(f, T)
    <2>. HIDE DEF f, Closed, Body
    <2>. QED BY <1>3, <1>5
  <1>. HIDE DEF f
  <1>7. f = [T \in D |-> Body(f, T)]
    BY <1>1, <1>4, <1>6
  <1>. QED
    BY <1>1, <1>7 DEF Unfolds



(* One that goes on from one state to the next until it is done.           *)
Loops(f, D, Stop, out, step) ==
  f = [s \in D |-> IF s \in Stop THEN out[s] ELSE f[step[s]]]

LEMMA LoopExists ==
  ASSUME NEW D, NEW Stop \in SUBSET D, NEW out, NEW step \in [D -> D]
  PROVE  \E f : Loops(f, D, Stop, out, step)
  <1>. DEFINE R == {out[s] : s \in D}
              base == [s \in D |-> IF s \in Stop THEN {out[s]} ELSE {}]
              next == [s \in D |-> IF s \in Stop THEN {} ELSE {step[s]}]
  <1>1. base \in [D -> SUBSET R] /\ next \in [D -> SUBSET D]
    OBVIOUS
  <1>2. PICK q : Unfolds(q, D, base, next)
    <2>. HIDE DEF base, next, R
    <2>. QED
      BY <1>1, RecursionExists
  <1>3. ASSUME NEW s \in D
        PROVE  q[s] = IF s \in Stop THEN {out[s]} ELSE q[step[s]]
    <2>1. q[s] = base[s] \cup UNION {q[U] : U \in next[s]}
      <3>. HIDE DEF base, next
      <3>. QED
        BY <1>2 DEF Unfolds
    <2>2. CASE s \in Stop
      BY <2>1, <2>2
    <2>3. CASE s \notin Stop
      BY <2>1, <2>3
    <2>. QED
      BY <2>2, <2>3
  <1>. DEFINE f == [s \in D |-> CHOOSE x : x \in q[s]]
  <1>4. ASSUME NEW s \in D PROVE f[s] = IF s \in Stop THEN out[s] ELSE f[step[s]]
    <2>1. CASE s \in Stop
      <3>1. q[s] = {out[s]}
        BY <1>3, <2>1
      <3>2. (CHOOSE x : x \in {out[s]}) = out[s]
        OBVIOUS
      <3>3. f[s] = out[s]
        BY <3>1, <3>2
      <3>. QED
        BY <2>1, <3>3
    <2>2. CASE s \notin Stop
      <3>1. q[s] = q[step[s]] /\ step[s] \in D
        BY <1>3, <2>2
      <3>. QED
        BY <2>2, <3>1
    <2>. QED
      BY <2>1, <2>2
  <1>5. DOMAIN f = D /\ f = [s \in D |-> f[s]]
    OBVIOUS
  <1>. HIDE DEF f
  <1>6. Loops(f, D, Stop, out, step)
    BY <1>4, <1>5 DEF Loops
  <1>. QED
    BY <1>6

(* The nodes within k edges, for any set of nodes a path may enter.        *)
Grows(W, g, start, nodes) ==
  /\ W[0] = {start}
  /\ \A k \in Nat :
       W[k + 1] = W[k] \cup {n \in nodes : \E m \in W[k] : n \in Targets(g, m)}

LEMMA WithinFacts ==
  ASSUME NEW g, NEW start \in Nat, NEW nodes
  PROVE  Grows(WithinOf(g, start, nodes), g, start, nodes)
  <1>. DEFINE N == {start} \cup nodes
              D == Nat \X N
              Enters(m, n) == n \in nodes /\ n \in Targets(g, m)
              base == [p \in D |-> IF p[1] = 0 /\ p[2] = start THEN {start} ELSE {}]
              next == [p \in D |-> IF p[1] = 0 THEN {}
                                   ELSE {<<p[1] - 1, m>> :
                                           m \in {x \in N : x = p[2] \/ Enters(x, p[2])}}]
              Body(r, k) == IF k = 0 THEN {start}
                            ELSE r[k - 1] \cup {n \in nodes :
                                                  \E m \in r[k - 1] : n \in Targets(g, m)}
              W == CHOOSE r : r = [k \in Nat |-> Body(r, k)]
  <1>1. WithinOf(g, start, nodes) = W
    BY DEF WithinOf
  <1>2. base \in [D -> SUBSET {start}] /\ next \in [D -> SUBSET D]
    OBVIOUS
  <1>3. PICK q : Unfolds(q, D, base, next)
    <2>. HIDE DEF base, next, D
    <2>. QED
      BY <1>2, RecursionExists
  <1>4. \A p \in D : q[p] = base[p] \cup UNION {q[U] : U \in next[p]}
    <2>. HIDE DEF base, next, D
    <2>. QED
      BY <1>3 DEF Unfolds
  <1>. DEFINE r == [k \in Nat |-> {n \in N : q[<<k, n>>] # {}}]
  <1>5. r[0] = {start}
    <2>1. ASSUME NEW n \in N PROVE q[<<0, n>>] = IF n = start THEN {start} ELSE {}
      <3>1. <<0, n>> \in D
        OBVIOUS
      <3>2. /\ next[<<0, n>>] = {}
            /\ base[<<0, n>>] = IF n = start THEN {start} ELSE {}
        OBVIOUS
      <3>. HIDE DEF base, next, D
      <3>3. q[<<0, n>>] = base[<<0, n>>] \cup UNION {q[U] : U \in next[<<0, n>>]}
        BY <1>4, <3>1
      <3>. QED
        BY <3>2, <3>3
    <2>. QED
      BY <2>1
  <1>6. ASSUME NEW k \in Nat, k # 0 PROVE r[k] = Body(r, k)
    <2>1. ASSUME NEW n \in N
          PROVE  q[<<k, n>>] # {} <=>
                   \E m \in N : (m = n \/ Enters(m, n)) /\ q[<<k - 1, m>>] # {}
      <3>1. base[<<k, n>>] = {}
        BY <1>6
      <3>2. next[<<k, n>>] = {<<k - 1, m>> : m \in {x \in N : x = n \/ Enters(x, n)}}
        BY <1>6
      <3>3. q[<<k, n>>] = UNION {q[U] : U \in next[<<k, n>>]}
        <4>. HIDE DEF base, next
        <4>. QED
          BY <1>4, <3>1
      <3>. HIDE DEF next, Enters
      <3>. DEFINE From == {x \in N : x = n \/ Enters(x, n)}
      <3>4. q[<<k, n>>] = UNION {q[<<k - 1, m>>] : m \in From}
        BY <3>2, <3>3
      <3>5. q[<<k, n>>] # {} <=> \E m \in From : q[<<k - 1, m>>] # {}
        BY <3>4
      <3>. QED
        BY <3>5
    <2>2. k - 1 \in Nat
      BY <1>6
    <2>3. /\ r[k - 1] = {n \in N : q[<<k - 1, n>>] # {}}
          /\ r[k] = {n \in N : q[<<k, n>>] # {}}
      BY <2>2
    <2>. HIDE DEF r
    <2>4. \A n : n \in r[k] <=> n \in Body(r, k)
      BY <1>6, <2>1, <2>3
    <2>. QED
      BY <2>4
  <1>7. r = [k \in Nat |-> Body(r, k)]
    <2>1. \A k \in Nat : r[k] = Body(r, k)
      <3>. HIDE DEF r
      <3>. QED
        BY <1>5, <1>6
    <2>. HIDE DEF Body
    <2>2. r = [k \in Nat |-> r[k]]
      OBVIOUS
    <2>. HIDE DEF r
    <2>. QED
      BY <2>1, <2>2
  <1>8. W = [k \in Nat |-> Body(W, k)]
    <2>. HIDE DEF Body, r
    <2>. QED
      BY <1>7, Zenon
  <1>. HIDE DEF W
  <1>9. W[0] = {start}
    BY <1>8
  <1>10. ASSUME NEW k \in Nat
         PROVE  W[k + 1] =
                  W[k] \cup {n \in nodes : \E m \in W[k] : n \in Targets(g, m)}
    <2>1. W[k + 1] = Body(W, k + 1)
      <3>. HIDE DEF Body
      <3>. QED
        BY <1>8
    <2>2. k + 1 # 0 /\ (k + 1) - 1 = k
      OBVIOUS
    <2>. QED
      BY <2>1, <2>2
  <1>. QED
    BY <1>1, <1>9, <1>10 DEF Grows

(* What the search reaches, which may enter node TempId.                   *)
ReachOf(g, start) == WithinOf(g, start, 0..TempId)

LEMMA ReachFacts ==
  ASSUME NEW g, NEW start \in Nat
  PROVE  /\ ReachOf(g, start)[0] = {start}
         /\ \A k \in Nat :
              ReachOf(g, start)[k + 1] =
                ReachOf(g, start)[k]
                  \cup {n \in 0..TempId : \E m \in ReachOf(g, start)[k] :
                                             n \in Targets(g, m)}
  <1>1. Grows(ReachOf(g, start), g, start, 0..TempId)
    BY WithinFacts DEF ReachOf
  <1>. QED
    BY <1>1 DEF Grows

(* It reaches all that a path through ordinary nodes leads to.             *)
LEMMA OrdinaryFacts ==
  ASSUME NEW g, NEW start \in Nat, NEW n \in Nat
  PROVE  WithinOf(g, start, Ordinary)[n] \subseteq ReachOf(g, start)[n]
  <1>. DEFINE V == WithinOf(g, start, Ordinary)   W == ReachOf(g, start)
              Wrong == {k \in Nat : ~(V[k] \subseteq W[k])}
  <1>1. Grows(V, g, start, Ordinary)
    BY WithinFacts
  <1>2. Grows(W, g, start, 0..TempId)
    BY WithinFacts DEF ReachOf
  <1>. HIDE DEF V, W
  <1>3. SUFFICES ASSUME Wrong # {} PROVE FALSE
    BY DEF V, W
  <1>4. PICK k \in Wrong : \A j \in Wrong : k <= j
    <2>1. Wrong \in SUBSET Nat
      OBVIOUS
    <2>. HIDE DEF Wrong
    <2>. QED
      BY <1>3, <2>1, LeastNumber
  <1>5. k \in Nat /\ ~(V[k] \subseteq W[k])
    OBVIOUS
  <1>6. k - 1 \in Nat /\ (k - 1) + 1 = k
    BY <1>1, <1>2, <1>5 DEF Grows
  <1>7. V[k - 1] \subseteq W[k - 1]
    <2>1. k - 1 \notin Wrong
      <3>. HIDE DEF Wrong
      <3>. QED
        BY <1>4, <1>5
    <2>. QED
      BY <1>6, <2>1
  <1>. DEFINE j == k - 1
  <1>8. /\ V[j + 1] = V[j] \cup {x \in Ordinary : \E m \in V[j] : x \in Targets(g, m)}
        /\ W[j + 1] = W[j] \cup {x \in 0..TempId : \E m \in W[j] : x \in Targets(g, m)}
    BY <1>1, <1>2, <1>6 DEF Grows
  <1>9. Ordinary \subseteq 0..TempId
    BY DEF Ordinary
  <1>. HIDE DEF Wrong
  <1>. QED
    BY <1>5, <1>6, <1>7, <1>8, <1>9

-----------------------------------------------------------------------------
(* One step of the search.                                                 *)
States == [queue : Seq(Seq(Nat)), visited : SUBSET Ids]
New(g, s) == {n \in Targets(g, Last(Head(s.queue))) \cap DOMAIN g.idToPose :
                Passable(n) /\ n \notin s.visited}
NewPaths(g, s) == [i \in 1..Cardinality(New(g, s)) |->
                     Append(Head(s.queue), SetToSeq(New(g, s))[i])]
After(g, s) == [queue   |-> Tail(s.queue) \o NewPaths(g, s),
                visited |-> s.visited \cup New(g, s)]

(* SetToSeq lists each element of a set.                                   *)
LEMMA ListFacts ==
  ASSUME NEW T, IsFiniteSet(T)
  PROVE  /\ Cardinality(T) \in Nat
         /\ SetToSeq(T) \in [1..Cardinality(T) -> T]
         /\ \A x \in T : \E i \in 1..Cardinality(T) : SetToSeq(T)[i] = x
  <1>. DEFINE n == Cardinality(T)   f == SetToSeq(T)
  <1>1. n \in Nat /\ ExistsBijection(1..n, T)
    BY FS_CardinalityType
  <1>2. \E x \in [1..n -> T] : IsInjective(x)
    BY <1>1 DEF ExistsBijection, Bijection, Injection, IsInjective
  <1>3. f \in [1..n -> T] /\ IsInjective(f)
    BY <1>2 DEF SetToSeq
  <1>. HIDE DEF f
  <1>4. f \in Injection(1..n, T)
    BY <1>3 DEF Injection, IsInjective
  <1>5. IsFiniteSet(1..n) /\ Cardinality(1..n) = n
    BY <1>1, FS_Interval
  <1>6. f \in Surjection(1..n, T)
    BY <1>4, <1>5, FS_Injection
  <1>. QED
    BY <1>1, <1>3, <1>6 DEF f, Surjection

(* The ids met for the first time are ids.                                 *)
LEMMA NewFacts ==
  ASSUME NEW g, IsGraph(g), NEW s \in States
  PROVE  New(g, s) \subseteq Ids /\ IsFiniteSet(New(g, s))
  <1>1. New(g, s) \in SUBSET Ids
    BY DEF New, IsGraph
  <1>2. IsFiniteSet(Ids)
    BY GraphAssumption, FS_Interval DEF Ids
  <1>. QED
    BY <1>1, <1>2, FS_Subset

(* The first path leaves the queue, those that go on from it enter at the  *)
(* end.                                                                    *)
LEMMA AfterFacts ==
  ASSUME NEW g, IsGraph(g), NEW s \in States, s.queue # <<>>
  PROVE  /\ After(g, s) \in States
         /\ Len(After(g, s).queue) = Len(s.queue) - 1 + Cardinality(New(g, s))
         /\ \A i \in 1..(Len(s.queue) - 1) : After(g, s).queue[i] = s.queue[i + 1]
         /\ \A i \in Len(s.queue)..Len(After(g, s).queue) :
              \E n \in New(g, s) : After(g, s).queue[i] = Append(s.queue[1], n)
         /\ \A n \in New(g, s) :
              \E i \in 1..Len(After(g, s).queue) :
                 After(g, s).queue[i] = Append(s.queue[1], n)
  <1>. DEFINE q == s.queue   h == Head(q)   N == New(g, s)   k == Cardinality(N)
              order == SetToSeq(N)   paths == NewPaths(g, s)
  <1>1. N \subseteq Ids /\ IsFiniteSet(N)
    BY NewFacts
  <1>2. k \in Nat /\ order \in [1..k -> N] /\ \A x \in N : \E i \in 1..k : order[i] = x
    BY <1>1, ListFacts
  <1>3. /\ q \in Seq(Seq(Nat)) /\ q # <<>> /\ h = q[1] /\ h \in Seq(Nat)
        /\ Len(q) \in Nat /\ Len(q) > 0
    BY DEF States
  <1>4. /\ Tail(q) \in Seq(Seq(Nat)) /\ Len(Tail(q)) = Len(q) - 1
        /\ \A i \in 1..(Len(q) - 1) : Tail(q)[i] = q[i + 1]
    BY <1>3
  <1>5. paths = [i \in 1..k |-> Append(h, order[i])]
    BY DEF NewPaths
  <1>. HIDE DEF q, h, N, k, order, paths
  <1>6. \A n \in N : Append(h, n) \in Seq(Nat)
    BY <1>1, <1>3 DEF Ids
  <1>7. /\ paths \in Seq(Seq(Nat)) /\ Len(paths) = k
        /\ \A i \in 1..k : paths[i] = Append(h, order[i])
    BY <1>2, <1>5, <1>6
  <1>. DEFINE t == Tail(q)   r == t \o paths
  <1>8. /\ r \in Seq(Seq(Nat)) /\ Len(r) = Len(q) - 1 + k
        /\ \A i \in 1..(Len(q) - 1) : r[i] = t[i]
        /\ \A i \in 1..k : r[Len(q) - 1 + i] = paths[i]
    <2>. DEFINE P == Seq(Nat)
    <2>1. /\ t \in Seq(P) /\ paths \in Seq(P)
          /\ Len(t) = Len(q) - 1 /\ Len(paths) = k
      BY <1>4, <1>7
    <2>. HIDE DEF t, P
    <2>2. /\ r \in Seq(P) /\ Len(r) = Len(t) + Len(paths)
          /\ \A i \in 1..Len(t) : r[i] = t[i]
          /\ \A i \in 1..Len(paths) : r[Len(t) + i] = paths[i]
      <3>1. ASSUME NEW a \in Seq(P), NEW b \in Seq(P)
            PROVE  /\ a \o b \in Seq(P) /\ Len(a \o b) = Len(a) + Len(b)
                   /\ \A i \in 1..Len(a) : (a \o b)[i] = a[i]
                   /\ \A i \in 1..Len(b) : (a \o b)[Len(a) + i] = b[i]
        OBVIOUS
      <3>. QED
        BY <2>1, <3>1, Zenon
    <2>. HIDE DEF r
    <2>3. r \in Seq(Seq(Nat))
      BY <2>2 DEF P
    <2>. QED
      BY <2>1, <2>2, <2>3
  <1>9. After(g, s).queue = r /\ After(g, s) = [queue |-> r, visited |-> s.visited \cup N]
    BY DEF After, q, N, paths
  <1>. HIDE DEF t, r
  <1>10. After(g, s) \in States
    BY <1>1, <1>8, <1>9 DEF States
  <1>11. \A i \in 1..(Len(q) - 1) : r[i] = q[i + 1]
    BY <1>4, <1>8 DEF t
  <1>12. ASSUME NEW i \in Len(q)..Len(r) PROVE \E n \in N : r[i] = Append(h, n)
    <2>1. /\ i - (Len(q) - 1) \in 1..k /\ i = Len(q) - 1 + (i - (Len(q) - 1))
      BY <1>2, <1>3, <1>8
    <2>2. r[i] = paths[i - (Len(q) - 1)]
      BY <1>8, <2>1
    <2>. QED
      BY <1>2, <1>7, <2>1, <2>2
  <1>13. ASSUME NEW n \in N PROVE \E i \in 1..Len(r) : r[i] = Append(h, n)
    <2>1. PICK i \in 1..k : order[i] = n
      BY <1>2
    <2>2. r[Len(q) - 1 + i] = Append(h, n)
      BY <1>7, <1>8, <2>1
    <2>3. Len(q) - 1 + i \in 1..Len(r)
      BY <1>2, <1>3, <1>8
    <2>. QED
      BY <2>2, <2>3
  <1>. QED
    BY <1>3, <1>8, <1>9, <1>10, <1>11, <1>12, <1>13 DEF q, N, k

(* The search goes on from a state to the next until it has found the goal *)
(* or has nowhere to go on.                                                *)
LEMMA SearchFacts ==
  ASSUME NEW g, IsGraph(g), NEW goal, NEW s \in States
  PROVE  Search(g, goal)[s] =
           IF s.queue = <<>> THEN <<>>
           ELSE IF Last(Head(s.queue)) = goal THEN Head(s.queue)
           ELSE Search(g, goal)[After(g, s)]
  <1>. DEFINE D == States
              Stop == {x \in D : x.queue = <<>> \/ Last(Head(x.queue)) = goal}
              out == [x \in D |-> IF x.queue = <<>> THEN <<>> ELSE Head(x.queue)]
              step == [x \in D |-> IF x \in Stop THEN x ELSE After(g, x)]
              Body(f, x) == IF x.queue = <<>> THEN <<>>
                            ELSE IF Last(Head(x.queue)) = goal THEN Head(x.queue)
                            ELSE f[After(g, x)]
              F == CHOOSE f : f = [x \in D |-> Body(f, x)]
  <1>1. Search(g, goal) = F
    BY DEF Search, After, New, NewPaths, States, Ids
  <1>2. step \in [D -> D]
    BY AfterFacts
  <1>3. PICK f : Loops(f, D, Stop, out, step)
    <2>. HIDE DEF out, step, D
    <2>. QED
      BY <1>2, LoopExists
  <1>4. f = [x \in D |-> Body(f, x)]
    <2>1. ASSUME NEW x \in D
          PROVE  (IF x \in Stop THEN out[x] ELSE f[step[x]]) = Body(f, x)
      OBVIOUS
    <2>. HIDE DEF out, step, D, Stop, Body
    <2>. QED
      BY <1>3, <2>1 DEF Loops
  <1>5. F = [x \in D |-> Body(F, x)]
    <2>. HIDE DEF D, Body
    <2>. QED
      BY <1>4, Zenon
  <1>6. F[s] = Body(F, s)
    <2>. HIDE DEF F, Body
    <2>. QED
      BY <1>5
  <1>. HIDE DEF F
  <1>. QED
    BY <1>1, <1>6

-----------------------------------------------------------------------------
(* Breadth first: the paths in the queue have d edges, or one more behind  *)
(* these; all nodes within d edges are visited; what is visited is waiting *)
(* in the queue or has had its neighbours visited; and no node is reached  *)
(* by a path with fewer edges than the queued one.                         *)
Neighbours(g, m) == Targets(g, m) \cap 0..TempId

Walk(g, start, path) ==
  /\ path \in Seq(Nat) /\ path # <<>> /\ path[1] = start
  /\ \A i \in 1..(Len(path) - 1) : path[i + 1] \in Neighbours(g, path[i])

Queued(s, m) == \E i \in 1..Len(s.queue) : Last(s.queue[i]) = m

SearchInv(g, start, goal, s, d) ==
  /\ s \in States /\ start \in s.visited
  /\ \A i \in 1..Len(s.queue) :
       LET path == s.queue[i]
       IN  /\ Walk(g, start, path) /\ Last(path) \in s.visited
           /\ Len(path) \in {d + 1, d + 2}
           /\ Len(path) > 1 => Last(path) \notin ReachOf(g, start)[Len(path) - 2]
  /\ \A i, j \in 1..Len(s.queue) : i < j => Len(s.queue[i]) <= Len(s.queue[j])
  /\ ReachOf(g, start)[d] \subseteq s.visited
  /\ \A m \in s.visited : Queued(s, m) \/ Neighbours(g, m) \subseteq s.visited
  /\ goal \in s.visited => Queued(s, goal)

(* A walk and a neighbour of its end are a walk.                           *)
LEMMA WalkFacts ==
  ASSUME NEW g, NEW start, NEW path, Walk(g, start, path), NEW n \in Nat,
         n \in Neighbours(g, Last(path))
  PROVE  /\ Walk(g, start, Append(path, n))
         /\ Last(Append(path, n)) = n /\ Len(Append(path, n)) = Len(path) + 1
  <1>. DEFINE longer == Append(path, n)
  <1>1. path \in Seq(Nat) /\ Len(path) \in Nat /\ Len(path) > 0
    BY DEF Walk
  <1>2. /\ longer \in Seq(Nat) /\ Len(longer) = Len(path) + 1
        /\ longer[Len(path) + 1] = n
        /\ \A i \in 1..Len(path) : longer[i] = path[i]
    BY <1>1
  <1>. HIDE DEF longer
  <1>3. longer # <<>> /\ longer[1] = start
    <2>1. path[1] = start /\ 1 \in 1..Len(path)
      BY <1>1 DEF Walk
    <2>2. longer[1] = start /\ Len(longer) # 0
      BY <1>1, <1>2, <2>1
    <2>. QED
      BY <2>2
  <1>4. ASSUME NEW i \in 1..(Len(longer) - 1)
        PROVE  longer[i + 1] \in Neighbours(g, longer[i])
    <2>1. CASE i = Len(path)
      BY <1>1, <1>2, <2>1 DEF Last
    <2>2. CASE i # Len(path)
      <3>1. i \in 1..(Len(path) - 1) /\ i + 1 \in 1..Len(path) /\ i \in 1..Len(path)
        BY <1>1, <1>2, <2>2
      <3>. QED
        BY <1>2, <3>1 DEF Walk
    <2>. QED
      BY <2>1, <2>2
  <1>. QED
    BY <1>2, <1>3, <1>4 DEF Walk, Last, longer

(* Everything within d edges has been visited, where paths of d edges are  *)
(* no longer in the queue.                                                 *)
LEMMA NextLevel ==
  ASSUME NEW g, NEW start \in Nat, NEW goal, NEW s, NEW d \in Nat,
         SearchInv(g, start, goal, s, d), s.queue # <<>>, Len(s.queue[1]) = d + 2
  PROVE  SearchInv(g, start, goal, s, d + 1)
  <1>. DEFINE W == ReachOf(g, start)
  <1>1. Len(s.queue) \in Nat /\ 1 \in 1..Len(s.queue)
    BY DEF SearchInv, States
  <1>2. \A i \in 1..Len(s.queue) : Len(s.queue[i]) = d + 2
    <2>1. ASSUME NEW i \in 1..Len(s.queue), i # 1 PROVE Len(s.queue[i]) = d + 2
      <3>1. Len(s.queue[1]) <= Len(s.queue[i]) /\ Len(s.queue[i]) \in {d + 1, d + 2}
        BY <1>1, <2>1 DEF SearchInv
      <3>. QED
        BY <3>1
    <2>. QED
      BY <2>1
  <1>3. ASSUME NEW n \in W[d + 1] PROVE n \in s.visited
    <2>1. CASE n \in W[d]
      BY <2>1 DEF SearchInv
    <2>2. CASE n \notin W[d]
      <3>1. PICK m \in W[d] : n \in Neighbours(g, m)
        BY <2>2, ReachFacts DEF Neighbours
      <3>2. m \in s.visited
        BY <3>1 DEF SearchInv
      <3>3. ~Queued(s, m)
        <4>1. ASSUME NEW i \in 1..Len(s.queue), Last(s.queue[i]) = m PROVE FALSE
          <5>1. Len(s.queue[i]) = d + 2 /\ d + 2 > 1 /\ (d + 2) - 2 = d
            BY <1>2
          <5>2. Last(s.queue[i]) \notin W[d]
            BY <5>1 DEF SearchInv
          <5>. QED
            BY <3>1, <4>1, <5>2
        <4>. QED
          BY <4>1 DEF Queued
      <3>. QED
        BY <3>1, <3>2, <3>3 DEF SearchInv
    <2>. QED
      BY <2>1, <2>2
  <1>. QED
    BY <1>2, <1>3 DEF SearchInv

(* The first path of the queue is replaced by those that go on from it.    *)
LEMMA SearchStep ==
  ASSUME NEW g, IsGraph(g), Edges(g), NEW start \in Nat, NEW goal, NEW s, NEW d \in Nat,
         SearchInv(g, start, goal, s, d), s.queue # <<>>, Len(s.queue[1]) = d + 1,
         Last(s.queue[1]) # goal
  PROVE  SearchInv(g, start, goal, After(g, s), d)
  <1>. DEFINE W == ReachOf(g, start)
              N == New(g, s)   t == After(g, s)   h == s.queue[1]
              p(i) == s.queue[i]   r(i) == t.queue[i]
              k == Len(s.queue)   l == Len(t.queue)
  <1>1. /\ s \in States /\ k \in Nat /\ k > 0 /\ 1 \in 1..k /\ h = Head(s.queue)
    BY DEF SearchInv, States
  <1>2. /\ t \in States /\ l \in Nat /\ k - 1 <= l
        /\ \A i \in 1..(k - 1) : r(i) = p(i + 1)
        /\ \A i \in k..l : \E n \in N : r(i) = Append(h, n)
        /\ \A n \in N : \E i \in 1..l : r(i) = Append(h, n)
    <2>1. Cardinality(N) \in Nat
      BY <1>1, NewFacts, FS_CardinalityType
    <2>2. /\ l = k - 1 + Cardinality(N) /\ t \in States
          /\ \A i \in 1..(k - 1) : r(i) = p(i + 1)
          /\ \A i \in k..l : \E n \in N : r(i) = Append(h, n)
          /\ \A n \in N : \E i \in 1..l : r(i) = Append(h, n)
      BY <1>1, AfterFacts
    <2>. HIDE DEF N, t, h, p, r, k, l
    <2>3. l \in Nat /\ k - 1 <= l
      BY <1>1, <2>1, <2>2
    <2>. QED
      BY <2>2, <2>3
  <1>3. t.visited = s.visited \cup N
    BY DEF After
  <1>4. Walk(g, start, h) /\ Last(h) \in s.visited
    BY <1>1 DEF SearchInv
  <1>5. /\ N = {n \in Targets(g, Last(h)) \cap DOMAIN g.idToPose :
                  Passable(n) /\ n \notin s.visited}
        /\ N \subseteq Nat
    <2>1. N \subseteq Ids
      BY <1>1, NewFacts
    <2>2. Ids \subseteq Nat
      BY GraphAssumption DEF Ids
    <2>3. N = {n \in Targets(g, Last(h)) \cap DOMAIN g.idToPose :
                 Passable(n) /\ n \notin s.visited}
      BY <1>1 DEF New
    <2>. QED
      BY <2>1, <2>2, <2>3
  <1>6. Neighbours(g, Last(h)) \subseteq s.visited \cup N
    <2>1. Targets(g, Last(h)) \subseteq DOMAIN g.idToPose
      BY DEF Targets, Edges
    <2>2. \A n \in 0..TempId : Passable(n)
      BY GraphAssumption DEF Passable
    <2>. QED
      BY <1>5, <2>1, <2>2 DEF Neighbours
  <1>7. \A n \in N : n \in Neighbours(g, Last(h))
    BY <1>5, GraphAssumption DEF Neighbours, Passable
  <1>8. ASSUME NEW n \in N
        PROVE  /\ Walk(g, start, Append(h, n)) /\ Last(Append(h, n)) = n
               /\ Len(Append(h, n)) = d + 2
    <2>1. n \in Nat /\ n \in Neighbours(g, Last(h))
      BY <1>5, <1>7
    <2>2. Len(h) + 1 = d + 2
      OBVIOUS
    <2>. QED
      BY <1>4, <2>1, <2>2, WalkFacts
  <1>. HIDE DEF N, t, h, p, r, k, l, W
  <1>9. \A i \in 1..k : /\ Walk(g, start, p(i)) /\ Last(p(i)) \in s.visited
                        /\ Len(p(i)) \in {d + 1, d + 2}
                        /\ Len(p(i)) > 1 => Last(p(i)) \notin W[Len(p(i)) - 2]
    BY DEF SearchInv, p, k, W
  <1>10. \A i, j \in 1..k : i < j => Len(p(i)) <= Len(p(j))
    BY DEF SearchInv, p, k
  <1>11. W[d] \subseteq s.visited
    BY DEF SearchInv, W
  <1>12. ASSUME NEW i \in 1..l
         PROVE  \/ i < k /\ i + 1 \in 1..k /\ r(i) = p(i + 1)
                \/ i >= k /\ \E n \in N : r(i) = Append(h, n)
    <2>1. i \in 1..(k - 1) \/ i \in k..l
      BY <1>1, <1>2
    <2>. QED
      BY <1>1, <1>2, <2>1
  <1>13. ASSUME NEW i \in 1..l
         PROVE  /\ Walk(g, start, r(i)) /\ Last(r(i)) \in t.visited
                /\ Len(r(i)) \in {d + 1, d + 2}
                /\ Len(r(i)) > 1 => Last(r(i)) \notin W[Len(r(i)) - 2]
    <2>1. CASE i + 1 \in 1..k /\ r(i) = p(i + 1)
      BY <1>3, <1>9, <2>1
    <2>2. CASE \E n \in N : r(i) = Append(h, n)
      <3>1. PICK n \in N : r(i) = Append(h, n)
        BY <2>2
      <3>2. n \notin s.visited
        BY <1>5
      <3>3. n \notin W[d] /\ (d + 2) - 2 = d
        BY <1>11, <3>2
      <3>. QED
        BY <1>3, <1>8, <3>1, <3>3
    <2>. QED
      BY <1>12, <2>1, <2>2
  <1>14. ASSUME NEW i \in 1..l, NEW j \in 1..l, i < j PROVE Len(r(i)) <= Len(r(j))
    <2>1. CASE j < k
      <3>1. i < k
        BY <1>1, <1>14, <2>1
      <3>2. /\ i + 1 \in 1..k /\ r(i) = p(i + 1) /\ j + 1 \in 1..k /\ r(j) = p(j + 1)
            /\ i + 1 < j + 1
        BY <1>1, <1>12, <1>14, <2>1, <3>1
      <3>. QED
        BY <1>10, <3>2
    <2>2. CASE j >= k
      <3>1. PICK n \in N : r(j) = Append(h, n)
        BY <1>1, <1>12, <2>2
      <3>2. Len(r(j)) = d + 2
        BY <1>8, <3>1
      <3>. QED
        BY <1>13, <3>2
    <2>. QED
      BY <1>1, <2>1, <2>2
  <1>15. ASSUME NEW i \in 1..k, i # 1 PROVE \E j \in 1..l : r(j) = p(i)
    <2>1. i - 1 \in 1..(k - 1) /\ i - 1 \in 1..l /\ (i - 1) + 1 = i
      BY <1>1, <1>2, <1>15
    <2>. QED
      BY <1>2, <2>1
  <1>16. ASSUME NEW m, Queued(s, m), m # Last(h) PROVE Queued(t, m)
    <2>1. PICK i \in 1..k : Last(p(i)) = m
      BY <1>16 DEF Queued, k, p
    <2>2. i # 1
      BY <1>16, <2>1 DEF h, p
    <2>. QED
      BY <1>15, <2>1, <2>2 DEF Queued, r, l
  <1>17. ASSUME NEW n \in N PROVE Queued(t, n)
    BY <1>2, <1>8 DEF Queued, r, l
  <1>18. ASSUME NEW m \in t.visited
         PROVE  Queued(t, m) \/ Neighbours(g, m) \subseteq t.visited
    <2>1. CASE m \in N
      BY <1>17, <2>1
    <2>2. CASE m = Last(h)
      BY <1>3, <1>6, <2>2
    <2>3. CASE m \in s.visited /\ m # Last(h)
      <3>1. Queued(s, m) \/ Neighbours(g, m) \subseteq s.visited
        BY <2>3 DEF SearchInv
      <3>. QED
        BY <1>3, <1>16, <2>3, <3>1
    <2>. QED
      BY <1>3, <2>1, <2>2, <2>3
  <1>19. goal \in t.visited => Queued(t, goal)
    <2>1. CASE goal \in N
      BY <1>17, <2>1
    <2>2. CASE goal \in s.visited
      <3>1. Queued(s, goal) /\ goal # Last(h)
        BY <2>2 DEF SearchInv, h
      <3>. QED
        BY <1>16, <3>1
    <2>. QED
      BY <1>3, <2>1, <2>2
  <1>20. start \in t.visited /\ W[d] \subseteq t.visited
    BY <1>3, <1>11 DEF SearchInv
  <1>. QED
    BY <1>2, <1>13, <1>14, <1>18, <1>19, <1>20 DEF SearchInv, r, l, t, W

(* What shortest_path promises of a path.                                  *)
Right(g, start, goal, path) ==
  IF path = <<>> THEN goal \notin ReachOf(g, start)[MaxId + 1]
  ELSE /\ path \in Seq(Nat) /\ path[1] = start /\ Last(path) = goal
       /\ \A i \in 1..(Len(path) - 1) :
            path[i + 1] \in Targets(g, path[i]) \cap 0..TempId
       /\ Len(path) > 1 => goal \notin ReachOf(g, start)[Len(path) - 2]

(* With nowhere to go on, everything there is a path to has been visited.  *)
LEMMA AllVisited ==
  ASSUME NEW g, NEW start \in Nat, NEW visited, start \in visited,
         \A m \in visited : Neighbours(g, m) \subseteq visited, NEW n \in Nat
  PROVE  ReachOf(g, start)[n] \subseteq visited
  <1>. DEFINE W == ReachOf(g, start)
              Wrong == {k \in Nat : ~(W[k] \subseteq visited)}
  <1>1. SUFFICES ASSUME Wrong # {} PROVE FALSE
    OBVIOUS
  <1>2. PICK k \in Wrong : \A j \in Wrong : k <= j
    <2>1. Wrong \in SUBSET Nat
      OBVIOUS
    <2>. HIDE DEF Wrong
    <2>. QED
      BY <1>1, <2>1, LeastNumber
  <1>. HIDE DEF W
  <1>3. k \in Nat /\ ~(W[k] \subseteq visited)
    OBVIOUS
  <1>4. k # 0
    BY <1>3, ReachFacts DEF W
  <1>5. k - 1 \in Nat /\ (k - 1) + 1 = k
    BY <1>3, <1>4
  <1>6. W[k - 1] \subseteq visited
    <2>1. k - 1 \notin Wrong
      <3>. HIDE DEF Wrong
      <3>. QED
        BY <1>2, <1>3
    <2>. QED
      BY <1>5, <2>1
  <1>7. \A x \in W[k] : x \in W[k - 1] \/ \E m \in W[k - 1] : x \in Neighbours(g, m)
    <2>1. W[(k - 1) + 1] =
            W[k - 1] \cup {x \in 0..TempId : \E m \in W[k - 1] : x \in Targets(g, m)}
      BY <1>5, ReachFacts DEF W
    <2>. QED
      BY <1>5, <2>1 DEF Neighbours
  <1>. QED
    BY <1>3, <1>6, <1>7

(* How much is left to do.                                                 *)
Left(s) == Len(s.queue) + Cardinality(Ids \ s.visited)

(* Every step of the search leaves less.                                   *)
LEMMA LeftFacts ==
  ASSUME NEW g, IsGraph(g), NEW s \in States
  PROVE  /\ Left(s) \in Nat
         /\ s.queue # <<>> => Left(After(g, s)) < Left(s)
  <1>. DEFINE rest == Ids \ s.visited   N == New(g, s)   t == After(g, s)
  <1>1. IsFiniteSet(rest) /\ Cardinality(rest) \in Nat /\ Len(s.queue) \in Nat
    <2>1. IsFiniteSet(Ids) /\ rest \in SUBSET Ids
      BY GraphAssumption, FS_Interval DEF Ids
    <2>2. IsFiniteSet(rest)
      BY <2>1, FS_Subset
    <2>. QED
      BY <2>2, FS_CardinalityType DEF States
  <1>2. ASSUME s.queue # <<>> PROVE Left(t) < Left(s)
    <2>1. N \subseteq rest
      BY NewFacts DEF New
    <2>2. Ids \ t.visited = rest \ N /\ rest \cap N = N
      BY <2>1 DEF After
    <2>3. Len(t.queue) = Len(s.queue) - 1 + Cardinality(N)
      BY <1>2, AfterFacts
    <2>4. Cardinality(N) \in Nat
      BY NewFacts, FS_CardinalityType
    <2>. HIDE DEF N, rest, t
    <2>5. Cardinality(rest \ N) = Cardinality(rest) - Cardinality(N)
      <3>1. Cardinality(rest \ N) = Cardinality(rest) - Cardinality(rest \cap N)
        BY <1>1, FS_Difference
      <3>. QED
        BY <2>2, <3>1
    <2>6. Left(t) = (Len(s.queue) - 1 + Cardinality(N)) + (Cardinality(rest) - Cardinality(N))
      BY <2>2, <2>3, <2>5 DEF Left
    <2>7. Left(s) = Len(s.queue) + Cardinality(rest)
      BY DEF Left, rest
    <2>. QED
      BY <1>1, <2>4, <2>6, <2>7
  <1>. QED
    BY <1>1, <1>2 DEF Left

(* From a state of the search it ends with the right path.                 *)
LEMMA SearchEnds ==
  ASSUME NEW g, IsGraph(g), Edges(g), NEW start \in Nat, NEW goal,
         NEW s, NEW d \in Nat, SearchInv(g, start, goal, s, d)
  PROVE  Right(g, start, goal, Search(g, goal)[s])
  <1>. DEFINE Wrong(x) == /\ \E e \in Nat : SearchInv(g, start, goal, x, e)
                          /\ ~Right(g, start, goal, Search(g, goal)[x])
              Sizes == {k \in Nat : \E x \in States : Wrong(x) /\ Left(x) = k}
  <1>1. SUFFICES ASSUME Wrong(s) PROVE FALSE
    OBVIOUS
  <1>2. Sizes # {}
    <2>1. s \in States
      BY DEF SearchInv
    <2>2. Left(s) \in Sizes
      BY <1>1, <2>1, LeftFacts
    <2>. QED
      BY <2>2
  <1>. HIDE DEF Wrong
  <1>3. PICK k \in Sizes : \A j \in Sizes : k <= j
    <2>1. Sizes \in SUBSET Nat
      OBVIOUS
    <2>. HIDE DEF Sizes
    <2>. QED
      BY <1>2, <2>1, LeastNumber
  <1>4. PICK x \in States : Wrong(x) /\ Left(x) = k
    OBVIOUS
  <1>5. PICK c \in Nat : SearchInv(g, start, goal, x, c)
    BY <1>4 DEF Wrong
  <1>6. ~Right(g, start, goal, Search(g, goal)[x])
    BY <1>4 DEF Wrong
  <1>7. CASE x.queue = <<>>
    <2>1. Search(g, goal)[x] = <<>>
      BY <1>7, SearchFacts
    <2>2. \A m : ~Queued(x, m)
      BY <1>7 DEF Queued
    <2>3. ReachOf(g, start)[MaxId + 1] \subseteq x.visited
      <3>1. MaxId + 1 \in Nat
        BY GraphAssumption
      <3>2. start \in x.visited /\ \A m \in x.visited : Neighbours(g, m) \subseteq x.visited
        BY <1>5, <2>2 DEF SearchInv
      <3>. QED
        BY <3>1, <3>2, AllVisited
    <2>4. goal \notin x.visited
      BY <1>5, <2>2 DEF SearchInv
    <2>. QED
      BY <1>6, <2>1, <2>3, <2>4 DEF Right
  <1>8. CASE x.queue # <<>>
    <2>. DEFINE h == x.queue[1]
    <2>1. h = Head(x.queue) /\ 1 \in 1..Len(x.queue)
      BY <1>8 DEF States
    <2>2. PICK e \in Nat : SearchInv(g, start, goal, x, e) /\ Len(h) = e + 1
      <3>1. Len(h) \in {c + 1, c + 2}
        BY <1>5, <2>1 DEF SearchInv
      <3>2. CASE Len(h) = c + 1
        BY <1>5, <3>2
      <3>3. CASE Len(h) = c + 2
        <4>1. SearchInv(g, start, goal, x, c + 1)
          BY <1>5, <1>8, <3>3, NextLevel
        <4>2. c + 1 \in Nat /\ Len(h) = (c + 1) + 1
          BY <3>3
        <4>. QED
          BY <4>1, <4>2
      <3>. QED
        BY <3>1, <3>2, <3>3
    <2>3. /\ Walk(g, start, h)
          /\ Len(h) > 1 => Last(h) \notin ReachOf(g, start)[Len(h) - 2]
      BY <2>1, <2>2 DEF SearchInv
    <2>. HIDE DEF h
    <2>4. CASE Last(h) = goal
      <3>1. Search(g, goal)[x] = h
        BY <1>8, <2>1, <2>4, SearchFacts
      <3>2. Right(g, start, goal, h)
        BY <2>3, <2>4 DEF Right, Walk, Neighbours
      <3>. QED
        BY <1>6, <3>1, <3>2
    <2>5. CASE Last(h) # goal
      <3>. DEFINE y == After(g, x)
      <3>1. Search(g, goal)[x] = Search(g, goal)[y]
        BY <1>8, <2>1, <2>5, SearchFacts
      <3>2. SearchInv(g, start, goal, y, e)
        BY <1>8, <2>2, <2>5, SearchStep DEF h
      <3>3. y \in States /\ Left(y) \in Nat /\ Left(y) < Left(x)
        <4>1. y \in States
          BY <3>2 DEF SearchInv
        <4>. QED
          BY <1>8, <4>1, LeftFacts
      <3>. HIDE DEF y
      <3>4. Wrong(y)
        BY <1>6, <3>1, <3>2 DEF Wrong
      <3>5. Left(y) \in Sizes
        BY <3>3, <3>4
      <3>6. k \in Nat /\ k = Left(x)
        BY <1>4
      <3>. HIDE DEF Sizes
      <3>. QED
        BY <1>3, <3>3, <3>5, <3>6
    <2>. QED
      BY <2>4, <2>5
  <1>. QED
    BY <1>7, <1>8

(* The search starts with the path of the start alone.                     *)
LEMMA SearchStarts ==
  ASSUME NEW g, NEW start \in Ids, NEW goal
  PROVE  LET s == [queue |-> <<<<start>>>>, visited |-> {start}]
         IN  SearchInv(g, start, goal, s, 0)
  <1>. DEFINE path == <<start>>   s == [queue |-> <<path>>, visited |-> {start}]
  <1>1. start \in Nat
    BY GraphAssumption DEF Ids
  <1>2. path \in Seq(Nat) /\ path # <<>> /\ Len(path) = 1 /\ path[1] = start
    BY <1>1
  <1>3. Walk(g, start, path) /\ Last(path) = start
    BY <1>2 DEF Walk, Last
  <1>. HIDE DEF path
  <1>4. s.queue \in Seq(Seq(Nat)) /\ Len(s.queue) = 1 /\ s.queue[1] = path
    BY <1>2
  <1>5. s \in States /\ s.visited = {start}
    BY <1>4 DEF States
  <1>. HIDE DEF s
  <1>6. Queued(s, start)
    BY <1>3, <1>4 DEF Queued
  <1>7. ReachOf(g, start)[0] = {start}
    BY <1>1, ReachFacts
  <1>8. \A i \in 1..Len(s.queue) : s.queue[i] = path
    BY <1>4
  <1>9. \A i \in 1..Len(s.queue) :
            LET p == s.queue[i]
            IN  /\ Walk(g, start, p) /\ Last(p) \in s.visited
                /\ Len(p) \in {0 + 1, 0 + 2}
                /\ Len(p) > 1 => Last(p) \notin ReachOf(g, start)[Len(p) - 2]
    <2>1. /\ Walk(g, start, path) /\ Last(path) \in s.visited
          /\ Len(path) \in {0 + 1, 0 + 2} /\ ~(Len(path) > 1)
      BY <1>2, <1>3, <1>5
    <2>. QED
      BY <1>8, <2>1
  <1>10. \A i, j \in 1..Len(s.queue) : i < j => Len(s.queue[i]) <= Len(s.queue[j])
    BY <1>2, <1>8
  <1>11. \A m \in s.visited : Queued(s, m)
    BY <1>5, <1>6
  <1>12. SearchInv(g, start, goal, s, 0)
    BY <1>5, <1>6, <1>7, <1>9, <1>10, <1>11 DEF SearchInv
  <1>. QED
    BY <1>12 DEF s, path

-----------------------------------------------------------------------------
(* The theorems.                                                           *)

(* The inductive invariant holds in every reachable state.                 *)
THEOREM Invariance == Spec => []IInv
  <1>1. IInv /\ [Next]_vars => IInv'
    BY StepFacts
  <1>. QED
    BY <1>1, InitFacts, PTL DEF Spec

(* Every variable keeps its type.                                          *)
THEOREM TypeCorrect == Spec => []TypeOK
  <1>1. IInv => TypeOK
    <2>. SUFFICES ASSUME IInv PROVE TypeOK
      OBVIOUS
    <2>1. DOMAIN graph = {"poseToId", "idToPose", "adjacency", "nextId"}
      BY DEF IInv, Sound, IsGraph
    <2>2. {file, writing} \subseteq Files \cup {Torn}
      BY DEF IInv, Backed
    <2>3. DOMAIN graph.adjacency \subseteq Ids
      BY DEF IInv, Sound, IsGraph, Edges
    <2>4. previous \in Nodes \cup {NoNode}
      BY DEF IInv, Sound, IsGraph
    <2>. QED
      BY <2>1, <2>2, <2>3, <2>4 DEF IInv, Sound, IsGraph, Ids, TypeOK
  <1>. QED
    BY <1>1, Invariance, PTL

(* What every command, reload and crash leaves behind: dictionaries that   *)
(* agree, edges with ends, a next id that is new, a parent that is in the  *)
(* graph, nodes that carry the id they have, and a graph that survives a   *)
(* save and a reload.                                                      *)
THEOREM GraphKept == Spec => []GraphInv
  <1>1. IInv => GraphInv
    <2>. SUFFICES ASSUME IInv PROVE GraphInv
      OBVIOUS
    <2>1. Dictionaries /\ EdgesEnd /\ NextIdIsNew
      BY DEF IInv, Sound, Agree, Edges, Names, Dictionaries, EdgesEnd, NextIdIsNew
    <2>2. ParentIsNode /\ CarriesItsId
      BY DEF IInv, ParentIsNode
    <2>3. RoundTrip
      BY SoundSurvives DEF IInv
    <2>. QED
      BY <2>1, <2>2, <2>3 DEF GraphInv
  <1>. QED
    BY <1>1, Invariance, PTL

(* An id that is in the graph before and after a step names the same place *)
(* and carried id.                                                         *)
THEOREM IdsKeepTheirNode == Spec => IdsKeepTheirPlace
  <1>1. IInv /\ [Next]_vars
          => [\A i \in DOMAIN graph.idToPose \cap DOMAIN graph'.idToPose :
                graph'.idToPose[i] = graph.idToPose[i]]_vars
    BY StepFacts DEF IdsKept
  <1>. QED
    BY <1>1, Invariance, PTL DEF Spec, IdsKeepTheirPlace

(* shortest_path finds a path if there is one through ordinary nodes, none *)
(* of these has fewer edges, and what it finds is a path of the graph that *)
(* enters no node above TempId: for every graph the commands can lead to.  *)
THEOREM ShortestPaths == Spec => []PathsAreShortest
  <1>1. IInv => PathsAreShortest
    <2>. SUFFICES ASSUME IInv PROVE PathsAreShortest
      OBVIOUS
    <2>1. IsGraph(graph) /\ Edges(graph)
      BY DEF IInv, Sound
    <2>2. DOMAIN graph.adjacency \subseteq Ids /\ Ids \subseteq Nat /\ MaxId + 1 \in Nat
      <3>1. DOMAIN graph.adjacency \subseteq Ids
        BY <2>1 DEF IsGraph, Edges
      <3>. QED
        BY <3>1, GraphAssumption DEF Ids
    <2>3. ASSUME NEW start \in DOMAIN graph.adjacency, NEW goal
          PROVE  Right(graph, start, goal, ShortestPath(graph, start, goal))
                 \/ goal \notin DOMAIN graph.adjacency
      <3>. SUFFICES ASSUME goal \in DOMAIN graph.adjacency
                    PROVE  Right(graph, start, goal, ShortestPath(graph, start, goal))
        OBVIOUS
      <3>. DEFINE s == [queue |-> <<<<start>>>>, visited |-> {start}]
      <3>1. ShortestPath(graph, start, goal) = Search(graph, goal)[s]
        BY DEF ShortestPath
      <3>2. start \in Ids /\ start \in Nat
        BY <2>2
      <3>3. SearchInv(graph, start, goal, s, 0)
        BY <3>2, SearchStarts
      <3>. HIDE DEF s
      <3>. QED
        BY <2>1, <3>1, <3>2, <3>3, SearchEnds
    <2>4. ASSUME NEW start \in Nat, NEW goal, NEW path, Right(graph, start, goal, path)
          PROVE  IF path = <<>>
                   THEN goal \notin WithinOf(graph, start, Ordinary)[MaxId + 1]
                 ELSE /\ path[1] = start /\ Last(path) = goal
                      /\ \A i \in 1..(Len(path) - 1) :
                           path[i + 1] \in Targets(graph, path[i]) \cap 0..TempId
                      /\ Len(path) > 1
                           => goal \notin WithinOf(graph, start, Ordinary)[Len(path) - 2]
      <3>1. path # <<>> /\ Len(path) > 1 => Len(path) - 2 \in Nat
        BY <2>4 DEF Right
      <3>2. \A n \in Nat :
              WithinOf(graph, start, Ordinary)[n] \subseteq ReachOf(graph, start)[n]
        BY OrdinaryFacts
      <3>. QED
        BY <2>2, <2>4, <3>1, <3>2 DEF Right
    <2>. QED
      BY <2>2, <2>3, <2>4 DEF PathsAreShortest
  <1>. QED
    BY <1>1, Invariance, PTL
===============================================================================

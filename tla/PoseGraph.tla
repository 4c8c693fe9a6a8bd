------------------------------ MODULE PoseGraph ------------------------------
(***************************************************************************)
(* The pose graph of navigator_cli: the Graph class, the editing commands  *)
(* of a CLI session on it, and the file a session saves to, which the next *)
(* session and every goal of navigator_server load.                        *)
(*                                                                         *)
(* A pose is found in a dict by its hash, which includes the id it         *)
(* carries; two of them are one place when the tool and the joints agree.  *)
(* So a pose is a place and the id it carries, and the graph keeps another *)
(* id for it, which ought to be the same.  There is one move group, so an  *)
(* edge is a target in the adjacency of its source.                        *)
(***************************************************************************)
EXTENDS Naturals, Sequences, FiniteSets, SequencesExt

CONSTANTS
  Spots,       \* places the tool can be taught at
  NoNode,      \* previous_node is None
  Torn,        \* a file that was truncated and not yet written
  TempId,      \* 1000 in the code: ids above it are temporary, and in
               \* find_nearby_nodes and in the rules it is one itself
  MaxId,       \* bound on the ids that are assigned
  MaxCommands  \* bound on the commands of all sessions

ASSUME GraphAssumption ==
  /\ {TempId, MaxId, MaxCommands} \subseteq Nat
  /\ NoNode \notin [spot : Spots, id : Nat]

VARIABLES
  graph,     \* _pose_to_id, _id_to_pose, adjacency and _next_id
  previous,  \* previous_node, the parent of the next node
  file,      \* what the file says
  writing,   \* what save_to_file is about to write, Torn when it is not
  commands,  \* how many commands there were
  orphans    \* history: poses deleted while they were previous_node,
             \* since the graph was loaded

vars == <<graph, previous, file, writing, commands, orphans>>

-----------------------------------------------------------------------------
(* The class Graph.                                                        *)

Put(f, k, v) == [x \in DOMAIN f \cup {k} |-> IF x = k THEN v ELSE f[x]]
Without(f, k) == [x \in DOMAIN f \ {k} |-> f[x]]
Nothing == [x \in {} |-> x]

EmptyGraph == [poseToId |-> Nothing, idToPose |-> Nothing,
               adjacency |-> Nothing, nextId |-> 0]

ReusedId(g, p) ==  \* mutant: the counter is not advanced
  IF p \in DOMAIN g.poseToId THEN g
  ELSE [g EXCEPT !.poseToId = Put(@, p, g.nextId),
                 !.idToPose = Put(@, g.nextId, p)]

(* _get_or_assign_id: whoever asks for the id of a pose that is not there  *)
(* puts it there.                                                          *)
GetOrAssign(g, p) ==
  IF p \in DOMAIN g.poseToId THEN g
  ELSE [g EXCEPT !.poseToId = Put(@, p, g.nextId),
                 !.idToPose = Put(@, g.nextId, p),
                 !.nextId = @ + 1]

(* find_nearby_nodes: connected nodes only, judged by the id they carry.   *)
Nearby(g) ==
  {p \in DOMAIN g.poseToId :
     /\ p.id < TempId
     /\ p.id \in DOMAIN g.adjacency
     /\ g.adjacency[p.id] # {}}

(* add_node stores the copy of the pose that carries its id ...            *)
NewNode(g, s) == [spot |-> s, id |-> g.nextId]

(* ... unless a connected node at that place is there already.             *)
AddNode(g, s) ==
  LET same == {p \in Nearby(g) : p.spot = s}
      node == NewNode(g, s)
  IN  IF same # {} THEN {[graph |-> g, node |-> p] : p \in same}
      ELSE {[graph |-> [poseToId  |-> Put(g.poseToId, node, g.nextId),
                        idToPose  |-> Put(g.idToPose, g.nextId, node),
                        adjacency |-> Put(g.adjacency, g.nextId, {}),
                        nextId    |-> g.nextId + 1],
             node |-> node]}

(* add_edge: both ends must be there.                                      *)
AddEdge(g, s, t) ==
  IF {s, t} \subseteq DOMAIN g.idToPose
    THEN [g EXCEPT !.adjacency =
            Put(@, s, (IF s \in DOMAIN @ THEN @[s] ELSE {}) \cup {t})]
    ELSE g

(* delete_edge *)
DeleteEdge(g, s, t) ==
  IF s \in DOMAIN g.adjacency
    THEN [g EXCEPT !.adjacency[s] = @ \ {t}]
    ELSE g

LeavesIncoming(g, n) ==  \* mutant: incoming edges are left behind
  IF n \in DOMAIN g.idToPose
    THEN [g EXCEPT !.idToPose = Without(@, n),
                   !.poseToId = Without(@, g.idToPose[n]),
                   !.adjacency = Without(@, n)]
    ELSE g

(* delete_node: the node with its outgoing and its incoming edges.         *)
DeleteNode(g, n) ==
  IF n \in DOMAIN g.idToPose
    THEN [g EXCEPT !.idToPose = Without(@, n),
                   !.poseToId = Without(@, g.idToPose[n]),
                   !.adjacency = [s \in DOMAIN @ \ {n} |-> @[s] \ {n}]]
    ELSE g

(* save_to_file writes each pose with the id it carries, and all edges.    *)
Contents(g) ==
  [nodes |-> DOMAIN g.poseToId,
   edges |-> {e \in (DOMAIN g.adjacency) \X (DOMAIN g.idToPose) :
                e[2] \in g.adjacency[e[1]]}]

LastIdAgain(ids) ==  \* mutant: the id of the last node is given again
  IF ids = {} THEN 0 ELSE CHOOSE i \in ids : \A j \in ids : j <= i
NextAfter(ids) ==
  IF ids = {} THEN 0 ELSE 1 + (CHOOSE i \in ids : \A j \in ids : j <= i)

(* load_from_file: a node is filed under the id it carries, an edge        *)
(* between nodes that are not there is dropped; what cannot be decoded is  *)
(* an empty graph.                                                         *)
LoadContents(c) ==
  LET ids == {p.id : p \in c.nodes}
  IN  [poseToId  |-> [p \in c.nodes |-> p.id],
       idToPose  |-> [i \in ids |-> CHOOSE p \in c.nodes : p.id = i],
       adjacency |-> [i \in ids |-> {t \in ids : <<i, t>> \in c.edges}],
       nextId    |-> NextAfter(ids)]

Load(f) == IF f = Torn THEN EmptyGraph ELSE LoadContents(f)

-----------------------------------------------------------------------------
(* shortest_path: breadth first over the ids, temporary ones left out.     *)

Targets(g, n) == IF n \in DOMAIN g.adjacency THEN g.adjacency[n] ELSE {}

NoLimit(n) == n \in Nat  \* mutant: temporary nodes are passed through
Passable(n) == n <= TempId

Search(g, goal) ==
  LET f[s \in [queue : Seq(Seq(Nat)), visited : SUBSET (0..MaxId)]] ==
        IF s.queue = <<>> THEN <<>>
        ELSE LET path == Head(s.queue)
                 new  == {n \in Targets(g, Last(path)) \cap DOMAIN g.idToPose :
                            Passable(n) /\ n \notin s.visited}
                 paths == [i \in 1..Cardinality(new) |->
                             Append(path, SetToSeq(new)[i])]
             IN  IF Last(path) = goal THEN path
                 ELSE f[[queue   |-> Tail(s.queue) \o paths,
                         visited |-> s.visited \cup new]]
  IN  f

ShortestPath(g, start, goal) ==
  IF {start, goal} \subseteq DOMAIN g.adjacency
    THEN Search(g, goal)[[queue |-> <<<<start>>>>, visited |-> {start}]]
    ELSE <<>>

-----------------------------------------------------------------------------
(* The commands of a session.  Each runs to its end before the next prompt; *)
(* only the file is seen by others in the meantime.                        *)

Prompt == writing = Torn /\ commands < MaxCommands /\ commands' = commands + 1

(* save_to_file opens the file, which empties it, and writes then.         *)
Save(g) == file' = Torn /\ writing' = Contents(g)

(* The new node and its parent are connected in both directions.           *)
Linked(g, p, q) ==
  LET h == GetOrAssign(GetOrAssign(g, p), q)
  IN  AddEdge(AddEdge(h, h.poseToId[p], h.poseToId[q]),
              h.poseToId[q], h.poseToId[p])

(* _add_node: the parent is the previous node, or one whose id is typed in; *)
(* where nothing has it there is no edge.  A move group that is misspelt   *)
(* ends the command half way.                                              *)
Add(s) ==
  /\ Prompt
  /\ graph.nextId <= MaxId
  /\ \E added \in AddNode(graph, s) :
       LET g == added.graph
           Parents == {previous, NoNode}
                        \cup {g.idToPose[i] : i \in DOMAIN g.idToPose}
       IN  \/ \E parent \in Parents :
                /\ graph' = IF parent = NoNode THEN g
                            ELSE Linked(g, parent, added.node)
                /\ previous' = added.node
                /\ Save(graph')
           \/ /\ Parents # {NoNode}
              /\ graph' = g
              /\ UNCHANGED <<previous, file, writing>>
  /\ UNCHANGED orphans

(* _set_parent: the closest connected node, or one the planner may start   *)
(* from, which any node may be.                                            *)
SetParent ==
  /\ Prompt
  /\ previous' \in {NoNode} \cup
                   IF DOMAIN graph.adjacency = {} THEN {}
                   ELSE DOMAIN graph.poseToId
  /\ UNCHANGED <<graph, file, writing, orphans>>

(* _add_edge goes from the ids typed in to nodes and back to the ids these *)
(* carry.                                                                  *)
AddEdgeCommand(s, t) ==
  /\ Prompt
  /\ {s, t} \subseteq DOMAIN graph.idToPose /\ DOMAIN graph.adjacency # {}
  /\ graph' = AddEdge(graph, graph.idToPose[s].id, graph.idToPose[t].id)
  /\ Save(graph')
  /\ UNCHANGED <<previous, orphans>>

DeleteEdgeCommand(s, t) ==
  /\ Prompt
  /\ graph' = DeleteEdge(graph, s, t)
  /\ Save(graph')
  /\ UNCHANGED <<previous, orphans>>

(* _delete_node: the graph is saved, and then the previous node is looked  *)
(* up - which puts it back, under a new id, when it is the deleted one.    *)
DeleteNodeCommand(n) ==
  LET g == DeleteNode(graph, n)
      h == IF previous = NoNode THEN g ELSE GetOrAssign(g, previous)
  IN  /\ Prompt
      /\ h.nextId <= MaxId + 1
      /\ Save(g)
      /\ graph' = h
      /\ previous' = IF previous = NoNode \/ h.poseToId[previous] \in DOMAIN h.idToPose
                       THEN previous ELSE NoNode
      /\ orphans' = orphans \cup ({previous} \ ({NoNode} \cup DOMAIN g.poseToId))

SaveCommand ==
  /\ Prompt
  /\ Save(graph)
  /\ UNCHANGED <<graph, previous, orphans>>

Reload ==
  /\ Prompt
  /\ graph' = Load(file)
  /\ previous' = NoNode /\ orphans' = {}
  /\ UNCHANGED <<file, writing>>

(* The file is written and closed.                                         *)
Written ==
  /\ writing # Torn
  /\ file' = writing /\ writing' = Torn
  /\ UNCHANGED <<graph, previous, commands, orphans>>

(* The session ends, perhaps while it saves, and another one starts.       *)
NewSession ==
  /\ graph' = Load(file)
  /\ previous' = NoNode /\ writing' = Torn /\ orphans' = {}
  /\ UNCHANGED <<file, commands>>

Init ==
  /\ graph = EmptyGraph /\ previous = NoNode
  /\ file = Torn /\ writing = Torn
  /\ commands = 0 /\ orphans = {}

Next ==
  \/ \E s \in Spots : Add(s)
  \/ SetParent
  \/ \E s, t \in 0..MaxId : AddEdgeCommand(s, t) \/ DeleteEdgeCommand(s, t)
  \/ \E n \in 0..MaxId : DeleteNodeCommand(n)
  \/ SaveCommand \/ Reload \/ Written \/ NewSession

Spec == Init /\ [][Next]_vars

-----------------------------------------------------------------------------
Nodes == [spot : Spots, id : 0..MaxId]
Files == [nodes : SUBSET Nodes, edges : SUBSET ((0..MaxId) \X (0..MaxId))]

(* Every variable has its type.                                            *)
TypeOK ==
  /\ DOMAIN graph = {"poseToId", "idToPose", "adjacency", "nextId"}
  /\ DOMAIN graph.poseToId \subseteq Nodes
  /\ \A p \in DOMAIN graph.poseToId : graph.poseToId[p] \in 0..MaxId
  /\ DOMAIN graph.idToPose \subseteq 0..MaxId
  /\ \A i \in DOMAIN graph.idToPose : graph.idToPose[i] \in Nodes
  /\ DOMAIN graph.adjacency \subseteq 0..MaxId
  /\ \A i \in DOMAIN graph.adjacency : graph.adjacency[i] \subseteq 0..MaxId
  /\ graph.nextId \in 0..(MaxId + 1)
  /\ previous \in Nodes \cup {NoNode}
  /\ {file, writing} \subseteq Files \cup {Torn}
  /\ commands \in 0..MaxCommands /\ orphans \subseteq Nodes

(* The two dictionaries of the class say the same.                         *)
Dictionaries ==
  /\ \A p \in DOMAIN graph.poseToId :
       /\ graph.poseToId[p] \in DOMAIN graph.idToPose
       /\ graph.idToPose[graph.poseToId[p]] = p
  /\ \A i \in DOMAIN graph.idToPose :
       /\ graph.idToPose[i] \in DOMAIN graph.poseToId
       /\ graph.poseToId[graph.idToPose[i]] = i

(* No edge hangs in the air: both ends of every edge are nodes.            *)
EdgesEnd ==
  /\ DOMAIN graph.adjacency \subseteq DOMAIN graph.idToPose
  /\ \A i \in DOMAIN graph.adjacency :
       graph.adjacency[i] \subseteq DOMAIN graph.idToPose

(* The next id is new: no node has it, nor carries it.                     *)
NextIdIsNew ==
  \A p \in DOMAIN graph.poseToId :
    p.id < graph.nextId /\ graph.poseToId[p] < graph.nextId

(* The parent of the next node is a node of the graph, so that asking for  *)
(* its id, as every prompt does, changes nothing.                          *)
ParentIsNode == previous # NoNode => previous \in DOMAIN graph.poseToId

(* "Store the copy that carries its id - saved nodes need it to reload":    *)
(* the id a node carries is the id it has, with the one exception of a     *)
(* parent that was deleted and has come back.                              *)
CarriesItsId ==
  \A p \in DOMAIN graph.poseToId : graph.poseToId[p] = p.id \/ p \in orphans

(* A graph whose nodes carry their ids survives a save and a reload.       *)
RoundTrip ==
  (\A p \in DOMAIN graph.poseToId : graph.poseToId[p] = p.id)
    => [LoadContents(Contents(graph)) EXCEPT !.nextId = graph.nextId] = graph

(* What every command, reload and crash leaves behind.                     *)
GraphInv ==
  /\ Dictionaries /\ EdgesEnd /\ NextIdIsNew /\ ParentIsNode
  /\ CarriesItsId /\ RoundTrip

(* An id that is in the graph before and after a step - an edit, a reload, *)
(* a crash - names the same place: ids are what the user types and what a  *)
(* goal is sent with.                                                      *)
IdsKeepTheirPlace ==
  [][\A i \in DOMAIN graph.idToPose \cap DOMAIN graph'.idToPose :
       graph'.idToPose[i] = graph.idToPose[i]]_vars

(* The reference: what a path of at most k edges through nodes of a set    *)
(* leads to.                                                               *)
WithinOf(g, start, nodes) ==
  LET r[k \in Nat] ==
        IF k = 0 THEN {start}
        ELSE r[k - 1] \cup {n \in nodes : \E m \in r[k - 1] : n \in Targets(g, m)}
  IN  r

(* The nodes that are ordinary in every reading of "temporary": node TempId *)
(* is temporary for find_nearby_nodes and in the rules, and not for the    *)
(* search.                                                                 *)
Ordinary == 0..TempId \ {TempId}

(* shortest_path: a path is found if there is one through ordinary nodes,  *)
(* no such path is shorter, and what is found is a path that enters no     *)
(* node above TempId.  It says nothing of a path through node TempId.      *)
PathsAreShortest ==
  \A start, goal \in DOMAIN graph.adjacency :
    LET path == ShortestPath(graph, start, goal)
        within == WithinOf(graph, start, Ordinary)
    IN  IF path = <<>> THEN goal \notin within[MaxId + 1]
        ELSE /\ path[1] = start /\ Last(path) = goal
             /\ \A i \in 1..(Len(path) - 1) :
                  path[i + 1] \in Targets(graph, path[i]) \cap 0..TempId
             /\ Len(path) > 1 => goal \notin within[Len(path) - 2]
=============================================================================

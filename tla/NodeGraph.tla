------------------------------ MODULE NodeGraph ------------------------------
(***************************************************************************)
(* The dependency graph of a workflow template: the order in which its      *)
(* nodes run (_kahn_order, which validate_graph_structure and              *)
(* topological_node_order call) and the nodes that may run after others are *)
(* done (ready_nodes).                                                      *)
(*                                                                         *)
(* A node is its position in the template, 0 stands for a name that is not  *)
(* among the nodes. Edges form a list, so that an edge may occur twice. The *)
(* list of ready nodes is kept sorted by position and popped at its front:  *)
(* it is a set whose least element is taken.                                *)
(***************************************************************************)
EXTENDS Integers, Sequences, FiniteSets

CONSTANTS NodeCount,   \* the nodes of the template are 1..NodeCount
          EdgeLists    \* the lists of edges to be sorted

GraphNodes == 1 .. NodeCount
Endpoints == 0 .. NodeCount

ASSUME GraphConstants ==
    /\ NodeCount \in Nat
    /\ EdgeLists \subseteq Seq(Endpoints \X Endpoints)

VARIABLES
    edges,      \* the edges of the template
    indegree,   \* of each node, the edges into it from nodes not yet visited
    readyNow,   \* nodes to visit
    nodeOrder,  \* nodes visited
    verdict     \* of the validation: none, "accepted", "dangling" or "cycle"

graphVars == <<edges, indegree, readyNow, nodeOrder, verdict>>

-----------------------------------------------------------------------------
(* Indices of the edges between two nodes of the template.                 *)
Inner(list) == {i \in DOMAIN list : list[i][1] \in GraphNodes /\ list[i][2] \in GraphNodes}

EdgesInto(list, n, sources) == {i \in Inner(list) : list[i][1] \in sources /\ list[i][2] = n}

Visited == {nodeOrder[i] : i \in DOMAIN nodeOrder}

(* ready_nodes: what is not done and has every upstream done, of which an   *)
(* unknown name never is.                                                  *)
ReadyNodes(list, done) ==
    {n \in GraphNodes \ done :
        \A i \in DOMAIN list : list[i][2] = n => list[i][1] \in done}

(* Mutant: an edge that occurs twice is taken for one.                     *)
NewlyByNode(node) == {n \in GraphNodes : indegree[n] = 1 /\ EdgesInto(edges, n, {node}) # {}}

(* Nodes whose last open edge comes from node.                             *)
Newly(node) ==
    {n \in GraphNodes : indegree[n] \in 1 .. Cardinality(EdgesInto(edges, n, {node}))}

-----------------------------------------------------------------------------
GraphInit ==
    /\ edges \in EdgeLists
    /\ indegree = [n \in GraphNodes |-> Cardinality(EdgesInto(edges, n, GraphNodes))]
    /\ readyNow = {n \in GraphNodes : indegree[n] = 0}
    /\ nodeOrder = <<>>
    /\ verdict = "none"

(* One round of the loop: the first of the ready nodes.                    *)
VisitNode ==
    \E node \in readyNow :
        /\ \A other \in readyNow : node <= other
        /\ nodeOrder' = Append(nodeOrder, node)
        /\ indegree' = [n \in GraphNodes |-> indegree[n] - Cardinality(EdgesInto(edges, n, {node}))]
        /\ readyNow' = (readyNow \ {node}) \cup Newly(node)
        /\ UNCHANGED <<edges, verdict>>

(* The loop is over, and validate_graph_structure decides.                 *)
Validate ==
    /\ readyNow = {} /\ verdict = "none"
    /\ verdict' = IF Inner(edges) # DOMAIN edges THEN "dangling"
                  ELSE IF Len(nodeOrder) # NodeCount THEN "cycle" ELSE "accepted"
    /\ UNCHANGED <<edges, indegree, readyNow, nodeOrder>>

GraphNext == VisitNode \/ Validate

GraphSpec == GraphInit /\ [][GraphNext]_graphVars

-----------------------------------------------------------------------------
GraphTypeOK ==
    /\ edges \in Seq(Endpoints \X Endpoints)
    /\ indegree \in [GraphNodes -> Int]
    /\ readyNow \subseteq GraphNodes
    /\ nodeOrder \in Seq(GraphNodes)
    /\ verdict \in {"none", "accepted", "dangling", "cycle"}

(* Nodes that wait for each other.                                         *)
Circle(nodes) ==
    nodes # {} /\ \A n \in nodes : \E i \in Inner(edges) : edges[i][2] = n /\ edges[i][1] \in nodes

(* Counting edges down and asking for upstreams agree: what the sort holds  *)
(* ready is what ready_nodes returns for the nodes visited so far, however  *)
(* edges repeat. So no node precedes one of its upstreams.                 *)
SortAgreesWithReady ==
    Inner(edges) = DOMAIN edges => readyNow = ReadyNodes(edges, Visited)

(* validate_graph_structure finds a cycle exactly where there is one.      *)
VerdictIsRight ==
    /\ verdict = "cycle" => \E nodes \in SUBSET GraphNodes : Circle(nodes)
    /\ verdict = "accepted" => \A nodes \in SUBSET GraphNodes : ~Circle(nodes)

(* The order of a branching template respects its edges, and a template is  *)
(* rejected for a cycle if and only if it has one (node_sequence.py lines   *)
(* 136-225).                                                               *)
SortIsRight == SortAgreesWithReady /\ VerdictIsRight
=============================================================================

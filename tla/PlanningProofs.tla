--------------------------- MODULE PlanningProofs ---------------------------
(***************************************************************************)
(* Proofs about what is planned from what: NodeGraph, AssetAnnotation,     *)
(* CoveragePlanning, InsertPlanning and EditingAgent, for every graph,     *)
(* every number of requests for an asset, every offer of B-roll, every     *)
(* script and every reply of a model.                                      *)
(***************************************************************************)
EXTENDS NodeGraph, AssetAnnotation, CoveragePlanning, InsertPlanning, EditingAgent, FiniteSums

-----------------------------------------------------------------------------
(* NodeGraph: the sort and its verdict                                     *)

(* Nodes that are not visited, and the open edges into a node.              *)
Unvisited == GraphNodes \ Visited
OpenInto(n) == EdgesInto(edges, n, Unvisited)

(* Every node is visited once.                                              *)
VisitedOnce == Len(nodeOrder) = Cardinality(Visited)

(* An indegree counts the open edges, and a node is ready when it is 0.     *)
CountsOpen == \A n \in GraphNodes : indegree[n] = Cardinality(OpenInto(n))
ReadyIsOpenless == readyNow = {n \in Unvisited : indegree[n] = 0}

(* What is visited had its upstreams visited before.                        *)
UpstreamsFirst ==
    \A k \in DOMAIN nodeOrder, i \in Inner(edges) :
        edges[i][2] = nodeOrder[k] => \E j \in 1 .. (k - 1) : nodeOrder[j] = edges[i][1]

VerdictShape ==
    /\ verdict \in {"cycle", "accepted"} => readyNow = {} /\ Inner(edges) = DOMAIN edges
    /\ verdict = "cycle" => Len(nodeOrder) # NodeCount
    /\ verdict = "accepted" => Len(nodeOrder) = NodeCount

GraphInv ==
    GraphTypeOK /\ VisitedOnce /\ CountsOpen /\ ReadyIsOpenless /\ UpstreamsFirst /\ VerdictShape

-----------------------------------------------------------------------------
(* There are finitely many nodes and edges.                                 *)
LEMMA GraphFinite ==
    ASSUME GraphTypeOK
    PROVE  /\ IsFiniteSet(GraphNodes) /\ Cardinality(GraphNodes) = NodeCount
           /\ \A n, S : IsFiniteSet(EdgesInto(edges, n, S))
<1>1. IsFiniteSet(1 .. NodeCount) /\ Cardinality(1 .. NodeCount) = NodeCount
  BY FS_Interval, GraphConstants
<1>2. Len(edges) \in Nat /\ DOMAIN edges = 1 .. Len(edges)
  BY DEF GraphTypeOK
<1>3. IsFiniteSet(DOMAIN edges)
  BY <1>2, FS_Interval
<1>4. ASSUME NEW n, NEW S PROVE IsFiniteSet(EdgesInto(edges, n, S))
  <2>1. EdgesInto(edges, n, S) \in SUBSET DOMAIN edges
    BY DEF EdgesInto, Inner
  <2> QED BY ONLY <2>1, <1>3, FS_Subset
<1> QED BY <1>1, <1>4 DEF GraphNodes

(* A node without open edges has all its upstreams visited, and the other   *)
(* way round.                                                               *)
LEMMA NoneOpen ==
    ASSUME GraphTypeOK, CountsOpen, NEW n \in GraphNodes
    PROVE  /\ indegree[n] = 0 <=> OpenInto(n) = {}
           /\ indegree[n] \in Nat
           /\ OpenInto(n) = {} <=> \A i \in Inner(edges) : edges[i][2] = n => edges[i][1] \in Visited
<1>1. IsFiniteSet(OpenInto(n))
  BY GraphFinite DEF OpenInto
<1>2. indegree[n] = Cardinality(OpenInto(n))
  BY DEF CountsOpen
<1>3. Cardinality(OpenInto(n)) \in Nat /\ (Cardinality(OpenInto(n)) = 0 <=> OpenInto(n) = {})
  BY ONLY <1>1, FS_EmptySet, FS_CardinalityType
<1>4. OpenInto(n) = {} <=> \A i \in Inner(edges) : edges[i][2] = n => edges[i][1] \in Visited
  <2>1. \A i : i \in OpenInto(n) <=> i \in Inner(edges) /\ edges[i][1] \in Unvisited /\ edges[i][2] = n
    BY DEF OpenInto, EdgesInto
  <2>2. \A i \in Inner(edges) : edges[i][1] \in Unvisited <=> edges[i][1] \notin Visited
    BY DEF Inner, Unvisited
  <2> QED BY <2>1, <2>2
<1> QED BY <1>2, <1>3, <1>4

-----------------------------------------------------------------------------
(* Initially no node is visited.                                            *)
LEMMA GraphInvInit == GraphInit => GraphInv
<1> SUFFICES ASSUME GraphInit PROVE GraphInv
  OBVIOUS
<1>1. Visited = {} /\ Unvisited = GraphNodes /\ nodeOrder = <<>>
  BY DEF GraphInit, Visited, Unvisited
<1>2. edges \in Seq(Endpoints \X Endpoints)
  BY GraphConstants DEF GraphInit
<1>3. \A n, S : IsFiniteSet(EdgesInto(edges, n, S))
  <2>1. IsFiniteSet(DOMAIN edges)
    BY <1>2, FS_Interval
  <2> SUFFICES ASSUME NEW n, NEW S PROVE IsFiniteSet(EdgesInto(edges, n, S))
    OBVIOUS
  <2>2. EdgesInto(edges, n, S) \in SUBSET DOMAIN edges
    BY DEF EdgesInto, Inner
  <2> QED BY ONLY <2>1, <2>2, FS_Subset
<1>4. \A n \in GraphNodes : Cardinality(EdgesInto(edges, n, GraphNodes)) \in Int
  BY <1>3, FS_CardinalityType
<1>5. GraphTypeOK
  BY <1>2, <1>4 DEF GraphInit, GraphTypeOK
<1>6. VisitedOnce
  BY <1>1, FS_EmptySet DEF VisitedOnce
<1>7. CountsOpen /\ ReadyIsOpenless /\ UpstreamsFirst /\ VerdictShape
  BY <1>1 DEF GraphInit, CountsOpen, ReadyIsOpenless, UpstreamsFirst, VerdictShape, OpenInto
<1> QED BY <1>5, <1>6, <1>7 DEF GraphInv

(* A visit closes the edges of its node, each of them once.                 *)
LEMMA VisitKeeps == GraphInv /\ VisitNode => GraphInv'
<1> SUFFICES ASSUME GraphInv, VisitNode PROVE GraphInv'
  OBVIOUS
<1> USE DEF GraphInv
<1>1. PICK node \in readyNow :
        /\ nodeOrder' = Append(nodeOrder, node)
        /\ indegree' = [n \in GraphNodes |-> indegree[n] - Cardinality(EdgesInto(edges, n, {node}))]
        /\ readyNow' = (readyNow \ {node}) \cup Newly(node)
        /\ UNCHANGED <<edges, verdict>>
  BY DEF VisitNode
<1>2. node \in GraphNodes /\ node \notin Visited /\ node \in Unvisited /\ indegree[node] = 0
  BY DEF ReadyIsOpenless, Unvisited
<1>3. Len(nodeOrder) \in Nat /\ DOMAIN nodeOrder = 1 .. Len(nodeOrder)
  BY DEF GraphTypeOK
<1>4. /\ Len(nodeOrder') = Len(nodeOrder) + 1 /\ DOMAIN nodeOrder' = 1 .. Len(nodeOrder) + 1
      /\ nodeOrder'[Len(nodeOrder) + 1] = node
      /\ \A k \in 1 .. Len(nodeOrder) : nodeOrder'[k] = nodeOrder[k]
      /\ nodeOrder' \in Seq(GraphNodes)
  BY <1>1, <1>2, <1>3 DEF GraphTypeOK
<1>5. Visited' = Visited \cup {node}
  BY <1>3, <1>4 DEF Visited
<1>6. Unvisited' = Unvisited \ {node}
  BY <1>5 DEF Unvisited
<1> DEFINE Closed(n) == EdgesInto(edges, n, {node})
<1>7. \A n \in GraphNodes : IsFiniteSet(OpenInto(n)) /\ IsFiniteSet(Closed(n))
  BY GraphFinite DEF OpenInto
<1>8. \A n \in GraphNodes : OpenInto(n)' = OpenInto(n) \ Closed(n) /\ OpenInto(n) \cap Closed(n) = Closed(n)
  BY <1>1, <1>2, <1>6 DEF OpenInto, EdgesInto
<1>9. \A n \in GraphNodes :
        /\ Cardinality(Closed(n)) \in Nat
        /\ Cardinality(OpenInto(n)') = Cardinality(OpenInto(n)) - Cardinality(Closed(n))
        /\ IsFiniteSet(OpenInto(n)') /\ Cardinality(OpenInto(n)') \in Nat
  <2> SUFFICES ASSUME NEW n \in GraphNodes
               PROVE  /\ Cardinality(Closed(n)) \in Nat
                      /\ Cardinality(OpenInto(n)') = Cardinality(OpenInto(n)) - Cardinality(Closed(n))
                      /\ IsFiniteSet(OpenInto(n)') /\ Cardinality(OpenInto(n)') \in Nat
    OBVIOUS
  <2>1. IsFiniteSet(OpenInto(n)) /\ IsFiniteSet(Closed(n))
    BY <1>7
  <2>2. OpenInto(n)' = OpenInto(n) \ Closed(n) /\ OpenInto(n) \cap Closed(n) = Closed(n)
    BY <1>8
  <2> HIDE DEF Closed
  <2>3. IsFiniteSet(OpenInto(n) \ Closed(n))
        /\ Cardinality(OpenInto(n) \ Closed(n)) = Cardinality(OpenInto(n)) - Cardinality(OpenInto(n) \cap Closed(n))
    BY ONLY <2>1, FS_Difference
  <2>4. Cardinality(Closed(n)) \in Nat
    BY ONLY <2>1, FS_CardinalityType
  <2>5. Cardinality(OpenInto(n)') \in Nat
    BY ONLY <2>2, <2>3, FS_CardinalityType
  <2> QED BY ONLY <2>2, <2>3, <2>4, <2>5
<1>10. \A n \in GraphNodes : indegree'[n] = indegree[n] - Cardinality(Closed(n))
  BY <1>1
<1>11. CountsOpen'
  BY <1>9, <1>10 DEF CountsOpen
<1>12. \A n \in GraphNodes : indegree[n] \in Nat /\ indegree'[n] \in Nat /\ Cardinality(Closed(n)) \in Nat
  <2>1. \A n \in GraphNodes : indegree[n] \in Nat
    BY NoneOpen DEF GraphInv
  <2>2. \A n \in GraphNodes : indegree'[n] \in Nat
    BY ONLY <1>9, <1>11 DEF CountsOpen
  <2> QED BY ONLY <1>9, <2>1, <2>2
<1>13. GraphTypeOK'
  <2>1. \A n \in GraphNodes : indegree[n] - Cardinality(EdgesInto(edges, n, {node})) \in Int
    BY <1>12
  <2>2. indegree' \in [GraphNodes -> Int]
    BY <1>1, <2>1
  <2>3. readyNow' \subseteq GraphNodes
    BY <1>1 DEF GraphTypeOK, Newly
  <2> QED BY <2>2, <2>3, <1>1, <1>4 DEF GraphTypeOK
<1>14. VisitedOnce'
  <2>1. Visited \in SUBSET GraphNodes
    BY <1>3 DEF GraphTypeOK, Visited
  <2>2. IsFiniteSet(Visited)
    BY <2>1, GraphFinite, FS_Subset
  <2>3. Cardinality(Visited \cup {node}) = Cardinality(Visited) + 1
    BY ONLY <2>2, <1>2, FS_AddElement
  <2> QED BY <2>3, <1>4, <1>5 DEF VisitedOnce
<1>15. ReadyIsOpenless'
  <2> HIDE DEF Closed
  <2>1. \A n \in GraphNodes : n \in Visited => OpenInto(n) = {}
    <3> SUFFICES ASSUME NEW n \in GraphNodes, n \in Visited PROVE OpenInto(n) = {}
      OBVIOUS
    <3>1. PICK k \in DOMAIN nodeOrder : nodeOrder[k] = n
      BY DEF Visited
    <3>2. \A i \in Inner(edges) : edges[i][2] = n => edges[i][1] \in Visited
      BY <3>1, <1>3 DEF UpstreamsFirst, Visited
    <3> QED BY <3>2, NoneOpen
  <2>2. \A n \in GraphNodes : n \in Visited => indegree[n] = 0
    BY <2>1, NoneOpen
  <2>3. \A n : n \in Newly(node) <=> n \in GraphNodes /\ indegree[n] \in 1 .. Cardinality(Closed(n))
    BY DEF Newly, Closed
  <2>4. \A n \in GraphNodes : n \in readyNow' <=> n \in Unvisited' /\ indegree'[n] = 0
    <3> SUFFICES ASSUME NEW n \in GraphNodes
                 PROVE  n \in readyNow' <=> n \in Unvisited' /\ indegree'[n] = 0
      OBVIOUS
    <3>1. /\ indegree[n] \in Nat /\ indegree'[n] \in Nat /\ Cardinality(Closed(n)) \in Nat
          /\ indegree'[n] = indegree[n] - Cardinality(Closed(n))
      BY <1>10, <1>12
    <3>2. n \in Newly(node) <=> indegree[n] # 0 /\ indegree'[n] = 0
      BY <2>3, <3>1
    <3>3. n \in readyNow' <=> (n \in readyNow /\ n # node) \/ n \in Newly(node)
      BY <1>1
    <3>4. n \in readyNow <=> n \in Unvisited /\ indegree[n] = 0
      BY DEF ReadyIsOpenless
    <3>5. n \in Unvisited' <=> n \notin Visited /\ n # node
      BY <1>6 DEF Unvisited
    <3>6. n \in Unvisited <=> n \notin Visited
      BY DEF Unvisited
    <3>7. indegree[n] = 0 => indegree'[n] = 0
      BY <3>1
    <3>8. indegree[n] # 0 => n \notin Visited /\ n # node
      BY <2>2, <1>2
    <3> QED BY <3>2, <3>3, <3>4, <3>5, <3>6, <3>7, <3>8
  <2>5. readyNow' \subseteq GraphNodes /\ Unvisited' \subseteq GraphNodes
    BY <1>13 DEF GraphTypeOK, Unvisited
  <2> QED BY <2>4, <2>5 DEF ReadyIsOpenless
<1>16. UpstreamsFirst'
  <2> SUFFICES ASSUME NEW k \in 1 .. Len(nodeOrder) + 1, NEW i \in Inner(edges),
                      edges[i][2] = nodeOrder'[k]
               PROVE  \E j \in 1 .. (k - 1) : nodeOrder'[j] = edges[i][1]
    BY <1>1, <1>4 DEF UpstreamsFirst
  <2>1. CASE k \in 1 .. Len(nodeOrder)
    BY <2>1, <1>3, <1>4 DEF UpstreamsFirst
  <2>2. CASE k = Len(nodeOrder) + 1
    <3>1. edges[i][1] \in Visited
      BY <2>2, <1>2, <1>4, NoneOpen
    <3> QED BY <3>1, <2>2, <1>3, <1>4 DEF Visited
  <2> QED BY <2>1, <2>2, <1>3
<1>17. VerdictShape'
  BY <1>1 DEF VerdictShape
<1> QED BY <1>11, <1>13, <1>14, <1>15, <1>16, <1>17

LEMMA ValidateKeeps == GraphInv /\ Validate => GraphInv'
<1> SUFFICES ASSUME GraphInv, Validate PROVE GraphInv'
  OBVIOUS
<1> USE DEF GraphInv
<1>1. UNCHANGED <<edges, indegree, readyNow, nodeOrder>>
  BY DEF Validate
<1>2. GraphTypeOK' /\ VerdictShape'
  BY <1>1 DEF GraphTypeOK, VerdictShape, Validate
<1>3. VisitedOnce' /\ CountsOpen' /\ ReadyIsOpenless' /\ UpstreamsFirst'
  BY <1>1 DEF VisitedOnce, Visited, CountsOpen, OpenInto, Unvisited, ReadyIsOpenless, UpstreamsFirst
<1> QED BY <1>2, <1>3

LEMMA GraphInvStep == GraphInv /\ [GraphNext]_graphVars => GraphInv'
<1> SUFFICES ASSUME GraphInv, [GraphNext]_graphVars PROVE GraphInv'
  OBVIOUS
<1>1. CASE VisitNode
  BY <1>1, VisitKeeps
<1>2. CASE Validate
  BY <1>2, ValidateKeeps
<1>3. CASE UNCHANGED graphVars
  BY <1>3 DEF graphVars, GraphInv, GraphTypeOK, VisitedOnce, Visited, CountsOpen, OpenInto,
              Unvisited, ReadyIsOpenless, UpstreamsFirst, VerdictShape
<1> QED BY <1>1, <1>2, <1>3 DEF GraphNext

-----------------------------------------------------------------------------
(* Without dangling edges the nodes held ready are those of ready_nodes.    *)
LEMMA InvGivesReady == GraphInv => SortAgreesWithReady
<1> SUFFICES ASSUME GraphInv, Inner(edges) = DOMAIN edges
             PROVE  readyNow = ReadyNodes(edges, Visited)
  BY DEF SortAgreesWithReady
<1> USE DEF GraphInv
<1>1. \A n \in Unvisited : indegree[n] = 0 <=>
         \A i \in DOMAIN edges : edges[i][2] = n => edges[i][1] \in Visited
  BY NoneOpen DEF Unvisited
<1> QED BY <1>1 DEF ReadyIsOpenless, ReadyNodes, Unvisited

(* When the sort stops early, what it left is a circle.                     *)
LEMMA CycleIsCircle == GraphInv /\ verdict = "cycle" => Circle(Unvisited)
<1> SUFFICES ASSUME GraphInv, verdict = "cycle" PROVE Circle(Unvisited)
  OBVIOUS
<1> USE DEF GraphInv
<1>1. readyNow = {} /\ Len(nodeOrder) # NodeCount
  BY DEF VerdictShape
<1>2. Visited # GraphNodes
  BY <1>1, GraphFinite DEF VisitedOnce
<1>3. Visited \subseteq GraphNodes
  BY DEF GraphTypeOK, Visited
<1>4. Unvisited # {}
  BY <1>2, <1>3 DEF Unvisited
<1>5. \A n \in Unvisited : OpenInto(n) # {}
  BY <1>1, NoneOpen DEF ReadyIsOpenless, Unvisited
<1>6. \A n \in Unvisited : \E i \in Inner(edges) : edges[i][2] = n /\ edges[i][1] \in Unvisited
  BY <1>5 DEF OpenInto, EdgesInto
<1> QED BY <1>4, <1>6 DEF Circle

(* When all nodes are visited, the first one of a circle has an upstream in *)
(* the circle that comes before it.                                         *)
LEMMA AcceptedHasNone ==
    ASSUME GraphInv, verdict = "accepted", NEW nodes \in SUBSET GraphNodes
    PROVE  ~Circle(nodes)
<1> SUFFICES ASSUME Circle(nodes) PROVE FALSE
  OBVIOUS
<1> USE DEF GraphInv
<1>1. Len(nodeOrder) = NodeCount
  BY DEF VerdictShape
<1>2. Visited \in SUBSET GraphNodes
  BY DEF GraphTypeOK, Visited
<1>3. Visited = GraphNodes
  <2>1. IsFiniteSet(GraphNodes) /\ Cardinality(Visited) = Cardinality(GraphNodes)
    BY <1>1, GraphFinite DEF VisitedOnce
  <2> QED BY ONLY <2>1, <1>2, FS_Subset
<1>4. Len(nodeOrder) \in Nat /\ DOMAIN nodeOrder = 1 .. Len(nodeOrder)
  BY DEF GraphTypeOK
<1> DEFINE Places == {k \in DOMAIN nodeOrder : nodeOrder[k] \in nodes}
<1>5. Places # {}
  BY <1>3 DEF Circle, Visited
<1>6. Places \in SUBSET (1 .. Len(nodeOrder)) /\ Places \subseteq Int
  BY <1>4
<1>7. \A k \in Places : \E j \in Places : j < k
  <2> SUFFICES ASSUME NEW k \in Places PROVE \E j \in Places : j < k
    OBVIOUS
  <2>1. PICK i \in Inner(edges) : edges[i][2] = nodeOrder[k] /\ edges[i][1] \in nodes
    BY DEF Circle
  <2>2. PICK j \in 1 .. (k - 1) : nodeOrder[j] = edges[i][1]
    BY <2>1 DEF UpstreamsFirst
  <2> QED BY <2>1, <2>2, <1>4
<1> HIDE DEF Places
<1>8. IsFiniteSet(1 .. Len(nodeOrder))
  BY <1>4, FS_Interval
<1>9. IsFiniteSet(Places)
  BY ONLY <1>6, <1>8, FS_Subset
<1>10. PICK k \in Places : \A j \in Places : k <= j
  BY ONLY <1>5, <1>6, <1>9, HasMin
<1>11. PICK j \in Places : j < k
  BY <1>7
<1>12. k <= j /\ k \in Int /\ j \in Int
  BY <1>6, <1>10
<1> QED BY ONLY <1>11, <1>12

(* What the sort holds ready is what ready_nodes returns, and a template is *)
(* rejected for a cycle if and only if it has one.                          *)
THEOREM SortAlwaysRight == GraphSpec => []SortIsRight
<1>1. GraphInv => SortIsRight
  <2> SUFFICES ASSUME GraphInv PROVE SortIsRight
    OBVIOUS
  <2>1. verdict = "cycle" => \E nodes \in SUBSET GraphNodes : Circle(nodes)
    <3>1. Unvisited \in SUBSET GraphNodes
      BY DEF Unvisited
    <3> QED BY <3>1, CycleIsCircle
  <2> QED BY <2>1, AcceptedHasNone, InvGivesReady DEF SortIsRight, VerdictIsRight
<1> QED BY <1>1, GraphInvInit, GraphInvStep, PTL DEF GraphSpec

-----------------------------------------------------------------------------
(* AssetAnnotation: what failed stays out                                  *)

(* What rows and requests are made of.                                      *)
IsRow(c) == DOMAIN c = {"kind", "ok", "duration", "clips", "windows"}
IsWork(w) == DOMAIN w = {"kind", "at", "window", "tried", "duration", "ok", "canon"}

AnnotationShape ==
    /\ usable \in BOOLEAN /\ canon.ok \in BOOLEAN /\ IsRow(canon)
    /\ DOMAIN work = Tasks
    /\ \A t \in Tasks :
          /\ IsWork(work[t]) /\ IsRow(work[t].canon)
          /\ work[t].ok \in BOOLEAN /\ work[t].canon.ok \in BOOLEAN
          /\ work[t].at \in {"write", "set"} => work[t].kind \in Edits

(* A patch or a replacement runs alone.                                     *)
EditsAlone ==
    \A t, u \in Tasks : Ongoing(t) /\ Ongoing(u) /\ work[t].kind \in Edits => t = u

(* What they are about to write is failed when the row they read was.       *)
EditsKeepFailure ==
    \A t \in Tasks :
        work[t].at \in {"write", "set"} /\ work[t].canon.kind = "v4" /\ usable => work[t].canon.ok

AnnotationInv == AnnotationShape /\ EditsAlone /\ EditsKeepFailure /\ FailedStaysOut

-----------------------------------------------------------------------------
LEMMA AnnotationInvInit == AnnotationInit => AnnotationInv
<1> SUFFICES ASSUME AnnotationInit PROVE AnnotationInv
  OBVIOUS
<1>1. IsRow(NoRow) /\ NoRow.ok = FALSE /\ NoRow.kind = "none"
  BY DEF IsRow, NoRow
<1>2. /\ IsWork(NoWork) /\ NoWork.canon = NoRow /\ NoWork.ok = FALSE /\ NoWork.at = "new"
  BY DEF IsWork, NoWork
<1>3. /\ usable = TRUE /\ canon = NoRow /\ DOMAIN work = Tasks
      /\ \A t \in Tasks : work[t] = NoWork
  BY DEF AnnotationInit
<1>4. AnnotationShape
  BY <1>1, <1>2, <1>3 DEF AnnotationShape
<1>5. EditsAlone /\ EditsKeepFailure /\ FailedStaysOut
  BY <1>1, <1>2, <1>3 DEF EditsAlone, EditsKeepFailure, FailedStaysOut, Ongoing
<1> QED BY <1>4, <1>5 DEF AnnotationInv

(* A request that begins when it may is alone or no edit.                   *)
LEMMA StartKeepsAlone ==
    ASSUME ~OverlapEdits, AnnotationShape, EditsAlone, NEW t \in Tasks, NEW kind, MayStart(t, kind),
           NEW w, work' = [work EXCEPT ![t] = w], w.kind = kind
    PROVE  EditsAlone'
<1>1. \A u \in Tasks : Ongoing(u) => kind \notin Edits /\ work[u].kind \notin Edits
  BY DEF MayStart
<1>2. \A u \in Tasks : work'[u] = IF u = t THEN w ELSE work[u]
  BY DEF AnnotationShape
<1>3. \A u \in Tasks : u # t => (Ongoing(u)' <=> Ongoing(u)) /\ work'[u].kind = work[u].kind
  BY <1>2 DEF Ongoing
<1>4. work'[t].kind = kind
  BY <1>2
<1> QED BY <1>1, <1>3, <1>4 DEF EditsAlone

(* A request that goes on stays what it is.                                 *)
LEMMA GoingKeepsAlone ==
    ASSUME AnnotationShape, EditsAlone, NEW t \in Tasks, Ongoing(t),
           NEW w, work' = [work EXCEPT ![t] = w], w.kind = work[t].kind
    PROVE  EditsAlone'
<1>1. \A u \in Tasks : work'[u] = IF u = t THEN w ELSE work[u]
  BY DEF AnnotationShape
<1>2. \A u \in Tasks : (Ongoing(u)' => Ongoing(u)) /\ work'[u].kind = work[u].kind
  BY <1>1 DEF Ongoing
<1> QED BY <1>2 DEF EditsAlone

(* The others, whatever one of them does.                                   *)
LEMMA GoesChanges ==
    ASSUME AnnotationShape, NEW t \in Tasks, NEW w, Goes(t, w)
    PROVE  /\ work' = [work EXCEPT ![t] = w] /\ DOMAIN work' = Tasks
           /\ \A u \in Tasks : work'[u] = IF u = t THEN w ELSE work[u]
BY DEF AnnotationShape, Goes

(* A step of a request that leaves the rows alone.                          *)
LEMMA RowsStayKeeps ==
    ASSUME AnnotationShape, EditsKeepFailure, FailedStaysOut, RowsStay,
           NEW t \in Tasks, NEW w, Goes(t, w),
           IsWork(w), IsRow(w.canon), w.ok \in BOOLEAN, w.canon.ok \in BOOLEAN,
           w.at \in {"write", "set"} => /\ w.kind \in Edits
                                        /\ w.canon.kind = "v4" /\ usable => w.canon.ok
    PROVE  AnnotationShape' /\ EditsKeepFailure' /\ FailedStaysOut'
<1>1. DOMAIN work' = Tasks /\ \A u \in Tasks : work'[u] = IF u = t THEN w ELSE work[u]
  BY GoesChanges
<1>2. usable' = usable /\ canon' = canon
  BY DEF RowsStay
<1>3. AnnotationShape'
  BY <1>1, <1>2 DEF AnnotationShape
<1>4. EditsKeepFailure'
  BY <1>1, <1>2 DEF EditsKeepFailure
<1> QED BY <1>2, <1>3, <1>4 DEF FailedStaysOut

(* A request is over, and the rows have changed.                            *)
LEMMA DoneKeeps ==
    ASSUME AnnotationShape, EditsAlone, EditsKeepFailure, NEW t \in Tasks, Ongoing(t),
           NEW w, Goes(t, w), IsWork(w), IsRow(w.canon), w.ok \in BOOLEAN, w.canon.ok \in BOOLEAN,
           w.at = "done", w.kind = work[t].kind,
           usable' \in BOOLEAN, canon'.ok \in BOOLEAN, IsRow(canon'),
           usable' => usable \/ work[t].kind = "rerun"
    PROVE  AnnotationShape' /\ EditsAlone' /\ EditsKeepFailure'
<1>1. /\ work' = [work EXCEPT ![t] = w]
      /\ DOMAIN work' = Tasks /\ \A u \in Tasks : work'[u] = IF u = t THEN w ELSE work[u]
  BY GoesChanges
<1>2. AnnotationShape'
  BY <1>1 DEF AnnotationShape
<1>3. EditsAlone'
  BY <1>1, GoingKeepsAlone
<1>4. EditsKeepFailure'
  <2> SUFFICES ASSUME NEW u \in Tasks, work'[u].at \in {"write", "set"},
                      work'[u].canon.kind = "v4", usable'
               PROVE  work'[u].canon.ok
    BY DEF EditsKeepFailure
  <2>1. u # t /\ work'[u] = work[u]
    BY <1>1
  <2>2. work[u].kind \in Edits /\ Ongoing(u)
    BY <2>1 DEF AnnotationShape, Ongoing
  <2>3. u = t
    BY <2>2 DEF EditsAlone
  <2> QED BY <2>1, <2>3
<1> QED BY <1>2, <1>3, <1>4

-----------------------------------------------------------------------------
LEMMA OpenEditorKeeps == AnnotationInv /\ OpenEditor => AnnotationInv'
BY DEF AnnotationInv, OpenEditor, AnnotationShape, EditsAlone, EditsKeepFailure, FailedStaysOut,
       IsRow, Stub, NoRow, Ongoing

LEMMA BeginRerunKeeps ==
    ASSUME ~OverlapEdits, AnnotationInv, NEW t \in Tasks, NEW batch \in BOOLEAN, BeginRerun(t, batch)
    PROVE  AnnotationInv'
<1> USE DEF AnnotationInv
<1>1. PICK configured \in BOOLEAN :
        Goes(t, [NoWork EXCEPT !.kind = "rerun", !.duration = SourceDuration,
                     !.at = IF batch /\ status = "annotated" THEN "done"
                            ELSE IF configured THEN "window" ELSE "persist",
                     !.window = 1])
  BY DEF BeginRerun
<1> DEFINE w == [NoWork EXCEPT !.kind = "rerun", !.duration = SourceDuration,
                     !.at = IF batch /\ status = "annotated" THEN "done"
                            ELSE IF configured THEN "window" ELSE "persist",
                     !.window = 1]
<1>2. /\ w.kind = "rerun" /\ w.at \notin {"write", "set"} /\ IsWork(w) /\ IsRow(w.canon)
      /\ w.ok \in BOOLEAN /\ w.canon.ok \in BOOLEAN
  BY DEF NoWork, NoRow, IsWork, IsRow
<1> HIDE DEF w
<1>3. MayStart(t, "rerun") /\ RowsStay /\ Goes(t, w)
  BY <1>1 DEF BeginRerun, w
<1>4. AnnotationShape' /\ EditsKeepFailure' /\ FailedStaysOut'
  BY <1>2, <1>3, RowsStayKeeps
<1>5. EditsAlone'
  BY <1>2, <1>3, StartKeepsAlone DEF Goes
<1> QED BY <1>4, <1>5

(* A window goes on, is tried again or gives up.                            *)
LEMMA AnalyzeGoes ==
    ASSUME AnnotationShape, NEW t \in Tasks, AnalyzeWindow(t)
    PROVE  \E w : /\ Goes(t, w) /\ w.kind = "rerun" /\ w.at \notin {"write", "set"} /\ IsWork(w)
                  /\ w.canon = work[t].canon /\ w.ok \in BOOLEAN /\ w.duration = work[t].duration
<1>1. work[t].kind = "rerun" /\ IsWork(work[t]) /\ work[t].ok \in BOOLEAN
  BY DEF AnalyzeWindow, AnnotationShape
<1>2. CASE Goes(t, [work[t] EXCEPT !.window = @ + 1, !.tried = Zero,
                        !.at = IF work[t].window = WindowCount THEN "persist" ELSE "window",
                        !.ok = work[t].window = WindowCount])
  <2> DEFINE last == work[t].window = WindowCount
             w == [work[t] EXCEPT !.window = @ + 1, !.tried = Zero,
                       !.at = IF last THEN "persist" ELSE "window", !.ok = last]
  <2>1. last \in BOOLEAN
    OBVIOUS
  <2> HIDE DEF last
  <2>2. /\ w.kind = work[t].kind /\ w.at \in {"persist", "window"} /\ IsWork(w)
        /\ w.canon = work[t].canon /\ w.ok = last /\ w.duration = work[t].duration
    BY <1>1 DEF IsWork
  <2>3. Goes(t, w)
    BY <1>2 DEF last
  <2> HIDE DEF w
  <2> QED BY <2>1, <2>2, <2>3, <1>1
<1>3. CASE \E kind \in DOMAIN Retries :
              Goes(t, IF work[t].tried[kind] >= Retries[kind]
                       THEN [work[t] EXCEPT !.at = "persist"]
                       ELSE [work[t] EXCEPT !.tried[kind] = @ + 1])
  <2>1. PICK kind \in DOMAIN Retries :
              Goes(t, IF work[t].tried[kind] >= Retries[kind]
                       THEN [work[t] EXCEPT !.at = "persist"]
                       ELSE [work[t] EXCEPT !.tried[kind] = @ + 1])
    BY <1>3
  <2>2. CASE Goes(t, [work[t] EXCEPT !.at = "persist"])
    BY <2>2, <1>1 DEF IsWork
  <2>3. CASE Goes(t, [work[t] EXCEPT !.tried[kind] = @ + 1])
    <3> DEFINE w == [work[t] EXCEPT !.tried[kind] = @ + 1]
    <3>1. /\ w.kind = work[t].kind /\ w.at = work[t].at /\ IsWork(w) /\ w.canon = work[t].canon
          /\ w.ok = work[t].ok /\ w.duration = work[t].duration
      BY <1>1 DEF IsWork
    <3>2. Goes(t, w) /\ work[t].at = "window"
      BY <2>3 DEF AnalyzeWindow
    <3> HIDE DEF w
    <3> QED BY <1>1, <3>1, <3>2
  <2> QED BY <2>1, <2>2, <2>3
<1>4. CASE Goes(t, [work[t] EXCEPT !.at = "persist"])
  BY <1>4, <1>1 DEF IsWork
<1>5. CASE Goes(t, [work[t] EXCEPT !.at = "done"])
  BY <1>5, <1>1 DEF IsWork
<1> QED BY <1>2, <1>3, <1>4, <1>5 DEF AnalyzeWindow

LEMMA AnalyzeKeeps ==
    ASSUME AnnotationInv, NEW t \in Tasks, AnalyzeWindow(t)
    PROVE  AnnotationInv'
<1> USE DEF AnnotationInv
<1>1. work[t].kind = "rerun" /\ work[t].at = "window" /\ RowsStay /\ Ongoing(t)
  BY DEF AnalyzeWindow, Ongoing
<1>2. /\ IsWork(work[t]) /\ IsRow(work[t].canon) /\ work[t].ok \in BOOLEAN
      /\ work[t].canon.ok \in BOOLEAN
  BY DEF AnnotationShape
<1>3. PICK w : /\ Goes(t, w) /\ w.kind = "rerun" /\ w.at \notin {"write", "set"} /\ IsWork(w)
               /\ w.canon = work[t].canon /\ w.ok \in BOOLEAN
  BY AnalyzeGoes
<1>4. AnnotationShape' /\ EditsKeepFailure' /\ FailedStaysOut'
  BY <1>1, <1>2, <1>3, RowsStayKeeps
<1>5. EditsAlone'
  BY <1>1, <1>3, GoingKeepsAlone DEF Goes
<1> QED BY <1>4, <1>5

(* What an analysis writes is usable only when the analysis is ok.          *)
LEMMA PersistKeeps ==
    ASSUME AnnotationInv, NEW t \in Tasks, Persist(t)
    PROVE  AnnotationInv'
<1> USE DEF AnnotationInv
<1>1. work[t].kind = "rerun" /\ work[t].at = "persist" /\ Ongoing(t)
  BY DEF Persist, Ongoing
<1>2. /\ IsWork(work[t]) /\ IsRow(work[t].canon) /\ work[t].ok \in BOOLEAN
      /\ work[t].canon.ok \in BOOLEAN
  BY DEF AnnotationShape
<1>3. PICK cut, windows :
        /\ canon' = V4(work[t].ok, work[t].duration, cut, windows)
        /\ usable' = (work[t].ok /\ windows # {})
  BY DEF Persist, PersistAnnotation
<1>4. usable' \in BOOLEAN /\ canon'.ok = work[t].ok /\ IsRow(canon') /\ (usable' => work[t].ok)
  BY <1>2, <1>3 DEF V4, IsRow
<1> DEFINE w == [work[t] EXCEPT !.at = "done"]
<1>5. IsWork(w) /\ w.at = "done" /\ w.kind = work[t].kind /\ w.canon = work[t].canon /\ w.ok = work[t].ok
  BY <1>2 DEF IsWork
<1>6. Goes(t, w)
  BY DEF Persist
<1> HIDE DEF w
<1>7. AnnotationShape' /\ EditsAlone' /\ EditsKeepFailure'
  BY <1>1, <1>2, <1>4, <1>5, <1>6, DoneKeeps
<1>8. FailedStaysOut'
  BY <1>4 DEF FailedStaysOut
<1> QED BY <1>7, <1>8

-----------------------------------------------------------------------------
LEMMA ReadForPatchKeeps ==
    ASSUME ~OverlapEdits, AnnotationInv, NEW t \in Tasks, ReadForPatch(t)
    PROVE  AnnotationInv'
<1> USE DEF AnnotationInv
<1> DEFINE w == [NoWork EXCEPT !.kind = "patch", !.at = "write", !.canon = Parsed(canon)]
<1>1. /\ w.kind = "patch" /\ IsWork(w) /\ w.canon = Parsed(canon) /\ w.ok \in BOOLEAN
  BY DEF NoWork, IsWork
<1>2. IsRow(Parsed(canon)) /\ Parsed(canon).ok \in BOOLEAN /\ (usable => Parsed(canon).ok)
  BY DEF Parsed, V4, IsRow, AnnotationShape, FailedStaysOut
<1>3. MayStart(t, "patch") /\ RowsStay /\ Goes(t, w)
  BY DEF ReadForPatch
<1> HIDE DEF w
<1>4. AnnotationShape' /\ EditsKeepFailure' /\ FailedStaysOut'
  BY <1>1, <1>2, <1>3, RowsStayKeeps DEF Edits
<1>5. EditsAlone'
  BY <1>1, <1>3, StartKeepsAlone DEF Goes
<1> QED BY <1>4, <1>5

LEMMA WritePatchedKeeps ==
    ASSUME AnnotationInv, NEW t \in Tasks, WritePatched(t)
    PROVE  AnnotationInv'
<1> USE DEF AnnotationInv
<1>1. work[t].kind = "patch" /\ work[t].at = "write" /\ Ongoing(t) /\ usable' = usable
  BY DEF WritePatched, Ongoing
<1>2. /\ IsWork(work[t]) /\ IsRow(work[t].canon) /\ work[t].ok \in BOOLEAN
      /\ work[t].canon.ok \in BOOLEAN
  BY DEF AnnotationShape
<1>3. \/ canon' = canon
      \/ /\ IsRow(canon')
         /\ canon'.ok = work[t].canon.ok /\ canon'.kind = work[t].canon.kind
  <2>1. CASE \E cut \in ClipSets(media) : canon' = [work[t].canon EXCEPT !.clips = cut]
    BY <2>1, <1>2 DEF IsRow
  <2>2. CASE canon' = work[t].canon
    BY <2>2, <1>2
  <2> QED BY <2>1, <2>2 DEF WritePatched
<1>4. IsRow(canon') /\ canon'.ok \in BOOLEAN /\ usable' \in BOOLEAN
  BY <1>1, <1>2, <1>3 DEF AnnotationShape
<1> DEFINE w == [work[t] EXCEPT !.at = "done"]
<1>5. IsWork(w) /\ w.at = "done" /\ w.kind = work[t].kind /\ w.canon = work[t].canon /\ w.ok = work[t].ok
  BY <1>2 DEF IsWork
<1>6. Goes(t, w)
  BY DEF WritePatched
<1> HIDE DEF w
<1>7. AnnotationShape' /\ EditsAlone' /\ EditsKeepFailure'
  BY <1>1, <1>2, <1>4, <1>5, <1>6, DoneKeeps
<1>8. FailedStaysOut'
  BY <1>1, <1>3 DEF FailedStaysOut, EditsKeepFailure
<1> QED BY <1>7, <1>8

-----------------------------------------------------------------------------
LEMMA MeasureKeeps ==
    ASSUME ~OverlapEdits, AnnotationInv, NEW t \in Tasks, MeasureSources(t)
    PROVE  AnnotationInv'
<1> USE DEF AnnotationInv
<1>1. PICK upload \in Durations :
        Goes(t, [NoWork EXCEPT !.kind = "replace", !.at = "swap", !.duration = upload,
                               !.canon = V4(FALSE, AnnotatedDuration, {}, {})])
  BY DEF MeasureSources
<1> DEFINE w == [NoWork EXCEPT !.kind = "replace", !.at = "swap", !.duration = upload,
                               !.canon = V4(FALSE, AnnotatedDuration, {}, {})]
<1>2. /\ w.kind = "replace" /\ w.at = "swap" /\ IsWork(w) /\ IsRow(w.canon)
      /\ w.ok \in BOOLEAN /\ w.canon.ok \in BOOLEAN
  BY DEF NoWork, IsWork, IsRow, V4
<1>3. MayStart(t, "replace") /\ RowsStay /\ Goes(t, w)
  BY <1>1 DEF MeasureSources
<1> HIDE DEF w
<1>4. AnnotationShape' /\ EditsKeepFailure' /\ FailedStaysOut'
  BY <1>2, <1>3, RowsStayKeeps
<1>5. EditsAlone'
  BY <1>2, <1>3, StartKeepsAlone DEF Goes
<1> QED BY <1>4, <1>5

LEMMA SwapKeeps ==
    ASSUME AnnotationInv, NEW t \in Tasks, SwapSource(t)
    PROVE  AnnotationInv'
<1> USE DEF AnnotationInv
<1> DEFINE w == [work[t] EXCEPT !.at = "compare"]
<1>1. Ongoing(t) /\ usable' = usable /\ canon' = canon /\ Goes(t, w)
  BY DEF SwapSource, Ongoing
<1>2. IsWork(w) /\ w.at = "compare" /\ w.kind = work[t].kind /\ w.canon = work[t].canon /\ w.ok = work[t].ok
  BY DEF IsWork, AnnotationShape
<1> HIDE DEF w
<1>3. /\ work' = [work EXCEPT ![t] = w]
      /\ DOMAIN work' = Tasks /\ \A u \in Tasks : work'[u] = IF u = t THEN w ELSE work[u]
  BY <1>1, GoesChanges
<1>4. AnnotationShape'
  BY <1>1, <1>2, <1>3 DEF AnnotationShape
<1>5. EditsAlone'
  BY <1>1, <1>2, <1>3, GoingKeepsAlone
<1>6. EditsKeepFailure' /\ FailedStaysOut'
  BY <1>1, <1>2, <1>3 DEF EditsKeepFailure, FailedStaysOut
<1> QED BY <1>4, <1>5, <1>6

LEMMA CompareKeeps ==
    ASSUME AnnotationInv, NEW t \in Tasks, CompareDurations(t)
    PROVE  AnnotationInv'
<1> USE DEF AnnotationInv
<1>1. PICK w : /\ Goes(t, w)
               /\ w \in {[work[t] EXCEPT !.at = "reclip"],
                         [work[t] EXCEPT !.at = "done", !.ok = canon # NoRow]}
  BY DEF CompareDurations
<1>2. /\ IsWork(w) /\ w.at \in {"reclip", "done"} /\ w.kind = work[t].kind /\ w.canon = work[t].canon
      /\ w.ok \in BOOLEAN
  BY <1>1 DEF IsWork, AnnotationShape
<1>3. Ongoing(t) /\ RowsStay
  BY DEF CompareDurations, Ongoing
<1>4. IsRow(w.canon) /\ w.canon.ok \in BOOLEAN
  BY <1>2 DEF AnnotationShape
<1>5. AnnotationShape' /\ EditsKeepFailure' /\ FailedStaysOut'
  BY <1>1, <1>2, <1>3, <1>4, RowsStayKeeps
<1>6. EditsAlone'
  BY <1>1, <1>2, <1>3, GoingKeepsAlone DEF Goes
<1> QED BY <1>5, <1>6

LEMMA ReadForReclipKeeps ==
    ASSUME AnnotationInv, NEW t \in Tasks, ReadForReclip(t)
    PROVE  AnnotationInv'
<1> USE DEF AnnotationInv
<1>1. work[t].kind = "replace" /\ work[t].at = "reclip" /\ Ongoing(t) /\ RowsStay
  BY DEF ReadForReclip, Ongoing
<1>2. /\ IsWork(work[t]) /\ IsRow(work[t].canon) /\ work[t].ok \in BOOLEAN
      /\ work[t].canon.ok \in BOOLEAN
  BY DEF AnnotationShape
<1> DEFINE c == IF canon.kind = "v4" THEN Reclipped(canon, work[t].canon.duration, work[t].duration)
                ELSE Stub
<1>3. IsRow(c) /\ c.ok \in BOOLEAN /\ (c.kind = "v4" /\ usable => c.ok)
  <2>1. CASE canon.kind = "v4"
    <3>1. PICK duration, cut, windows :
            c = [canon EXCEPT !.duration = duration, !.clips = cut, !.windows = windows]
      BY <2>1 DEF Reclipped
    <3>2. IsRow(canon) /\ canon.ok \in BOOLEAN /\ (usable => canon.ok)
      BY <2>1 DEF AnnotationShape, FailedStaysOut
    <3> HIDE DEF c
    <3>3. c = [kind |-> canon.kind, ok |-> canon.ok, duration |-> duration, clips |-> cut, windows |-> windows]
      BY <3>1, <3>2 DEF IsRow
    <3> QED BY <3>2, <3>3 DEF IsRow
  <2>2. CASE canon.kind # "v4"
    <3>1. c = Stub
      BY <2>2
    <3>2. IsRow(Stub) /\ Stub.ok = FALSE /\ Stub.kind = "stub"
      BY DEF Stub, NoRow, IsRow
    <3> QED BY ONLY <3>1, <3>2
  <2> QED BY <2>1, <2>2
<1>4. \E w : /\ Goes(t, w) /\ w.kind = "replace" /\ IsWork(w) /\ w.ok \in BOOLEAN
             /\ \/ w.at = "done" /\ w.canon = work[t].canon
                \/ w.at = "set" /\ w.canon = c
  <2>1. CASE canon = NoRow
    <3>1. Goes(t, [work[t] EXCEPT !.at = "done"])
      BY <2>1 DEF ReadForReclip
    <3> QED BY <3>1, <1>1, <1>2 DEF IsWork
  <2>2. CASE canon # NoRow
    <3>1. Goes(t, [work[t] EXCEPT !.at = "set", !.canon = c])
      BY <2>2 DEF ReadForReclip
    <3> HIDE DEF c
    <3> DEFINE w == [work[t] EXCEPT !.at = "set", !.canon = c]
    <3>2. w.kind = work[t].kind /\ w.at = "set" /\ w.canon = c /\ IsWork(w) /\ w.ok = work[t].ok
      BY <1>2 DEF IsWork
    <3> HIDE DEF w
    <3>3. Goes(t, w)
      BY <3>1 DEF w
    <3> QED BY <3>2, <3>3, <1>1, <1>2
  <2> QED BY <2>1, <2>2
<1> HIDE DEF c
<1>5. PICK w : /\ Goes(t, w) /\ w.kind = "replace" /\ IsWork(w) /\ w.ok \in BOOLEAN
               /\ \/ w.at = "done" /\ w.canon = work[t].canon
                  \/ w.at = "set" /\ w.canon = c
  BY <1>4
<1>6. /\ IsRow(w.canon) /\ w.canon.ok \in BOOLEAN
      /\ w.at \in {"write", "set"} => /\ w.kind \in Edits
                                      /\ w.canon.kind = "v4" /\ usable => w.canon.ok
  BY <1>2, <1>3, <1>5 DEF Edits
<1>7. AnnotationShape' /\ EditsKeepFailure' /\ FailedStaysOut'
  BY <1>1, <1>5, <1>6, RowsStayKeeps
<1>8. EditsAlone'
  BY <1>1, <1>5, GoingKeepsAlone DEF Goes
<1> QED BY <1>7, <1>8

LEMMA SetReclippedKeeps ==
    ASSUME AnnotationInv, NEW t \in Tasks, SetReclipped(t)
    PROVE  AnnotationInv'
<1> USE DEF AnnotationInv
<1>1. work[t].kind = "replace" /\ work[t].at = "set" /\ Ongoing(t)
  BY DEF SetReclipped, Ongoing
<1>2. /\ IsWork(work[t]) /\ IsRow(work[t].canon) /\ work[t].canon.ok \in BOOLEAN
      /\ IsRow(canon) /\ canon.ok \in BOOLEAN /\ usable \in BOOLEAN
  BY DEF AnnotationShape
<1>3. /\ IsRow(canon') /\ canon'.ok \in BOOLEAN /\ usable' \in BOOLEAN
      /\ usable' => usable
      /\ usable' /\ canon'.kind = "v4" => canon'.ok
  <2>1. CASE work[t].canon.kind = "v4"
    <3>1. usable' = usable /\ (canon' = canon \/ canon' = work[t].canon)
      BY <2>1 DEF SetReclipped
    <3> QED BY <3>1, <2>1, <1>1, <1>2 DEF EditsKeepFailure, FailedStaysOut
  <2>2. CASE work[t].canon.kind # "v4"
    <3>1. usable' = FALSE /\ canon' = NoRow
      BY <2>2 DEF SetReclipped
    <3> QED BY <3>1 DEF NoRow, IsRow
  <2> QED BY <2>1, <2>2
<1> DEFINE w == [work[t] EXCEPT !.at = "done", !.ok = work[t].canon.kind = "v4"]
<1>4. IsWork(w) /\ w.at = "done" /\ w.kind = work[t].kind /\ w.canon = work[t].canon /\ w.ok \in BOOLEAN
  BY <1>2 DEF IsWork
<1>5. Goes(t, w)
  BY DEF SetReclipped
<1> HIDE DEF w
<1>6. AnnotationShape' /\ EditsAlone' /\ EditsKeepFailure'
  BY <1>1, <1>2, <1>3, <1>4, <1>5, DoneKeeps
<1>7. FailedStaysOut'
  BY <1>3 DEF FailedStaysOut
<1> QED BY <1>6, <1>7

-----------------------------------------------------------------------------
LEMMA BeginProcessingKeeps ==
    ASSUME ~OverlapEdits, AnnotationInv, NEW t \in Tasks, BeginProcessing(t)
    PROVE  AnnotationInv'
<1> USE DEF AnnotationInv
<1>1. PICK result \in Durations :
        Goes(t, [NoWork EXCEPT !.kind = "process", !.at = "store", !.duration = result])
  BY DEF BeginProcessing
<1> DEFINE w == [NoWork EXCEPT !.kind = "process", !.at = "store", !.duration = result]
<1>2. /\ w.kind = "process" /\ w.at = "store" /\ IsWork(w) /\ IsRow(w.canon)
      /\ w.ok \in BOOLEAN /\ w.canon.ok \in BOOLEAN
  BY DEF NoWork, NoRow, IsWork, IsRow
<1>3. MayStart(t, "process") /\ RowsStay /\ Goes(t, w)
  BY <1>1 DEF BeginProcessing
<1> HIDE DEF w
<1>4. AnnotationShape' /\ EditsKeepFailure' /\ FailedStaysOut'
  BY <1>2, <1>3, RowsStayKeeps
<1>5. EditsAlone'
  BY <1>2, <1>3, StartKeepsAlone DEF Goes
<1> QED BY <1>4, <1>5

LEMMA StoreProcessedKeeps ==
    ASSUME AnnotationInv, NEW t \in Tasks, StoreProcessed(t)
    PROVE  AnnotationInv'
<1> USE DEF AnnotationInv
<1> DEFINE w == [work[t] EXCEPT !.at = "done"]
<1>1. Ongoing(t) /\ usable' = usable /\ canon' = canon /\ Goes(t, w)
  BY DEF StoreProcessed, Ongoing
<1>2. IsWork(w) /\ w.at = "done" /\ w.kind = work[t].kind /\ w.canon = work[t].canon /\ w.ok = work[t].ok
  BY DEF IsWork, AnnotationShape
<1>3. IsRow(w.canon) /\ w.ok \in BOOLEAN /\ w.canon.ok \in BOOLEAN
  BY <1>2 DEF AnnotationShape
<1>4. usable' \in BOOLEAN /\ canon'.ok \in BOOLEAN /\ IsRow(canon')
  BY <1>1 DEF AnnotationShape
<1> HIDE DEF w
<1>5. AnnotationShape' /\ EditsAlone' /\ EditsKeepFailure'
  BY <1>1, <1>2, <1>3, <1>4, DoneKeeps
<1> QED BY <1>1, <1>5 DEF FailedStaysOut

LEMMA AnnotationInvStep ==
    ASSUME ~OverlapEdits
    PROVE  AnnotationInv /\ [AnnotationNext]_annotationVars => AnnotationInv'
<1> SUFFICES ASSUME AnnotationInv, [AnnotationNext]_annotationVars PROVE AnnotationInv'
  OBVIOUS
<1>1. CASE OpenEditor
  BY <1>1, OpenEditorKeeps
<1>2. CASE \E t \in Tasks : \E batch \in BOOLEAN : BeginRerun(t, batch)
  BY <1>2, BeginRerunKeeps
<1>3. CASE \E t \in Tasks : AnalyzeWindow(t) \/ Persist(t)
  BY <1>3, AnalyzeKeeps, PersistKeeps
<1>4. CASE \E t \in Tasks : ReadForPatch(t) \/ WritePatched(t)
  BY <1>4, ReadForPatchKeeps, WritePatchedKeeps
<1>5. CASE \E t \in Tasks : MeasureSources(t) \/ SwapSource(t) \/ CompareDurations(t)
  BY <1>5, MeasureKeeps, SwapKeeps, CompareKeeps
<1>6. CASE \E t \in Tasks : ReadForReclip(t) \/ SetReclipped(t)
  BY <1>6, ReadForReclipKeeps, SetReclippedKeeps
<1>7. CASE \E t \in Tasks : BeginProcessing(t) \/ StoreProcessed(t)
  BY <1>7, BeginProcessingKeeps, StoreProcessedKeeps
<1>8. CASE UNCHANGED annotationVars
  BY <1>8 DEF annotationVars, AnnotationInv, AnnotationShape, EditsAlone, EditsKeepFailure,
              FailedStaysOut, Ongoing
<1> QED BY <1>1, <1>2, <1>3, <1>4, <1>5, <1>6, <1>7, <1>8 DEF AnnotationNext

(* An asset whose analysis failed is not offered to planning, whatever      *)
(* analyses, patches, replacements and conversions follow, as long as no    *)
(* patch or replacement overlaps another request.                           *)
THEOREM FailedAlwaysOut ==
    ASSUME ~OverlapEdits
    PROVE  AnnotationSpec => []FailedStaysOut
<1>1. AnnotationInv => FailedStaysOut
  BY DEF AnnotationInv
<1> QED BY <1>1, AnnotationInvInit, AnnotationInvStep, PTL DEF AnnotationSpec

-----------------------------------------------------------------------------
(* CoveragePlanning: a cover is honest                                     *)

(* The spans there are, what is shown of each, and a segment of the cover.  *)
AllSpans == UNION Offers
Prints == [s \in AllSpans |-> Footprint(s)]
Segment == [span : AllSpans, from : Nat, to : Nat, source : [from : Nat, to : Nat]]

CoverShape ==
    /\ demand \in Nat
    /\ offers \in Seq(AllSpans)
    /\ cover \in Seq(Segment)
    /\ outcome \in {"planning", "insufficient", "invalid", "ready"}

(* A span is offered once, and not any more when it is shown.               *)
OfferedOnce ==
    /\ \A j, k \in DOMAIN offers : offers[j] = offers[k] => j = k
    /\ \A k \in DOMAIN offers : offers[k] \notin Shown
ShownOnce == \A j, k \in DOMAIN cover : cover[j].span.name = cover[k].span.name => j = k

Chained ==
    /\ cover # <<>> => cover[1].from = 0
    /\ \A k \in 1 .. (Len(cover) - 1) : cover[k].to = cover[k + 1].from
    /\ Covered <= demand

SegmentFits(g) ==
    /\ g.span.from <= g.source.from /\ g.source.to <= g.span.to
    /\ Footprint(g.source) = g.to - g.from
    /\ Footprint(g.span) > 0
AllFit == \A k \in DOMAIN cover : SegmentFits(cover[k])

(* A span is cut short only where the narration ends.                       *)
ShownWhole == Covered < demand => Total(Prints, Shown) = Covered

OutcomeRight ==
    /\ outcome \in {"invalid", "ready"} => Enough
    /\ outcome = "insufficient" => ~Enough /\ NextOffer = {}

CoverInv ==
    CoverShape /\ OfferedOnce /\ ShownOnce /\ Chained /\ AllFit /\ ShownWhole /\ OutcomeRight

-----------------------------------------------------------------------------
LEMMA SpansTyped == \A s \in AllSpans : s.from \in Nat /\ s.to \in Nat /\ Footprint(s) \in Int
BY CoverConstants DEF AllSpans, Footprint

LEMMA PrintsTyped == \A s \in AllSpans : Prints[s] = Footprint(s) /\ Prints[s] \in Int
BY SpansTyped DEF Prints

LEMMA CoverTyped ==
    ASSUME CoverShape
    PROVE  /\ Len(cover) \in Nat /\ DOMAIN cover = 1 .. Len(cover)
           /\ Len(offers) \in Nat /\ DOMAIN offers = 1 .. Len(offers)
           /\ \A k \in DOMAIN offers : offers[k] \in AllSpans
           /\ \A k \in DOMAIN cover : /\ cover[k] \in Segment /\ cover[k].span \in AllSpans
                                      /\ cover[k].from \in Nat /\ cover[k].to \in Nat
                                      /\ cover[k].source.from \in Nat /\ cover[k].source.to \in Nat
           /\ Shown \subseteq AllSpans
           /\ Covered \in Nat /\ demand \in Nat /\ LeastCover \in Nat
<1>1. /\ Len(cover) \in Nat /\ DOMAIN cover = 1 .. Len(cover)
      /\ Len(offers) \in Nat /\ DOMAIN offers = 1 .. Len(offers)
      /\ \A k \in DOMAIN offers : offers[k] \in AllSpans
      /\ \A k \in DOMAIN cover : cover[k] \in Segment
  BY DEF CoverShape
<1>2. \A k \in DOMAIN cover : /\ cover[k].span \in AllSpans
                              /\ cover[k].from \in Nat /\ cover[k].to \in Nat
                              /\ cover[k].source.from \in Nat /\ cover[k].source.to \in Nat
  BY <1>1 DEF Segment
<1>3. Shown \subseteq AllSpans
  BY <1>2 DEF Shown
<1>4. Covered \in Nat
  <2>1. CASE cover = <<>>
    BY <2>1 DEF Covered
  <2>2. CASE cover # <<>>
    <3>1. Len(cover) # 0
      BY <2>2 DEF CoverShape
    <3>2. Len(cover) \in DOMAIN cover
      BY <1>1, <3>1
    <3> QED BY <2>2, <3>2, <1>2 DEF Covered, Last
  <2> QED BY <2>1, <2>2
<1> QED BY <1>1, <1>2, <1>3, <1>4, CoverConstants DEF CoverShape

(* As many spans are shown as the cover has segments.                       *)
LEMMA ShownCounted ==
    ASSUME CoverShape, ShownOnce
    PROVE  IsFiniteSet(Shown) /\ Cardinality(Shown) = Len(cover)
<1> DEFINE show == [k \in 1 .. Len(cover) |-> cover[k].span]
<1>1. Len(cover) \in Nat /\ DOMAIN cover = 1 .. Len(cover)
  BY CoverTyped
<1>2. show \in [1 .. Len(cover) -> Shown]
  BY <1>1 DEF Shown
<1>3. \A s \in Shown : \E k \in 1 .. Len(cover) : show[k] = s
  BY <1>1 DEF Shown
<1>4. \A j, k \in 1 .. Len(cover) : show[j] = show[k] => j = k
  BY <1>1 DEF ShownOnce
<1>5. DOMAIN show = 1 .. Len(cover)
  OBVIOUS
<1> HIDE DEF show
<1>6. show \in Injection(1 .. Len(cover), Shown) /\ show \in Surjection(1 .. Len(cover), Shown)
  BY ONLY <1>2, <1>3, <1>4, <1>5 DEF Injection, Surjection, IsInjective
<1>7. ExistsBijection(1 .. Len(cover), Shown)
  BY ONLY <1>6 DEF ExistsBijection, Bijection
<1> DEFINE n == Len(cover)
<1>8. n \in Nat /\ 1 \in Int /\ n \in Int
  BY <1>1
<1> HIDE DEF n
<1>9. IsFiniteSet(1 .. n) /\ Cardinality(1 .. n) = IF 1 > n THEN 0 ELSE n - 1 + 1
  BY ONLY <1>8, FS_Interval
<1>10. Cardinality(1 .. n) = n
  BY ONLY <1>8, <1>9
<1> QED BY ONLY <1>7, <1>9, <1>10, FS_Bijection DEF n

LEMMA OffersFinite == ASSUME CoverShape PROVE IsFiniteSet(Range(offers))
<1> DEFINE offer == [k \in 1 .. Len(offers) |-> offers[k]]
<1>1. Len(offers) \in Nat /\ DOMAIN offers = 1 .. Len(offers)
  BY CoverTyped
<1>2. offer \in [1 .. Len(offers) -> Range(offers)]
  BY <1>1 DEF Range
<1>3. \A s \in Range(offers) : \E k \in 1 .. Len(offers) : offer[k] = s
  BY <1>1 DEF Range
<1> HIDE DEF offer
<1>4. offer \in Surjection(1 .. Len(offers), Range(offers))
  BY ONLY <1>2, <1>3 DEF Surjection
<1>5. IsFiniteSet(1 .. Len(offers))
  BY ONLY <1>1, FS_Interval
<1> QED BY ONLY <1>4, <1>5, FS_Surjection

(* The offer that is taken next can be taken.                               *)
LEMMA NextIsEligible ==
    ASSUME CoverShape, NEW k \in NextOffer
    PROVE  /\ k \in DOMAIN offers /\ Usable(offers[k])
           /\ \A s \in Shown : s.name # offers[k].name
<1> DEFINE phases == {phase \in Phases : Eligible(phase) # {}}
<1>1. phases # {} /\ k = Min(Eligible(Min(phases)))
  BY DEF NextOffer
<1>2. phases \in SUBSET (0 .. 3) /\ phases \subseteq Int /\ \A phase \in phases : Eligible(phase) # {}
  BY DEF Phases
<1> HIDE DEF phases
<1>3. IsFiniteSet(0 .. 3)
  <2>1. 0 \in Int /\ 3 \in Int
    OBVIOUS
  <2> QED BY ONLY <2>1, FS_Interval, Zenon
<1>4. IsFiniteSet(phases)
  BY ONLY <1>2, <1>3, FS_Subset
<1>5. Min(phases) \in phases
  BY ONLY <1>1, <1>2, <1>4, HasMin
<1> DEFINE phase == Min(phases)
           some == Eligible(phase)
<1>6. some # {} /\ k = Min(some)
  BY <1>1, <1>2, <1>5
<1>7. some \in SUBSET (1 .. Len(offers)) /\ some \subseteq Int /\ Len(offers) \in Nat
  BY CoverTyped DEF Eligible
<1>8. IsFiniteSet(1 .. Len(offers))
  BY <1>7, FS_Interval
<1> HIDE DEF some
<1>9. IsFiniteSet(some)
  BY ONLY <1>7, <1>8, FS_Subset
<1>10. k \in some
  BY ONLY <1>6, <1>7, <1>9, HasMin
<1> QED BY <1>10 DEF some, Eligible

(* When there is none, what is left is shown already or of no use.          *)
LEMMA NoneIsEligible ==
    ASSUME NextOffer = {}, NEW k \in DOMAIN offers, \A s \in Shown : s.name # offers[k].name
    PROVE  ~Usable(offers[k])
<1>1. \A phase \in Phases : Eligible(phase) = {}
  BY DEF NextOffer
<1>2. 3 \in Phases
  BY DEF Phases
<1>3. k \notin Eligible(3)
  BY <1>1, <1>2
<1>4. Diverse(offers[k], 3)
  BY DEF Diverse
<1> QED BY <1>3, <1>4 DEF Eligible

-----------------------------------------------------------------------------
(* Initially all spans are offered.                                         *)
LEMMA CoverInvInit == CoverInit => CoverInv
<1> SUFFICES ASSUME CoverInit PROVE CoverInv
  OBVIOUS
<1>1. PICK set \in Offers : offers \in SetToSeqs(set)
  BY DEF CoverInit
<1>2. /\ offers \in [1 .. Cardinality(set) -> set]
      /\ \A i, j \in 1 .. Cardinality(set) : i # j => offers[i] # offers[j]
  BY <1>1 DEF SetToSeqs
<1>3. Cardinality(set) \in Nat
  BY CoverConstants, FS_CardinalityType
<1>4. set \subseteq AllSpans
  BY DEF AllSpans
<1>5. offers \in Seq(AllSpans) /\ DOMAIN offers = 1 .. Cardinality(set)
  BY <1>2, <1>3, <1>4
<1>6. cover = <<>> /\ Covered = 0 /\ Shown = {} /\ demand \in Nat /\ outcome = "planning"
  BY CoverConstants DEF CoverInit, Covered, Shown
<1>7. CoverShape
  BY <1>5, <1>6 DEF CoverShape
<1>8. OfferedOnce /\ ShownOnce /\ Chained /\ AllFit /\ OutcomeRight
  BY <1>2, <1>5, <1>6 DEF OfferedOnce, ShownOnce, Chained, AllFit, OutcomeRight
<1>9. Total(Prints, {}) = 0
  BY TotalEmpty
<1>10. ShownWhole
  BY <1>6, <1>9 DEF ShownWhole
<1> QED BY <1>7, <1>8, <1>10 DEF CoverInv

LEMMA JoinedLength ==
    ASSUME NEW S, NEW a \in Seq(S), NEW b \in Seq(S)
    PROVE  Len(a \o b) = Len(a) + Len(b)
OBVIOUS

(* What is left of a sequence without one of its elements.                  *)
LEMMA WithoutOne ==
    ASSUME NEW S, NEW s \in Seq(S), NEW k \in 1 .. Len(s)
    PROVE  /\ RemoveAt(s, k) \in Seq(S) /\ Len(RemoveAt(s, k)) = Len(s) - 1
           /\ \A i \in 1 .. Len(s) - 1 : RemoveAt(s, k)[i] = IF i < k THEN s[i] ELSE s[i + 1]
<1>1. Len(s) \in Nat /\ k \in Int /\ 1 <= k /\ k <= Len(s)
  OBVIOUS
<1> DEFINE head == SubSeq(s, 1, k - 1)
           tail == SubSeq(s, k + 1, Len(s))
<1>2. head \in Seq(S) /\ Len(head) = k - 1 /\ \A i \in 1 .. k - 1 : head[i] = s[i]
  BY <1>1
<1>3. tail \in Seq(S) /\ Len(tail) = Len(s) - k /\ \A i \in 1 .. Len(s) - k : tail[i] = s[k + i]
  BY <1>1
<1>4. RemoveAt(s, k) = head \o tail
  BY DEF RemoveAt
<1> HIDE DEF head, tail
<1>5. head \o tail \in Seq(S) /\ Len(head \o tail) = Len(s) - 1
  <2>1. head \o tail \in Seq(S)
    BY <1>2, <1>3
  <2>2. Len(head \o tail) = Len(head) + Len(tail)
    BY ONLY <1>2, <1>3, JoinedLength
  <2> QED BY <2>1, <2>2, <1>1, <1>2, <1>3
<1>6. ASSUME NEW i \in 1 .. Len(s) - 1
      PROVE  (head \o tail)[i] = IF i < k THEN s[i] ELSE s[i + 1]
  <2>1. (head \o tail)[i] = IF i <= Len(head) THEN head[i] ELSE tail[i - Len(head)]
    BY <1>1, <1>2, <1>3
  <2>2. CASE i < k
    BY <2>1, <2>2, <1>1, <1>2
  <2>3. CASE ~(i < k)
    <3>1. i - Len(head) \in 1 .. Len(s) - k /\ k + (i - Len(head)) = i + 1
      BY <2>3, <1>1, <1>2
    <3> QED BY <2>1, <2>3, <3>1, <1>1, <1>2, <1>3
  <2> QED BY <2>2, <2>3
<1> QED BY <1>4, <1>5, <1>6

LEMMA CoverNextKeeps == CoverInv /\ CoverNext => CoverInv'
<1> SUFFICES ASSUME CoverInv, CoverNext PROVE CoverInv'
  OBVIOUS
<1> USE DEF CoverInv
<1>1. PICK k \in NextOffer :
        LET span == offers[k]
            length == Smaller(Footprint(span), demand - Covered)
            slack == Footprint(span) - length
        IN  /\ offers' = RemoveAt(offers, k)
            /\ \E from \in {span.from, span.from + slack \div 2, span.from + slack} :
                  cover' = Append(cover, [span |-> span, from |-> Covered, to |-> Covered + length,
                                          source |-> [from |-> from, to |-> from + length]])
  BY DEF CoverNext
<1>2. outcome = "planning" /\ ~Enough /\ UNCHANGED <<demand, outcome>>
  BY DEF CoverNext
<1> DEFINE span == offers[k]
           length == Smaller(Footprint(span), demand - Covered)
           slack == Footprint(span) - length
           n == Len(cover)
<1>3. k \in DOMAIN offers /\ Usable(span) /\ \A s \in Shown : s.name # span.name
  BY NextIsEligible
<1>4. /\ n \in Nat /\ DOMAIN cover = 1 .. n /\ Len(offers) \in Nat /\ DOMAIN offers = 1 .. Len(offers)
      /\ Covered \in Nat /\ demand \in Nat /\ Shown \subseteq AllSpans
      /\ \A j \in DOMAIN cover : cover[j].span \in AllSpans
  BY CoverTyped
<1>5. span \in AllSpans /\ span.from \in Nat /\ span.to \in Nat /\ Footprint(span) \in Int
      /\ Footprint(span) > 0 /\ Footprint(span) = span.to - span.from
  BY <1>3, CoverTyped, SpansTyped DEF Usable, Footprint
<1>6. Covered < demand
  BY <1>2, <1>4 DEF Enough, CoverTolerance
<1>7. /\ length \in Nat /\ length > 0 /\ length <= Footprint(span) /\ length <= demand - Covered
      /\ length = Footprint(span) \/ Covered + length = demand
  BY <1>4, <1>5, <1>6 DEF Smaller
<1> HIDE DEF length
<1>8. slack \in Nat /\ slack \div 2 \in Nat /\ slack \div 2 <= slack
  BY <1>5, <1>7
<1>9. PICK from \in Nat :
        /\ span.from <= from /\ from + length <= span.to
        /\ cover' = Append(cover, [span |-> span, from |-> Covered, to |-> Covered + length,
                                   source |-> [from |-> from, to |-> from + length]])
  <2>1. PICK from \in {span.from, span.from + slack \div 2, span.from + slack} :
          cover' = Append(cover, [span |-> span, from |-> Covered, to |-> Covered + length,
                                  source |-> [from |-> from, to |-> from + length]])
    BY <1>1 DEF length
  <2>2. from \in Nat /\ span.from <= from /\ from <= span.from + slack
    BY <1>5, <1>8
  <2>3. slack = span.to - span.from - length
    BY <1>5
  <2>4. from + length <= span.to
    BY <2>2, <2>3, <1>5, <1>7, <1>8
  <2> QED BY <2>1, <2>2, <2>4
<1> HIDE DEF slack
<1> DEFINE g == [span |-> span, from |-> Covered, to |-> Covered + length,
                 source |-> [from |-> from, to |-> from + length]]
<1>10. /\ g \in Segment /\ g.span = span /\ g.from = Covered /\ g.to = Covered + length
       /\ g.source.from = from /\ g.source.to = from + length
  BY <1>4, <1>5, <1>7 DEF Segment
<1>11. cover' = Append(cover, g) /\ offers' = RemoveAt(offers, k)
  BY <1>1, <1>9
<1>12. SegmentFits(g)
  <2>1. g.span.from <= g.source.from /\ g.source.to <= g.span.to /\ Footprint(g.span) > 0
    BY <1>5, <1>9, <1>10
  <2>2. Footprint(g.source) = g.to - g.from
    <3>1. (from + length) - from = (Covered + length) - Covered
      BY ONLY <1>4, <1>7, from \in Nat
    <3> QED BY <3>1, <1>10 DEF Footprint
  <2> QED BY <2>1, <2>2 DEF SegmentFits
<1> HIDE DEF g
<1>13. /\ cover' \in Seq(Segment) /\ Len(cover') = n + 1 /\ DOMAIN cover' = 1 .. n + 1
       /\ cover'[n + 1] = g /\ \A j \in 1 .. n : cover'[j] = cover[j]
       /\ cover' # <<>>
  BY <1>4, <1>10, <1>11 DEF CoverShape
<1>14. Covered' = Covered + length
  BY <1>10, <1>13 DEF Covered, Last
<1>15. Shown' = Shown \cup {span}
  BY <1>4, <1>10, <1>13 DEF Shown
<1>16. span \notin Shown
  BY <1>3
<1>17. /\ offers' \in Seq(AllSpans) /\ DOMAIN offers' = 1 .. Len(offers) - 1
       /\ \A i \in 1 .. Len(offers) - 1 : offers'[i] = IF i < k THEN offers[i] ELSE offers[i + 1]
  <2>1. offers \in Seq(AllSpans) /\ k \in 1 .. Len(offers)
    BY <1>3, <1>4 DEF CoverShape
  <2>2. /\ RemoveAt(offers, k) \in Seq(AllSpans) /\ Len(RemoveAt(offers, k)) = Len(offers) - 1
        /\ \A i \in 1 .. Len(offers) - 1 :
              RemoveAt(offers, k)[i] = IF i < k THEN offers[i] ELSE offers[i + 1]
    BY ONLY <2>1, WithoutOne
  <2> QED BY <2>2, <1>11
<1>18. CoverShape'
  BY <1>2, <1>13, <1>17 DEF CoverShape
<1>19. OfferedOnce'
  <2>1. k \in 1 .. Len(offers)
    BY <1>3, <1>4
  <2>2. \A i \in DOMAIN offers' : \E j \in DOMAIN offers : j # k /\ offers'[i] = offers[j]
                                                        /\ j = (IF i < k THEN i ELSE i + 1)
    BY <1>4, <1>17, <2>1
  <2>3. \A i \in DOMAIN offers' : offers'[i] \notin Shown'
    BY <2>1, <2>2, <1>4, <1>15 DEF OfferedOnce
  <2>4. \A i, j \in DOMAIN offers' : offers'[i] = offers'[j] => i = j
    BY <2>1, <2>2, <1>4, <1>17 DEF OfferedOnce
  <2> QED BY <2>3, <2>4 DEF OfferedOnce
<1>20. ShownOnce'
  <2>1. \A j \in 1 .. n : cover[j].span.name # span.name
    BY <1>3, <1>4 DEF Shown
  <2> QED BY <2>1, <1>4, <1>10, <1>13 DEF ShownOnce
<1>21. Chained'
  <2>1. cover'[1].from = 0
    <3>1. CASE n = 0
      <4>1. cover = <<>>
        BY <3>1 DEF CoverShape
      <4> QED BY <3>1, <4>1, <1>10, <1>13 DEF Covered
    <3>2. CASE n # 0
      <4>1. cover # <<>> /\ 1 \in 1 .. n
        BY <3>2, <1>4
      <4> QED BY <4>1, <1>13 DEF Chained
    <3> QED BY <3>1, <3>2
  <2>2. \A j \in 1 .. n : cover'[j].to = cover'[j + 1].from
    <3> SUFFICES ASSUME NEW j \in 1 .. n PROVE cover'[j].to = cover'[j + 1].from
      OBVIOUS
    <3>1. CASE j = n
      <4>1. cover # <<>>
        BY <1>4
      <4>2. cover[n].to = Covered
        BY <4>1 DEF Covered, Last
      <4> QED BY <3>1, <4>2, <1>10, <1>13
    <3>2. CASE j # n
      <4>1. j \in 1 .. (n - 1) /\ j + 1 \in 1 .. n
        BY ONLY <3>2, n \in Nat, j \in 1 .. n
      <4> QED BY <4>1, <1>13 DEF Chained
    <3> QED BY <3>1, <3>2
  <2>3. Covered' <= demand'
    BY <1>2, <1>4, <1>7, <1>14
  <2>4. \A j \in 1 .. (Len(cover') - 1) : j \in 1 .. n
    BY <1>4, <1>13
  <2> QED BY <2>1, <2>2, <2>3, <2>4 DEF Chained
<1>22. AllFit'
  <2> SUFFICES ASSUME NEW j \in 1 .. n + 1 PROVE SegmentFits(cover'[j])
    BY <1>13 DEF AllFit
  <2>1. j \in 1 .. n \/ j = n + 1
    BY <1>4
  <2> QED BY <2>1, <1>4, <1>12, <1>13 DEF AllFit
<1>23. ShownWhole'
  <2> SUFFICES ASSUME Covered' < demand PROVE Total(Prints, Shown') = Covered'
    BY <1>2 DEF ShownWhole
  <2>1. length = Footprint(span)
    BY <1>4, <1>7, <1>14
  <2>2. Total(Prints, Shown) = Covered
    BY <1>6 DEF ShownWhole
  <2>3. \A s \in Shown \cup {span} : Prints[s] \in Int
    BY <1>4, <1>5, PrintsTyped
  <2>4. IsFiniteSet(Shown)
    BY ShownCounted
  <2>5. Total(Prints, Shown \cup {span}) = Total(Prints, Shown) + Prints[span]
    BY ONLY <2>3, <2>4, <1>16, TotalAdd
  <2>6. Prints[span] = Footprint(span)
    BY <1>5, PrintsTyped
  <2> QED BY <2>1, <2>2, <2>5, <2>6, <1>14, <1>15
<1>24. OutcomeRight'
  BY <1>2 DEF OutcomeRight
<1> QED BY <1>18, <1>19, <1>20, <1>21, <1>22, <1>23, <1>24

(* What is computed from a cover that stays.                                *)
LEMMA CoverStays ==
    ASSUME UNCHANGED <<demand, offers, cover>>
    PROVE  Covered' = Covered /\ Shown' = Shown /\ (Enough' <=> Enough) /\ NextOffer' = NextOffer
<1>1. Covered' = Covered /\ Shown' = Shown
  BY DEF Covered, Shown
<1>2. Enough' <=> Enough
  BY <1>1 DEF Enough
<1>3. \A span, phase : (Usable(span)' <=> Usable(span)) /\ (Diverse(span, phase)' <=> Diverse(span, phase))
  BY <1>1 DEF Usable, Diverse, SameAsset, SameLook
<1>4. \A phase : Eligible(phase)' = Eligible(phase)
  BY <1>1, <1>3 DEF Eligible
<1>5. NextOffer' = NextOffer
  BY <1>4 DEF NextOffer
<1> QED BY <1>1, <1>2, <1>5

LEMMA ConcludeKeeps == CoverInv /\ Conclude => CoverInv'
<1> SUFFICES ASSUME CoverInv, Conclude PROVE CoverInv'
  OBVIOUS
<1>1. /\ UNCHANGED <<demand, offers, cover>>
      /\ outcome' \in {"insufficient", "ready", "invalid"}
      /\ outcome' = "insufficient" <=> ~Enough
      /\ Enough \/ NextOffer = {}
  BY DEF Conclude
<1>2. Covered' = Covered /\ Shown' = Shown /\ (Enough' <=> Enough) /\ NextOffer' = NextOffer
  BY <1>1, CoverStays
<1>3. OutcomeRight'
  BY <1>1, <1>2 DEF OutcomeRight
<1> QED BY <1>1, <1>2, <1>3 DEF CoverInv, CoverShape, OfferedOnce, ShownOnce, Chained, AllFit, ShownWhole

LEMMA CoverInvStep == CoverInv /\ [CoverageNext]_coverVars => CoverInv'
<1> SUFFICES ASSUME CoverInv, [CoverageNext]_coverVars PROVE CoverInv'
  OBVIOUS
<1>1. CASE CoverNext
  BY <1>1, CoverNextKeeps
<1>2. CASE Conclude
  BY <1>2, ConcludeKeeps
<1>3. CASE UNCHANGED coverVars
  <2>1. /\ UNCHANGED <<demand, offers, cover, outcome>>
    BY <1>3 DEF coverVars
  <2>2. Covered' = Covered /\ Shown' = Shown /\ (Enough' <=> Enough) /\ NextOffer' = NextOffer
    BY <2>1, CoverStays
  <2> QED BY <2>1, <2>2 DEF CoverInv, CoverShape, OfferedOnce, ShownOnce, Chained, AllFit,
                            ShownWhole, OutcomeRight
<1> QED BY <1>1, <1>2, <1>3 DEF CoverageNext

-----------------------------------------------------------------------------
(* When the planner gives up, the shown spans are shown whole and of the    *)
(* others at most one could be added, one that is too short.                *)
LEMMA NoneWouldCover ==
    ASSUME CoverInv, outcome = "insufficient", OneOfEach(Range(offers) \cup Shown),
           NEW spans \in SUBSET (Range(offers) \cup Shown)
    PROVE  ~WouldCover(spans)
<1> USE DEF CoverInv
<1> SUFFICES ASSUME WouldCover(spans) PROVE FALSE
  OBVIOUS
<1>1. PICK last \in spans : \A s \in spans \ {last} : Footprint(s) >= LeastCover
  BY DEF WouldCover
<1>2. /\ Covered \in Nat /\ demand \in Nat /\ LeastCover \in Nat
      /\ Covered < demand - CoverTolerance /\ Covered < demand /\ NextOffer = {}
  BY CoverTyped DEF OutcomeRight, Enough, CoverTolerance
<1>3. Total(Prints, Shown) = Covered
  BY <1>2 DEF ShownWhole
<1>4. spans \subseteq AllSpans /\ Range(offers) \subseteq AllSpans /\ Shown \subseteq AllSpans
  BY CoverTyped DEF Range
<1>5. IsFiniteSet(spans) /\ IsFiniteSet(Shown)
  <2>1. IsFiniteSet(Range(offers)) /\ IsFiniteSet(Shown)
    BY OffersFinite, ShownCounted
  <2>2. IsFiniteSet(Range(offers) \cup Shown)
    BY ONLY <2>1, FS_Union
  <2> QED BY ONLY <2>1, <2>2, FS_Subset
<1>6. Total(Prints, spans) >= demand - CoverTolerance
  <2> DEFINE prints == [s \in spans |-> Footprint(s)]
  <2>1. SumFunctionOnSet(prints, spans) >= demand - CoverTolerance
    BY DEF WouldCover
  <2>2. \A s \in spans : prints[s] \in Int /\ prints[s] = Prints[s]
    BY <1>4, PrintsTyped
  <2> HIDE DEF prints
  <2>3. Total(prints, spans) = Total(Prints, spans)
    BY ONLY <1>5, <2>2, TotalEqual
  <2> QED BY <2>1, <2>3 DEF Total
<1>7. \A s \in spans \ Shown :
        /\ Footprint(s) \in Int
        /\ Footprint(s) <= 0 \/ (Footprint(s) < LeastCover /\ Footprint(s) < demand - Covered - CoverTolerance)
  <2> SUFFICES ASSUME NEW s \in spans \ Shown
               PROVE  /\ Footprint(s) \in Int
                      /\ \/ Footprint(s) <= 0
                         \/ Footprint(s) < LeastCover /\ Footprint(s) < demand - Covered - CoverTolerance
    OBVIOUS
  <2>1. PICK k \in DOMAIN offers : offers[k] = s
    BY DEF Range
  <2>2. \A t \in Shown : t.name # offers[k].name
    BY <2>1 DEF OneOfEach
  <2>3. ~Usable(s)
    BY <2>1, <2>2, <1>2, NoneIsEligible
  <2>4. Footprint(s) \in Int
    BY <1>4, SpansTyped
  <2> QED BY <2>3, <2>4, <1>2 DEF Usable, CoverTolerance
<1>8. \A s \in Shown : Prints[s] \in Nat
  <2> SUFFICES ASSUME NEW s \in Shown PROVE Prints[s] \in Nat
    OBVIOUS
  <2>1. PICK k \in DOMAIN cover : cover[k].span = s
    BY DEF Shown
  <2>2. Footprint(s) > 0 /\ Footprint(s) \in Int
    BY <2>1, <1>4, SpansTyped DEF AllFit, SegmentFits
  <2> QED BY <2>2, <1>4, PrintsTyped
<1> DEFINE rest == spans \ ({last} \ Shown)
           both == spans \cap Shown
<1>9. Total(Prints, rest) = Total(Prints, both)
  <2>1. IsFiniteSet(rest)
    BY ONLY <1>5, FS_Difference
  <2>2. both \in SUBSET rest
    OBVIOUS
  <2>3. \A s \in rest : Prints[s] \in Int
    BY <1>4, PrintsTyped
  <2>4. \A s \in rest \ both : Prints[s] = 0
    <3> SUFFICES ASSUME NEW s \in rest \ both PROVE Prints[s] = 0
      OBVIOUS
    <3>1. s \in spans \ Shown /\ s # last
      OBVIOUS
    <3>2. Footprint(s) >= LeastCover /\ Footprint(s) \in Int /\ Prints[s] = Footprint(s)
      BY <3>1, <1>1, <1>4, PrintsTyped, SpansTyped
    <3>3. Footprint(s) <= 0 \/ Footprint(s) < LeastCover
      BY <3>1, <1>7
    <3> QED BY ONLY <3>2, <3>3, <1>2
  <2> HIDE DEF rest, both
  <2> QED BY ONLY <2>1, <2>2, <2>3, <2>4, TotalSupport
<1>10. Total(Prints, both) <= Covered /\ Total(Prints, both) \in Int
  <2>1. both \in SUBSET Shown
    OBVIOUS
  <2> HIDE DEF both
  <2>2. Total(Prints, both) <= Total(Prints, Shown)
    BY ONLY <2>1, <1>5, <1>8, TotalSubset
  <2>3. IsFiniteSet(both) /\ \A s \in both : Prints[s] \in Int
    <3>1. IsFiniteSet(both)
      BY ONLY <2>1, <1>5, FS_Subset
    <3> QED BY <3>1, <2>1, <1>4, PrintsTyped
  <2>4. Total(Prints, both) \in Int
    BY ONLY <2>3, TotalInt
  <2> QED BY <2>2, <2>4, <1>3
<1>11. Total(Prints, spans) < demand - CoverTolerance
  <2>1. CASE last \in Shown
    <3>1. rest = spans
      BY <2>1
    <3> HIDE DEF rest, both
    <3> QED BY <3>1, <1>2, <1>9, <1>10 DEF CoverTolerance
  <2>2. CASE last \notin Shown
    <3>1. rest = spans \ {last}
      BY <2>2
    <3> HIDE DEF rest, both
    <3>2. \A s \in spans : Prints[s] \in Int
      BY <1>4, PrintsTyped
    <3>3. Total(Prints, spans) = Total(Prints, spans \ {last}) + Prints[last]
      BY ONLY <1>5, <3>2, <1>1, TotalRemove
    <3>4. Prints[last] = Footprint(last) /\ Footprint(last) \in Int
      BY <1>4, PrintsTyped, SpansTyped
    <3>5. Footprint(last) <= 0 \/ Footprint(last) < demand - Covered - CoverTolerance
      BY <2>2, <1>7
    <3> QED BY <3>1, <3>3, <3>4, <3>5, <1>2, <1>9, <1>10 DEF CoverTolerance
  <2> QED BY <2>1, <2>2
<1>12. Total(Prints, spans) \in Int
  <2>1. \A s \in spans : Prints[s] \in Int
    BY <1>4, PrintsTyped
  <2> QED BY ONLY <2>1, <1>5, TotalInt
<1> HIDE DEF rest, both
<1> QED BY ONLY <1>2, <1>6, <1>11, <1>12 DEF CoverTolerance

LEMMA InvGivesHonest == CoverInv => CoverIsHonest
<1> SUFFICES ASSUME CoverInv PROVE CoverIsHonest
  OBVIOUS
<1> USE DEF CoverInv
<1>1. ASSUME outcome \in {"invalid", "ready"}
      PROVE  /\ cover # <<>> => cover[1].from = 0
             /\ Enough /\ Covered <= demand
             /\ OneOfEach(Shown) /\ Len(cover) = Cardinality(Shown)
             /\ \A k \in 1..(Len(cover) - 1) : cover[k].to = cover[k + 1].from
             /\ \A k \in DOMAIN cover :
                   /\ cover[k].span.from <= cover[k].source.from
                   /\ cover[k].source.to <= cover[k].span.to
                   /\ Footprint(cover[k].source) = cover[k].to - cover[k].from
  <2>1. Enough
    BY <1>1 DEF OutcomeRight
  <2>2. OneOfEach(Shown)
    BY DEF OneOfEach, Shown, ShownOnce
  <2>3. Len(cover) = Cardinality(Shown)
    BY ShownCounted
  <2>4. \A k \in DOMAIN cover :
           /\ cover[k].span.from <= cover[k].source.from
           /\ cover[k].source.to <= cover[k].span.to
           /\ Footprint(cover[k].source) = cover[k].to - cover[k].from
    BY DEF AllFit, SegmentFits
  <2> QED BY <2>1, <2>2, <2>3, <2>4 DEF Chained
<1>2. ASSUME outcome = "insufficient", OneOfEach(Range(offers) \cup Shown)
      PROVE  \A spans \in SUBSET (Range(offers) \cup Shown) : ~WouldCover(spans)
  BY <1>2, NoneWouldCover
<1> QED BY <1>1, <1>2 DEF CoverIsHonest

(* A cover shows each clip once, no footage but its own and leaves no gap,  *)
(* and a run fails for want of material only when no choice of the clips    *)
(* would have covered the narration.                                        *)
THEOREM CoverAlwaysHonest == CoverageSpec => []CoverIsHonest
BY InvGivesHonest, CoverInvInit, CoverInvStep, PTL DEF CoverageSpec

-----------------------------------------------------------------------------
(* AssetAnnotation: what a replacement preserved fits the new source       *)

(* An annotation fits the duration it was timed against, if it was.        *)
Intervals(c) == c.clips \cup c.windows
Fits(c) ==
    /\ c.duration \in Nat /\ Intervals(c) \subseteq Int \X Int
    /\ c.duration > 0 => \A i \in Intervals(c) : i[2] <= c.duration

(* What a replacement knows of the source and of the annotation.           *)
Follows(w) ==
    w.kind = "replace" =>
        /\ w.at \in {"compare", "reclip", "set"} => media = w.duration
        /\ w.at \in {"swap", "compare"} /\ canon.duration > 0 => w.canon.duration = canon.duration
        /\ w.at = "set" /\ w.canon.kind = "v4" => w.canon.duration = w.duration

Timed ==
    /\ media \in Nat /\ noted \in Nat /\ Fits(canon)
    /\ \A t \in Tasks :
          Fits(work[t].canon) /\ work[t].duration \in Nat /\ Follows(work[t])

LEMMA EmptyFits == Fits(NoRow) /\ Fits(Stub) /\ IsRow(NoRow) /\ IsRow(Stub)
                   /\ NoRow.duration = 0 /\ Stub.duration = 0
BY DEF Fits, Intervals, NoRow, Stub, IsRow

LEMMA TimedInit == AnnotationInit => Timed
<1> SUFFICES ASSUME AnnotationInit PROVE Timed
  OBVIOUS
<1>1. media \in Nat /\ noted \in Nat /\ canon = NoRow
  BY AnnotationConstants DEF AnnotationInit
<1>2. \A t \in Tasks : work[t].canon = NoRow /\ work[t].duration = 0 /\ work[t].kind = "none"
  BY DEF AnnotationInit, NoWork
<1> QED BY <1>1, <1>2, EmptyFits DEF Timed, Follows

(* A step of one request: if it changes rows, no replacement is going on   *)
(* beside it.                                                              *)
LEMMA TimedGoes ==
    ASSUME AnnotationInv, Timed, NEW t \in Tasks, NEW w, Goes(t, w),
           Fits(w.canon), w.duration \in Nat, Fits(canon'), media' \in Nat, noted' = noted,
           w.kind = "replace" =>
               /\ w.at \in {"compare", "reclip", "set"} => media' = w.duration
               /\ w.at \in {"swap", "compare"} /\ canon'.duration > 0 =>
                      w.canon.duration = canon'.duration
               /\ w.at = "set" /\ w.canon.kind = "v4" => w.canon.duration = w.duration,
           (media' = media /\ canon' = canon) \/ Ongoing(t)
    PROVE  Timed'
<1>1. \A u \in Tasks : work'[u] = IF u = t THEN w ELSE work[u]
  BY GoesChanges DEF AnnotationInv
<1>2. ASSUME NEW u \in Tasks, u # t, ~(media' = media /\ canon' = canon), work[u].kind = "replace"
      PROVE  ~Ongoing(u)
  BY <1>2 DEF AnnotationInv, EditsAlone, Edits
<1>3. ASSUME NEW u \in Tasks, u # t PROVE Follows(work[u])'
  <2>1. work'[u] = work[u] /\ Follows(work[u])
    BY <1>1, <1>3 DEF Timed
  <2>2. CASE media' = media /\ canon' = canon
    BY <2>1, <2>2 DEF Follows
  <2>3. CASE ~(media' = media /\ canon' = canon)
    BY <1>2, <1>3, <2>1, <2>3 DEF Follows, Ongoing
  <2> QED BY <2>2, <2>3
<1>4. Follows(work[t])'
  BY <1>1 DEF Follows
<1>5. \A u \in Tasks : Fits(work'[u].canon) /\ work'[u].duration \in Nat
  BY <1>1 DEF Timed
<1> QED BY <1>3, <1>4, <1>5 DEF Timed, Fits, Intervals

LEMMA SnapBounded ==
    ASSUME NEW x \in Int, NEW old \in Int, NEW new \in Int
    PROVE  SnapClamp(x, old, new) \in Int /\ SnapClamp(x, old, new) <= new
BY DEF SnapClamp, Difference, EndpointTolerance

LEMMA ReclippedFits ==
    ASSUME NEW c, IsRow(c), Fits(c), NEW old \in Nat, NEW new \in Nat
    PROVE  Fits(Reclipped(c, old, new)) /\ Reclipped(c, old, new).duration = new
<1> DEFINE Moved(intervals) ==
             {i \in {<<SnapClamp(i[1], old, new), SnapClamp(i[2], old, new)>> : i \in intervals} : i[1] < i[2]}
           r == Reclipped(c, old, new)
<1>1. ASSUME NEW intervals, intervals \subseteq Int \X Int
      PROVE  \A i \in Moved(intervals) : i \in Int \X Int /\ i[2] <= new
  <2> TAKE i \in Moved(intervals)
  <2>1. PICK j \in intervals : i = <<SnapClamp(j[1], old, new), SnapClamp(j[2], old, new)>>
    OBVIOUS
  <2>2. j[1] \in Int /\ j[2] \in Int /\ old \in Int /\ new \in Int
    BY <1>1
  <2> DEFINE a == SnapClamp(j[1], old, new)
             z == SnapClamp(j[2], old, new)
  <2>3. a \in Int /\ z \in Int /\ z <= new
    BY ONLY <2>2, SnapBounded
  <2> HIDE DEF a, z
  <2>4. i = <<a, z>>
    BY <2>1 DEF a, z
  <2> QED BY ONLY <2>3, <2>4
<1>2. r.duration = new /\ r.clips = Moved(c.clips) /\ r.windows = Moved(c.windows)
  BY DEF Reclipped, IsRow
<1>3. c.clips \subseteq Int \X Int /\ c.windows \subseteq Int \X Int
  BY DEF Fits, Intervals
<1> HIDE DEF r, Moved
<1>4. \A i \in Intervals(r) : i \in Int \X Int /\ i[2] <= new
  BY <1>1, <1>2, <1>3 DEF Intervals
<1> QED BY <1>2, <1>4 DEF Fits, r

LEMMA ClipsFit ==
    ASSUME NEW d \in Nat, NEW cut \in ClipSets(d)
    PROVE  cut \subseteq Int \X Int /\ \A i \in cut : i[2] <= d
BY DEF ClipSets

LEMMA V4Fits ==
    ASSUME NEW ok, NEW d \in Nat, NEW cut, NEW windows, windows \subseteq cut,
           cut \subseteq Int \X Int, \A i \in cut : i[2] <= d
    PROVE  Fits(V4(ok, d, cut, windows))
BY DEF V4, Fits, Intervals

-----------------------------------------------------------------------------
LEMMA TimedRerun ==
    ASSUME AnnotationInv, Timed, NEW t \in Tasks,
           (\E batch \in BOOLEAN : BeginRerun(t, batch)) \/ AnalyzeWindow(t)
    PROVE  Timed'
<1>1. PICK w : Goes(t, w) /\ w.kind = "rerun" /\ Fits(w.canon) /\ w.duration \in Nat
  <2>1. CASE \E batch \in BOOLEAN : BeginRerun(t, batch)
    <3>1. PICK at : Goes(t, [NoWork EXCEPT !.kind = "rerun", !.duration = SourceDuration,
                                           !.at = at, !.window = 1])
      BY <2>1 DEF BeginRerun
    <3>2. SourceDuration \in Nat
      BY DEF SourceDuration, Timed
    <3> DEFINE w == [NoWork EXCEPT !.kind = "rerun", !.duration = SourceDuration,
                                   !.at = at, !.window = 1]
    <3>3. w.kind = "rerun" /\ w.canon = NoRow /\ w.duration = SourceDuration
      BY DEF NoWork
    <3> HIDE DEF w
    <3>4. Goes(t, w)
      BY <3>1 DEF w
    <3> QED BY <3>2, <3>3, <3>4, EmptyFits
  <2>2. CASE AnalyzeWindow(t)
    <3>1. PICK w : /\ Goes(t, w) /\ w.kind = "rerun" /\ w.canon = work[t].canon
                   /\ w.duration = work[t].duration
      BY <2>2, AnalyzeGoes DEF AnnotationInv
    <3> QED BY <3>1 DEF Timed
  <2> QED BY <2>1, <2>2
<1>2. RowsStay
  BY DEF BeginRerun, AnalyzeWindow
<1> QED BY <1>1, <1>2, TimedGoes DEF RowsStay, Timed

LEMMA TimedPersist ==
    ASSUME AnnotationInv, Timed, NEW t \in Tasks, Persist(t)
    PROVE  Timed'
<1> DEFINE w == [work[t] EXCEPT !.at = "done"]
<1>1. work[t].kind = "rerun" /\ Ongoing(t) /\ Goes(t, w) /\ UNCHANGED <<media, noted>>
  BY DEF Persist, Ongoing
<1>2. w.kind = work[t].kind /\ w.canon = work[t].canon /\ w.duration = work[t].duration
  BY DEF AnnotationInv, AnnotationShape, IsWork
<1>3. work[t].duration \in Nat /\ Fits(work[t].canon)
  BY DEF Timed
<1>4. PICK cut \in IF work[t].ok THEN ClipSets(work[t].duration) ELSE {{}} :
        \E windows \in SUBSET cut : canon' = V4(work[t].ok, work[t].duration, cut, windows)
  BY DEF Persist, PersistAnnotation
<1>5. cut \subseteq Int \X Int /\ \A i \in cut : i[2] <= work[t].duration
  BY <1>3, <1>4, ClipsFit
<1>6. Fits(canon')
  BY <1>3, <1>4, <1>5, V4Fits
<1> HIDE DEF w
<1> QED BY <1>1, <1>2, <1>3, <1>6, TimedGoes DEF Timed

LEMMA TimedPatch ==
    ASSUME AnnotationInv, Timed, NEW t \in Tasks, ReadForPatch(t) \/ WritePatched(t)
    PROVE  Timed'
<1>1. CASE ReadForPatch(t)
  <2> DEFINE w == [NoWork EXCEPT !.kind = "patch", !.at = "write", !.canon = Parsed(canon)]
  <2>1. w.kind = "patch" /\ w.canon = Parsed(canon) /\ w.duration = 0
    BY DEF NoWork
  <2>2. Fits(Parsed(canon))
    BY DEF Timed, Parsed, V4, Fits, Intervals
  <2>3. Goes(t, w) /\ RowsStay
    BY <1>1 DEF ReadForPatch
  <2> HIDE DEF w
  <2> QED BY <2>1, <2>2, <2>3, TimedGoes DEF RowsStay, Timed
<1>2. CASE WritePatched(t)
  <2> DEFINE w == [work[t] EXCEPT !.at = "done"]
             c == work[t].canon
  <2>1. /\ work[t].kind = "patch" /\ Ongoing(t) /\ Goes(t, w) /\ UNCHANGED <<media, noted>>
        /\ IsRow(c) /\ Fits(c) /\ work[t].duration \in Nat /\ media \in Nat
    BY <1>2 DEF WritePatched, Ongoing, AnnotationInv, AnnotationShape, Timed
  <2>2. w.kind = work[t].kind /\ w.canon = work[t].canon /\ w.duration = work[t].duration
    BY DEF AnnotationInv, AnnotationShape, IsWork
  <2>3. Fits(canon')
    <3>1. ASSUME NEW cut \in ClipSets(media), WithinBounds(cut, c.duration),
                 canon' = [c EXCEPT !.clips = cut]
          PROVE  Fits(canon')
      <4>1. canon'.duration = c.duration /\ canon'.clips = cut /\ canon'.windows = c.windows
        BY <2>1, <3>1 DEF IsRow
      <4>2. cut \subseteq Int \X Int
        BY <2>1, <3>1, ClipsFit
      <4>3. Intervals(c) = c.clips \cup c.windows /\ Intervals(canon') = cut \cup c.windows
        BY <4>1 DEF Intervals
      <4> QED BY <2>1, <3>1, <4>1, <4>2, <4>3 DEF Fits, WithinBounds
    <3>2. CASE canon' = c \/ canon' = canon
      BY <2>1, <3>2 DEF Timed
    <3> QED BY <1>2, <3>1, <3>2 DEF WritePatched
  <2> HIDE DEF w
  <2> QED BY <2>1, <2>2, <2>3, TimedGoes DEF Timed
<1> QED BY <1>1, <1>2

LEMMA TimedMeasure ==
    ASSUME AnnotationInv, Timed, NEW t \in Tasks, MeasureSources(t)
    PROVE  Timed'
<1>1. PICK upload \in Durations :
        Goes(t, [NoWork EXCEPT !.kind = "replace", !.at = "swap", !.duration = upload,
                               !.canon = V4(FALSE, AnnotatedDuration, {}, {})])
  BY DEF MeasureSources
<1> DEFINE w == [NoWork EXCEPT !.kind = "replace", !.at = "swap", !.duration = upload,
                               !.canon = V4(FALSE, AnnotatedDuration, {}, {})]
<1>2. /\ w.at = "swap" /\ w.duration = upload /\ w.canon = V4(FALSE, AnnotatedDuration, {}, {})
  BY DEF NoWork
<1>3. AnnotatedDuration \in Nat /\ (canon.duration > 0 => AnnotatedDuration = canon.duration)
  BY DEF AnnotatedDuration, Timed, Fits
<1>4. Fits(w.canon) /\ w.canon.duration = AnnotatedDuration
  BY <1>2, <1>3, V4Fits DEF V4
<1>5. Goes(t, w) /\ RowsStay /\ upload \in Nat
  BY <1>1, AnnotationConstants DEF MeasureSources
<1> HIDE DEF w
<1> QED BY <1>2, <1>3, <1>4, <1>5, TimedGoes DEF RowsStay, Timed

LEMMA TimedSwap ==
    ASSUME AnnotationInv, Timed, NEW t \in Tasks, SwapSource(t)
    PROVE  Timed'
<1> DEFINE w == [work[t] EXCEPT !.at = "compare"]
<1>1. /\ work[t].kind = "replace" /\ work[t].at = "swap" /\ Ongoing(t) /\ Goes(t, w)
      /\ media' = work[t].duration /\ UNCHANGED <<noted, canon>>
      /\ Fits(work[t].canon) /\ work[t].duration \in Nat /\ Follows(work[t])
  BY DEF SwapSource, Ongoing, Timed
<1>2. /\ w.kind = work[t].kind /\ w.canon = work[t].canon /\ w.duration = work[t].duration
      /\ w.at = "compare"
  BY DEF AnnotationInv, AnnotationShape, IsWork
<1> HIDE DEF w
<1>3. canon.duration > 0 => w.canon.duration = canon.duration
  BY <1>1, <1>2 DEF Follows
<1>4. Fits(canon') /\ canon' = canon
  BY <1>1 DEF Timed
<1> QED BY <1>1, <1>2, <1>3, <1>4, TimedGoes

LEMMA TimedCompare ==
    ASSUME AnnotationInv, Timed, NEW t \in Tasks, CompareDurations(t)
    PROVE  Timed'
<1>1. PICK w : /\ Goes(t, w)
               /\ w \in {[work[t] EXCEPT !.at = "reclip"],
                         [work[t] EXCEPT !.at = "done", !.ok = canon # NoRow]}
  BY DEF CompareDurations
<1>2. /\ w.kind = work[t].kind /\ w.canon = work[t].canon /\ w.duration = work[t].duration
      /\ w.at \in {"reclip", "done"}
  BY <1>1 DEF AnnotationInv, AnnotationShape, IsWork
<1>3. /\ work[t].kind = "replace" /\ work[t].at = "compare" /\ RowsStay
      /\ Fits(work[t].canon) /\ work[t].duration \in Nat /\ Follows(work[t])
  BY DEF CompareDurations, Timed
<1>4. media = work[t].duration /\ Fits(canon) /\ media \in Nat
  BY <1>3 DEF Follows, Timed
<1> QED BY <1>1, <1>2, <1>3, <1>4, TimedGoes DEF RowsStay

LEMMA TimedReclip ==
    ASSUME AnnotationInv, Timed, NEW t \in Tasks, ReadForReclip(t)
    PROVE  Timed'
<1> DEFINE old == work[t].canon.duration
           new == work[t].duration
           c == IF canon.kind = "v4" THEN Reclipped(canon, old, new) ELSE Stub
<1>1. /\ work[t].kind = "replace" /\ work[t].at = "reclip" /\ RowsStay
      /\ Fits(work[t].canon) /\ new \in Nat /\ Follows(work[t])
  BY DEF ReadForReclip, Timed
<1>2. media = new /\ old \in Nat /\ Fits(canon) /\ IsRow(canon) /\ media \in Nat
  BY <1>1 DEF Follows, Timed, Fits, AnnotationInv, AnnotationShape
<1>3. Fits(c) /\ (c.kind = "v4" => c.duration = new)
  <2>1. CASE canon.kind = "v4"
    BY <1>1, <1>2, <2>1, ReclippedFits
  <2>2. CASE canon.kind # "v4"
    BY <2>2, EmptyFits DEF Stub, NoRow
  <2> QED BY <2>1, <2>2
<1> HIDE DEF c
<1>4. PICK w : /\ Goes(t, w)
               /\ w \in {[work[t] EXCEPT !.at = "done"],
                         [work[t] EXCEPT !.at = "set", !.canon = c]}
  BY DEF ReadForReclip, c
<1>5. /\ w.kind = "replace" /\ w.duration = new
      /\ (w.at = "done" /\ w.canon = work[t].canon) \/ (w.at = "set" /\ w.canon = c)
  BY <1>1, <1>4 DEF AnnotationInv, AnnotationShape, IsWork
<1> QED BY <1>1, <1>2, <1>3, <1>4, <1>5, TimedGoes DEF RowsStay

LEMMA TimedSet ==
    ASSUME AnnotationInv, Timed, NEW t \in Tasks, SetReclipped(t)
    PROVE  Timed'
<1> DEFINE w == [work[t] EXCEPT !.at = "done", !.ok = work[t].canon.kind = "v4"]
<1>1. /\ work[t].kind = "replace" /\ Ongoing(t) /\ Goes(t, w) /\ UNCHANGED <<media, noted>>
      /\ Fits(work[t].canon) /\ work[t].duration \in Nat
  BY DEF SetReclipped, Ongoing, Timed
<1>2. /\ w.kind = work[t].kind /\ w.canon = work[t].canon /\ w.duration = work[t].duration
      /\ w.at = "done"
  BY DEF AnnotationInv, AnnotationShape, IsWork
<1>3. canon' \in {canon, work[t].canon, NoRow}
  BY DEF SetReclipped
<1> HIDE DEF w
<1>4. Fits(canon')
  BY <1>1, <1>3, EmptyFits DEF Timed
<1> QED BY <1>1, <1>2, <1>4, TimedGoes DEF Timed

LEMMA TimedProcess ==
    ASSUME AnnotationInv, Timed, NEW t \in Tasks, BeginProcessing(t) \/ StoreProcessed(t)
    PROVE  Timed'
<1>1. CASE BeginProcessing(t)
  <2>1. PICK result \in Durations :
          Goes(t, [NoWork EXCEPT !.kind = "process", !.at = "store", !.duration = result])
    BY <1>1 DEF BeginProcessing
  <2> DEFINE w == [NoWork EXCEPT !.kind = "process", !.at = "store", !.duration = result]
  <2>2. w.kind = "process" /\ w.canon = NoRow /\ w.duration = result /\ result \in Nat
    BY AnnotationConstants DEF NoWork
  <2>3. Goes(t, w) /\ RowsStay
    BY <1>1, <2>1 DEF BeginProcessing
  <2> HIDE DEF w
  <2> QED BY <2>2, <2>3, EmptyFits, TimedGoes DEF RowsStay, Timed
<1>2. CASE StoreProcessed(t)
  <2> DEFINE w == [work[t] EXCEPT !.at = "done"]
  <2>1. /\ work[t].kind = "process" /\ Ongoing(t) /\ Goes(t, w) /\ UNCHANGED <<noted, canon>>
        /\ media' = work[t].duration /\ Fits(work[t].canon) /\ work[t].duration \in Nat
    BY <1>2 DEF StoreProcessed, Ongoing, Timed
  <2>2. w.kind = work[t].kind /\ w.canon = work[t].canon /\ w.duration = work[t].duration
    BY DEF AnnotationInv, AnnotationShape, IsWork
  <2> HIDE DEF w
  <2>3. Fits(canon')
    BY <2>1 DEF Timed
  <2> QED BY <2>1, <2>2, <2>3, TimedGoes
<1> QED BY <1>1, <1>2

LEMMA TimedStep ==
    ASSUME AnnotationInv, Timed, [AnnotationNext]_annotationVars
    PROVE  Timed'
<1>1. CASE OpenEditor
  <2>1. canon' = Stub /\ UNCHANGED <<media, noted, work>>
    BY <1>1 DEF OpenEditor
  <2> QED BY <2>1, EmptyFits DEF Timed, Follows
<1>2. CASE UNCHANGED annotationVars
  BY <1>2 DEF annotationVars, Timed, Follows, Fits, Intervals
<1>3. ASSUME NEW t \in Tasks,
             \/ \E batch \in BOOLEAN : BeginRerun(t, batch)
             \/ AnalyzeWindow(t) \/ Persist(t)
             \/ ReadForPatch(t) \/ WritePatched(t)
             \/ MeasureSources(t) \/ SwapSource(t) \/ CompareDurations(t)
             \/ ReadForReclip(t) \/ SetReclipped(t)
             \/ BeginProcessing(t) \/ StoreProcessed(t)
      PROVE  Timed'
  BY <1>3, TimedRerun, TimedPersist, TimedPatch, TimedMeasure, TimedSwap, TimedCompare,
     TimedReclip, TimedSet, TimedProcess
<1> QED BY <1>1, <1>2, <1>3 DEF AnnotationNext

-----------------------------------------------------------------------------
(* A replacement is over when the durations hardly differ, when there is   *)
(* nothing to follow any more, or when what it had clipped is written.     *)
LEMMA PreservesHow ==
    ASSUME AnnotationInv, [AnnotationNext]_annotationVars, NEW t \in Tasks, Preserves(t)
    PROVE  \/ CompareDurations(t) /\ ~Drifted(work[t].canon.duration, work[t].duration)
           \/ ReadForReclip(t) /\ canon = NoRow
           \/ SetReclipped(t)
<1>1. /\ work[t].kind = "replace" /\ work[t].at # "done"
      /\ work'[t].at = "done" /\ work'[t].ok = TRUE
  BY DEF Preserves, AnnotationInv, AnnotationShape
<1>2. ASSUME NEW u \in Tasks, NEW w, Goes(u, w)
      PROVE  u = t /\ work'[t] = w
  BY <1>1, <1>2, GoesChanges DEF AnnotationInv
<1>3. IsWork(work[t]) /\ DOMAIN NoWork = {"kind", "at", "window", "tried", "duration", "ok", "canon"}
      /\ NoWork.ok = FALSE
  BY DEF AnnotationInv, AnnotationShape, NoWork
<1>4. ~OpenEditor /\ ~UNCHANGED annotationVars
  BY <1>1 DEF OpenEditor, annotationVars
<1>5. ASSUME NEW u \in Tasks, NEW batch \in BOOLEAN, BeginRerun(u, batch) PROVE FALSE
  <2>1. PICK at : Goes(u, [NoWork EXCEPT !.kind = "rerun", !.duration = SourceDuration,
                                         !.at = at, !.window = 1])
    BY <1>5 DEF BeginRerun
  <2>2. work'[t] = [NoWork EXCEPT !.kind = "rerun", !.duration = SourceDuration,
                                  !.at = at, !.window = 1]
    BY <1>2, <2>1
  <2>3. work'[t].ok = FALSE
    BY <1>3, <2>2
  <2> QED BY <1>1, <2>3
<1>6. ASSUME NEW u \in Tasks, AnalyzeWindow(u) \/ Persist(u) \/ WritePatched(u) \/ StoreProcessed(u)
      PROVE  FALSE
  <2>1. PICK w : Goes(u, w)
    BY <1>6, AnalyzeGoes DEF AnnotationInv, Persist, WritePatched, StoreProcessed
  <2>2. u = t
    BY <1>2, <2>1
  <2> QED BY <1>1, <1>6, <2>2 DEF AnalyzeWindow, Persist, WritePatched, StoreProcessed
<1>7. ASSUME NEW u \in Tasks, ReadForPatch(u) \/ MeasureSources(u) \/ BeginProcessing(u)
      PROVE  FALSE
  <2>1. CASE ReadForPatch(u)
    BY <1>1, <1>2, <1>3, <2>1 DEF ReadForPatch
  <2>2. CASE MeasureSources(u)
    BY <1>1, <1>2, <1>3, <2>2 DEF MeasureSources
  <2>3. CASE BeginProcessing(u)
    BY <1>1, <1>2, <1>3, <2>3 DEF BeginProcessing
  <2> QED BY <1>7, <2>1, <2>2, <2>3
<1>8. ASSUME NEW u \in Tasks, SwapSource(u) PROVE FALSE
  <2>1. u = t /\ work'[t] = [work[u] EXCEPT !.at = "compare"]
    BY <1>2, <1>8 DEF SwapSource
  <2> QED BY <1>1, <1>3, <2>1 DEF IsWork
<1>9. ASSUME NEW u \in Tasks, CompareDurations(u)
      PROVE  CompareDurations(t) /\ ~Drifted(work[t].canon.duration, work[t].duration)
  <2> DEFINE drifted == canon # NoRow /\ Drifted(work[u].canon.duration, work[u].duration)
  <2>1. Goes(u, IF drifted THEN [work[u] EXCEPT !.at = "reclip"]
                ELSE [work[u] EXCEPT !.at = "done", !.ok = canon # NoRow])
    BY <1>9 DEF CompareDurations
  <2>2. u = t /\ work'[t] = IF drifted THEN [work[u] EXCEPT !.at = "reclip"]
                            ELSE [work[u] EXCEPT !.at = "done", !.ok = canon # NoRow]
    BY <1>2, <2>1
  <2>3. ~drifted
    BY <1>1, <1>3, <2>2 DEF IsWork
  <2>4. work'[t].ok = (canon # NoRow)
    BY <1>3, <2>2, <2>3 DEF IsWork
  <2> QED BY <1>1, <1>9, <2>2, <2>3, <2>4
<1>10. ASSUME NEW u \in Tasks, ReadForReclip(u) PROVE ReadForReclip(t) /\ canon = NoRow
  <2>1. PICK w : Goes(u, w)
    BY <1>10 DEF ReadForReclip
  <2>2. u = t
    BY <1>2, <2>1
  <2>3. ASSUME canon # NoRow PROVE work'[t].at = "set"
    BY <1>2, <1>3, <1>10, <2>2, <2>3 DEF ReadForReclip, IsWork
  <2> QED BY <1>1, <1>10, <2>2, <2>3
<1>11. ASSUME NEW u \in Tasks, SetReclipped(u) PROVE SetReclipped(t)
  BY <1>2, <1>11 DEF SetReclipped
<1> QED BY <1>4, <1>5, <1>6, <1>7, <1>8, <1>9, <1>10, <1>11 DEF AnnotationNext

(* ... and each time what is there then fits the new source.               *)
LEMMA PreservedFits ==
    ASSUME AnnotationInv, Timed, [AnnotationNext]_annotationVars, NEW t \in Tasks,
           Preserves(t), canon'.duration > 0
    PROVE  \A i \in Intervals(canon') : i[2] <= media' + Drift
<1>1. Timed'
  BY TimedStep
<1>2. /\ work[t].duration \in Nat /\ Fits(work[t].canon) /\ Follows(work[t]) /\ Fits(canon)
      /\ Fits(canon') /\ work[t].kind = "replace"
  BY <1>1 DEF Timed, Preserves
<1>3. ASSUME canon'.duration <= media' + Drift
      PROVE  \A i \in Intervals(canon') : i[2] <= media' + Drift
  <2> TAKE i \in Intervals(canon')
  <2>1. i \in Int \X Int /\ i[2] <= canon'.duration /\ canon'.duration \in Nat
    BY <1>2 DEF Fits
  <2>2. media' \in Nat /\ Drift \in Nat
    BY <1>1 DEF Timed, Drift
  <2> QED BY <1>3, <2>1, <2>2
<1>4. CASE CompareDurations(t) /\ ~Drifted(work[t].canon.duration, work[t].duration)
  <2>1. canon' = canon /\ media' = media /\ media = work[t].duration
    BY <1>2, <1>4 DEF CompareDurations, RowsStay, Follows
  <2>2. canon.duration = work[t].canon.duration
    BY <1>2, <1>4, <2>1 DEF CompareDurations, Follows
  <2>3. canon.duration <= media + Drift
    BY <1>2, <1>4, <2>1, <2>2 DEF Drifted, Difference, Fits, Drift
  <2> QED BY <1>3, <2>1, <2>3
<1>5. CASE ReadForReclip(t) /\ canon = NoRow
  BY <1>5, EmptyFits DEF ReadForReclip, RowsStay
<1>6. CASE SetReclipped(t)
  <2>1. media' = media /\ media = work[t].duration /\ work'[t].ok = (work[t].canon.kind = "v4")
    <3>1. IsWork(work[t]) /\ Goes(t, [work[t] EXCEPT !.at = "done", !.ok = work[t].canon.kind = "v4"])
      BY <1>6 DEF SetReclipped, AnnotationInv, AnnotationShape
    <3>2. work'[t] = [work[t] EXCEPT !.at = "done", !.ok = work[t].canon.kind = "v4"]
      BY <3>1, GoesChanges DEF AnnotationInv
    <3> QED BY <1>2, <1>6, <3>1, <3>2 DEF SetReclipped, Follows, IsWork
  <2>2. work[t].canon.kind = "v4"
    BY <2>1 DEF Preserves
  <2>3. canon' = NoRow \/ canon' = work[t].canon
    BY <1>6, <2>2 DEF SetReclipped
  <2>4. canon' = work[t].canon /\ work[t].canon.duration = work[t].duration
    BY <1>2, <1>6, <2>2, <2>3, EmptyFits DEF SetReclipped, Follows
  <2>5. canon'.duration <= media' + Drift
    BY <1>2, <2>1, <2>4 DEF Drift
  <2> QED BY <1>3, <2>5
<1> QED BY <1>4, <1>5, <1>6, PreservesHow

(* ReportedFits: "we never report a preserved annotation whose timestamps  *)
(* diverge from the media" (media_processing.py:105), as long as no patch  *)
(* or replacement overlaps another request.                                *)
THEOREM ReportedAlwaysFits ==
    ASSUME ~OverlapEdits
    PROVE  AnnotationSpec => ReportedFits
<1>1. AnnotationInit => AnnotationInv /\ Timed
  BY AnnotationInvInit, TimedInit
<1>2. AnnotationInv /\ Timed /\ [AnnotationNext]_annotationVars => AnnotationInv' /\ Timed'
  BY AnnotationInvStep, TimedStep
<1>3. AnnotationInv /\ Timed /\ [AnnotationNext]_annotationVars =>
          [\A t \in Tasks : Preserves(t) /\ canon'.duration > 0 =>
              \A i \in canon'.clips \cup canon'.windows : i[2] <= media' + Drift]_annotationVars
  BY PreservedFits DEF Intervals
<1> QED BY <1>1, <1>2, <1>3, PTL DEF AnnotationSpec, ReportedFits

-----------------------------------------------------------------------------
(* InsertPlanning: what is inserted fits, and stays                        *)

(* Frames and milliseconds: a frame is found again.                        *)
LEMMA FrameOfMs == ASSUME NEW f \in Int PROVE Ms(f) \in Int /\ Frame(Ms(f)) = f
BY DEF Frame, Ms

LEMMA FrameInt == ASSUME NEW t \in Int PROVE Frame(t) \in Int
BY DEF Frame

LEMMA FrameMonotone == ASSUME NEW s \in Int, NEW t \in Int, s <= t PROVE Frame(s) <= Frame(t)
BY DEF Frame

(* Two windows of one length differ by a frame at most.                    *)
LEMMA FrameLength ==
    ASSUME NEW s \in Int, NEW t \in Int, NEW length \in Int
    PROVE  (Frame(s + length) - Frame(s)) - (Frame(t + length) - Frame(t)) \in -1..1
BY DEF Frame

-----------------------------------------------------------------------------
(* A boundary moves by a few frames and to a cut, and then no more.        *)
LEMMA BackMoves ==
    ASSUME NEW cuts, IsFiniteSet(cuts), cuts \subseteq Nat, NEW f \in Int
    PROVE  /\ Back(cuts, f) \in Int /\ Back(cuts, f) <= f /\ f - Back(cuts, f) <= MaxPad
           /\ Back(cuts, f) = f \/ Back(cuts, f) \in cuts
           /\ f \in cuts => Back(cuts, f) = f
<1> DEFINE near == {cut \in cuts : f - MaxPad <= cut /\ cut < f}
<1>1. near \subseteq Int /\ IsFiniteSet(near)
  <2>1. near \in SUBSET cuts
    OBVIOUS
  <2> HIDE DEF near
  <2>2. IsFiniteSet(near)
    BY <2>1, FS_Subset
  <2> QED BY <2>1, <2>2
<1>2. CASE Back(cuts, f) = f
  BY <1>2 DEF MaxPad
<1>3. CASE Back(cuts, f) # f
  <2>1. near # {} /\ Back(cuts, f) = Max(near) /\ f \notin cuts
    BY <1>3 DEF Back
  <2>2. Back(cuts, f) \in near
    <3> HIDE DEF near
    <3> QED BY <1>1, <2>1, HasMax
  <2>3. PICK c \in cuts : c = Back(cuts, f) /\ f - MaxPad <= c /\ c < f
    BY <2>2
  <2>4. c \in Int
    OBVIOUS
  <2> QED BY <2>1, <2>3, <2>4 DEF MaxPad
<1> QED BY <1>2, <1>3

LEMMA OnMoves ==
    ASSUME NEW cuts, IsFiniteSet(cuts), cuts \subseteq Nat, NEW f \in Int
    PROVE  /\ On(cuts, f) \in Int /\ f <= On(cuts, f) /\ On(cuts, f) - f <= MaxPad
           /\ On(cuts, f) = f \/ On(cuts, f) \in cuts
           /\ f \in cuts => On(cuts, f) = f
<1> DEFINE near == {cut \in cuts : f < cut /\ cut <= f + MaxPad}
<1>1. near \subseteq Int /\ IsFiniteSet(near)
  <2>1. near \in SUBSET cuts
    OBVIOUS
  <2> HIDE DEF near
  <2>2. IsFiniteSet(near)
    BY <2>1, FS_Subset
  <2> QED BY <2>1, <2>2
<1>2. CASE On(cuts, f) = f
  BY <1>2 DEF MaxPad
<1>3. CASE On(cuts, f) # f
  <2>1. near # {} /\ On(cuts, f) = Min(near) /\ f \notin cuts
    BY <1>3 DEF On
  <2>2. On(cuts, f) \in near
    <3> HIDE DEF near
    <3> QED BY <1>1, <2>1, HasMin
  <2>3. PICK c \in cuts : c = On(cuts, f) /\ f < c /\ c <= f + MaxPad
    BY <2>2
  <2>4. c \in Int
    OBVIOUS
  <2> QED BY <2>1, <2>3, <2>4 DEF MaxPad
<1> QED BY <1>2, <1>3

-----------------------------------------------------------------------------
(* What an insert is made of.                                              *)
Sentence == [from : Nat, to : Nat]
Insert ==
    [clip : UNION Footage, unit : Sentence, from : Int, to : Int, source : [from : Int, to : Int],
     padStart : Int, padEnd : Int]

(* An insert that fits. What was padded ends on a cut, so that it is not   *)
(* padded again.                                                           *)
ShownLength(i) == Past(i) - First(i) - i.padStart - i.padEnd
FitsIn(cuts, i) ==
    /\ i.clip.from <= i.source.from /\ i.source.to <= i.clip.to
    /\ ShownLength(i) - (Frame(i.source.to) - Frame(i.source.from)) \in -1..1
    /\ i.padStart \in 0..MaxPad /\ i.padEnd \in 0..MaxPad
    /\ i.padStart > 0 => First(i) \in cuts
    /\ i.padEnd > 0 => Past(i) \in cuts
    /\ First(i) + i.padStart >= First(i.unit) /\ Past(i) - i.padEnd <= Past(i.unit)

LEMMA InsertInts ==
    ASSUME NEW i \in Insert
    PROVE  /\ First(i) \in Int /\ Past(i) \in Int /\ i.padStart \in Int /\ i.padEnd \in Int
           /\ i.from \in Int /\ i.to \in Int
           /\ First(i.unit) \in Int /\ Past(i.unit) \in Int
           /\ Frame(i.source.from) \in Int /\ Frame(i.source.to) \in Int
BY DEF Insert, First, Past, Frame, Sentence

(* Aligning changes where an insert begins and ends, and its pads.         *)
Changed(i, from, to, padStart, padEnd) ==
    [i EXCEPT !.from = from, !.to = to, !.padStart = padStart, !.padEnd = padEnd]

LEMMA InsertChanged ==
    ASSUME NEW i \in Insert, NEW a \in Int, NEW z \in Int, NEW p \in Int, NEW q \in Int
    PROVE  /\ Changed(i, a, z, p, q) \in Insert
           /\ Changed(i, a, z, p, q).from = a /\ Changed(i, a, z, p, q).to = z
           /\ Changed(i, a, z, p, q).padStart = p /\ Changed(i, a, z, p, q).padEnd = q
           /\ Changed(i, a, z, p, q).clip = i.clip /\ Changed(i, a, z, p, q).unit = i.unit
           /\ Changed(i, a, z, p, q).source = i.source
BY DEF Insert, Changed

LEMMA OnGridIsChanged ==
    ASSUME NEW i \in Insert
    PROVE  OnGrid(i) = Changed(i, Ms(First(i)), Ms(Past(i)), i.padStart, i.padEnd)
BY DEF Insert, OnGrid, Changed

LEMMA SnappedFields ==
    ASSUME NEW cuts, IsFiniteSet(cuts), cuts \subseteq Nat, NEW i \in Insert
    PROVE  /\ Snapped(cuts, i) \in Insert
           /\ First(Snapped(cuts, i)) = Back(cuts, First(i)) /\ Past(Snapped(cuts, i)) = On(cuts, Past(i))
           /\ Snapped(cuts, i).padStart = i.padStart + First(i) - Back(cuts, First(i))
           /\ Snapped(cuts, i).padEnd = i.padEnd + On(cuts, Past(i)) - Past(i)
           /\ Snapped(cuts, i).clip = i.clip /\ Snapped(cuts, i).unit = i.unit
           /\ Snapped(cuts, i).source = i.source
           /\ Snapped(cuts, i).from = Ms(Back(cuts, First(i))) /\ Snapped(cuts, i).to = Ms(On(cuts, Past(i)))
<1> DEFINE a == Back(cuts, First(i))
           z == On(cuts, Past(i))
           p == i.padStart + First(i) - a
           q == i.padEnd + z - Past(i)
           s == Snapped(cuts, i)
<1>1. First(i) \in Int /\ Past(i) \in Int /\ i.padStart \in Int /\ i.padEnd \in Int
  BY InsertInts
<1>2. a \in Int /\ z \in Int
  BY <1>1, BackMoves, OnMoves
<1>3. p \in Int /\ q \in Int
  BY <1>1, <1>2
<1>4. Ms(a) \in Int /\ Ms(z) \in Int /\ Frame(Ms(a)) = a /\ Frame(Ms(z)) = z
  BY <1>2, FrameOfMs
<1>5. s = Changed(i, Ms(a), Ms(z), p, q)
  BY DEF Snapped, Changed
<1> HIDE DEF s, a, z, p, q
<1>6. /\ s \in Insert
      /\ s.from = Ms(a) /\ s.to = Ms(z) /\ s.padStart = p /\ s.padEnd = q
      /\ s.clip = i.clip /\ s.unit = i.unit /\ s.source = i.source
  BY <1>3, <1>4, <1>5, InsertChanged
<1>7. First(s) = a /\ Past(s) = z
  BY <1>4, <1>6 DEF First, Past
<1> QED BY <1>6, <1>7 DEF s, a, z, p, q

LEMMA OnGridFields ==
    ASSUME NEW i \in Insert
    PROVE  /\ OnGrid(i) \in Insert /\ First(OnGrid(i)) = First(i) /\ Past(OnGrid(i)) = Past(i)
           /\ OnGrid(i).padStart = i.padStart /\ OnGrid(i).padEnd = i.padEnd
           /\ OnGrid(i).clip = i.clip /\ OnGrid(i).unit = i.unit /\ OnGrid(i).source = i.source
<1> DEFINE a == First(i)
           z == Past(i)
           s == OnGrid(i)
<1>1. a \in Int /\ z \in Int /\ i.padStart \in Int /\ i.padEnd \in Int
  BY InsertInts
<1>2. s = Changed(i, Ms(a), Ms(z), i.padStart, i.padEnd)
  BY OnGridIsChanged
<1> HIDE DEF s, a, z
<1>3. Ms(a) \in Int /\ Ms(z) \in Int /\ Frame(Ms(a)) = a /\ Frame(Ms(z)) = z
  BY <1>1, FrameOfMs
<1>4. /\ s \in Insert
      /\ s.from = Ms(a) /\ s.to = Ms(z) /\ s.padStart = i.padStart /\ s.padEnd = i.padEnd
      /\ s.clip = i.clip /\ s.unit = i.unit /\ s.source = i.source
  BY <1>1, <1>2, <1>3, InsertChanged
<1>5. First(s) = a /\ Past(s) = z
  BY <1>3, <1>4 DEF First, Past
<1> QED BY <1>4, <1>5 DEF s, a, z

LEMMA SnappedFits ==
    ASSUME NEW cuts, IsFiniteSet(cuts), cuts \subseteq Nat, NEW i \in Insert, FitsIn(cuts, i)
    PROVE  FitsIn(cuts, Snapped(cuts, i))
<1> DEFINE s == Snapped(cuts, i)
<1>0. /\ First(s) = Back(cuts, First(i)) /\ Past(s) = On(cuts, Past(i))
      /\ s.padStart = i.padStart + First(i) - Back(cuts, First(i))
      /\ s.padEnd = i.padEnd + On(cuts, Past(i)) - Past(i)
      /\ s.clip = i.clip /\ s.unit = i.unit /\ s.source = i.source
  BY SnappedFields
<1>1. /\ First(s) = Back(cuts, First(i)) /\ Past(s) = On(cuts, Past(i))
      /\ s.padStart = i.padStart + First(i) - First(s) /\ s.padEnd = i.padEnd + Past(s) - Past(i)
      /\ s.clip = i.clip /\ s.unit = i.unit /\ s.source = i.source
  BY ONLY <1>0
<1>2. /\ First(i) \in Int /\ Past(i) \in Int /\ i.padStart \in Int /\ i.padEnd \in Int
      /\ First(i.unit) \in Int /\ Past(i.unit) \in Int
  BY InsertInts
<1> HIDE DEF s
<1>3. /\ First(s) \in Int /\ First(s) <= First(i) /\ First(i) - First(s) <= MaxPad
      /\ First(s) = First(i) \/ First(s) \in cuts
      /\ First(i) \in cuts => First(s) = First(i)
  BY <1>1, <1>2, BackMoves
<1>4. /\ Past(s) \in Int /\ Past(i) <= Past(s) /\ Past(s) - Past(i) <= MaxPad
      /\ Past(s) = Past(i) \/ Past(s) \in cuts
      /\ Past(i) \in cuts => Past(s) = Past(i)
  BY <1>1, <1>2, OnMoves
<1>5. s.padStart \in 0..MaxPad /\ (s.padStart > 0 => First(s) \in cuts)
  BY <1>1, <1>2, <1>3 DEF FitsIn, MaxPad
<1>6. s.padEnd \in 0..MaxPad /\ (s.padEnd > 0 => Past(s) \in cuts)
  BY <1>1, <1>2, <1>4 DEF FitsIn, MaxPad
<1>7. ShownLength(s) = ShownLength(i)
  BY <1>1, <1>2, <1>3, <1>4 DEF ShownLength
<1>8. First(s) + s.padStart >= First(s.unit) /\ Past(s) - s.padEnd <= Past(s.unit)
  <2>1. First(s) + s.padStart = First(i) + i.padStart /\ Past(s) - s.padEnd = Past(i) - i.padEnd
    BY <1>1, <1>2, <1>3, <1>4
  <2> QED BY <1>1, <2>1 DEF FitsIn
<1>9. s.clip.from <= s.source.from /\ s.source.to <= s.clip.to
      /\ ShownLength(s) - (Frame(s.source.to) - Frame(s.source.from)) \in -1..1
  BY <1>1, <1>7 DEF FitsIn
<1>10. FitsIn(cuts, s)
  BY <1>5, <1>6, <1>8, <1>9 DEF FitsIn
<1> QED BY <1>10 DEF s

LEMMA OnGridFits ==
    ASSUME NEW cuts, NEW i \in Insert, FitsIn(cuts, i)
    PROVE  FitsIn(cuts, OnGrid(i))
<1> DEFINE s == OnGrid(i)
<1>1. /\ First(s) = First(i) /\ Past(s) = Past(i) /\ s.padStart = i.padStart /\ s.padEnd = i.padEnd
      /\ s.clip = i.clip /\ s.unit = i.unit /\ s.source = i.source
  BY OnGridFields
<1> HIDE DEF s
<1>2. FitsIn(cuts, s)
  BY <1>1 DEF FitsIn, ShownLength
<1> QED BY <1>2 DEF s

(* Aligned inserts fit when they did before.                               *)
LEMMA AlignFits ==
    ASSUME NEW cuts, IsFiniteSet(cuts), cuts \subseteq Nat, NEW inserts \in Seq(Insert),
           \A k \in DOMAIN inserts : FitsIn(cuts, inserts[k])
    PROVE  /\ Align(cuts, inserts) \in Seq(Insert) /\ DOMAIN Align(cuts, inserts) = DOMAIN inserts
           /\ \A k \in DOMAIN inserts : FitsIn(cuts, Align(cuts, inserts)[k])
<1> DEFINE new == Align(cuts, inserts)
<1>1. /\ DOMAIN new = DOMAIN inserts
      /\ \A k \in DOMAIN inserts : new[k] = OnGrid(inserts[k]) \/ new[k] = Snapped(cuts, inserts[k])
  BY DEF Align
<1>2. \A k \in DOMAIN inserts : inserts[k] \in Insert
  OBVIOUS
<1> HIDE DEF new
<1>3. \A k \in DOMAIN inserts : new[k] \in Insert /\ FitsIn(cuts, new[k])
  <2> SUFFICES ASSUME NEW k \in DOMAIN inserts
               PROVE  new[k] \in Insert /\ FitsIn(cuts, new[k])
    OBVIOUS
  <2>1. CASE new[k] = OnGrid(inserts[k])
    BY <1>2, <2>1, OnGridFits, OnGridFields
  <2>2. CASE new[k] = Snapped(cuts, inserts[k])
    BY ZenonT(60), <1>2, <2>2, SnappedFits, SnappedFields
  <2> QED BY <1>1, <2>1, <2>2
<1>4. new \in Seq(Insert)
  <2>1. DOMAIN inserts = 1..Len(inserts) /\ Len(inserts) \in Nat
    OBVIOUS
  <2>2. new = [k \in 1..Len(inserts) |-> new[k]]
    BY <1>1, <2>1 DEF new, Align
  <2> QED BY <1>3, <2>1, <2>2
<1> QED BY <1>1, <1>3, <1>4 DEF new

-----------------------------------------------------------------------------
(* What is aligned stays where it is when it is aligned again.             *)
Settled(i) == i.from = Ms(First(i)) /\ i.to = Ms(Past(i))

LEMMA SettledStays ==
    ASSUME NEW cuts, NEW i \in Insert, Settled(i)
    PROVE  /\ OnGrid(i) = i
           /\ Back(cuts, First(i)) = First(i) /\ On(cuts, Past(i)) = Past(i) => Snapped(cuts, i) = i
<1>1. OnGrid(i) = i
  BY DEF Settled, OnGrid, Insert
<1>2. ASSUME Back(cuts, First(i)) = First(i), On(cuts, Past(i)) = Past(i)
      PROVE  Snapped(cuts, i) = i
  <2>1. i.padStart + First(i) - First(i) = i.padStart /\ i.padEnd + Past(i) - Past(i) = i.padEnd
    BY InsertInts
  <2>2. Snapped(cuts, i) = [i EXCEPT !.from = i.from, !.to = i.to,
                                     !.padStart = i.padStart, !.padEnd = i.padEnd]
    BY <1>2, <2>1 DEF Snapped, Settled
  <2> QED BY <2>2 DEF Insert
<1> QED BY <1>1, <1>2

LEMMA AlignSettles ==
    ASSUME NEW cuts, IsFiniteSet(cuts), cuts \subseteq Nat, NEW i \in Insert
    PROVE  /\ Settled(OnGrid(i)) /\ Settled(Snapped(cuts, i))
           /\ Back(cuts, First(Snapped(cuts, i))) = First(Snapped(cuts, i))
           /\ On(cuts, Past(Snapped(cuts, i))) = Past(Snapped(cuts, i))
<1>1. Settled(OnGrid(i))
  BY OnGridFields DEF Settled, OnGrid, Insert
<1>2. Settled(Snapped(cuts, i))
  <2> DEFINE s == Snapped(cuts, i)
  <2>1. /\ First(s) = Back(cuts, First(i)) /\ Past(s) = On(cuts, Past(i))
        /\ s.from = Ms(Back(cuts, First(i))) /\ s.to = Ms(On(cuts, Past(i)))
    BY SnappedFields
  <2> HIDE DEF s
  <2>2. Settled(s)
    BY <2>1 DEF Settled
  <2> QED BY <2>2 DEF s
<1>3. First(i) \in Int /\ Past(i) \in Int
  BY InsertInts
<1>4. Back(cuts, Back(cuts, First(i))) = Back(cuts, First(i))
  <2>1. Back(cuts, First(i)) \in Int
    BY <1>3, BackMoves
  <2> QED BY <1>3, <2>1, BackMoves
<1>5. On(cuts, On(cuts, Past(i))) = On(cuts, Past(i))
  <2>1. On(cuts, Past(i)) \in Int
    BY <1>3, OnMoves
  <2> QED BY <1>3, <2>1, OnMoves
<1> QED BY <1>1, <1>2, <1>4, <1>5, SnappedFields

(* A neighbour in the way stays in the way, for nobody gets shorter.       *)
LEMMA AlignAgain ==
    ASSUME NEW cuts, IsFiniteSet(cuts), cuts \subseteq Nat, NEW inserts \in Seq(Insert)
    PROVE  Align(cuts, Align(cuts, inserts)) = Align(cuts, inserts)
<1> DEFINE new == Align(cuts, inserts)
           n == Len(inserts)
<1>1. n \in Nat /\ DOMAIN inserts = 1..n /\ \A k \in 1..n : inserts[k] \in Insert
  OBVIOUS
<1>2. DOMAIN new = 1..n /\ new = [k \in 1..n |-> new[k]]
  BY <1>1 DEF Align
<1>3. \A k \in 1..n : new[k] = IF Reaches(cuts, inserts, k) THEN OnGrid(inserts[k])
                               ELSE Snapped(cuts, inserts[k])
  BY <1>1 DEF Align
<1>4. Len(new) = n
  BY <1>1, <1>2
<1> HIDE DEF new, n
<1>5. ASSUME NEW k \in 1..n
      PROVE  /\ new[k] \in Insert /\ Settled(new[k])
             /\ First(new[k]) \in Int /\ First(new[k]) <= First(inserts[k])
             /\ Past(new[k]) \in Int /\ Past(inserts[k]) <= Past(new[k])
             /\ First(inserts[k]) \in Int /\ Past(inserts[k]) \in Int
  <2>1. inserts[k] \in Insert /\ First(inserts[k]) \in Int /\ Past(inserts[k]) \in Int
    BY <1>1, InsertInts
  <2>2. CASE new[k] = OnGrid(inserts[k])
    <3>1. new[k] \in Insert /\ First(new[k]) = First(inserts[k]) /\ Past(new[k]) = Past(inserts[k])
      BY <2>1, <2>2, OnGridFields
    <3>2. Settled(new[k])
      BY <2>1, <2>2, AlignSettles
    <3> QED BY <2>1, <3>1, <3>2
  <2>3. CASE new[k] = Snapped(cuts, inserts[k])
    <3>1. /\ new[k] \in Insert /\ First(new[k]) = Back(cuts, First(inserts[k]))
          /\ Past(new[k]) = On(cuts, Past(inserts[k]))
      <4> DEFINE s == Snapped(cuts, inserts[k])
      <4>1. s \in Insert /\ First(s) = Back(cuts, First(inserts[k])) /\ Past(s) = On(cuts, Past(inserts[k]))
        BY <2>1, SnappedFields
      <4> HIDE DEF s
      <4>2. new[k] = s
        BY <2>3 DEF s
      <4> QED BY <4>1, <4>2
    <3>2. Settled(new[k])
      BY <2>1, <2>3, AlignSettles
    <3>3. /\ First(new[k]) \in Int /\ First(new[k]) <= First(inserts[k])
          /\ Past(new[k]) \in Int /\ Past(inserts[k]) <= Past(new[k])
      <4>1. /\ Back(cuts, First(inserts[k])) \in Int /\ Back(cuts, First(inserts[k])) <= First(inserts[k])
        BY <2>1, BackMoves
      <4>2. /\ On(cuts, Past(inserts[k])) \in Int /\ Past(inserts[k]) <= On(cuts, Past(inserts[k]))
        BY <2>1, OnMoves
      <4> QED BY <3>1, <4>1, <4>2
    <3> QED BY <2>1, <3>1, <3>2, <3>3
  <2> QED BY <1>3, <2>2, <2>3
<1>6. ASSUME NEW k \in 1..n PROVE Align(cuts, new)[k] = new[k]
  <2>1. Align(cuts, new)[k] = IF Reaches(cuts, new, k) THEN OnGrid(new[k]) ELSE Snapped(cuts, new[k])
    BY <1>2 DEF Align
  <2>2. CASE Reaches(cuts, inserts, k)
    <3>1. First(new[k]) = First(inserts[k]) /\ Past(new[k]) = Past(inserts[k])
      BY <1>1, <1>3, <2>2, OnGridFields
    <3>2. Back(cuts, First(inserts[k])) \in Int /\ On(cuts, Past(inserts[k])) \in Int
      BY <1>5, BackMoves, OnMoves
    <3>3. CASE k > 1 /\ Back(cuts, First(inserts[k])) < Past(inserts[k - 1])
      <4>1. k - 1 \in 1..n
        BY <1>1, <3>3
      <4>2. Past(inserts[k - 1]) <= Past(new[k - 1]) /\ Past(new[k - 1]) \in Int /\ Past(inserts[k - 1]) \in Int
        BY <1>5, <4>1
      <4>3. Reaches(cuts, new, k)
        BY <3>1, <3>2, <3>3, <4>2 DEF Reaches
      <4> QED BY <1>5, <2>1, <4>3, SettledStays
    <3>4. CASE k < n /\ On(cuts, Past(inserts[k])) > First(inserts[k + 1])
      <4>1. k + 1 \in 1..n
        BY <1>1, <3>4
      <4>2. First(new[k + 1]) <= First(inserts[k + 1]) /\ First(new[k + 1]) \in Int /\ First(inserts[k + 1]) \in Int
        BY <1>5, <4>1
      <4>3. Reaches(cuts, new, k)
        BY <1>4, <3>1, <3>2, <3>4, <4>2 DEF Reaches
      <4> QED BY <1>5, <2>1, <4>3, SettledStays
    <3> QED BY <2>2, <3>3, <3>4 DEF Reaches, n
  <2>3. CASE ~Reaches(cuts, inserts, k)
    <3>1. new[k] = Snapped(cuts, inserts[k]) /\ inserts[k] \in Insert
      BY <1>1, <1>3, <2>3
    <3>2. Back(cuts, First(new[k])) = First(new[k]) /\ On(cuts, Past(new[k])) = Past(new[k])
      BY <3>1, AlignSettles
    <3> QED BY <1>5, <2>1, <3>2, SettledStays
  <2> QED BY <2>2, <2>3
<1>7. Align(cuts, new) = [k \in 1..n |-> Align(cuts, new)[k]]
  <2>1. DOMAIN new = 1..n
    BY <1>2
  <2> QED BY ONLY <2>1 DEF Align
<1>8. [k \in 1..n |-> Align(cuts, new)[k]] = [k \in 1..n |-> new[k]]
  BY ONLY <1>6
<1>9. Align(cuts, new) = new
  BY ONLY <1>2, <1>7, <1>8
<1> QED BY <1>9 DEF new

-----------------------------------------------------------------------------
(* What is put into a sequence is all that is new in it.                   *)
LEMMA InsertAtHolds ==
    ASSUME NEW S, NEW s \in Seq(S), NEW e \in S, NEW i \in 1..(Len(s) + 1)
    PROVE  /\ InsertAt(s, i, e) \in Seq(S)
           /\ \A k \in DOMAIN InsertAt(s, i, e) :
                 InsertAt(s, i, e)[k] = e \/ \E j \in DOMAIN s : InsertAt(s, i, e)[k] = s[j]
<1> DEFINE before == SubSeq(s, 1, i - 1)
           after == SubSeq(s, i, Len(s))
           new == before \o <<e>> \o after
<1>1. /\ before \in Seq(S) /\ Len(before) = i - 1
      /\ \A k \in 1..(i - 1) : before[k] = s[k]
  OBVIOUS
<1>2. /\ after \in Seq(S) /\ Len(after) = Len(s) - i + 1
      /\ \A k \in 1..(Len(s) - i + 1) : after[k] = s[i + k - 1]
  OBVIOUS
<1> HIDE DEF before, after
<1>3. /\ before \o <<e>> \in Seq(S) /\ Len(before \o <<e>>) = i
      /\ \A k \in 1..(i - 1) : (before \o <<e>>)[k] = before[k]
      /\ (before \o <<e>>)[i] = e
  BY <1>1
<1> DEFINE head == before \o <<e>>
<1> HIDE DEF head
<1>4. /\ new = head \o after
      /\ head \in Seq(S) /\ Len(head) = i /\ \A k \in 1..(i - 1) : head[k] = before[k]
      /\ head[i] = e
  BY <1>3 DEF head
<1> HIDE DEF new
<1>5. /\ new \in Seq(S) /\ Len(new) = Len(s) + 1
      /\ \A k \in 1..i : new[k] = head[k]
      /\ \A k \in (i + 1)..(Len(s) + 1) : new[k] = after[k - i]
  <2>1. head \in Seq(S) /\ after \in Seq(S) /\ new = head \o after
    BY ONLY <1>2, <1>4
  <2>2. new \in Seq(S) /\ Len(new) = Len(head) + Len(after)
    BY ONLY <2>1
  <2>3. /\ \A k \in 1..Len(head) : new[k] = head[k]
        /\ \A k \in (Len(head) + 1)..(Len(head) + Len(after)) : new[k] = after[k - Len(head)]
    BY ONLY <2>1
  <2>4. Len(head) = i /\ Len(after) = Len(s) - i + 1 /\ Len(s) \in Nat /\ i \in Nat
    BY <1>2, <1>4
  <2> HIDE DEF new
  <2>5. Len(head) + Len(after) = Len(s) + 1
    BY ONLY <2>4
  <2> QED BY ONLY <2>2, <2>3, <2>4, <2>5
<1>6. ASSUME NEW k \in DOMAIN new PROVE new[k] = e \/ \E j \in DOMAIN s : new[k] = s[j]
  <2>1. k \in 1..(Len(s) + 1)
    BY <1>5
  <2>2. CASE k < i
    <3>1. k \in 1..i /\ k \in 1..(i - 1) /\ k \in 1..Len(s)
      BY <2>1, <2>2
    <3>2. new[k] = head[k] /\ head[k] = before[k] /\ before[k] = s[k]
      BY ONLY <3>1, <1>1, <1>4, <1>5
    <3> QED BY <3>1, <3>2
  <2>3. CASE k = i
    BY <1>4, <1>5, <2>3
  <2>4. CASE k > i
    <3>1. k - i \in 1..(Len(s) - i + 1) /\ i + (k - i) - 1 \in 1..Len(s) /\ k \in (i + 1)..(Len(s) + 1)
      BY <2>1, <2>4
    <3>2. new[k] = after[k - i] /\ after[k - i] = s[i + (k - i) - 1]
      BY <1>2, <1>5, <3>1
    <3> QED BY <3>1, <3>2
  <2> QED BY <2>1, <2>2, <2>3, <2>4
<1>7. InsertAt(s, i, e) = new
  BY DEF InsertAt, new, before, after
<1> QED BY <1>5, <1>6, <1>7

(* One more insert among inserts.                                          *)
LEMMA WithFits ==
    ASSUME NEW cuts, NEW inserts \in Seq(Insert), \A k \in DOMAIN inserts : FitsIn(cuts, inserts[k]),
           NEW i \in Insert, FitsIn(cuts, i)
    PROVE  /\ With(inserts, i) \in Seq(Insert)
           /\ \A k \in DOMAIN With(inserts, i) : FitsIn(cuts, With(inserts, i)[k])
<1> DEFINE before == {k \in DOMAIN inserts : inserts[k].from <= i.from}
           at == Cardinality(before) + 1
<1>1. /\ before \subseteq 1..Len(inserts) /\ IsFiniteSet(1..Len(inserts))
      /\ Cardinality(1..Len(inserts)) = Len(inserts)
  <2>1. Len(inserts) \in Nat /\ DOMAIN inserts = 1..Len(inserts)
    OBVIOUS
  <2>2. IsFiniteSet(1..Len(inserts)) /\ Cardinality(1..Len(inserts)) = Len(inserts)
    BY <2>1, FS_Interval
  <2> QED BY <2>1, <2>2
<1> HIDE DEF before
<1>2. IsFiniteSet(before) /\ Cardinality(before) <= Len(inserts)
  BY <1>1, FS_Subset
<1>3. Cardinality(before) \in Nat
  BY <1>2, FS_CardinalityType
<1>4. at \in 1..(Len(inserts) + 1)
  BY <1>2, <1>3
<1>5. With(inserts, i) = InsertAt(inserts, at, i)
  BY DEF With, before
<1> HIDE DEF at
<1> DEFINE new == InsertAt(inserts, at, i)
<1>6. new \in Seq(Insert) /\ \A k \in DOMAIN new : new[k] = i \/ \E j \in DOMAIN inserts : new[k] = inserts[j]
  BY <1>4, InsertAtHolds
<1> HIDE DEF new
<1>7. \A k \in DOMAIN new : FitsIn(cuts, new[k])
  <2> SUFFICES ASSUME NEW k \in DOMAIN new PROVE FitsIn(cuts, new[k])
    OBVIOUS
  <2>1. CASE new[k] = i
    BY <2>1
  <2>2. CASE \E j \in DOMAIN inserts : new[k] = inserts[j]
    BY <2>2
  <2> QED BY <1>6, <2>1, <2>2
<1>8. With(inserts, i) = new
  BY <1>5 DEF new
<1> QED BY <1>6, <1>7, <1>8

(* What a finite set is mapped to is finite.                               *)
LEMMA FiniteImage ==
    ASSUME NEW S, IsFiniteSet(S), NEW f
    PROVE  IsFiniteSet({f[x] : x \in S})
<1> DEFINE T == {f[x] : x \in S}
           g == [x \in S |-> f[x]]
<1>1. g \in Surjection(S, T)
  BY DEF Surjection
<1> HIDE DEF T, g
<1>2. IsFiniteSet(T)
  BY <1>1, FS_Surjection
<1> QED BY <1>2 DEF T

(* The closest of some starts is one of them.                              *)
LEMMA ClosestIn ==
    ASSUME NEW starts, starts \subseteq Int, IsFiniteSet(starts), NEW from \in Int
    PROVE  Closest(starts, from) \subseteq starts
<1> DEFINE Off(s) == Larger(s - from, from - s)
           offs == {Off(s) : s \in starts}
           off == Min(offs)
           best == {s \in starts : Off(s) = off}
<1> SUFFICES ASSUME starts # {} PROVE Min(best) \in starts
  BY DEF Closest
<1>1. offs \subseteq Int /\ offs # {}
  <2>1. \A s \in starts : Off(s) \in Int
    <3> SUFFICES ASSUME NEW s \in starts PROVE Off(s) \in Int
      OBVIOUS
    <3>1. s - from \in Int /\ from - s \in Int
      OBVIOUS
    <3> QED BY <3>1 DEF Larger
  <2> HIDE DEF Off
  <2> QED BY <2>1
<1>2. IsFiniteSet(offs)
  <2> DEFINE f == [s \in starts |-> Off(s)]
  <2>1. offs = {f[s] : s \in starts}
    OBVIOUS
  <2> HIDE DEF f, offs
  <2> QED BY <2>1, FiniteImage
<1> HIDE DEF offs
<1>3. off \in offs
  BY <1>1, <1>2, HasMin
<1> HIDE DEF off
<1>4. best # {} /\ best \in SUBSET starts
  BY <1>3 DEF offs
<1> HIDE DEF best
<1>5. IsFiniteSet(best) /\ best \subseteq Int
  BY <1>4, FS_Subset
<1>6. Min(best) \in best
  BY <1>4, <1>5, HasMin
<1> QED BY <1>4, <1>6

-----------------------------------------------------------------------------
(* What an insert shows of its clip is within it, and long enough.         *)
LEMMA InsertsSound ==
    ASSUME NEW clip \in UNION Footage, clip.from \in Nat, clip.to \in Nat,
           NEW unit \in Sentence, NEW start \in Int,
           NEW i \in Inserts(clip, unit, start)
    PROVE  /\ i \in Insert /\ i.unit = unit /\ i.clip = clip /\ i.padStart = 0 /\ i.padEnd = 0
           /\ Span(i) \in Nat /\ start <= i.from
           /\ clip.from <= i.source.from /\ i.source.to = i.source.from + Span(i)
           /\ i.source.to <= clip.to
<1> DEFINE room == unit.to - start
           length == LengthOfInsert(clip, room)
<1>1. ~(Span(clip) < ShortestInsert \/ room < ShortestInsert)
  BY DEF Inserts
<1>2. PICK from \in InSlack(start, room - length), cut \in InSlack(clip.from, Span(clip) - length) :
        i = [clip |-> clip, unit |-> unit, from |-> from, to |-> from + length,
             source |-> [from |-> cut, to |-> cut + length], padStart |-> 0, padEnd |-> 0]
  BY <1>1 DEF Inserts
<1>3. Span(clip) \in Int /\ Span(clip) = clip.to - clip.from /\ room \in Int
  BY DEF Span, Sentence
<1> HIDE DEF room
<1>4. length \in Nat /\ length <= room /\ length <= Span(clip)
  BY <1>1, <1>3 DEF LengthOfInsert, Smaller, ShortestInsert, LongestInsert
<1> HIDE DEF length
<1>5. from \in Int /\ start <= from
  BY <1>3, <1>4 DEF InSlack
<1>6. cut \in Int /\ clip.from <= cut /\ cut + length <= clip.to
  BY <1>3, <1>4 DEF InSlack
<1>7. /\ i.clip = clip /\ i.unit = unit /\ i.from = from /\ i.to = from + length
      /\ i.source = [from |-> cut, to |-> cut + length]
      /\ i.source.from = cut /\ i.source.to = cut + length /\ i.padStart = 0 /\ i.padEnd = 0
  BY <1>2
<1>8. Span(i) = length
  BY <1>4, <1>5, <1>7 DEF Span
<1>9. i \in Insert
  BY <1>2, <1>4, <1>5, <1>6 DEF Insert
<1> QED BY <1>4, <1>5, <1>6, <1>7, <1>8, <1>9

(* It may start nowhere before and nowhere past the end of its sentence.   *)
LEMMA StartsIn ==
    ASSUME NEW start \in Int, NEW i \in Insert, Span(i) \in Nat,
           spoken.cuts \subseteq Nat
    PROVE  /\ Starts(i, start) \subseteq Int /\ IsFiniteSet(Starts(i, start))
           /\ \A s \in Starts(i, start) : start <= s /\ s + Span(i) <= i.unit.to
<1> DEFINE length == Span(i)
           AtShot(shot) == {Ms(shot[1]), Ms(shot[2]) - length,
                            Ms(shot[1]) + Readable, Ms(shot[2]) - Readable - length}
           latest == i.unit.to - length
           all == {i.from, start, latest} \cup UNION {AtShot(shot) : shot \in Shots}
<1>1. i.unit.to \in Int /\ i.from \in Int /\ length \in Int /\ latest \in Int
  BY DEF Insert, Sentence
<1>2. \A shot \in Shots : AtShot(shot) \subseteq Int
  <2> SUFFICES ASSUME NEW shot \in Shots PROVE AtShot(shot) \subseteq Int
    OBVIOUS
  <2>1. shot[1] \in Int /\ shot[2] \in Int
    BY DEF Shots
  <2>2. Ms(shot[1]) \in Int /\ Ms(shot[2]) \in Int
    BY <2>1, FrameOfMs
  <2> HIDE DEF length
  <2> QED BY <1>1, <2>2 DEF Readable
<1> HIDE DEF AtShot, length
<1>3. all \subseteq Int
  <2>1. UNION {AtShot(shot) : shot \in Shots} \subseteq Int
    BY <1>2
  <2> QED BY <1>1, <2>1
<1> HIDE DEF all
<1>4. Starts(i, start) = {s \in all : start <= s /\ s <= latest}
  BY DEF Starts, all, AtShot, length
<1>5. Starts(i, start) \in SUBSET (start..latest)
  <2> SUFFICES ASSUME NEW s \in Starts(i, start) PROVE s \in start..latest
    OBVIOUS
  <2>1. s \in Int /\ start <= s /\ s <= latest
    BY <1>3, <1>4
  <2> QED BY <1>1, <2>1
<1>6. IsFiniteSet(Starts(i, start))
  <2> HIDE DEF latest
  <2>1. IsFiniteSet(start..latest)
    BY <1>1, FS_Interval
  <2> QED BY <1>5, <2>1, FS_Subset
<1>7. \A s \in Starts(i, start) : s \in Int /\ start <= s /\ s + Span(i) <= i.unit.to
  <2> SUFFICES ASSUME NEW s \in Starts(i, start) PROVE s \in Int /\ start <= s /\ s + Span(i) <= i.unit.to
    OBVIOUS
  <2>1. s \in Int /\ start <= s /\ s <= latest
    BY <1>3, <1>4
  <2> QED BY <1>1, <2>1 DEF length
<1> QED BY <1>6, <1>7

(* Wherever it starts there, it fits.                                      *)
LEMMA StartingIsChanged ==
    ASSUME NEW i \in Insert, NEW s
    PROVE  StartingAt(i, s) = Changed(i, s, s + Span(i), i.padStart, i.padEnd)
BY DEF Insert, StartingAt, Changed

LEMMA StartingAtFits ==
    ASSUME NEW cuts, NEW i \in Insert, Span(i) \in Nat, NEW s \in Int,
           i.clip.from <= i.source.from, i.source.to = i.source.from + Span(i),
           i.source.to <= i.clip.to, i.padStart = 0, i.padEnd = 0,
           i.unit.from <= s, s + Span(i) <= i.unit.to
    PROVE  StartingAt(i, s) \in Insert /\ FitsIn(cuts, StartingAt(i, s))
<1> DEFINE length == Span(i)
           new == StartingAt(i, s)
<1>1. /\ new = Changed(i, s, s + length, 0, 0)
      /\ length \in Int /\ s + length \in Int
  <2>1. new = Changed(i, s, s + length, i.padStart, i.padEnd)
    BY StartingIsChanged
  <2>2. length \in Int /\ s + length \in Int
    OBVIOUS
  <2> HIDE DEF new, length
  <2> QED BY <2>1, <2>2
<1> HIDE DEF length, new
<1>2. /\ new \in Insert /\ new.from = s /\ new.to = s + length /\ new.padStart = 0 /\ new.padEnd = 0
      /\ new.clip = i.clip /\ new.unit = i.unit /\ new.source = i.source
  BY <1>1, InsertChanged
<1>3. /\ i.source.from \in Int /\ i.unit.from \in Int /\ i.unit.to \in Int
  BY DEF Insert, Sentence
<1>4. First(new) = Frame(s) /\ Past(new) = Frame(s + length)
  BY <1>2 DEF First, Past
<1>5. Frame(s) \in Int /\ Frame(s + length) \in Int /\ Frame(i.unit.from) \in Int /\ Frame(i.unit.to) \in Int
  BY <1>1, <1>3, FrameInt
<1>6. Frame(i.unit.from) <= Frame(s) /\ Frame(s + length) <= Frame(i.unit.to)
  BY <1>1, <1>3, FrameMonotone DEF length
<1>7. (Frame(s + length) - Frame(s)) - (Frame(i.source.from + length) - Frame(i.source.from)) \in -1..1
  BY <1>1, <1>3, FrameLength
<1>8. ShownLength(new) - (Frame(new.source.to) - Frame(new.source.from)) \in -1..1
  <2>1. ShownLength(new) = Frame(s + length) - Frame(s)
    BY <1>2, <1>4, <1>5 DEF ShownLength
  <2>2. new.source.to = i.source.from + length /\ new.source.from = i.source.from
    BY <1>2 DEF length
  <2> QED BY <1>7, <2>1, <2>2
<1>9. First(new) + new.padStart >= First(new.unit) /\ Past(new) - new.padEnd <= Past(new.unit)
  <2>1. First(new.unit) = Frame(i.unit.from) /\ Past(new.unit) = Frame(i.unit.to)
    BY <1>2 DEF First, Past
  <2> QED BY <1>2, <1>4, <1>5, <1>6, <2>1
<1>10. FitsIn(cuts, new)
  BY <1>2, <1>8, <1>9 DEF FitsIn, MaxPad
<1> QED BY <1>2, <1>10 DEF new

-----------------------------------------------------------------------------
(* Inserts that are all right: each of them fits, and there are none or    *)
(* they are aligned and leave no flash of the portrait.                    *)
Right(inserts) ==
    /\ inserts \in Seq(Insert)
    /\ \A k \in DOMAIN inserts : FitsIn(spoken.cuts, inserts[k])
    /\ inserts = <<>> \/ (Align(spoken.cuts, inserts) = inserts /\ ~Flash(inserts))

LEMMA AcceptingKeeps ==
    ASSUME IsFiniteSet(spoken.cuts), spoken.cuts \subseteq Nat,
           NEW inserts, Right(inserts),
           NEW clip \in UNION Footage, clip.from \in Nat, clip.to \in Nat,
           NEW unit \in Sentence, NEW start \in Int, unit.from <= start,
           NEW i \in Inserts(clip, unit, start),
           NEW r \in Accepting(inserts, i, start)
    PROVE  Right(r)
<1> DEFINE Moved(s) == Align(spoken.cuts, With(inserts, StartingAt(i, s)))
           safe == {s \in Starts(i, start) : ~Flash(Moved(s))}
<1>1. PICK s \in Closest(safe, i.from) : r = Moved(s)
  BY DEF Accepting
<1>2. /\ i \in Insert /\ i.unit = unit /\ i.clip = clip /\ i.padStart = 0 /\ i.padEnd = 0
      /\ Span(i) \in Nat /\ start <= i.from
      /\ clip.from <= i.source.from /\ i.source.to = i.source.from + Span(i)
      /\ i.source.to <= clip.to
  BY InsertsSound
<1>3. /\ Starts(i, start) \subseteq Int /\ IsFiniteSet(Starts(i, start))
      /\ \A t \in Starts(i, start) : start <= t /\ t + Span(i) <= i.unit.to
  BY <1>2, StartsIn
<1>4. safe \in SUBSET Starts(i, start) /\ \A t \in safe : ~Flash(Moved(t))
  OBVIOUS
<1> HIDE DEF safe, Moved
<1>5. IsFiniteSet(safe) /\ safe \subseteq Int
  BY <1>3, <1>4, FS_Subset
<1>6. s \in safe
  <2>1. i.from \in Int
    BY <1>2, InsertInts
  <2> QED BY <1>1, <1>5, <2>1, ClosestIn
<1>7. s \in Int /\ start <= s /\ s + Span(i) <= i.unit.to
  BY <1>3, <1>4, <1>6
<1>8. unit.from <= s
  <2>1. unit.from \in Int
    BY DEF Sentence
  <2> QED BY <1>7, <2>1
<1>9. StartingAt(i, s) \in Insert /\ FitsIn(spoken.cuts, StartingAt(i, s))
  <2>1. i.unit.from <= s /\ i.clip.from <= i.source.from /\ i.source.to <= i.clip.to
    BY <1>2, <1>8
  <2> QED BY <1>2, <1>7, <2>1, StartingAtFits
<1> DEFINE more == With(inserts, StartingAt(i, s))
<1>10. more \in Seq(Insert) /\ \A k \in DOMAIN more : FitsIn(spoken.cuts, more[k])
  BY <1>9, WithFits DEF Right
<1>11. r = Align(spoken.cuts, more)
  BY <1>1 DEF Moved
<1> HIDE DEF more
<1>12. /\ r \in Seq(Insert) /\ DOMAIN r = DOMAIN more
       /\ \A k \in DOMAIN more : FitsIn(spoken.cuts, r[k])
  BY <1>10, <1>11, AlignFits
<1>13. Align(spoken.cuts, r) = r
  BY <1>10, <1>11, AlignAgain
<1>14. ~Flash(r)
  BY <1>1, <1>4, <1>6
<1> QED BY <1>12, <1>13, <1>14 DEF Right

LEMMA TryingKeeps ==
    ASSUME IsFiniteSet(spoken.cuts), spoken.cuts \subseteq Nat,
           NEW inserts, Right(inserts),
           NEW clip \in UNION Footage, clip.from \in Nat, clip.to \in Nat,
           NEW unit \in Sentence, NEW start \in Int, unit.from <= start,
           NEW r \in Trying(inserts, clip, unit, start)
    PROVE  Right(r)
<1> DEFINE results == {Accepting(inserts, insert, start) : insert \in Inserts(clip, unit, start)}
<1>1. r \in UNION results \/ r = inserts
  <2>1. Trying(inserts, clip, unit, start)
          = (UNION results) \cup (IF results = {} \/ {} \in results THEN {inserts} ELSE {})
    BY DEF Trying
  <2> DEFINE same == IF results = {} \/ {} \in results THEN {inserts} ELSE {}
  <2>2. \A x \in same : x = inserts
    <3> HIDE DEF results
    <3> QED OBVIOUS
  <2>3. r \in (UNION results) \cup same
    BY <2>1
  <2> HIDE DEF results, same
  <2> QED BY <2>2, <2>3
<1>2. CASE r \in UNION results
  <2>1. PICK i \in Inserts(clip, unit, start) : r \in Accepting(inserts, i, start)
    BY <1>2
  <2> QED BY <2>1, AcceptingKeeps
<1> QED BY <1>1, <1>2

-----------------------------------------------------------------------------
(* The clips are clips and the gaps sentences of the script; whatever was  *)
(* placed so far is all right.                                             *)
InsertInv ==
    /\ spoken \in Scripts
    /\ clips \in Seq(UNION Footage)
    /\ tried \in 0..Len(clips)
    /\ gaps \subseteq DOMAIN spoken.units
    /\ Right(placed)

LEMMA ScriptSound ==
    ASSUME spoken \in Scripts
    PROVE  /\ IsFiniteSet(spoken.cuts) /\ spoken.cuts \subseteq Nat
           /\ spoken.units \in Seq(Sentence)
           /\ \A clip \in UNION Footage :
                 clip.from \in Nat /\ clip.to \in Nat /\ clip.beat \in 0..Len(spoken.units)
BY InsertConstants DEF Sentence

LEMMA RightNext ==
    ASSUME UNCHANGED spoken, Right(placed')
    PROVE  Right(placed)'
BY DEF Right, Flash, Shots

LEMMA InsertStarts == InsertInit => InsertInv
<1> SUFFICES ASSUME InsertInit PROVE InsertInv
  OBVIOUS
<1>1. spoken \in Scripts /\ tried = 0 /\ gaps = {} /\ placed = <<>>
  BY DEF InsertInit
<1>2. PICK set \in Footage : clips \in SetToSeqs(set)
  BY DEF InsertInit
<1>3. clips \in [1..Cardinality(set) -> set] /\ Cardinality(set) \in Nat
  <2>1. IsFiniteSet(set)
    BY InsertConstants
  <2> QED BY <1>2, <2>1, FS_CardinalityType DEF SetToSeqs
<1>4. clips \in Seq(UNION Footage) /\ Len(clips) \in Nat
  <2>1. clips \in [1..Cardinality(set) -> UNION Footage]
    BY <1>3
  <2> QED BY <1>3, <2>1
<1>5. Right(placed)
  BY <1>1 DEF Right
<1> QED BY <1>1, <1>4, <1>5 DEF InsertInv

LEMMA MatchKeeps ==
    ASSUME InsertInv, MatchClip
    PROVE  Right(placed')
<1> DEFINE clip == clips[tried + 1]
           unit == spoken.units[clip.beat]
           start == Larger(unit.from, Cursor)
<1>1. clip \in UNION Footage
  <2>1. tried \in 0..Len(clips) /\ tried < Len(clips) /\ clips \in Seq(UNION Footage)
    BY DEF InsertInv, MatchClip
  <2>2. tried + 1 \in 1..Len(clips)
    BY <2>1
  <2> QED BY <2>1, <2>2
<1>2. /\ IsFiniteSet(spoken.cuts) /\ spoken.cuts \subseteq Nat
      /\ clip.from \in Nat /\ clip.to \in Nat /\ clip.beat \in 0..Len(spoken.units)
      /\ spoken.units \in Seq(Sentence)
  BY <1>1, ScriptSound DEF InsertInv
<1>3. placed' \in IF clip.beat = 0 \/ Used(clip) \/ LookUsed(clip) THEN {placed}
                  ELSE Trying(placed, clip, unit, start)
  BY DEF MatchClip
<1>4. CASE placed' = placed
  BY <1>4 DEF InsertInv
<1>5. CASE clip.beat # 0 /\ placed' \in Trying(placed, clip, unit, start)
  <2>1. unit \in Sentence /\ unit.from \in Int
    <3> HIDE DEF clip
    <3>1. clip.beat \in 1..Len(spoken.units)
      BY <1>2, <1>5
    <3>2. unit \in Sentence
      BY <1>2, <3>1
    <3> HIDE DEF unit
    <3> QED BY <3>2 DEF Sentence
  <2>2. Cursor \in Int
    <3> DEFINE ends == {placed[k].to : k \in DOMAIN placed}
               f == [k \in DOMAIN placed |-> placed[k].to]
    <3>1. placed \in Seq(Insert)
      BY DEF InsertInv, Right
    <3>2. \A k \in DOMAIN placed : placed[k].to \in Int
      BY <3>1, InsertInts
    <3>3. IsFiniteSet(DOMAIN placed)
      <4>1. DOMAIN placed = 1..Len(placed) /\ Len(placed) \in Nat
        BY <3>1
      <4> QED BY <4>1, FS_Interval
    <3>4. ends = {f[k] : k \in DOMAIN placed} /\ ends \subseteq Int
      BY <3>2
    <3> HIDE DEF ends, f
    <3>5. IsFiniteSet(ends)
      BY <3>3, <3>4, FiniteImage
    <3>8. IsFiniteSet({0} \cup ends)
      BY <3>5, FS_AddElement
    <3>6. IsFiniteSet({0} \cup ends) /\ {0} \cup ends \subseteq Int /\ {0} \cup ends # {}
      BY <3>4, <3>8
    <3>7. Max({0} \cup ends) \in {0} \cup ends
      BY ONLY <3>6, HasMax
    <3> QED BY <3>6, <3>7 DEF Cursor, ends
  <2>3. start \in Int /\ unit.from <= start
    BY <2>1, <2>2 DEF Larger
  <2>4. Right(placed)
    BY DEF InsertInv
  <2> HIDE DEF clip, unit, start
  <2> QED BY <1>1, <1>2, <1>5, <2>1, <2>3, <2>4, TryingKeeps
<1> HIDE DEF clip, unit, start
<1> QED BY <1>3, <1>4, <1>5

LEMMA FillKeeps ==
    ASSUME InsertInv, FillGap
    PROVE  Right(placed') /\ tried' \in 0..Len(clips) /\ gaps' \subseteq DOMAIN spoken.units
<1> DEFINE left == {k \in DOMAIN clips : k > tried /\ clips[k].beat = 0 /\ ~Used(clips[k])}
           gap == Min(gaps)
           unit == spoken.units[gap]
           first == Min(left)
           clip == clips[first]
<1>1. /\ clips \in Seq(UNION Footage) /\ tried \in 0..Len(clips) /\ Right(placed)
      /\ gaps \subseteq DOMAIN spoken.units /\ gaps # {}
      /\ IsFiniteSet(spoken.cuts) /\ spoken.cuts \subseteq Nat /\ spoken.units \in Seq(Sentence)
  BY ScriptSound DEF InsertInv, FillGap
<1>2. CASE left = {}
  BY <1>1, <1>2 DEF FillGap
<1>3. CASE left # {}
  <2>1. /\ gaps' = gaps \ {gap} /\ tried' = first
        /\ placed' \in Trying(placed, clip, unit, unit.from)
    BY <1>3 DEF FillGap
  <2>2. left \in SUBSET (1..Len(clips)) /\ Len(clips) \in Nat
    BY <1>1
  <2> HIDE DEF left
  <2>3. IsFiniteSet(left) /\ left \subseteq Int
    <3>1. IsFiniteSet(1..Len(clips))
      BY <2>2, FS_Interval
    <3>2. IsFiniteSet(left)
      BY <2>2, <3>1, FS_Subset
    <3> QED BY <2>2, <3>2
  <2>4. first \in 1..Len(clips)
    BY <1>3, <2>2, <2>3, HasMin
  <2> HIDE DEF first
  <2>5. clip \in UNION Footage /\ clip.from \in Nat /\ clip.to \in Nat
    <3>1. clip \in UNION Footage
      BY <1>1, <2>4
    <3> QED BY <3>1, ScriptSound DEF InsertInv
  <2>6. gap \in gaps
    <3>1. gaps \in SUBSET (1..Len(spoken.units)) /\ Len(spoken.units) \in Nat
      BY <1>1
    <3>2. IsFiniteSet(1..Len(spoken.units))
      BY <3>1, FS_Interval
    <3>3. IsFiniteSet(gaps)
      BY <3>1, <3>2, FS_Subset
    <3>4. gaps \subseteq Int
      BY <3>1
    <3> QED BY <1>1, <3>3, <3>4, HasMin
  <2> HIDE DEF gap
  <2>7. unit \in Sentence /\ unit.from \in Int /\ unit.from <= unit.from
    <3>1. unit \in Sentence
      BY <1>1, <2>6
    <3> HIDE DEF unit
    <3> QED BY <3>1 DEF Sentence
  <2> HIDE DEF clip, unit
  <2>8. Right(placed')
    BY <1>1, <2>1, <2>5, <2>7, TryingKeeps
  <2>9. tried' \in 0..Len(clips) /\ gaps' \subseteq DOMAIN spoken.units
    BY <1>1, <2>1, <2>4
  <2> QED BY <2>8, <2>9
<1> QED BY <1>2, <1>3

(* Aligning once more at the end changes nothing.                          *)
LEMMA FinishStays ==
    ASSUME InsertInv, FinishInserts
    PROVE  placed' = placed
<1>1. Right(placed)
  BY DEF InsertInv
<1>2. CASE placed = <<>>
  <2>1. Align(spoken.cuts, placed) = <<>>
    BY <1>2 DEF Align
  <2> QED BY <1>2, <2>1 DEF FinishInserts
<1>3. CASE Align(spoken.cuts, placed) = placed /\ ~Flash(placed)
  BY <1>3 DEF FinishInserts
<1> QED BY <1>1, <1>2, <1>3 DEF Right

LEMMA InsertKeeps == InsertInv /\ [InsertNext]_insertVars => InsertInv'
<1> SUFFICES ASSUME InsertInv, [InsertNext]_insertVars PROVE InsertInv'
  OBVIOUS
<1>1. /\ spoken \in Scripts /\ clips \in Seq(UNION Footage) /\ tried \in 0..Len(clips)
      /\ gaps \subseteq DOMAIN spoken.units /\ Right(placed)
  BY DEF InsertInv
<1>2. UNCHANGED <<spoken, clips>>
  BY DEF InsertNext, insertVars, MatchClip, SpreadFillers, FillGap, FinishInserts
<1>3. Right(placed') /\ tried' \in 0..Len(clips) /\ gaps' \subseteq DOMAIN spoken.units
  <2>1. CASE MatchClip
    <3>1. tried' = tried + 1 /\ tried < Len(clips) /\ gaps' = gaps
      BY <2>1 DEF MatchClip
    <3> QED BY <1>1, <2>1, <3>1, MatchKeeps
  <2>2. CASE SpreadFillers
    <3>1. placed' = placed /\ tried' = 0 /\ Len(clips) \in Nat /\ gaps' \subseteq DOMAIN spoken.units
      BY <1>1, <2>2 DEF SpreadFillers
    <3> QED BY <1>1, <3>1
  <2>3. CASE FillGap
    BY <2>3, FillKeeps
  <2>4. CASE FinishInserts
    BY <1>1, <2>4, FinishStays DEF FinishInserts
  <2>5. CASE UNCHANGED insertVars
    BY <1>1, <2>5 DEF insertVars
  <2> QED BY <2>1, <2>2, <2>3, <2>4, <2>5 DEF InsertNext
<1>4. Right(placed)'
  BY <1>2, <1>3, RightNext
<1> QED BY <1>1, <1>2, <1>3, <1>4 DEF InsertInv

LEMMA InsertAlways == InsertSpec => []InsertInv
<1> QED BY InsertStarts, InsertKeeps, PTL DEF InsertSpec

(* However often an insert was moved and aligned, it shows nothing but its *)
(* clip for as long as its footage and pads last, near its sentence        *)
(* (align_insertions_to_portrait_cuts).                                    *)
THEOREM InsertsAlwaysFit == InsertSpec => []InsertsFit
<1>1. InsertInv => InsertsFit
  <2> SUFFICES ASSUME InsertInv, NEW k \in DOMAIN placed
               PROVE  LET i == placed[k]
                          shown == Past(i) - First(i) - i.padStart - i.padEnd
                      IN  /\ i.clip.from <= i.source.from /\ i.source.to <= i.clip.to
                          /\ shown - (Frame(i.source.to) - Frame(i.source.from)) \in -1..1
                          /\ i.padStart \in 0..MaxPad /\ i.padEnd \in 0..MaxPad
                          /\ First(i) >= First(i.unit) - MaxPad /\ Past(i) <= Past(i.unit) + MaxPad
    BY DEF InsertsFit
  <2> DEFINE i == placed[k]
  <2>1. i \in Insert /\ FitsIn(spoken.cuts, i)
    BY DEF InsertInv, Right
  <2>2. /\ First(i) \in Int /\ Past(i) \in Int /\ i.padStart \in Int /\ i.padEnd \in Int
        /\ First(i.unit) \in Int /\ Past(i.unit) \in Int
    BY <2>1, InsertInts
  <2> HIDE DEF i
  <2>3. First(i) >= First(i.unit) - MaxPad /\ Past(i) <= Past(i.unit) + MaxPad
    BY <2>1, <2>2 DEF FitsIn, MaxPad
  <2>4. Past(i) - First(i) - i.padStart - i.padEnd = ShownLength(i)
    BY DEF ShownLength
  <2> QED BY <2>1, <2>3, <2>4 DEF FitsIn, i
<1> QED BY <1>1, InsertAlways, PTL

(* Aligning everything again at the end finds nothing to move and no flash *)
(* of the portrait: no run loses its B-roll there (plan_insertions).       *)
THEOREM AcceptedAlwaysStays == InsertSpec => AcceptedStays
<1>1. InsertInv /\ [InsertNext]_insertVars => [pass' = "planned" => placed' = placed]_insertVars
  <2> SUFFICES ASSUME InsertInv, InsertNext, pass' = "planned" PROVE placed' = placed
    OBVIOUS
  <2>1. CASE MatchClip
    BY <2>1 DEF MatchClip
  <2>2. CASE SpreadFillers
    BY <2>2 DEF SpreadFillers
  <2>3. CASE FillGap
    BY <2>3 DEF FillGap
  <2>4. CASE FinishInserts
    BY <2>4, FinishStays
  <2> QED BY <2>1, <2>2, <2>3, <2>4 DEF InsertNext
<1> QED BY <1>1, InsertAlways, PTL DEF InsertSpec, AcceptedStays

-----------------------------------------------------------------------------
(* EditingAgent: the slots                                                 *)

LEMMA FrameNat == ASSUME NEW t \in Nat PROVE Frame(t) \in Nat
BY DEF Frame

(* Of two frames the later one is later in milliseconds, too.              *)
LEMMA MsMonotone ==
    ASSUME NEW f \in Nat, NEW g \in Nat, f < g
    PROVE  Ms(f) \in Nat /\ Ms(g) \in Nat /\ Ms(f) < Ms(g)
BY DEF Ms

Window == [asset : Nat, from : Nat, to : Nat]
Choice == [slot : Nat, of : Nat]

LEMMA BriefSound ==
    ASSUME brief \in Briefs
    PROVE  /\ brief.cuts \in Seq(Nat) /\ brief.units \in Seq(Sentence) /\ brief.limit \in Nat
           /\ Len(brief.cuts) > 1 /\ brief.cuts[1] = 0
           /\ \A j, k \in DOMAIN brief.cuts : j < k => Frame(brief.cuts[j]) < Frame(brief.cuts[k])
           /\ brief.units # <<>>
           /\ brief.cuts[Len(brief.cuts)] = Max({brief.units[k].to : k \in DOMAIN brief.units})
           /\ \A j, k \in DOMAIN brief.units : j < k => brief.units[j].to <= brief.units[k].from
BY AgentConstants DEF Sentence

LEMMA PoolSound ==
    ASSUME pool \in Pools
    PROVE  /\ pool.portrait \in Seq(Window) /\ pool.broll \in Seq(Window)
           /\ \A k \in DOMAIN pool.broll : pool.broll[k].from < pool.broll[k].to
BY AgentConstants DEF Window

(* The slots of the portrait lie end to end.                               *)
LEMMA PortraitSlotsSound ==
    ASSUME brief \in Briefs
    PROVE  /\ Len(PortraitSlots) \in Nat /\ Len(PortraitSlots) >= 1
           /\ Len(PortraitSlots) = Len(brief.cuts) - 1
           /\ DOMAIN PortraitSlots = 1..Len(PortraitSlots)
           /\ \A k \in DOMAIN PortraitSlots :
                 /\ PortraitSlots[k].from \in Nat /\ PortraitSlots[k].to \in Nat
                 /\ PortraitSlots[k].from < PortraitSlots[k].to /\ PortraitSlots[k].to <= LastFrame
           /\ \A k \in 1..(Len(PortraitSlots) - 1) : PortraitSlots[k].to = PortraitSlots[k + 1].from
           /\ \A j, k \in DOMAIN PortraitSlots : j < k => PortraitSlots[j].to <= PortraitSlots[k].from
           /\ PortraitSlots[1].from = 0 /\ PortraitSlots[Len(PortraitSlots)].to = LastFrame
           /\ LastFrame \in Nat
<1> DEFINE c == brief.cuts
           n == Len(c) - 1
           slots == PortraitSlots
<1>1. /\ c \in Seq(Nat) /\ Len(c) > 1 /\ c[1] = 0
      /\ \A j, k \in DOMAIN c : j < k => Frame(c[j]) < Frame(c[k])
      /\ LastFrame = Frame(c[Len(c)])
  BY BriefSound DEF LastFrame
<1>2. n \in Nat /\ n >= 1 /\ DOMAIN c = 1..(n + 1) /\ \A k \in 1..(n + 1) : c[k] \in Nat
  BY <1>1
<1>3. slots = [k \in 1..n |-> Interval(c[k], c[k + 1])]
  BY DEF PortraitSlots
<1>4. Len(slots) = n /\ DOMAIN slots = 1..n
  BY <1>2, <1>3
<1>5. Len(c) = n + 1
  BY <1>1
<1> HIDE DEF c, n, slots
<1>6. \A k \in 1..n : slots[k].from = Frame(c[k]) /\ slots[k].to = Frame(c[k + 1])
  BY <1>3 DEF Interval
<1>7. \A k \in 1..(n + 1) : Frame(c[k]) \in Nat
  BY <1>2, FrameNat
<1>8. \A j, k \in 1..(n + 1) : j <= k => Frame(c[j]) <= Frame(c[k])
  <2> SUFFICES ASSUME NEW j \in 1..(n + 1), NEW k \in 1..(n + 1), j <= k
               PROVE  Frame(c[j]) <= Frame(c[k])
    OBVIOUS
  <2>1. j < k \/ j = k
    BY <1>2
  <2>2. Frame(c[j]) \in Nat /\ Frame(c[k]) \in Nat
    BY <1>7
  <2>3. j < k => Frame(c[j]) < Frame(c[k])
    BY <1>1, <1>2
  <2> QED BY <2>1, <2>2, <2>3
<1>9. Frame(0) = 0
  BY DEF Frame
<1>10. ASSUME NEW k \in 1..n
       PROVE  /\ slots[k].from \in Nat /\ slots[k].to \in Nat
              /\ slots[k].from < slots[k].to /\ slots[k].to <= LastFrame
  <2>1. k \in 1..(n + 1) /\ k + 1 \in 1..(n + 1) /\ n + 1 \in 1..(n + 1) /\ k < k + 1 /\ k + 1 <= n + 1
    BY <1>2
  <2>2. Frame(c[k]) < Frame(c[k + 1])
    BY <1>1, <1>2, <2>1
  <2>3. Frame(c[k + 1]) <= Frame(c[n + 1])
    BY <1>8, <2>1
  <2> QED BY <1>1, <1>5, <1>6, <1>7, <2>1, <2>2, <2>3
<1>11. \A k \in 1..(n - 1) : slots[k].to = slots[k + 1].from
  BY <1>2, <1>6
<1>12. ASSUME NEW j \in 1..n, NEW k \in 1..n, j < k PROVE slots[j].to <= slots[k].from
  <2>1. j + 1 \in 1..(n + 1) /\ k \in 1..(n + 1) /\ j + 1 <= k
    BY <1>2, <1>12
  <2> QED BY <1>6, <1>8, <2>1
<1>13. slots[1].from = 0 /\ slots[n].to = LastFrame /\ LastFrame \in Nat
  BY <1>1, <1>2, <1>5, <1>6, <1>7, <1>9
<1>14. n = Len(brief.cuts) - 1
  BY DEF n, c
<1>15. slots = PortraitSlots
  BY DEF slots
<1> QED BY ONLY <1>2, <1>4, <1>10, <1>11, <1>12, <1>13, <1>14, <1>15

(* Those of the B-roll lie in the order of the sentences, with gaps.       *)
LEMMA BrollSlotsSound ==
    ASSUME brief \in Briefs
    PROVE  /\ Len(BrollSlots) \in Nat /\ DOMAIN BrollSlots = 1..Len(BrollSlots)
           /\ \A k \in DOMAIN BrollSlots :
                 /\ BrollSlots[k].from \in Nat /\ BrollSlots[k].to \in Nat
                 /\ BrollSlots[k].from < BrollSlots[k].to /\ BrollSlots[k].to <= LastFrame
           /\ \A j, k \in DOMAIN BrollSlots : j < k => BrollSlots[j].to <= BrollSlots[k].from
<1> DEFINE u == brief.units
           f == SpokenFrames
           S == {k \in DOMAIN f : FramesIn(f[k]) >= 1}
           kept == Rising(S)
           n == Cardinality(S)
           slots == BrollSlots
<1>1. /\ u \in Seq(Sentence)
      /\ \A j, k \in DOMAIN u : j < k => u[j].to <= u[k].from
  BY BriefSound
<1>2. DOMAIN u = 1..Len(u) /\ Len(u) \in Nat /\ \A k \in DOMAIN u : u[k].from \in Nat /\ u[k].to \in Nat
  <2>1. u \in Seq(Sentence)
    BY <1>1
  <2> HIDE DEF u
  <2>2. DOMAIN u = 1..Len(u) /\ Len(u) \in Nat /\ \A k \in DOMAIN u : u[k] \in Sentence
    BY ONLY <2>1
  <2>3. \A x \in Sentence : x.from \in Nat /\ x.to \in Nat
    BY DEF Sentence
  <2> QED BY ONLY <2>2, <2>3
<1>3. LastFrame \in Nat
  BY PortraitSlotsSound
<1>4. /\ DOMAIN f = DOMAIN u
      /\ \A k \in DOMAIN u : f[k].from = Frame(u[k].from) /\ f[k].to = Smaller(Frame(u[k].to), LastFrame)
  BY DEF SpokenFrames
<1>5. \A k \in DOMAIN u : Frame(u[k].from) \in Nat /\ Frame(u[k].to) \in Nat
  BY <1>2, FrameNat
<1>6. \A k \in DOMAIN u : /\ f[k].from \in Nat /\ f[k].to \in Nat
                          /\ f[k].to <= LastFrame /\ f[k].to <= Frame(u[k].to)
  BY <1>3, <1>4, <1>5 DEF Smaller
<1>7. S \in SUBSET (1..Len(u)) /\ S \subseteq Int
  <2>1. DOMAIN f = 1..Len(u) /\ Len(u) \in Nat
    BY <1>2, <1>4
  <2> HIDE DEF f, u
  <2> QED BY <2>1
<1>8. slots = [k \in DOMAIN kept |-> f[kept[k]]]
  BY DEF BrollSlots
<1>9. \A k \in S : k \in DOMAIN u /\ f[k].from < f[k].to
  BY <1>4, <1>6 DEF FramesIn
<1> HIDE DEF u, f, S
<1>10. IsFiniteSet(S)
  <2>1. IsFiniteSet(1..Len(u))
    BY <1>2, FS_Interval
  <2> QED BY ONLY <2>1, <1>7, FS_Subset
<1>11. /\ DOMAIN kept = 1..n /\ n \in Nat
       /\ \A k \in 1..n : kept[k] \in S
       /\ \A j, k \in 1..n : j < k => kept[j] < kept[k]
  BY <1>7, <1>10, RisingIs
<1> HIDE DEF kept, n, slots
<1>12. DOMAIN slots = 1..n /\ Len(slots) = n /\ \A k \in 1..n : slots[k] = f[kept[k]]
  BY <1>8, <1>11
<1>13. ASSUME NEW k \in 1..n
       PROVE  /\ slots[k].from \in Nat /\ slots[k].to \in Nat
              /\ slots[k].from < slots[k].to /\ slots[k].to <= LastFrame
  BY <1>6, <1>9, <1>11, <1>12
<1>14. ASSUME NEW j \in 1..n, NEW k \in 1..n, j < k PROVE slots[j].to <= slots[k].from
  <2> DEFINE a == kept[j]
             b == kept[k]
  <2>1. a \in DOMAIN u /\ b \in DOMAIN u /\ a < b
    BY <1>9, <1>11, <1>14
  <2>2. slots[j] = f[a] /\ slots[k] = f[b]
    BY <1>12
  <2> HIDE DEF a, b
  <2>3. u[a].to <= u[b].from /\ u[a].to \in Nat /\ u[b].from \in Nat
    BY <1>1, <1>2, <2>1
  <2>4. Frame(u[a].to) <= Frame(u[b].from)
    BY <2>3, FrameMonotone
  <2>5. f[a].to \in Nat /\ f[a].to <= Frame(u[a].to) /\ f[b].from = Frame(u[b].from)
    BY <1>4, <1>6, <2>1
  <2>6. Frame(u[a].to) \in Nat /\ Frame(u[b].from) \in Nat
    BY <1>5, <2>1
  <2> QED BY ONLY <2>2, <2>4, <2>5, <2>6
<1>15. slots = BrollSlots
  BY DEF slots
<1> QED BY ONLY <1>11, <1>12, <1>13, <1>14, <1>15

-----------------------------------------------------------------------------
(* The portrait                                                            *)

(* A selection gives each slot of the portrait one window, and each slot of*)
(* the B-roll one clip at most.                                            *)
Fills(picks, slots, candidates) ==
    picks \in Seq(Choice) /\ KnownPicks(picks, slots, candidates) /\ OncePerSlot(picks)

Selection(c) ==
    /\ Fills(c.portrait, PortraitSlots, pool.portrait) /\ Len(c.portrait) = Len(PortraitSlots)
    /\ Fills(c.broll, BrollSlots, pool.broll)

LEMMA FilledIs ==
    ASSUME brief \in Briefs, Selection(choice)
    PROVE  /\ DOMAIN Filled = DOMAIN PortraitSlots
           /\ \A k \in DOMAIN PortraitSlots :
                 Filled[k] = k /\ \E i \in DOMAIN choice.portrait : choice.portrait[i].slot = k
<1> DEFINE p == choice.portrait
           n == Len(PortraitSlots)
           slotOf == [k \in 1..n |-> p[k].slot]
           S == {p[k].slot : k \in DOMAIN p}
<1>1. n \in Nat /\ DOMAIN PortraitSlots = 1..n
  BY PortraitSlotsSound
<1>2. p \in Seq(Choice) /\ Len(p) = n
  BY DEF Selection, Fills
<1>3. /\ \A k \in DOMAIN p : p[k].slot \in DOMAIN PortraitSlots
      /\ \A j, k \in DOMAIN p : p[j].slot = p[k].slot => j = k
  BY DEF Selection, Fills, KnownPicks, OncePerSlot
<1>4. Filled = Rising(S)
  BY DEF Filled
<1> HIDE DEF p, n
<1>5. DOMAIN p = 1..n
  BY <1>1, <1>2
<1>6. IsFiniteSet(1..n) /\ Cardinality(1..n) = n
  BY <1>1, FS_Interval
<1>7. slotOf \in Injection(1..n, 1..n)
  <2>1. slotOf \in [1..n -> 1..n]
    BY <1>1, <1>3, <1>5
  <2>2. \A j, k \in 1..n : slotOf[j] = slotOf[k] => j = k
    BY <1>3, <1>5
  <2> HIDE DEF slotOf
  <2> QED BY <2>1, <2>2 DEF Injection, IsInjective
<1>8. slotOf \in Surjection(1..n, 1..n)
  <2> HIDE DEF slotOf
  <2> QED BY <1>6, <1>7, FS_Injection
<1>9. \A i \in 1..n : \E k \in 1..n : slotOf[k] = i
  <2> HIDE DEF slotOf
  <2> QED BY <1>8 DEF Surjection
<1>10. S = 1..n
  <2>1. \A k \in 1..n : p[k].slot \in 1..n
    BY ONLY <1>1, <1>3, <1>5
  <2>2. \A i \in 1..n : \E k \in 1..n : p[k].slot = i
    BY <1>9
  <2>3. S = {p[k].slot : k \in 1..n}
    BY <1>5
  <2> QED BY ONLY <2>1, <2>2, <2>3
<1> HIDE DEF S, slotOf
<1>11. S \subseteq Int
  BY <1>1, <1>10
<1>12. /\ DOMAIN Rising(S) = 1..n
       /\ \A k \in 1..n : Rising(S)[k] \in 1..n /\ Cardinality({y \in S : y <= Rising(S)[k]}) = k
  <2>1. IsFiniteSet(S) /\ Cardinality(S) = n
    BY <1>6, <1>10
  <2>2. /\ DOMAIN Rising(S) = 1..n
        /\ \A k \in 1..n : Rising(S)[k] \in S /\ Cardinality({y \in S : y <= Rising(S)[k]}) = k
    BY <2>1, <1>11, RisingIs
  <2> QED BY <2>2, <1>10
<1>13. ASSUME NEW k \in 1..n PROVE Rising(S)[k] = k
  <2> DEFINE r == Rising(S)[k]
  <2>1. r \in 1..n /\ Cardinality({y \in S : y <= r}) = k
    BY <1>12
  <2> HIDE DEF r
  <2>2. {y \in S : y <= r} = 1..r
    BY <1>1, <1>10, <2>1
  <2>3. r \in Int /\ ~(1 > r) /\ r - 1 + 1 = r
    BY <1>1, <2>1
  <2>4. Cardinality(1..r) = r
    BY <2>3, FS_Interval
  <2>5. r = k
    BY <2>1, <2>2, <2>4
  <2> QED BY <2>5 DEF r
<1>14. \A k \in 1..n : \E i \in DOMAIN p : p[i].slot = k
  BY <1>5, <1>9 DEF slotOf
<1>15. p = choice.portrait
  BY DEF p
<1> QED BY ONLY <1>1, <1>4, <1>12, <1>13, <1>14, <1>15

(* What is planned for a slot, and of which window.                        *)
LEMMA PortraitPlanSound ==
    ASSUME brief \in Briefs, Selection(choice)
    PROVE  /\ DOMAIN PortraitPlan = DOMAIN PortraitSlots /\ Len(PortraitPlan) = Len(PortraitSlots)
           /\ \A k \in DOMAIN PortraitSlots :
                 /\ PortraitPlan[k].from = PortraitSlots[k].from
                 /\ PortraitPlan[k].to = PortraitSlots[k].to
                 /\ PortraitPlan[k].source = Slice(PortraitPlan[k].window, FramesIn(PortraitSlots[k]))
                 /\ \E i \in DOMAIN choice.portrait :
                       /\ choice.portrait[i].slot = k
                       /\ PortraitPlan[k].window = pool.portrait[choice.portrait[i].of]
<1>1. DOMAIN Filled = DOMAIN PortraitSlots /\ \A k \in DOMAIN PortraitSlots : Filled[k] = k
  BY FilledIs
<1>2. DOMAIN PortraitSlots = 1..Len(PortraitSlots) /\ Len(PortraitSlots) \in Nat
  BY PortraitSlotsSound
<1>3. /\ DOMAIN PortraitPlan = DOMAIN PortraitSlots
      /\ \A k \in DOMAIN PortraitSlots :
            /\ PortraitPlan[k].from = PortraitSlots[k].from
            /\ PortraitPlan[k].to = PortraitSlots[k].to
            /\ PortraitPlan[k].window = WindowOf(k)
            /\ PortraitPlan[k].source = Slice(WindowOf(k), FramesIn(PortraitSlots[k]))
  BY <1>1 DEF PortraitPlan
<1>4. Len(PortraitPlan) = Len(PortraitSlots)
  <2>1. PortraitPlan = [k \in DOMAIN PortraitSlots |-> PortraitPlan[k]]
    BY <1>3 DEF PortraitPlan
  <2>2. DOMAIN PortraitPlan = 1..Len(PortraitSlots)
    BY <1>2, <1>3
  <2> QED BY ONLY <1>2, <2>2
<1>5. ASSUME NEW k \in DOMAIN PortraitSlots
      PROVE  \E i \in DOMAIN choice.portrait :
                /\ choice.portrait[i].slot = k
                /\ WindowOf(k) = pool.portrait[choice.portrait[i].of]
  <2> DEFINE p == choice.portrait
             S == {i \in DOMAIN p : p[i].slot = k}
  <2>1. WindowOf(k) = pool.portrait[p[Max(S)].of]
    BY DEF WindowOf
  <2>2. p \in Seq(Choice)
    BY DEF Selection, Fills
  <2>3. \A i \in S : i \in DOMAIN p /\ p[i].slot = k
    OBVIOUS
  <2>4. S \in SUBSET DOMAIN p
    OBVIOUS
  <2>5. S # {}
    BY FilledIs
  <2> HIDE DEF S, p
  <2>6. DOMAIN p = 1..Len(p) /\ Len(p) \in Nat
    BY <2>2
  <2>7. IsFiniteSet(1..Len(p))
    BY <2>6, FS_Interval
  <2>8. IsFiniteSet(S)
    BY ONLY <2>4, <2>6, <2>7, FS_Subset
  <2>9. S \subseteq Int
    BY <2>4, <2>6
  <2>10. Max(S) \in S
    BY ONLY <2>5, <2>8, <2>9, HasMax
  <2>11. Max(S) \in DOMAIN p /\ p[Max(S)].slot = k
    BY <2>3, <2>10
  <2> QED BY <2>1, <2>11 DEF p
<1> QED BY ONLY <1>3, <1>4, <1>5

-----------------------------------------------------------------------------
(* Cuts and overlays                                                       *)

LEMMA SliceFits ==
    ASSUME NEW w \in Window, NEW frames \in Nat, frames > 0, Available(w) >= frames
    PROVE  FramesIn(Slice(w, frames)) = frames /\ Slice(w, frames).to <= Frame(w.to)
<1>1. w.from \in Nat /\ w.to \in Nat
  BY DEF Window
<1>2. Frame(w.from) \in Nat /\ Frame(w.to) \in Nat
  BY <1>1, FrameNat
<1>3. Frame(w.from) + frames <= Frame(w.to)
  BY <1>2 DEF Available, Larger
<1>4. Larger(0, Frame(w.from) + frames - Frame(w.to)) = 0
  BY <1>2, <1>3 DEF Larger
<1>5. Slice(w, frames) = [from |-> Frame(w.from), to |-> Frame(w.from) + frames]
  BY <1>4 DEF Slice
<1> QED BY <1>2, <1>3, <1>5 DEF FramesIn

(* The portrait is shown from the first frame to the last, and its cuts    *)
(* lie between them.                                                       *)
LEMMA PortraitCovers ==
    ASSUME brief \in Briefs, Selection(choice)
    PROVE  /\ PortraitPlan # <<>> /\ LastFrame \in Nat /\ LastFrame > 0
           /\ PortraitPlan[1].from = 0 /\ Last(PortraitPlan).to = LastFrame
           /\ \A k \in 1..(Len(PortraitPlan) - 1) : PortraitPlan[k].to = PortraitPlan[k + 1].from
           /\ ValidTrack(PortraitPlan, LastFrame)
           /\ PortraitCuts # {} /\ IsFiniteSet(PortraitCuts) /\ PortraitCuts \subseteq 0..LastFrame
<1> DEFINE n == Len(PortraitSlots)
           slots == PortraitSlots
           plan == PortraitPlan
<1>1. /\ n \in Nat /\ n >= 1 /\ DOMAIN slots = 1..n
      /\ \A k \in DOMAIN slots :
            /\ slots[k].from \in Nat /\ slots[k].to \in Nat
            /\ slots[k].from < slots[k].to /\ slots[k].to <= LastFrame
      /\ \A k \in 1..(n - 1) : slots[k].to = slots[k + 1].from
      /\ \A j, k \in DOMAIN slots : j < k => slots[j].to <= slots[k].from
      /\ slots[1].from = 0 /\ slots[n].to = LastFrame
      /\ LastFrame \in Nat
  BY PortraitSlotsSound
<1>2. /\ DOMAIN plan = DOMAIN slots /\ Len(plan) = n
      /\ \A k \in DOMAIN slots : plan[k].from = slots[k].from /\ plan[k].to = slots[k].to
  BY PortraitPlanSound
<1>3. PortraitCuts = UNION {{plan[k].from, plan[k].to} : k \in DOMAIN plan}
  BY DEF PortraitCuts
<1>4. Last(plan) = plan[n]
  BY <1>2 DEF Last
<1> HIDE DEF n, slots, plan
<1>5. 1 \in 1..n /\ n \in 1..n /\ plan # <<>>
  BY <1>1, <1>2
<1>6. plan[1].from = 0 /\ Last(plan).to = LastFrame
  BY <1>1, <1>2, <1>4, <1>5
<1>7. LastFrame > 0
  <2>1. slots[1].from < slots[1].to /\ slots[1].to <= LastFrame /\ slots[1].to \in Nat
    BY <1>1, <1>5
  <2> QED BY <1>1, <2>1
<1>8. \A k \in 1..(n - 1) : plan[k].to = plan[k + 1].from
  <2> SUFFICES ASSUME NEW k \in 1..(n - 1) PROVE plan[k].to = plan[k + 1].from
    OBVIOUS
  <2>1. k \in 1..n /\ k + 1 \in 1..n
    BY <1>1
  <2> QED BY <1>1, <1>2, <2>1
<1>9. ValidTrack(plan, LastFrame)
  BY <1>1, <1>2 DEF ValidTrack, InBounds, Disjoint
<1>10. \A x : x \in PortraitCuts <=> \E k \in 1..n : x = slots[k].from \/ x = slots[k].to
  <2>0. DOMAIN plan = 1..n
    BY <1>1, <1>2
  <2>1. \A x : x \in PortraitCuts <=> \E k \in 1..n : x \in {plan[k].from, plan[k].to}
    BY <1>3, <2>0
  <2>2. \A x : \A k \in 1..n : x \in {plan[k].from, plan[k].to} <=> x = slots[k].from \/ x = slots[k].to
    BY <1>1, <1>2
  <2> QED BY ONLY <2>1, <2>2
<1>11. PortraitCuts \subseteq 0..LastFrame /\ PortraitCuts # {}
  <2>1. ASSUME NEW k \in 1..n PROVE slots[k].from \in 0..LastFrame /\ slots[k].to \in 0..LastFrame
    <3>1. /\ slots[k].from \in Nat /\ slots[k].to \in Nat /\ LastFrame \in Nat
          /\ slots[k].from < slots[k].to /\ slots[k].to <= LastFrame
      BY <1>1
    <3> QED BY <3>1
  <2>2. slots[1].from \in PortraitCuts
    BY <1>5, <1>10
  <2> QED BY <2>1, <2>2, <1>10
<1>12. IsFiniteSet(PortraitCuts)
  <2>1. IsFiniteSet(0..LastFrame)
    BY <1>1, FS_Interval
  <2>2. PortraitCuts \in SUBSET (0..LastFrame)
    BY <1>11
  <2> QED BY ONLY <2>1, <2>2, FS_Subset
<1>13. plan = PortraitPlan
  BY DEF plan
<1> QED BY ONLY <1>1, <1>2, <1>5, <1>6, <1>7, <1>8, <1>9, <1>11, <1>12, <1>13

-----------------------------------------------------------------------------
(* What lies over the portrait.                                            *)
Overlaid ==
    [clip : Window, from : Int, to : Int, source : [from : Int, to : Int], padStart : Int, padEnd : Int]

(* An overlay shows its clip, in the time of the narration.                *)
Lies(i) ==
    /\ i.clip.from <= i.source.from /\ i.source.to <= i.clip.to
    /\ 0 <= First(i) /\ First(i) < Past(i) /\ Past(i) <= LastFrame

LEMMA OverlaidInts ==
    ASSUME NEW i \in Overlaid
    PROVE  First(i) \in Int /\ Past(i) \in Int /\ i.padStart \in Int /\ i.padEnd \in Int
BY DEF Overlaid, First, Past, Frame

LEMMA OverlaidChanged ==
    ASSUME NEW i \in Overlaid, NEW a, NEW z, NEW p, NEW q
    PROVE  /\ Changed(i, a, z, p, q).from = a /\ Changed(i, a, z, p, q).to = z
           /\ Changed(i, a, z, p, q).padStart = p /\ Changed(i, a, z, p, q).padEnd = q
           /\ Changed(i, a, z, p, q).clip = i.clip /\ Changed(i, a, z, p, q).source = i.source
BY DEF Overlaid, Changed

LEMMA OverlaidOnGrid ==
    ASSUME NEW i \in Overlaid
    PROVE  /\ First(OnGrid(i)) = First(i) /\ Past(OnGrid(i)) = Past(i)
           /\ OnGrid(i).padStart = i.padStart /\ OnGrid(i).padEnd = i.padEnd
           /\ OnGrid(i).clip = i.clip /\ OnGrid(i).source = i.source
<1> DEFINE a == First(i)
           z == Past(i)
           s == OnGrid(i)
<1>1. a \in Int /\ z \in Int
  BY OverlaidInts
<1>2. s = Changed(i, Ms(a), Ms(z), i.padStart, i.padEnd)
  BY DEF Overlaid, OnGrid, Changed
<1> HIDE DEF s, a, z
<1>3. Frame(Ms(a)) = a /\ Frame(Ms(z)) = z
  BY <1>1, FrameOfMs
<1>4. /\ s.from = Ms(a) /\ s.to = Ms(z) /\ s.padStart = i.padStart /\ s.padEnd = i.padEnd
      /\ s.clip = i.clip /\ s.source = i.source
  BY <1>2, OverlaidChanged
<1>5. First(s) = a /\ Past(s) = z
  BY <1>3, <1>4 DEF First, Past
<1> QED BY <1>4, <1>5 DEF s, a, z

LEMMA OverlaidSnapped ==
    ASSUME NEW cuts, IsFiniteSet(cuts), cuts \subseteq Nat, NEW i \in Overlaid
    PROVE  /\ First(Snapped(cuts, i)) = Back(cuts, First(i)) /\ Past(Snapped(cuts, i)) = On(cuts, Past(i))
           /\ Snapped(cuts, i).padStart = i.padStart + First(i) - Back(cuts, First(i))
           /\ Snapped(cuts, i).padEnd = i.padEnd + On(cuts, Past(i)) - Past(i)
           /\ Snapped(cuts, i).clip = i.clip /\ Snapped(cuts, i).source = i.source
<1> DEFINE a == Back(cuts, First(i))
           z == On(cuts, Past(i))
           p == i.padStart + First(i) - a
           q == i.padEnd + z - Past(i)
           s == Snapped(cuts, i)
<1>1. First(i) \in Int /\ Past(i) \in Int
  BY OverlaidInts
<1>2. a \in Int /\ z \in Int
  BY <1>1, BackMoves, OnMoves
<1>3. Frame(Ms(a)) = a /\ Frame(Ms(z)) = z
  BY <1>2, FrameOfMs
<1>4. s = Changed(i, Ms(a), Ms(z), p, q)
  BY DEF Snapped, Changed
<1> HIDE DEF s, a, z, p, q
<1>5. /\ s.from = Ms(a) /\ s.to = Ms(z) /\ s.padStart = p /\ s.padEnd = q
      /\ s.clip = i.clip /\ s.source = i.source
  BY <1>4, OverlaidChanged
<1>6. First(s) = a /\ Past(s) = z
  BY <1>3, <1>5 DEF First, Past
<1> QED BY <1>5, <1>6 DEF s, a, z, p, q

(* Two boundaries that move towards each other do not pass each other: the *)
(* cuts they move to lie between them.                                     *)
LEMMA NoCrossing ==
    ASSUME NEW cuts, IsFiniteSet(cuts), cuts \subseteq Nat, NEW p \in Int, NEW f \in Int,
           On(cuts, p) <= f, p <= Back(cuts, f)
    PROVE  On(cuts, p) <= Back(cuts, f)
<1> DEFINE on == On(cuts, p)
           back == Back(cuts, f)
           after == {cut \in cuts : p < cut /\ cut <= p + MaxPad}
<1>1. /\ on \in Int /\ on - p <= MaxPad /\ back \in Int
      /\ on = p \/ on \in cuts
      /\ back = f \/ back \in cuts
      /\ p \in cuts => on = p
  BY BackMoves, OnMoves
<1>2. on = p \/ on = Min(after)
  BY DEF On
<1>3. after \in SUBSET cuts
  OBVIOUS
<1>4. \A c : c \in after <=> c \in cuts /\ p < c /\ c <= p + MaxPad
  OBVIOUS
<1> HIDE DEF on, back, after
<1>5. IsFiniteSet(after) /\ after \subseteq Int
  <2>1. IsFiniteSet(after)
    BY <1>3, FS_Subset
  <2> QED BY <1>3, <2>1
<1>6. CASE on = p \/ back = f
  BY <1>6 DEF on, back
<1>7. CASE on # p /\ back # f
  <2>1. back \in cuts /\ on = Min(after) /\ p \notin cuts
    BY <1>1, <1>2, <1>7
  <2>2. p < back
    BY <1>1, <2>1 DEF back
  <2>3. CASE back <= p + MaxPad
    <3>1. back \in after
      BY <1>4, <2>1, <2>2, <2>3
    <3>2. Min(after) <= back
      BY ONLY <1>5, <3>1, HasMin
    <3> QED BY <2>1, <3>2 DEF on, back
  <2>4. CASE ~(back <= p + MaxPad)
    <3>1. on <= back
      BY ONLY <1>1, <2>4, p \in Int, MaxPad = 4 DEF MaxPad
    <3> QED BY <3>1 DEF on, back
  <2> QED BY <2>3, <2>4
<1> QED BY <1>6, <1>7

-----------------------------------------------------------------------------
(* A clip is shown in its slot, and longer than a frame unless dropped.    *)
LEMMA OverlayLies ==
    ASSUME brief \in Briefs, pool \in Pools, NEW n \in DOMAIN BrollSlots, NEW c \in DOMAIN pool.broll,
           NEW o, o = Overlay(BrollSlots[n], pool.broll[c])
    PROVE  /\ o \in Overlaid
           /\ o.from = Ms(BrollSlots[n].from)
           /\ First(o) = BrollSlots[n].from
           /\ Past(o) <= BrollSlots[n].to
           /\ o.clip.from <= o.source.from
           /\ o.source.to <= o.clip.to
           /\ o.padStart = 0 /\ o.padEnd = 0
           /\ o.to - o.from > 33 => First(o) < Past(o)
<1> DEFINE slot == BrollSlots[n]
           clip == pool.broll[c]
           room == Ms(slot.to) - Ms(slot.from)
           footage == clip.to - clip.from
           length == IF footage > 0 THEN Smaller(room, footage) ELSE room
<1>1. slot.from \in Nat /\ slot.to \in Nat /\ slot.from < slot.to
  BY BrollSlotsSound
<1>2. clip \in Window /\ clip.from < clip.to
  <2>1. pool.broll \in Seq(Window) /\ \A k \in DOMAIN pool.broll : pool.broll[k].from < pool.broll[k].to
    BY PoolSound
  <2> QED BY <2>1
<1>3. o = [clip |-> clip, from |-> Ms(slot.from), to |-> Ms(slot.from) + length,
           source |-> [from |-> clip.from, to |-> clip.from + length], padStart |-> 0, padEnd |-> 0]
  BY DEF Overlay
<1> HIDE DEF slot, clip
<1>4. clip.from \in Nat /\ clip.to \in Nat
  BY <1>2 DEF Window
<1>5. Ms(slot.from) \in Nat /\ Ms(slot.to) \in Nat /\ Ms(slot.from) < Ms(slot.to)
  BY <1>1, MsMonotone
<1>6. /\ length \in Nat /\ length > 0 /\ Ms(slot.from) + length <= Ms(slot.to)
      /\ clip.from + length <= clip.to
  BY <1>2, <1>4, <1>5 DEF Smaller
<1> HIDE DEF length
<1>7. /\ o.clip = clip /\ o.from = Ms(slot.from) /\ o.to = Ms(slot.from) + length
      /\ o.source.from = clip.from /\ o.source.to = clip.from + length
      /\ o.padStart = 0 /\ o.padEnd = 0
  BY <1>3
<1>8. o \in Overlaid
  BY <1>2, <1>3, <1>4, <1>5, <1>6 DEF Overlaid
<1>9. First(o) = slot.from
  BY <1>1, <1>7, FrameOfMs DEF First
<1>10. Past(o) <= slot.to
  <2>1. Frame(Ms(slot.from) + length) <= Frame(Ms(slot.to))
    BY <1>5, <1>6, FrameMonotone
  <2> QED BY <2>1, <1>1, <1>7, FrameOfMs DEF Past
<1>11. o.to - o.from > 33 => First(o) < Past(o)
  <2>1. \A s, t \in Nat : t - s > 33 => Frame(s) < Frame(t)
    BY DEF Frame
  <2>2. o.from \in Nat /\ o.to \in Nat
    BY <1>5, <1>6, <1>7
  <2> QED BY <2>1, <2>2 DEF First, Past
<1>12. o.clip.from <= o.source.from /\ o.source.to <= o.clip.to
  BY <1>4, <1>6, <1>7
<1> QED BY <1>7, <1>8, <1>9, <1>10, <1>11, <1>12 DEF slot

(* The overlays follow each other, and none is padded yet.                 *)
Unpadded(i) == i.padStart = 0 /\ i.padEnd = 0
Follow(inserts) == \A j, k \in DOMAIN inserts : j < k => Past(inserts[j]) <= First(inserts[k])

LEMMA OverlaysLie ==
    ASSUME brief \in Briefs, pool \in Pools, Selection(choice)
    PROVE  /\ Overlays \in Seq(Overlaid) /\ Follow(Overlays)
           /\ \A k \in DOMAIN Overlays : Lies(Overlays[k]) /\ Unpadded(Overlays[k])
<1> DEFINE picks == choice.broll
           slots == BrollSlots
           m == Smaller(brief.limit, Len(picks))
           all == [k \in 1..m |-> Overlay(slots[picks[k].slot], pool.broll[picks[k].of])]
           shown == {k \in DOMAIN all : all[k].to - all[k].from > 33}
           order == {pair \in shown \X shown :
                        \/ all[pair[1]].from < all[pair[2]].from
                        \/ all[pair[1]].from = all[pair[2]].from /\ pair[1] <= pair[2]}
           sorted == Sorted(shown, order)
           n == Cardinality(shown)
           o == Overlays
<1>1. /\ picks \in Seq(Choice)
      /\ \A k \in DOMAIN picks : picks[k].slot \in DOMAIN slots /\ picks[k].of \in DOMAIN pool.broll
      /\ \A j, k \in DOMAIN picks : picks[j].slot = picks[k].slot => j = k
  BY DEF Selection, Fills, KnownPicks, OncePerSlot
<1>2. /\ Len(slots) \in Nat /\ DOMAIN slots = 1..Len(slots)
      /\ \A k \in DOMAIN slots :
            /\ slots[k].from \in Nat /\ slots[k].to \in Nat
            /\ slots[k].from < slots[k].to /\ slots[k].to <= LastFrame
      /\ \A j, k \in DOMAIN slots : j < k => slots[j].to <= slots[k].from
  BY BrollSlotsSound
<1>3. m \in Nat /\ \A k \in 1..m : k \in DOMAIN picks
  <2>1. Len(picks) \in Nat /\ DOMAIN picks = 1..Len(picks)
    BY <1>1
  <2>2. brief.limit \in Nat
    BY BriefSound
  <2> HIDE DEF picks
  <2> QED BY <2>1, <2>2 DEF Smaller
<1>4. o = [k \in DOMAIN sorted |-> all[sorted[k]]]
  BY DEF Overlays, ShownByStart
<1> HIDE DEF m
<1>5. ASSUME NEW k \in 1..m
      PROVE  /\ all[k] \in Overlaid /\ Unpadded(all[k])
             /\ all[k].from = Ms(slots[picks[k].slot].from)
             /\ First(all[k]) = slots[picks[k].slot].from /\ Past(all[k]) <= slots[picks[k].slot].to
             /\ all[k].clip.from <= all[k].source.from /\ all[k].source.to <= all[k].clip.to
             /\ all[k].to - all[k].from > 33 => First(all[k]) < Past(all[k])
             /\ picks[k].slot \in DOMAIN slots
  <2>1. picks[k].slot \in DOMAIN slots /\ picks[k].of \in DOMAIN pool.broll
    BY <1>1, <1>3
  <2>2. all[k] = Overlay(slots[picks[k].slot], pool.broll[picks[k].of])
    OBVIOUS
  <2> HIDE DEF all
  <2> QED BY SMTT(30), <2>1, <2>2, OverlayLies DEF Unpadded
<1>6. /\ shown \in SUBSET (1..m)
      /\ \A k \in shown : k \in 1..m /\ all[k].to - all[k].from > 33
  OBVIOUS
<1> HIDE DEF all, shown, picks, slots
<1>7. IsFiniteSet(shown)
  <2>1. IsFiniteSet(1..m)
    BY <1>3, FS_Interval
  <2> QED BY ONLY <2>1, <1>6, FS_Subset
<1>8. \A x, y \in shown : <<x, y>> \in order <=>
          \/ all[x].from < all[y].from
          \/ all[x].from = all[y].from /\ x <= y
  OBVIOUS
<1> HIDE DEF order
<1>9. \A x \in shown : x \in Int /\ all[x].from \in Int
  <2>1. \A k \in 1..m : all[k].from \in Int
    BY <1>5 DEF Overlaid
  <2> QED BY <2>1, <1>3, <1>6
<1>10. /\ \A x \in shown : <<x, x>> \in order
       /\ \A x, y \in shown : <<x, y>> \in order \/ <<y, x>> \in order
       /\ \A x, y \in shown : <<x, y>> \in order /\ <<y, x>> \in order => x = y
       /\ \A x, y, z \in shown : <<x, y>> \in order /\ <<y, z>> \in order => <<x, z>> \in order
  BY ONLY <1>8, <1>9
<1>11. /\ DOMAIN sorted = 1..n /\ n \in Nat
       /\ \A k \in 1..n : sorted[k] \in shown
       /\ \A j, k \in 1..n : j < k => <<sorted[j], sorted[k]>> \in order /\ sorted[j] # sorted[k]
  BY <1>7, <1>10, SortedIs
<1> HIDE DEF sorted, n, o
<1>12. DOMAIN o = 1..n /\ \A k \in 1..n : o[k] = all[sorted[k]]
  BY <1>4, <1>11
<1>13. \A k \in 1..n : o[k] \in Overlaid /\ Unpadded(o[k]) /\ Lies(o[k])
  <2> SUFFICES ASSUME NEW k \in 1..n PROVE o[k] \in Overlaid /\ Unpadded(o[k]) /\ Lies(o[k])
    OBVIOUS
  <2> DEFINE a == sorted[k]
             slot == slots[picks[a].slot]
  <2>1. a \in 1..m /\ all[a].to - all[a].from > 33 /\ o[k] = all[a]
    BY <1>6, <1>11, <1>12
  <2> HIDE DEF a
  <2>2. /\ all[a] \in Overlaid /\ Unpadded(all[a])
        /\ First(all[a]) = slot.from /\ Past(all[a]) <= slot.to
        /\ all[a].clip.from <= all[a].source.from /\ all[a].source.to <= all[a].clip.to
        /\ First(all[a]) < Past(all[a]) /\ picks[a].slot \in DOMAIN slots
    BY <1>5, <2>1
  <2>3. slot.from \in Nat /\ slot.to \in Nat /\ slot.to <= LastFrame /\ LastFrame \in Nat
    BY <1>2, <2>2, PortraitSlotsSound
  <2>4. First(all[a]) \in Int /\ Past(all[a]) \in Int
    BY <2>2, OverlaidInts
  <2> HIDE DEF slot
  <2>5. 0 <= First(all[a]) /\ Past(all[a]) <= LastFrame
    BY ONLY <2>2, <2>3, <2>4
  <2>6. Lies(all[a])
    BY <2>2, <2>5 DEF Lies
  <2> QED BY <2>1, <2>2, <2>6
<1>14. Follow(o)
  <2> SUFFICES ASSUME NEW j \in 1..n, NEW k \in 1..n, j < k PROVE Past(o[j]) <= First(o[k])
    BY <1>12 DEF Follow
  <2> DEFINE a == sorted[j]
             b == sorted[k]
             s == picks[a].slot
             t == picks[b].slot
  <2>1. a \in shown /\ b \in shown /\ <<a, b>> \in order /\ a # b
    BY <1>11
  <2>2. o[j] = all[a] /\ o[k] = all[b]
    BY <1>12
  <2> HIDE DEF a, b
  <2>3. a \in 1..m /\ b \in 1..m
    BY <1>6, <2>1
  <2>4. /\ First(all[a]) = slots[s].from /\ Past(all[a]) <= slots[s].to
        /\ all[a].from = Ms(slots[s].from) /\ all[a] \in Overlaid /\ s \in DOMAIN slots
    BY <1>5, <2>3
  <2>5. /\ First(all[b]) = slots[t].from /\ Past(all[b]) <= slots[t].to
        /\ all[b].from = Ms(slots[t].from) /\ all[b] \in Overlaid /\ t \in DOMAIN slots
    BY <1>5, <2>3
  <2>6. s # t
    BY <1>1, <1>3, <2>1, <2>3
  <2>7. all[a].from <= all[b].from
    BY <1>8, <1>9, <2>1
  <2> HIDE DEF s, t
  <2>8. /\ slots[s].from \in Nat /\ slots[s].to \in Nat /\ slots[t].from \in Nat /\ slots[t].to \in Nat
        /\ slots[t].from < slots[t].to
    BY <1>2, <2>4, <2>5
  <2>9. ~(slots[t].from < slots[s].from)
    <3> SUFFICES ASSUME slots[t].from < slots[s].from PROVE FALSE
      OBVIOUS
    <3>1. Ms(slots[t].from) < Ms(slots[s].from) /\ Ms(slots[t].from) \in Nat /\ Ms(slots[s].from) \in Nat
      BY <2>8, MsMonotone
    <3> QED BY <3>1, <2>4, <2>5, <2>7
  <2>10. s < t
    <3>1. s < t \/ t < s
      BY <1>2, <2>4, <2>5, <2>6
    <3>2. t < s => slots[t].to <= slots[s].from
      BY <1>2, <2>4, <2>5
    <3> QED BY ONLY <3>1, <3>2, <2>8, <2>9
  <2>11. slots[s].to <= slots[t].from
    BY <1>2, <2>4, <2>5, <2>10
  <2>12. Past(all[a]) \in Int
    BY <2>4, OverlaidInts
  <2> QED BY ONLY <2>2, <2>4, <2>5, <2>8, <2>11, <2>12
<1>15. o \in Seq(Overlaid)
  <2>1. o = [k \in 1..n |-> o[k]]
    BY <1>4, <1>12
  <2> QED BY ONLY <2>1, <1>11, <1>13
<1>16. o = Overlays
  BY DEF o
<1> QED BY ONLY <1>12, <1>13, <1>14, <1>15, <1>16

-----------------------------------------------------------------------------
(* Aligned to the cuts they still follow each other: who moved into a gap  *)
(* moved to a cut in it that the other one did not move past.              *)
LEMMA AlignedLie ==
    ASSUME NEW cuts, IsFiniteSet(cuts), cuts \subseteq 0..LastFrame, LastFrame \in Nat,
           NEW inserts \in Seq(Overlaid), Follow(inserts),
           \A k \in DOMAIN inserts : Lies(inserts[k]) /\ Unpadded(inserts[k])
    PROVE  /\ DOMAIN Align(cuts, inserts) = DOMAIN inserts
           /\ ValidTrack(FramesOf(Align(cuts, inserts)), LastFrame)
           /\ \A k \in DOMAIN inserts :
                 /\ Align(cuts, inserts)[k].clip.from <= Align(cuts, inserts)[k].source.from
                 /\ Align(cuts, inserts)[k].source.to <= Align(cuts, inserts)[k].clip.to
                 /\ Align(cuts, inserts)[k].padStart \in 0..MaxPad
                 /\ Align(cuts, inserts)[k].padEnd \in 0..MaxPad
<1> DEFINE new == Align(cuts, inserts)
           n == Len(inserts)
           F(k) == First(inserts[k])
           P(k) == Past(inserts[k])
<1>1. n \in Nat /\ DOMAIN inserts = 1..n /\ \A k \in 1..n : inserts[k] \in Overlaid
  OBVIOUS
<1>2. cuts \subseteq Nat
  OBVIOUS
<1>3. /\ DOMAIN new = 1..n
      /\ \A k \in 1..n : new[k] = IF Reaches(cuts, inserts, k) THEN OnGrid(inserts[k])
                                  ELSE Snapped(cuts, inserts[k])
  BY <1>1 DEF Align
<1>4. \A k \in 1..n : ~Reaches(cuts, inserts, k) =>
         /\ k > 1 => ~(Back(cuts, F(k)) < P(k - 1))
         /\ k < n => ~(On(cuts, P(k)) > F(k + 1))
  BY DEF Reaches
<1>5. \A k \in 1..n :
        /\ F(k) \in Int /\ P(k) \in Int /\ inserts[k].padStart = 0 /\ inserts[k].padEnd = 0
        /\ inserts[k].clip.from <= inserts[k].source.from /\ inserts[k].source.to <= inserts[k].clip.to
        /\ 0 <= F(k) /\ F(k) < P(k) /\ P(k) <= LastFrame
  BY <1>1, OverlaidInts DEF Lies, Unpadded
<1>6. \A j, k \in 1..n : j < k => P(j) <= F(k)
  BY <1>1 DEF Follow
<1> HIDE DEF n, new
<1>7. ASSUME NEW k \in 1..n
      PROVE  /\ Back(cuts, F(k)) \in Int /\ Back(cuts, F(k)) <= F(k) /\ F(k) - Back(cuts, F(k)) <= MaxPad
             /\ Back(cuts, F(k)) >= 0
             /\ On(cuts, P(k)) \in Int /\ P(k) <= On(cuts, P(k)) /\ On(cuts, P(k)) - P(k) <= MaxPad
             /\ On(cuts, P(k)) <= LastFrame
  <2>1. F(k) \in Int /\ P(k) \in Int /\ 0 <= F(k) /\ P(k) <= LastFrame
    BY <1>5
  <2> HIDE DEF F, P
  <2>2. /\ Back(cuts, F(k)) \in Int /\ Back(cuts, F(k)) <= F(k) /\ F(k) - Back(cuts, F(k)) <= MaxPad
        /\ Back(cuts, F(k)) = F(k) \/ Back(cuts, F(k)) \in cuts
    BY <1>2, <2>1, BackMoves
  <2>3. /\ On(cuts, P(k)) \in Int /\ P(k) <= On(cuts, P(k)) /\ On(cuts, P(k)) - P(k) <= MaxPad
        /\ On(cuts, P(k)) = P(k) \/ On(cuts, P(k)) \in cuts
    BY <1>2, <2>1, OnMoves
  <2>4. \A c \in cuts : c >= 0 /\ c <= LastFrame
    OBVIOUS
  <2> QED BY ONLY <2>1, <2>2, <2>3, <2>4
<1>8. ASSUME NEW k \in 1..n, Reaches(cuts, inserts, k)
      PROVE  /\ First(new[k]) = F(k) /\ Past(new[k]) = P(k)
             /\ new[k].padStart = 0 /\ new[k].padEnd = 0
             /\ new[k].clip = inserts[k].clip /\ new[k].source = inserts[k].source
  <2> DEFINE i == inserts[k]
  <2>1. i \in Overlaid /\ new[k] = OnGrid(i) /\ i.padStart = 0 /\ i.padEnd = 0
    BY <1>1, <1>3, <1>5, <1>8
  <2> HIDE DEF i
  <2>2. /\ First(new[k]) = First(i) /\ Past(new[k]) = Past(i)
        /\ new[k].padStart = 0 /\ new[k].padEnd = 0 /\ new[k].clip = i.clip /\ new[k].source = i.source
    BY <2>1, OverlaidOnGrid
  <2> QED BY <2>2 DEF i
<1>9. ASSUME NEW k \in 1..n, ~Reaches(cuts, inserts, k)
      PROVE  /\ First(new[k]) = Back(cuts, F(k)) /\ Past(new[k]) = On(cuts, P(k))
             /\ new[k].padStart = 0 + F(k) - Back(cuts, F(k))
             /\ new[k].padEnd = 0 + On(cuts, P(k)) - P(k)
             /\ new[k].clip = inserts[k].clip /\ new[k].source = inserts[k].source
  <2> DEFINE i == inserts[k]
  <2>1. i \in Overlaid /\ new[k] = Snapped(cuts, i) /\ i.padStart = 0 /\ i.padEnd = 0
    BY <1>1, <1>3, <1>5, <1>9
  <2> HIDE DEF i
  <2>2. /\ First(new[k]) = Back(cuts, First(i)) /\ Past(new[k]) = On(cuts, Past(i))
        /\ new[k].padStart = 0 + First(i) - Back(cuts, First(i))
        /\ new[k].padEnd = 0 + On(cuts, Past(i)) - Past(i)
        /\ new[k].clip = i.clip /\ new[k].source = i.source
    <3>1. /\ First(Snapped(cuts, i)) = Back(cuts, First(i)) /\ Past(Snapped(cuts, i)) = On(cuts, Past(i))
          /\ Snapped(cuts, i).padStart = i.padStart + First(i) - Back(cuts, First(i))
          /\ Snapped(cuts, i).padEnd = i.padEnd + On(cuts, Past(i)) - Past(i)
          /\ Snapped(cuts, i).clip = i.clip /\ Snapped(cuts, i).source = i.source
      BY <1>2, <2>1, OverlaidSnapped
    <3> QED BY ONLY <2>1, <3>1
  <2> QED BY <2>2 DEF i
<1> HIDE DEF F, P
<1>10. ASSUME NEW k \in 1..n
       PROVE  /\ First(new[k]) \in Int /\ Past(new[k]) \in Int
              /\ 0 <= First(new[k]) /\ First(new[k]) <= F(k)
              /\ P(k) <= Past(new[k]) /\ Past(new[k]) <= LastFrame
              /\ new[k].padStart \in 0..MaxPad /\ new[k].padEnd \in 0..MaxPad
              /\ new[k].clip = inserts[k].clip /\ new[k].source = inserts[k].source
  <2>1. CASE Reaches(cuts, inserts, k)
    BY <1>5, <1>8, <2>1 DEF MaxPad
  <2>2. CASE ~Reaches(cuts, inserts, k)
    <3>1. /\ Back(cuts, F(k)) \in Int /\ Back(cuts, F(k)) <= F(k) /\ F(k) - Back(cuts, F(k)) <= MaxPad
          /\ Back(cuts, F(k)) >= 0
          /\ On(cuts, P(k)) \in Int /\ P(k) <= On(cuts, P(k)) /\ On(cuts, P(k)) - P(k) <= MaxPad
          /\ On(cuts, P(k)) <= LastFrame /\ F(k) \in Int /\ P(k) \in Int
      BY <1>5, <1>7
    <3>2. /\ First(new[k]) = Back(cuts, F(k)) /\ Past(new[k]) = On(cuts, P(k))
          /\ new[k].padStart = 0 + F(k) - Back(cuts, F(k))
          /\ new[k].padEnd = 0 + On(cuts, P(k)) - P(k)
          /\ new[k].clip = inserts[k].clip /\ new[k].source = inserts[k].source
      BY <1>9, <2>2
    <3>3. 0 + F(k) - Back(cuts, F(k)) \in 0..MaxPad
      BY ONLY <3>1 DEF MaxPad
    <3>4. 0 + On(cuts, P(k)) - P(k) \in 0..MaxPad
      BY ONLY <3>1 DEF MaxPad
    <3> QED BY ONLY <3>1, <3>2, <3>3, <3>4
  <2> QED BY <2>1, <2>2
(* Neither gets into the neighbour as it was.                              *)
<1>11. ASSUME NEW k \in 1..n
       PROVE  /\ k > 1 => P(k - 1) <= First(new[k])
              /\ k < n => Past(new[k]) <= F(k + 1)
  <2>1. CASE Reaches(cuts, inserts, k)
    <3>1. First(new[k]) = F(k) /\ Past(new[k]) = P(k)
      BY <1>8, <2>1
    <3>2. k > 1 => k - 1 \in 1..n /\ k - 1 < k
      BY <1>1
    <3>3. k < n => k + 1 \in 1..n /\ k < k + 1
      BY <1>1
    <3> QED BY <1>6, <3>1, <3>2, <3>3
  <2>2. CASE ~Reaches(cuts, inserts, k)
    <3>1. First(new[k]) = Back(cuts, F(k)) /\ Past(new[k]) = On(cuts, P(k))
      BY <1>9, <2>2
    <3>2. First(new[k]) \in Int /\ Past(new[k]) \in Int
      BY <1>10
    <3>3. /\ k > 1 => ~(First(new[k]) < P(k - 1))
          /\ k < n => ~(Past(new[k]) > F(k + 1))
      BY <1>4, <2>2, <3>1 DEF F, P
    <3>4. k > 1 => P(k - 1) \in Int
      BY <1>1, <1>5
    <3>5. k < n => F(k + 1) \in Int
      BY <1>1, <1>5
    <3> QED BY ONLY <3>2, <3>3, <3>4, <3>5
  <2> QED BY <2>1, <2>2
(* Nor into the neighbour as it is.                                        *)
<1>12. ASSUME NEW k \in 1..n, k < n PROVE Past(new[k]) <= First(new[k + 1])
  <2> DEFINE l == k + 1
  <2>1. l \in 1..n /\ k < l /\ l > 1 /\ l - 1 = k
    BY <1>1, <1>12
  <2>2. P(k) <= First(new[l]) /\ Past(new[k]) <= F(l)
    BY <1>11, <1>12, <2>1
  <2> SUFFICES Past(new[k]) <= First(new[l])
    OBVIOUS
  <2> HIDE DEF l
  <2>3. CASE Reaches(cuts, inserts, k)
    BY <1>8, <2>2, <2>3
  <2>4. CASE Reaches(cuts, inserts, l)
    BY <1>8, <2>1, <2>2, <2>4
  <2>5. CASE ~Reaches(cuts, inserts, k) /\ ~Reaches(cuts, inserts, l)
    <3>1. Past(new[k]) = On(cuts, P(k)) /\ First(new[l]) = Back(cuts, F(l))
      BY <1>9, <2>1, <2>5
    <3>2. P(k) \in Int /\ F(l) \in Int /\ On(cuts, P(k)) <= F(l) /\ P(k) <= Back(cuts, F(l))
      BY <1>5, <2>1, <2>2, <3>1
    <3> QED BY <1>2, <3>1, <3>2, NoCrossing
  <2> QED BY <2>3, <2>4, <2>5
<1>13. ASSUME NEW j \in 1..n, NEW k \in 1..n, j < k PROVE Past(new[j]) <= First(new[k])
  <2>1. CASE k = j + 1
    BY <1>1, <1>12, <2>1
  <2>2. CASE j + 1 < k
    <3> DEFINE a == j + 1
               b == k - 1
    <3>1. a \in 1..n /\ b \in 1..n /\ (a < b \/ a = b) /\ j < n /\ k > 1
      BY <1>1, <2>2
    <3>2. Past(new[j]) <= F(a) /\ P(b) <= First(new[k])
      BY <1>11, <3>1
    <3> HIDE DEF a, b
    <3>3. F(a) \in Int /\ P(a) \in Int /\ F(b) \in Int /\ P(b) \in Int /\ F(a) < P(a) /\ F(b) < P(b)
      BY <1>5, <3>1
    <3>4. F(a) < P(b)
      <4>1. a < b => P(a) <= F(b)
        BY <1>6, <3>1
      <4> QED BY <3>1, <3>3, <4>1
    <3>5. Past(new[j]) \in Int /\ First(new[k]) \in Int
      BY <1>10
    <3> QED BY ONLY <3>2, <3>3, <3>4, <3>5
  <2> QED BY <1>1, <1>13, <2>1, <2>2
<1>14. /\ DOMAIN FramesOf(new) = 1..n
       /\ \A k \in 1..n : FramesOf(new)[k].from = First(new[k]) /\ FramesOf(new)[k].to = Past(new[k])
  BY <1>3 DEF FramesOf
<1>15. InBounds(FramesOf(new), LastFrame)
  <2>1. \A k \in 1..n : 0 <= First(new[k]) /\ First(new[k]) < Past(new[k]) /\ Past(new[k]) <= LastFrame
    BY <1>5, <1>10
  <2> QED BY <2>1, <1>14 DEF InBounds
<1>16. Disjoint(FramesOf(new))
  BY <1>13, <1>14 DEF Disjoint
<1>17. \A k \in 1..n :
         /\ new[k].clip.from <= new[k].source.from /\ new[k].source.to <= new[k].clip.to
         /\ new[k].padStart \in 0..MaxPad /\ new[k].padEnd \in 0..MaxPad
  BY <1>5, <1>10
<1> QED BY <1>1, <1>3, <1>15, <1>16, <1>17 DEF new, ValidTrack

-----------------------------------------------------------------------------
(* The fallback                                                            *)

(* The slots are filled one after the other. That the function which says  *)
(* how exists is proved first.                                             *)
Fillings(g, m) == g = [n \in 0..m |-> IF n = 0 THEN <<>> ELSE PickFor(g[n - 1], n)]

LEMMA FillingsExist ==
    ASSUME NEW N \in Nat
    PROVE  \E g : Fillings(g, N)
<1> DEFINE Bad == {m \in 0..N : ~\E g : Fillings(g, m)}
<1> SUFFICES ASSUME Bad # {} PROVE FALSE
  BY DEF Bad
<1>1. Bad \in SUBSET (0..N) /\ Bad \subseteq Int /\ \A m \in 0..N : m \notin Bad => \E g : Fillings(g, m)
  OBVIOUS
<1>2. \A m \in Bad : m \in 0..N /\ ~\E g : Fillings(g, m)
  OBVIOUS
<1>3. IsFiniteSet(0..N)
  BY FS_Interval
<1> HIDE DEF Bad
<1>4. IsFiniteSet(Bad)
  BY ONLY <1>1, <1>3, FS_Subset
<1>5. PICK m \in Bad : \A k \in Bad : m <= k
  BY ONLY Bad # {}, <1>1, <1>4, HasMin
<1>6. m \in 0..N /\ ~\E g : Fillings(g, m)
  BY <1>2, <1>5
<1>7. CASE m = 0
  <2> DEFINE g == [n \in 0..0 |-> <<>>]
  <2>1. g = [n \in 0..0 |-> IF n = 0 THEN <<>> ELSE PickFor(g[n - 1], n)]
    OBVIOUS
  <2> HIDE DEF g
  <2>2. Fillings(g, 0)
    BY <2>1 DEF Fillings
  <2> QED BY <1>6, <1>7, <2>2
<1>8. CASE m > 0
  <2>1. m - 1 \in 0..N /\ m \in Nat /\ m - 1 < m
    BY <1>6, <1>8
  <2>2. m - 1 \notin Bad
    BY <1>5, <2>1
  <2>3. PICK g : Fillings(g, m - 1)
    BY <1>1, <2>1, <2>2
  <2>4. \A n \in 0..(m - 1) : g[n] = IF n = 0 THEN <<>> ELSE PickFor(g[n - 1], n)
    BY <2>3 DEF Fillings
  <2> DEFINE h == [n \in 0..m |-> IF n = m THEN PickFor(g[m - 1], m) ELSE g[n]]
  <2>5. \A n \in 0..m : h[n] = IF n = 0 THEN <<>> ELSE PickFor(h[n - 1], n)
    <3> SUFFICES ASSUME NEW n \in 0..m PROVE h[n] = IF n = 0 THEN <<>> ELSE PickFor(h[n - 1], n)
      OBVIOUS
    <3>1. CASE n = m
      <4>1. h[n] = PickFor(g[m - 1], m) /\ h[n - 1] = g[m - 1] /\ n # 0
        BY <1>8, <2>1, <3>1
      <4> QED BY ONLY <3>1, <4>1
    <3>2. CASE n # m /\ n = 0
      <4>1. n \in 0..(m - 1) /\ h[n] = g[n]
        BY <2>1, <1>8, <3>2
      <4> QED BY <2>4, <3>2, <4>1
    <3>3. CASE n # m /\ n # 0
      <4>1. n \in 0..(m - 1) /\ h[n] = g[n] /\ h[n - 1] = g[n - 1]
        BY <2>1, <3>3
      <4>2. g[n] = PickFor(g[n - 1], n)
        BY <2>4, <3>3, <4>1
      <4> QED BY ONLY <3>3, <4>1, <4>2
    <3> QED BY <3>1, <3>2, <3>3
  <2>6. h = [n \in 0..m |-> h[n]]
    OBVIOUS
  <2> HIDE DEF h
  <2>7. h = [n \in 0..m |-> IF n = 0 THEN <<>> ELSE PickFor(h[n - 1], n)]
    BY <2>5, <2>6
  <2> QED BY <1>6, <2>7 DEF Fillings
<1> QED BY <1>6, <1>7, <1>8

LEMMA PickedIs ==
    ASSUME brief \in Briefs
    PROVE  /\ Picked[0] = <<>>
           /\ \A n \in 1..Len(PortraitSlots) : Picked[n] = PickFor(Picked[n - 1], n)
<1> DEFINE N == Len(brief.cuts) - 1
<1>1. N \in Nat /\ N = Len(PortraitSlots)
  BY PortraitSlotsSound
<1>2. Picked = CHOOSE g : g = [n \in 0..(Len(brief.cuts) - 1) |-> IF n = 0 THEN <<>> ELSE PickFor(g[n - 1], n)]
  BY DEF Picked
<1>3. Picked = CHOOSE g : Fillings(g, N)
  BY <1>2 DEF Fillings
<1> HIDE DEF N
<1>4. Fillings(Picked, N)
  BY <1>1, <1>3, FillingsExist
<1>5. Picked = [n \in 0..N |-> IF n = 0 THEN <<>> ELSE PickFor(Picked[n - 1], n)]
  BY <1>4 DEF Fillings
<1>6. \A n \in 0..N : Picked[n] = IF n = 0 THEN <<>> ELSE PickFor(Picked[n - 1], n)
  BY ONLY <1>5
<1> QED BY <1>1, <1>6

-----------------------------------------------------------------------------
(* Every window is as long as every slot.                                  *)
AllLong == \A window \in Range(pool.portrait), slot \in Range(PortraitSlots) : LongEnough(window, slot)

AssetOf(w) == pool.portrait[w].asset
Assets == {AssetOf(w) : w \in DOMAIN pool.portrait}

(* The cap leaves an asset for each slot.                                  *)
LEMMA CapSuffices ==
    ASSUME brief \in Briefs, pool \in Pools, pool.portrait # <<>>
    PROVE  /\ IsFiniteSet(Assets) /\ ReuseCap \in Nat
           /\ Cardinality(Assets) * ReuseCap >= Len(PortraitSlots)
<1> DEFINE a == Cardinality(Assets)
           n == Len(PortraitSlots)
<1>1. pool.portrait \in Seq(Window)
  BY PoolSound
<1>2. n \in Nat
  BY PortraitSlotsSound
<1>3. DOMAIN pool.portrait = 1..Len(pool.portrait) /\ Len(pool.portrait) \in Nat /\ 1 \in DOMAIN pool.portrait
  BY <1>1, pool.portrait # <<>>
<1>4. Assets = {window.asset : window \in Range(pool.portrait)}
  BY DEF Assets, AssetOf, Range
<1>5. IsFiniteSet(Assets) /\ Assets # {}
  <2> DEFINE f == [w \in DOMAIN pool.portrait |-> AssetOf(w)]
  <2>1. IsFiniteSet(DOMAIN pool.portrait)
    BY <1>3, FS_Interval
  <2>2. Assets = {f[w] : w \in DOMAIN pool.portrait}
    BY DEF Assets
  <2>3. Assets # {}
    BY <1>3 DEF Assets
  <2> HIDE DEF f
  <2>4. IsFiniteSet({f[w] : w \in DOMAIN pool.portrait})
    BY <2>1, FiniteImage
  <2> QED BY <2>2, <2>3, <2>4
<1>6. a \in Nat /\ a # 0
  BY <1>5, FS_CardinalityType, FS_EmptySet
<1>7. ReuseCap = IF a = 0 \/ a >= n THEN 1 ELSE (n + a - 1) \div a
  BY <1>4 DEF ReuseCap
<1> HIDE DEF a, n
<1>8. CASE a >= n
  <2>1. ReuseCap = 1
    BY <1>7, <1>8
  <2> QED BY <1>2, <1>5, <1>6, <1>8, <2>1 DEF a, n
<1>9. CASE ~(a >= n)
  <2>1. ReuseCap = (n + a - 1) \div a
    BY <1>6, <1>7, <1>9
  <2>2. a * ((n + a - 1) \div a) >= n /\ (n + a - 1) \div a \in Nat
    BY ONLY <1>2, <1>6
  <2> QED BY <1>5, <2>1, <2>2 DEF a, n
<1> QED BY <1>8, <1>9

(* So that, before the last slot, an asset is still free.                  *)
LEMMA SpareAsset ==
    ASSUME brief \in Briefs, pool \in Pools, pool.portrait # <<>>,
           NEW p \in Seq(Choice), Len(p) < Len(PortraitSlots),
           \A k \in DOMAIN p : p[k].of \in DOMAIN pool.portrait
    PROVE  \E w \in DOMAIN pool.portrait : Uses(p, AssetOf(w)) < ReuseCap
<1> SUFFICES ASSUME \A w \in DOMAIN pool.portrait : ~(Uses(p, AssetOf(w)) < ReuseCap) PROVE FALSE
  OBVIOUS
<1> DEFINE S == DOMAIN p
           V == Assets
           key == [k \in S |-> AssetOf(p[k].of)]
           zero == [v \in V |-> 0]
           g == [v \in V |-> Uses(p, v)]
<1>1. IsFiniteSet(V) /\ ReuseCap \in Nat /\ Cardinality(V) * ReuseCap >= Len(PortraitSlots)
  BY CapSuffices
<1>2. S = 1..Len(p) /\ Len(p) \in Nat
  OBVIOUS
<1>3. IsFiniteSet(S) /\ Cardinality(S) = Len(p)
  <2>1. 1 \in Int /\ Len(p) \in Int /\ (IF 1 > Len(p) THEN 0 ELSE Len(p) - 1 + 1) = Len(p)
    BY <1>2
  <2>2. IsFiniteSet(1..Len(p)) /\ Cardinality(1..Len(p)) = IF 1 > Len(p) THEN 0 ELSE Len(p) - 1 + 1
    BY ONLY <2>1, FS_Interval
  <2> QED BY <1>2, <2>1, <2>2
<1>4. \A k \in S : key[k] \in V
  BY DEF Assets
<1>5. \A v \in V : Uses(p, v) = Cardinality({k \in S : key[k] = v})
  <2> SUFFICES ASSUME NEW v \in V PROVE Uses(p, v) = Cardinality({k \in S : key[k] = v})
    OBVIOUS
  <2>1. {k \in DOMAIN p : pool.portrait[p[k].of].asset = v} = {k \in S : key[k] = v}
    BY DEF AssetOf
  <2> QED BY <2>1 DEF Uses
<1> HIDE DEF S, key
<1>6. \A v \in V : Cardinality({k \in S : key[k] = v}) \in Nat
  <2> SUFFICES ASSUME NEW v \in V PROVE Cardinality({k \in S : key[k] = v}) \in Nat
    OBVIOUS
  <2>1. {k \in S : key[k] = v} \in SUBSET S
    OBVIOUS
  <2>2. IsFiniteSet({k \in S : key[k] = v})
    BY ONLY <1>3, <2>1, FS_Subset
  <2> QED BY <2>2, FS_CardinalityType
<1>7. /\ \A v \in V : zero[v] = 0 /\ zero[v] \in Int
      /\ \A v \in V : g[v] = zero[v] + Cardinality({k \in S : key[k] = v})
  BY <1>5, <1>6
<1>8. \A v \in V : g[v] \in Int /\ g[v] >= ReuseCap
  <2> SUFFICES ASSUME NEW v \in V PROVE g[v] \in Int /\ g[v] >= ReuseCap
    OBVIOUS
  <2>1. PICK w \in DOMAIN pool.portrait : v = AssetOf(w)
    BY DEF Assets
  <2>2. Uses(p, v) \in Nat /\ ~(Uses(p, v) < ReuseCap)
    BY <1>5, <1>6, <2>1
  <2> QED BY <1>1, <2>2
<1> HIDE DEF zero, g
<1>9. Total(g, V) = Total(zero, V) + Cardinality({k \in S : key[k] \in V})
  <2>1. \A v \in V : zero[v] \in Int
    BY ONLY <1>7
  <2>2. \A v \in V : g[v] = zero[v] + Cardinality({k \in S : key[k] = v})
    BY ONLY <1>7
  <2>3. IsFiniteSet(V) /\ IsFiniteSet(S)
    BY ONLY <1>1, <1>3
  <2> HIDE DEF V
  <2> QED BY ONLY <2>1, <2>2, <2>3, CountByValue
<1>10. Total(zero, V) = 0
  BY <1>1, <1>7, TotalZero
<1>11. {k \in S : key[k] \in V} = S
  BY <1>4
<1>12. Total(g, V) >= Cardinality(V) * ReuseCap
  BY ONLY <1>1, <1>8, TotalAtLeast
<1> DEFINE vc == Cardinality(V) * ReuseCap
<1>13. Total(g, V) = Len(p)
  <2>1. Cardinality({k \in S : key[k] \in V}) = Len(p)
    BY ONLY <1>3, <1>11
  <2> QED BY ONLY <2>1, <1>2, <1>9, <1>10
<1>14. Len(PortraitSlots) \in Nat
  BY PortraitSlotsSound
<1>15. vc \in Nat
  <2>1. Cardinality(V) \in Nat
    BY <1>1, FS_CardinalityType
  <2> QED BY <1>1, <2>1
<1>16. vc >= Len(PortraitSlots) /\ Len(p) >= vc
  BY <1>1, <1>12, <1>13
<1> HIDE DEF vc
<1> QED BY <1>2, <1>14, <1>15, <1>16

-----------------------------------------------------------------------------
(* One more pick is one more use of its asset, and of no other.            *)
LEMMA UsesGrow ==
    ASSUME NEW p \in Seq(Choice), NEW pick \in Choice, NEW a
    PROVE  /\ Uses(p, a) \in Nat
           /\ Uses(Append(p, pick), a) = IF AssetOf(pick.of) = a THEN Uses(p, a) + 1 ELSE Uses(p, a)
<1> DEFINE q == Append(p, pick)
           n == Len(p)
           U == {k \in DOMAIN p : AssetOf(p[k].of) = a}
           W == {k \in DOMAIN q : AssetOf(q[k].of) = a}
<1>1. n \in Nat /\ DOMAIN p = 1..n
  OBVIOUS
<1>2. DOMAIN q = 1..(n + 1) /\ q[n + 1] = pick /\ \A k \in 1..n : q[k] = p[k]
  OBVIOUS
<1>3. Uses(p, a) = Cardinality(U) /\ Uses(q, a) = Cardinality(W)
  BY DEF Uses, AssetOf
<1>4. U \in SUBSET (1..n) /\ n + 1 \notin U
  BY <1>1
<1>5. IsFiniteSet(U)
  <2>1. IsFiniteSet(1..n)
    BY <1>1, FS_Interval
  <2> HIDE DEF U
  <2> QED BY ONLY <2>1, <1>4, FS_Subset
<1> HIDE DEF q, n
<1>6. W = IF AssetOf(pick.of) = a THEN U \cup {n + 1} ELSE U
  <2>1. \A k : k \in 1..(n + 1) <=> k \in 1..n \/ k = n + 1
    BY <1>1
  <2>2. ~(n + 1 \in 1..n)
    BY <1>1
  <2>3. \A k : k \in W <=> k \in 1..(n + 1) /\ AssetOf(q[k].of) = a
    BY <1>2
  <2>4. \A k : k \in U <=> k \in 1..n /\ AssetOf(p[k].of) = a
    BY <1>1
  <2> HIDE DEF U, W
  <2>5. \A k : k \in W <=> k \in U \/ (k = n + 1 /\ AssetOf(pick.of) = a)
    BY ONLY <1>2, <2>1, <2>2, <2>3, <2>4
  <2> QED BY <2>5
<1> HIDE DEF U, W
<1>7. Cardinality(U) \in Nat
  BY <1>5, FS_CardinalityType
<1>8. Cardinality(U \cup {n + 1}) = Cardinality(U) + 1
  BY <1>4, <1>5, FS_AddElement
<1> QED BY <1>3, <1>6, <1>7, <1>8 DEF q

(* The pick for a slot is a window; where all are long enough, of an asset *)
(* that may be used again.                                                 *)
Windows == DOMAIN pool.portrait
InCap(p) == \A a : Uses(p, a) <= ReuseCap

LEMMA PickForIs ==
    ASSUME brief \in Briefs, pool \in Pools, pool.portrait # <<>>,
           NEW p \in Seq(Choice), Len(p) < Len(PortraitSlots),
           \A k \in DOMAIN p : p[k].of \in Windows,
           NEW slot \in DOMAIN PortraitSlots
    PROVE  \E w \in Windows : /\ PickFor(p, slot) = Append(p, [slot |-> slot, of |-> w])
                              /\ AllLong => Uses(p, AssetOf(w)) < ReuseCap
<1> DEFINE long == {w \in Windows : LongEnough(pool.portrait[w], PortraitSlots[slot])}
           spare == {w \in long : Uses(p, AssetOf(w)) < ReuseCap}
           best == IF spare # {} THEN Min(spare) ELSE IF long # {} THEN Min(long) ELSE 1
<1>1. PickFor(p, slot) = Append(p, [slot |-> slot, of |-> best])
  BY DEF PickFor, AssetOf, Windows
<1>2. pool.portrait \in Seq(Window)
  BY PoolSound
<1>3. Windows = 1..Len(pool.portrait) /\ Len(pool.portrait) \in Nat /\ 1 \in Windows
  BY <1>2, pool.portrait # <<>> DEF Windows
<1>4. long \in SUBSET Windows /\ spare \in SUBSET long
  OBVIOUS
<1>5. \A w \in spare : Uses(p, AssetOf(w)) < ReuseCap
  OBVIOUS
<1>6. AllLong => spare # {}
  <2> SUFFICES ASSUME AllLong PROVE spare # {}
    OBVIOUS
  <2>1. PICK w \in Windows : Uses(p, AssetOf(w)) < ReuseCap
    BY SpareAsset DEF Windows
  <2>2. LongEnough(pool.portrait[w], PortraitSlots[slot])
    BY DEF AllLong, Windows, Range
  <2> QED BY <2>1, <2>2
<1> HIDE DEF long, spare
<1>7. IsFiniteSet(Windows) /\ Windows \subseteq Int
  <2> DEFINE n == Len(pool.portrait)
  <2>1. n \in Nat /\ Windows = 1..n
    BY <1>3
  <2> HIDE DEF n
  <2>2. IsFiniteSet(1..n)
    BY ONLY <2>1, FS_Interval
  <2> QED BY ONLY <2>1, <2>2
<1>8. IsFiniteSet(long) /\ long \subseteq Int
  <2>1. IsFiniteSet(long)
    BY ONLY <1>4, <1>7, FS_Subset
  <2> QED BY <2>1, <1>4, <1>7
<1>9. IsFiniteSet(spare) /\ spare \subseteq Int
  <2>1. IsFiniteSet(spare)
    BY ONLY <1>4, <1>8, FS_Subset
  <2> QED BY <2>1, <1>4, <1>8
<1>10. spare # {} => Min(spare) \in spare
  BY ONLY <1>9, HasMin
<1>11. long # {} => Min(long) \in long
  BY ONLY <1>8, HasMin
<1>12. best \in Windows
  BY <1>3, <1>4, <1>10, <1>11
<1>13. AllLong => Uses(p, AssetOf(best)) < ReuseCap
  BY <1>5, <1>6, <1>10
<1> QED BY <1>1, <1>12, <1>13

Fair(n) ==
    /\ Picked[n] \in Seq(Choice) /\ Len(Picked[n]) = n
    /\ \A k \in 1..n : Picked[n][k].slot = k /\ Picked[n][k].of \in Windows
    /\ AllLong => InCap(Picked[n])

LEMMA PickForFair ==
    ASSUME brief \in Briefs, pool \in Pools, pool.portrait # <<>>,
           NEW n \in 1..Len(PortraitSlots), Fair(n - 1)
    PROVE  Fair(n)
<1> DEFINE p == Picked[n - 1]
           q == Picked[n]
           N == Len(PortraitSlots)
<1>1. N \in Nat /\ DOMAIN PortraitSlots = 1..N
  BY PortraitSlotsSound
<1>2. q = PickFor(p, n)
  BY PickedIs
<1>3. /\ p \in Seq(Choice) /\ Len(p) = n - 1
      /\ \A k \in 1..(n - 1) : p[k].slot = k /\ p[k].of \in Windows
      /\ AllLong => InCap(p)
  BY DEF Fair
<1> HIDE DEF p, q
<1>4. n \in Nat /\ n \in DOMAIN PortraitSlots /\ n - 1 < N /\ DOMAIN p = 1..(n - 1) /\ n >= 1
  BY <1>1, <1>3
<1>5. PICK w \in Windows : /\ q = Append(p, [slot |-> n, of |-> w])
                           /\ AllLong => Uses(p, AssetOf(w)) < ReuseCap
  BY <1>2, <1>3, <1>4, PickForIs
<1> DEFINE pick == [slot |-> n, of |-> w]
<1>6. pick \in Choice /\ pick.slot = n /\ pick.of = w
  <2>1. pool.portrait \in Seq(Window)
    BY PoolSound
  <2>2. w \in Nat
    BY <2>1 DEF Windows
  <2> QED BY <1>4, <2>2 DEF Choice
<1> HIDE DEF pick
<1>7. q = Append(p, pick)
  BY <1>5 DEF pick
<1>8. q \in Seq(Choice) /\ Len(q) = n /\ q[n] = pick /\ \A k \in 1..(n - 1) : q[k] = p[k]
  BY ONLY <1>3, <1>4, <1>6, <1>7
<1>9. \A k \in 1..n : q[k].slot = k /\ q[k].of \in Windows
  <2>1. \A k \in 1..n : k \in 1..(n - 1) \/ k = n
    BY <1>4
  <2> QED BY <1>3, <1>5, <1>6, <1>8, <2>1
<1>10. ASSUME AllLong PROVE InCap(q)
  <2> SUFFICES ASSUME NEW a PROVE Uses(q, a) <= ReuseCap
    BY DEF InCap
  <2>1. ReuseCap \in Nat
    BY CapSuffices
  <2>2. Uses(p, a) <= ReuseCap
    BY <1>3, <1>10 DEF InCap
  <2>3. Uses(p, AssetOf(w)) < ReuseCap
    BY <1>5, <1>10
  <2>4. /\ Uses(p, a) \in Nat
        /\ Uses(q, a) = IF AssetOf(w) = a THEN Uses(p, a) + 1 ELSE Uses(p, a)
    BY <1>3, <1>6, <1>7, UsesGrow
  <2>5. CASE AssetOf(w) = a
    BY <2>1, <2>3, <2>4, <2>5
  <2>6. CASE AssetOf(w) # a
    BY <2>2, <2>4, <2>6
  <2> QED BY <2>5, <2>6
<1> QED BY <1>8, <1>9, <1>10 DEF Fair, q

LEMMA PickedFair ==
    ASSUME brief \in Briefs, pool \in Pools, pool.portrait # <<>>
    PROVE  Fair(Len(PortraitSlots))
<1> DEFINE N == Len(PortraitSlots)
           Bad == {n \in 0..N : ~Fair(n)}
<1>1. N \in Nat
  BY PortraitSlotsSound
<1> HIDE DEF N
<1> SUFFICES ASSUME Bad # {} PROVE FALSE
  BY <1>1 DEF N
<1>2. Bad \in SUBSET (0..N) /\ Bad \subseteq Int
  BY <1>1
<1>3. \A n \in 0..N : n \in Bad <=> ~Fair(n)
  OBVIOUS
<1>4. IsFiniteSet(0..N)
  BY <1>1, FS_Interval
<1> HIDE DEF Bad
<1>5. IsFiniteSet(Bad)
  BY ONLY <1>2, <1>4, FS_Subset
<1>6. PICK m \in Bad : \A k \in Bad : m <= k
  BY ONLY Bad # {}, <1>2, <1>5, HasMin
<1>7. m \in 0..N /\ ~Fair(m)
  BY <1>2, <1>3, <1>6
<1>8. CASE m = 0
  <2>1. Picked[0] = <<>>
    BY PickedIs
  <2>2. Picked[0] \in Seq(Choice) /\ Len(Picked[0]) = 0 /\ DOMAIN Picked[0] = {}
    BY <2>1
  <2>3. InCap(Picked[0])
    <3> SUFFICES ASSUME NEW a PROVE Uses(Picked[0], a) <= ReuseCap
      BY DEF InCap
    <3>1. {k \in DOMAIN Picked[0] : pool.portrait[Picked[0][k].of].asset = a} = {}
      BY <2>2
    <3>2. Uses(Picked[0], a) = 0
      BY <3>1, FS_EmptySet DEF Uses
    <3>3. ReuseCap \in Nat
      BY CapSuffices
    <3> QED BY <3>2, <3>3
  <2>4. \A k \in 1..0 : FALSE
    OBVIOUS
  <2>5. Fair(0)
    BY <2>2, <2>3, <2>4 DEF Fair
  <2> QED BY <1>7, <1>8, <2>5
<1>9. CASE m # 0
  <2>1. m \in 1..N /\ m - 1 \in 0..N /\ m - 1 < m
    BY <1>1, <1>7, <1>9
  <2>2. Fair(m - 1)
    BY <1>3, <1>6, <2>1
  <2> QED BY <1>7, <2>1, <2>2, PickForFair DEF N
<1> QED BY <1>8, <1>9

-----------------------------------------------------------------------------
(* What is rendered                                                        *)

(* The selection of the fallback.                                          *)
LEMMA FallbackFills ==
    ASSUME brief \in Briefs, pool \in Pools, pool.portrait # <<>>
    PROVE  Selection(Fallback) /\ (AllLong => Valid(Fallback))
<1> DEFINE N == Len(PortraitSlots)
           M == Len(BrollSlots)
           m == Smaller(brief.limit, M)
           p == Fallback.portrait
           b == Fallback.broll
<1>1. N \in Nat /\ DOMAIN PortraitSlots = 1..N
  BY PortraitSlotsSound
<1>2. M \in Nat /\ DOMAIN BrollSlots = 1..M
  BY BrollSlotsSound
<1>3. m \in Nat /\ m <= M
  BY <1>2, BriefSound DEF Smaller
<1>4. p = Picked[N] /\ Fallback.styled = TRUE
      /\ b = IF pool.broll = <<>> THEN <<>> ELSE [k \in 1..m |-> [slot |-> k, of |-> 1]]
  BY DEF Fallback
<1>5. Fair(N)
  BY PickedFair
<1> HIDE DEF N, M, m, p, b
<1>6. /\ p \in Seq(Choice) /\ Len(p) = N /\ DOMAIN p = 1..N
      /\ \A k \in 1..N : p[k].slot = k /\ p[k].of \in DOMAIN pool.portrait
      /\ AllLong => \A a : Uses(p, a) <= ReuseCap
  BY <1>1, <1>4, <1>5 DEF Fair, Windows, InCap
<1>7. KnownPicks(p, PortraitSlots, pool.portrait) /\ OncePerSlot(p)
  BY <1>1, <1>6 DEF KnownPicks, OncePerSlot
<1>8. b \in Seq(Choice) /\ KnownPicks(b, BrollSlots, pool.broll) /\ OncePerSlot(b)
  <2>1. CASE pool.broll = <<>>
    <3>1. b = <<>>
      BY <1>4, <2>1
    <3> QED BY <3>1 DEF KnownPicks, OncePerSlot
  <2>2. CASE pool.broll # <<>>
    <3>1. b = [k \in 1..m |-> [slot |-> k, of |-> 1]]
      BY <1>4, <2>2
    <3>2. 1 \in DOMAIN pool.broll
      <4>1. pool.broll \in Seq(Window)
        BY PoolSound
      <4> QED BY <4>1, <2>2
    <3>3. DOMAIN b = 1..m /\ \A k \in 1..m : b[k].slot = k /\ b[k].of = 1
      BY <3>1
    <3>4. \A k \in 1..m : [slot |-> k, of |-> 1] \in Choice
      BY <1>3 DEF Choice
    <3>5. b \in Seq(Choice)
      BY ONLY <1>3, <3>1, <3>4
    <3>6. \A k \in 1..m : k \in DOMAIN BrollSlots
      BY <1>2, <1>3
    <3> QED BY <3>2, <3>3, <3>5, <3>6 DEF KnownPicks, OncePerSlot
  <2> QED BY <2>1, <2>2
<1>9. Selection(Fallback)
  BY <1>6, <1>7, <1>8 DEF Selection, Fills, p, b, N
<1>10. ASSUME AllLong PROVE Valid(Fallback)
  <2>1. ASSUME NEW k \in DOMAIN p
        PROVE  /\ LongEnough(pool.portrait[p[k].of], PortraitSlots[p[k].slot])
               /\ Uses(p, pool.portrait[p[k].of].asset) <= ReuseCap
    <3>1. p[k].of \in DOMAIN pool.portrait /\ p[k].slot \in DOMAIN PortraitSlots
      BY <1>1, <1>6, <2>1
    <3>2. LongEnough(pool.portrait[p[k].of], PortraitSlots[p[k].slot])
      BY <3>1, <1>10 DEF AllLong, Range
    <3> QED BY <3>2, <1>6, <1>10
  <2> QED BY <2>1, <1>4, <1>6, <1>7, <1>8 DEF Valid, p, b, N
<1> QED BY <1>9, <1>10

(* A valid reply is a selection, and there is something to select.         *)
LEMMA ValidFills ==
    ASSUME brief \in Briefs, pool \in Pools, NEW reply \in Replies, Valid(reply)
    PROVE  Selection(reply) /\ pool.portrait # <<>>
<1>1. reply.portrait \in Seq(Choice) /\ reply.broll \in Seq(Choice)
  BY AgentConstants DEF Choice
<1>2. /\ KnownPicks(reply.portrait, PortraitSlots, pool.portrait)
      /\ OncePerSlot(reply.portrait) /\ Len(reply.portrait) = Len(PortraitSlots)
      /\ KnownPicks(reply.broll, BrollSlots, pool.broll) /\ OncePerSlot(reply.broll)
  BY DEF Valid
<1>3. Selection(reply)
  BY <1>1, <1>2 DEF Selection, Fills
<1>4. pool.portrait # <<>>
  <2>1. Len(reply.portrait) \in Nat /\ Len(reply.portrait) >= 1 /\ DOMAIN reply.portrait = 1..Len(reply.portrait)
    BY <1>1, <1>2, PortraitSlotsSound
  <2>2. 1 \in DOMAIN reply.portrait
    BY <2>1
  <2>3. reply.portrait[1].of \in DOMAIN pool.portrait
    BY <1>2, <2>2 DEF KnownPicks
  <2> QED BY <2>3
<1> QED BY <1>3, <1>4

-----------------------------------------------------------------------------
(* What a selection becomes: tracks that TimelinePlanning lets pass.       *)
LEMMA SelectionRenders ==
    ASSUME brief \in Briefs, pool \in Pools, Selection(choice)
    PROVE  /\ PortraitPlan # <<>> /\ Last(PortraitPlan).to = LastFrame /\ LastFrame > 0
           /\ PortraitPlan[1].from = 0
           /\ \A k \in 1..(Len(PortraitPlan) - 1) : PortraitPlan[k].to = PortraitPlan[k + 1].from
           /\ ValidTrack(PortraitPlan, LastFrame) /\ ValidTrack(FramesOf(BrollPlan), LastFrame)
           /\ \A k \in DOMAIN BrollPlan :
                 /\ BrollPlan[k].clip.from <= BrollPlan[k].source.from
                 /\ BrollPlan[k].source.to <= BrollPlan[k].clip.to
                 /\ BrollPlan[k].padStart \in 0..MaxPad /\ BrollPlan[k].padEnd \in 0..MaxPad
<1>1. /\ PortraitPlan # <<>> /\ LastFrame \in Nat /\ LastFrame > 0
      /\ PortraitPlan[1].from = 0 /\ Last(PortraitPlan).to = LastFrame
      /\ \A k \in 1..(Len(PortraitPlan) - 1) : PortraitPlan[k].to = PortraitPlan[k + 1].from
      /\ ValidTrack(PortraitPlan, LastFrame)
      /\ PortraitCuts # {} /\ IsFiniteSet(PortraitCuts) /\ PortraitCuts \subseteq 0..LastFrame
  BY PortraitCovers
<1>2. /\ Overlays \in Seq(Overlaid) /\ Follow(Overlays)
      /\ \A k \in DOMAIN Overlays : Lies(Overlays[k]) /\ Unpadded(Overlays[k])
  BY OverlaysLie
<1>3. BrollPlan = Align(PortraitCuts, Overlays)
  BY <1>1 DEF BrollPlan
<1> DEFINE new == Align(PortraitCuts, Overlays)
<1>4. /\ DOMAIN new = DOMAIN Overlays /\ ValidTrack(FramesOf(new), LastFrame)
      /\ \A k \in DOMAIN Overlays :
            /\ new[k].clip.from <= new[k].source.from /\ new[k].source.to <= new[k].clip.to
            /\ new[k].padStart \in 0..MaxPad /\ new[k].padEnd \in 0..MaxPad
  BY <1>1, <1>2, AlignedLie
<1> HIDE DEF new
<1>5. BrollPlan = new
  BY <1>3 DEF new
<1> QED BY ONLY <1>1, <1>4, <1>5

(* And, where the windows are long enough, with as many frames as shown.   *)
LEMMA SourcesFit ==
    ASSUME brief \in Briefs, pool \in Pools, Selection(choice),
           \A k \in DOMAIN choice.portrait :
              LongEnough(pool.portrait[choice.portrait[k].of], PortraitSlots[choice.portrait[k].slot])
    PROVE  \A k \in DOMAIN PortraitPlan :
              /\ FramesIn(PortraitPlan[k].source) = FramesIn(PortraitPlan[k])
              /\ PortraitPlan[k].source.to <= Frame(PortraitPlan[k].window.to)
<1> SUFFICES ASSUME NEW k \in DOMAIN PortraitPlan
             PROVE  /\ FramesIn(PortraitPlan[k].source) = FramesIn(PortraitPlan[k])
                    /\ PortraitPlan[k].source.to <= Frame(PortraitPlan[k].window.to)
  OBVIOUS
<1> DEFINE slot == PortraitSlots[k]
           item == PortraitPlan[k]
<1>1. /\ k \in DOMAIN PortraitSlots /\ item.from = slot.from /\ item.to = slot.to
      /\ item.source = Slice(item.window, FramesIn(slot))
  BY PortraitPlanSound
<1>2. PICK i \in DOMAIN choice.portrait :
         choice.portrait[i].slot = k /\ item.window = pool.portrait[choice.portrait[i].of]
  BY <1>1, PortraitPlanSound
<1>3. LongEnough(item.window, slot)
  BY <1>2
<1>4. item.window \in Window
  <2>1. pool.portrait \in Seq(Window)
    BY PoolSound
  <2>2. choice.portrait[i].of \in DOMAIN pool.portrait
    BY <1>2 DEF Selection, Fills, KnownPicks
  <2>3. pool.portrait[choice.portrait[i].of] \in Window
    BY ONLY <2>1, <2>2
  <2> QED BY <1>2, <2>3
<1>5. slot.from \in Nat /\ slot.to \in Nat /\ slot.from < slot.to
  BY <1>1, PortraitSlotsSound
<1> HIDE DEF slot, item
<1>6. FramesIn(slot) \in Nat /\ FramesIn(slot) > 0 /\ Available(item.window) >= FramesIn(slot)
  BY <1>3, <1>5 DEF FramesIn, LongEnough
<1>7. /\ FramesIn(Slice(item.window, FramesIn(slot))) = FramesIn(slot)
      /\ Slice(item.window, FramesIn(slot)).to <= Frame(item.window.to)
  BY <1>4, <1>6, SliceFits
<1>8. FramesIn(item.source) = FramesIn(item) /\ item.source.to <= Frame(item.window.to)
  BY <1>1, <1>7 DEF FramesIn
<1> QED BY <1>8 DEF item

-----------------------------------------------------------------------------
(* What is selected is a valid reply, or what the fallback selects; it was *)
(* rejected only if there was nothing to select.                           *)
Made == edit \in {"llm", "fallback", "ready", "invalid"}

Chosen ==
    \/ asked > 0 /\ choice \in Replies /\ Valid(choice)
    \/ asked = 0 /\ choice = Fallback

AgentInv ==
    /\ AgentTypeOK
    /\ Made => Chosen
    /\ edit = "invalid" => pool.portrait = <<>>

LEMMA ChosenFills ==
    ASSUME AgentInv, Made, pool.portrait # <<>>
    PROVE  Selection(choice)
BY ValidFills, FallbackFills DEF AgentInv, AgentTypeOK, Chosen

LEMMA AgentStarts == AgentInit => AgentInv
BY AgentConstants DEF AgentInit, AgentInv, AgentTypeOK, Made, NoChoice

-----------------------------------------------------------------------------
LEMMA SlotsStay ==
    ASSUME UNCHANGED <<brief, pool>>
    PROVE  PortraitSlots' = PortraitSlots /\ BrollSlots' = BrollSlots
<1>1. brief' = brief
  OBVIOUS
<1>2. PortraitSlots' = PortraitSlots
  BY <1>1 DEF PortraitSlots
<1>3. LastFrame' = LastFrame
  BY <1>1 DEF LastFrame
<1>4. SpokenFrames' = SpokenFrames
  BY <1>1, <1>3 DEF SpokenFrames
<1>5. BrollSlots' = BrollSlots
  BY <1>4 DEF BrollSlots
<1> QED BY <1>2, <1>5

LEMMA CapStays ==
    ASSUME UNCHANGED <<brief, pool>>
    PROVE  ReuseCap' = ReuseCap
<1>1. pool' = pool /\ PortraitSlots' = PortraitSlots
  BY SlotsStay
<1> QED BY <1>1 DEF ReuseCap

LEMMA ValidStays ==
    ASSUME UNCHANGED <<brief, pool>>, NEW reply, Valid(reply), choice' = reply
    PROVE  Valid(choice)'
<1>1. /\ PortraitSlots' = PortraitSlots /\ BrollSlots' = BrollSlots
      /\ ReuseCap' = ReuseCap /\ pool' = pool /\ choice' = reply
  BY SlotsStay, CapStays
<1> DEFINE picks == reply.portrait
<1>2. /\ KnownPicks(picks, PortraitSlots, pool.portrait)
      /\ OncePerSlot(picks) /\ Len(picks) = Len(PortraitSlots)
      /\ \A k \in DOMAIN picks :
            /\ LongEnough(pool.portrait[picks[k].of], PortraitSlots[picks[k].slot])
            /\ Uses(picks, pool.portrait[picks[k].of].asset) <= ReuseCap
      /\ KnownPicks(reply.broll, BrollSlots, pool.broll) /\ OncePerSlot(reply.broll)
      /\ reply.styled
  BY Zenon DEF Valid
<1>3. /\ KnownPicks(choice.portrait, PortraitSlots, pool.portrait)'
      /\ OncePerSlot(choice.portrait)' /\ Len(choice.portrait)' = Len(PortraitSlots)'
  BY <1>1, <1>2 DEF KnownPicks, OncePerSlot
<1>4. KnownPicks(choice.broll, BrollSlots, pool.broll)' /\ OncePerSlot(choice.broll)' /\ choice'.styled
  BY <1>1, <1>2 DEF KnownPicks, OncePerSlot
<1>5. \A k \in DOMAIN picks :
         /\ LongEnough(pool.portrait[picks[k].of], PortraitSlots[picks[k].slot])'
         /\ Uses(picks, pool.portrait[picks[k].of].asset)' <= ReuseCap'
  <2>1. \A window, slot : LongEnough(window, slot)' = LongEnough(window, slot)
    BY DEF LongEnough
  <2>2. \A asset : Uses(picks, asset)' = Uses(picks, asset)
    BY <1>1 DEF Uses
  <2> QED BY <1>1, <1>2, <2>1, <2>2
<1> QED BY <1>1, <1>3, <1>4, <1>5, <1>2 DEF Valid

LEMMA PickedStays ==
    ASSUME UNCHANGED <<brief, pool>>
    PROVE  Picked' = Picked
<1>1. PortraitSlots' = PortraitSlots /\ ReuseCap' = ReuseCap /\ pool' = pool /\ brief' = brief
  BY SlotsStay, CapStays
<1> QED BY <1>1 DEF Picked, PickFor, LongEnough, Uses

LEMMA FallbackStays ==
    ASSUME UNCHANGED <<brief, pool>>
    PROVE  Fallback' = Fallback
<1>1. /\ PortraitSlots' = PortraitSlots /\ BrollSlots' = BrollSlots /\ Picked' = Picked
      /\ pool' = pool /\ brief' = brief
  BY SlotsStay, PickedStays
<1> QED BY <1>1 DEF Fallback

-----------------------------------------------------------------------------
LEMMA AskKeeps == AgentInv /\ AskAgent => AgentInv'
<1> SUFFICES ASSUME AgentInv, AskAgent PROVE AgentInv'
  OBVIOUS
<1>1. /\ edit = "asking" /\ asked <= MaxRepairs /\ asked' = asked + 1 /\ brief' = brief /\ pool' = pool
      /\ asked \in 0..(MaxRepairs + 1) /\ MaxRepairs \in Nat
      /\ brief \in Briefs /\ pool \in Pools /\ choice \in Replies \cup {NoChoice, Fallback}
  BY AgentConstants DEF AskAgent, AgentInv, AgentTypeOK
<1>2. PICK reply \in Replies :
         IF Valid(reply)
         THEN choice' = reply /\ edit' = "llm"
         ELSE choice' = choice /\ edit' = IF asked = MaxRepairs THEN "failed" ELSE "asking"
  BY DEF AskAgent
<1>3. asked' \in 0..(MaxRepairs + 1) /\ asked' > 0
  BY ONLY <1>1
<1>4. Fallback' = Fallback
  BY <1>1, FallbackStays
<1>5. CASE Valid(reply)
  <2>1. Valid(choice)'
    BY <1>1, <1>2, <1>5, ValidStays
  <2> QED BY <1>1, <1>2, <1>3, <1>5, <2>1 DEF AgentInv, AgentTypeOK, Made, Chosen
<1>6. CASE ~Valid(reply)
  <2>1. choice' = choice /\ edit' \in {"failed", "asking"}
    BY <1>2, <1>6
  <2>2. choice' \in Replies \cup {NoChoice, Fallback}'
    BY <1>1, <1>4, <2>1 DEF NoChoice
  <2> QED BY <1>1, <1>3, <2>1, <2>2 DEF AgentInv, AgentTypeOK, Made
<1> QED BY <1>5, <1>6

LEMMA FailKeeps == AgentInv /\ ProviderFails => AgentInv'
<1> SUFFICES ASSUME AgentInv, ProviderFails PROVE AgentInv'
  OBVIOUS
<1>1. edit' = "failed" /\ brief' = brief /\ pool' = pool /\ asked' = asked /\ choice' = choice
  BY DEF ProviderFails
<1>2. Fallback' = Fallback
  BY <1>1, FallbackStays
<1> QED BY <1>1, <1>2 DEF AgentInv, AgentTypeOK, Made, NoChoice

LEMMA NoProviderKeeps == AgentInv /\ NoProvider => AgentInv'
<1> SUFFICES ASSUME AgentInv, NoProvider PROVE AgentInv'
  OBVIOUS
<1>1. /\ edit' = "fallback" /\ brief' = brief /\ pool' = pool /\ asked' = asked /\ asked = 0
      /\ choice' = Fallback
  BY DEF NoProvider
<1>2. Fallback' = Fallback
  BY <1>1, FallbackStays
<1> QED BY <1>1, <1>2 DEF AgentInv, AgentTypeOK, Made, Chosen

(* TimelinePlanning rejects nothing but nothing.                           *)
LEMMA VerifyKeeps == AgentInv /\ VerifyTracks => AgentInv'
<1> SUFFICES ASSUME AgentInv, VerifyTracks PROVE AgentInv'
  OBVIOUS
<1>1. /\ edit \in {"llm", "fallback"}
      /\ brief' = brief /\ pool' = pool /\ asked' = asked /\ choice' = choice
      /\ edit' \in {"ready", "invalid"}
  BY DEF VerifyTracks
<1>2. Fallback' = Fallback
  BY <1>1, FallbackStays
<1>3. AgentTypeOK'
  BY <1>1, <1>2 DEF AgentInv, AgentTypeOK, NoChoice
<1>4. Chosen
  BY <1>1 DEF AgentInv, Made
<1>5. Chosen'
  <2>1. CASE asked > 0 /\ choice \in Replies /\ Valid(choice)
    <3>1. Valid(choice)'
      BY <1>1, <2>1, ValidStays
    <3> QED BY <1>1, <2>1, <3>1 DEF Chosen
  <2>2. CASE asked = 0 /\ choice = Fallback
    BY <1>1, <1>2, <2>2 DEF Chosen
  <2> QED BY <1>4, <2>1, <2>2 DEF Chosen
<1>6. ASSUME pool.portrait # <<>> PROVE edit' = "ready"
  <2>1. Selection(choice)
    BY <1>1, <1>6, ChosenFills DEF Made
  <2>2. brief \in Briefs /\ pool \in Pools
    BY DEF AgentInv, AgentTypeOK
  <2>3. /\ PortraitPlan # <<>> /\ Last(PortraitPlan).to = LastFrame /\ LastFrame > 0
        /\ ValidTrack(PortraitPlan, LastFrame) /\ ValidTrack(FramesOf(BrollPlan), LastFrame)
    BY <2>1, <2>2, SelectionRenders
  <2>4. edit' = IF /\ LastFrame > 0
                   /\ ValidTrack(PortraitPlan, LastFrame) /\ ValidTrack(FramesOf(BrollPlan), LastFrame)
                THEN "ready" ELSE "invalid"
    BY <2>3 DEF VerifyTracks
  <2> QED BY ONLY <2>3, <2>4
<1> QED BY <1>1, <1>3, <1>5, <1>6 DEF AgentInv

LEMMA AgentKeeps == AgentInv /\ [AgentNext]_agentVars => AgentInv'
<1> SUFFICES ASSUME AgentInv, [AgentNext]_agentVars PROVE AgentInv'
  OBVIOUS
<1>1. CASE AskAgent
  BY <1>1, AskKeeps
<1>2. CASE ProviderFails
  BY <1>2, FailKeeps
<1>3. CASE NoProvider
  BY <1>3, NoProviderKeeps
<1>4. CASE VerifyTracks
  BY <1>4, VerifyKeeps
<1>5. CASE UNCHANGED agentVars
  <2>1. brief' = brief /\ pool' = pool /\ asked' = asked /\ choice' = choice /\ edit' = edit
    BY <1>5 DEF agentVars
  <2>2. Fallback' = Fallback
    BY <2>1, FallbackStays
  <2>3. AgentTypeOK' /\ (edit' = "invalid" => pool'.portrait = <<>>)
    BY <2>1, <2>2 DEF AgentInv, AgentTypeOK, NoChoice
  <2>4. Made' => Chosen'
    <3> SUFFICES ASSUME Made' PROVE Chosen'
      OBVIOUS
    <3>1. Chosen
      BY <2>1 DEF AgentInv, Made
    <3>2. CASE asked > 0 /\ choice \in Replies /\ Valid(choice)
      <4>1. Valid(choice)'
        BY <2>1, <3>2, ValidStays
      <4> QED BY <2>1, <3>2, <4>1 DEF Chosen
    <3>3. CASE asked = 0 /\ choice = Fallback
      BY <2>1, <2>2, <3>3 DEF Chosen
    <3> QED BY <3>1, <3>2, <3>3 DEF Chosen
  <2> QED BY <2>3, <2>4 DEF AgentInv
<1> QED BY <1>1, <1>2, <1>3, <1>4, <1>5 DEF AgentNext

(* Without portrait windows no portrait is planned.                        *)
LEMMA EmptyPlan ==
    ASSUME AgentInv, Made, pool.portrait = <<>>
    PROVE  PortraitPlan = <<>>
<1>1. choice = Fallback
  BY ValidFills DEF AgentInv, AgentTypeOK, Chosen
<1>2. choice.portrait = <<>>
  BY <1>1 DEF Fallback
<1>3. Filled = Rising({})
  BY <1>2 DEF Filled
<1>4. DOMAIN Rising({}) = 1..0
  <2>1. Cardinality({}) = 0 /\ IsFiniteSet({})
    BY FS_EmptySet
  <2> QED BY <2>1, RisingIs
<1>5. DOMAIN PortraitPlan = 1..0
  BY <1>3, <1>4 DEF PortraitPlan
<1> QED BY <1>5 DEF PortraitPlan

LEMMA InvRenders == AgentInv => AgentRenders
<1> SUFFICES ASSUME AgentInv PROVE AgentRenders
  OBVIOUS
<1>1. brief \in Briefs /\ pool \in Pools
  BY DEF AgentInv, AgentTypeOK
<1>2. ASSUME Made, pool.portrait # <<>>
      PROVE  /\ edit # "invalid"
             /\ PortraitPlan[1].from = 0 /\ Last(PortraitPlan).to = LastFrame
             /\ \A k \in 1..(Len(PortraitPlan) - 1) : PortraitPlan[k].to = PortraitPlan[k + 1].from
             /\ \A k \in DOMAIN BrollPlan :
                   /\ BrollPlan[k].clip.from <= BrollPlan[k].source.from
                   /\ BrollPlan[k].source.to <= BrollPlan[k].clip.to
                   /\ BrollPlan[k].padStart \in 0..MaxPad /\ BrollPlan[k].padEnd \in 0..MaxPad
  <2>1. Selection(choice)
    BY <1>2, ChosenFills
  <2>2. edit # "invalid"
    BY <1>2 DEF AgentInv
  <2> QED BY <1>1, <2>1, <2>2, SelectionRenders
<1>3. ASSUME Made, asked > 0 \/ AllLong
      PROVE  \A k \in DOMAIN PortraitPlan :
                /\ FramesIn(PortraitPlan[k].source) = FramesIn(PortraitPlan[k])
                /\ PortraitPlan[k].source.to <= Frame(PortraitPlan[k].window.to)
  <2>1. CASE pool.portrait = <<>>
    BY <1>3, <2>1, EmptyPlan
  <2>2. CASE pool.portrait # <<>>
    <3>1. Selection(choice)
      BY <1>3, <2>2, ChosenFills
    <3>2. \A k \in DOMAIN choice.portrait :
             LongEnough(pool.portrait[choice.portrait[k].of], PortraitSlots[choice.portrait[k].slot])
      <4>1. CASE Valid(choice)
        BY <4>1 DEF Valid
      <4>2. CASE ~Valid(choice)
        <5>1. AllLong
          <6>1. Chosen /\ asked \in 0..(MaxRepairs + 1)
            BY <1>3 DEF AgentInv, AgentTypeOK
          <6> QED BY <6>1, <1>3, <4>2 DEF Chosen
        <5> QED BY <5>1, <3>1 DEF AllLong, Range, Selection, Fills, KnownPicks
      <4> QED BY <4>1, <4>2
    <3> QED BY <1>1, <3>1, <3>2, SourcesFit
  <2> QED BY <2>1, <2>2
<1>4. AllLong /\ pool.portrait # <<>> => Valid(Fallback)
  BY <1>1, FallbackFills
<1> QED BY <1>2, <1>3, <1>4 DEF AgentRenders, Made, AllLong

(* Whatever the model answers and however often it is asked, and whatever  *)
(* the pool holds: what is accepted is a timeline that covers the          *)
(* narration, whose sources fit, and which TimelinePlanning lets pass      *)
(* (select_with_repair, deterministic_selection, materialize_portrait,     *)
(* materialize_broll and align_insertions_to_portrait_cuts).               *)
THEOREM AgentAlwaysRenders == AgentSpec => []AgentRenders
<1>1. AgentInit => AgentInv
  BY AgentStarts
<1>2. AgentInv /\ [AgentNext]_agentVars => AgentInv'
  BY AgentKeeps
<1>3. AgentInv => AgentRenders
  BY InvRenders
<1> QED BY <1>1, <1>2, <1>3, PTL DEF AgentSpec
=============================================================================

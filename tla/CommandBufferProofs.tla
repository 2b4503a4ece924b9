------------------------ MODULE CommandBufferProofs ------------------------
(***************************************************************************)
(* Proofs about CommandBuffer, for every set of pointer values and threads *)
(* and every bound.                                                        *)
(***************************************************************************)
EXTENDS CommandBuffer, DagProofs

-----------------------------------------------------------------------------
(***************************************************************************)
(* Recording.                                                              *)
(***************************************************************************)

\* Nothing is recorded at first, and nothing is mapped.
LEMMA InitIInv == Init => IInv
<1> SUFFICES ASSUME Init PROVE IInv
  OBVIOUS
<1> USE BoundsAssumption
<1>1. Recorded = {} /\ \A i : NodesOf(i) = {} /\ Back(i) = {}
  BY DEF Init, Recorded, NodesOf, Back
<1>2. TypeOK
  <2>1. call \in [Thread -> Calls] /\ process \in {"running", "ended", "aborted"}
    BY DEF Init, Calls
  <2>2. MSyncPointMap \in [Instance -> [SyncPoint -> Node \cup {NoNode}]]
    BY DEF Init
  <2>3. /\ instances \in 0 .. MaxInstances /\ MNodes \in 0 .. MaxNodes
        /\ issued \in [CLCommandBuffer -> 0 .. MaxNodes]
    BY DEF Init
  <2>4. /\ MLastBarrier \in [Instance -> Node \cup {NoNode}]
        /\ MLeaves \in [Instance -> SUBSET Node]
        /\ MInstance \in [Node -> Instance \cup {NoInstance}]
        /\ MPreds \in [Node -> SUBSET Node]
    BY DEF Init
  <2>5. /\ refs \in [CLCommandBuffer -> Int] /\ held \in [CLCommandBuffer -> Nat]
        /\ born \in [CLCommandBuffer -> Instance \cup {NoInstance}]
        /\ MCommandBufferInstanceMap \in [CLCommandBuffer -> Instance \cup {NoInstance}]
    BY DEF Init
  <2>6. printed \in Prints
    BY DEF Init, Prints, Nothing
  <2> QED
    BY <2>1, <2>2, <2>3, <2>4, <2>5, <2>6 DEF Init, TypeOK
<1>3. Wellformed /\ Covered /\ OrderIsKept
  BY <1>1 DEF Init, Wellformed, Covered, Under, OrderIsKept
<1>4. LiveEntries /\ MDefined = {}
  BY DEF Init, LiveEntries
<1> QED
  BY <1>2, <1>3, <1>4 DEF IInv

\* What the driver, the map and the calls do disturbs no graph; an instance
\* that is new has no nodes yet.
LEMMA GraphKept ==
  ASSUME IInv, UNCHANGED <<graphVars, MDefined>>,
         instances' \in 0 .. MaxInstances, instances <= instances',
         deleted' \subseteq 1 .. instances',
         \A i \in 1 .. instances : MIsInOrder'[i] = MIsInOrder[i]
  PROVE  Wellformed' /\ Covered' /\ OrderIsKept' /\ MDefined' = {}
<1> USE BoundsAssumption
<1>1. /\ Recorded' = Recorded /\ Node' = Node /\ Instance' = Instance
      /\ \A i : NodesOf(i)' = NodesOf(i) /\ Back(i)' = Back(i)
  BY DEF graphVars, Recorded, Node, Instance, NodesOf, Back
<1>2. instances \in 0 .. MaxInstances /\ 1 .. instances \subseteq 1 .. instances'
  BY DEF IInv, TypeOK
<1>3. Wellformed'
  BY <1>1, <1>2 DEF IInv, Wellformed, graphVars
<1>4. Covered'
  <2>1. ASSUME NEW i \in Instance, MIsInOrder'[i]
        PROVE  Under(Back(i), NodesOf(i))
    <3>1. CASE i \in 1 .. instances
      BY <2>1, <3>1 DEF IInv, Covered
    <3>2. CASE i \notin 1 .. instances
      <4>1. NodesOf(i) = {}
        BY <3>2 DEF IInv, Wellformed, NodesOf
      <4> QED
        BY <4>1 DEF Under
    <3> QED
      BY <3>1, <3>2
  <2> QED
    BY <1>1, <2>1 DEF IInv, Covered, Under, graphVars
<1>5. OrderIsKept'
  BY <1>1 DEF IInv, Wellformed, OrderIsKept, graphVars
<1> QED
  BY <1>3, <1>4, <1>5 DEF IInv

\* A thread that goes to another step of a call keeps the type of `call'.
LEMMA GotoType ==
  ASSUME TypeOK, NEW t \in Thread, NEW c \in Calls, Goto(t, c)
  PROVE  call' \in [Thread -> Calls]
  BY DEF TypeOK, Goto

\* The steps a call may go to.
LEMMA CallTypes ==
  ASSUME NEW p \in CLCommandBuffer, NEW last \in BOOLEAN
  PROVE  /\ {Idle, Mapping(p), Releasing(p, last), Destroying(p)} \subseteq Calls
         /\ Calls' = Calls
  BY DEF Calls, Idle, Mapping, Releasing, Destroying

\* A step of the driver or of the application, or one on which a call fails:
\* the context and its graphs are as before.
LEMMA QuietPreserves ==
  ASSUME IInv, printed' \in Prints,
         UNCHANGED <<MCommandBufferInstanceMap, instanceVars, graphVars, MDefined>>,
         refs' \in [CLCommandBuffer -> Int],
         issued' \in [CLCommandBuffer -> 0 .. MaxNodes],
         held' \in [CLCommandBuffer -> Nat],
         born' \in [CLCommandBuffer -> Instance \cup {NoInstance}],
         faulted' \in BOOLEAN, call' \in [Thread -> Calls],
         process' \in {"running", "ended", "aborted"}
  PROVE  IInv'
<1>1. Node' = Node /\ Instance' = Instance /\ SyncPoint' = SyncPoint /\ Calls' = Calls
  BY DEF Node, Instance, SyncPoint, Calls, Idle, Mapping, Releasing, Destroying
<1>2. TypeOK'
  BY <1>1 DEF IInv, TypeOK, Prints, instanceVars, graphVars
<1>3. Wellformed' /\ Covered' /\ OrderIsKept' /\ MDefined' = {}
  BY GraphKept DEF instanceVars, IInv, TypeOK, Wellformed
<1>4. LiveEntries'
  BY DEF IInv, LiveEntries, instanceVars
<1> QED
  BY <1>2, <1>3, <1>4 DEF IInv

\* A node joins the graph of an instance with an edge from its last barrier,
\* and from its last node if it is in-order.
LEMMA RecordPreserves ==
  ASSUME IInv, printed' \in Prints, MNodes < MaxNodes,
         NEW p \in CLCommandBuffer, NEW i \in 1 .. instances,
         NEW P \in SUBSET NodesOf(i), {MLastBarrier[i]} \ {NoNode} \subseteq P,
         MIsInOrder[i] => Back(i) \subseteq P,
         NEW isBarrier \in BOOLEAN, NodePostCreation(p, i, P, isBarrier),
         UNCHANGED <<MCommandBufferInstanceMap, instanceVars, MDefined, refs, held,
                     born, faulted, call, process>>,
         issued' \in [CLCommandBuffer -> 0 .. MaxNodes]
  PROVE  IInv'
<1> USE BoundsAssumption
<1> DEFINE k == MNodes
<1>1. /\ k \in Node /\ k \notin Recorded /\ i \in Instance /\ P \subseteq Recorded
      /\ Recorded \subseteq Node /\ Recorded' = Recorded \cup {k}
      /\ Node' = Node /\ Instance' = Instance /\ SyncPoint' = SyncPoint
      /\ NoNode \notin Node /\ \A n \in Recorded : n < k /\ n \in Int
  BY DEF IInv, TypeOK, NodePostCreation, Node, Instance, SyncPoint, NoNode,
         Recorded, NodesOf
<1>2. TypeOK'
  <2>1. /\ MNodes' \in 0 .. MaxNodes
        /\ MInstance' \in [Node -> Instance \cup {NoInstance}]
        /\ MPreds' \in [Node -> SUBSET Node]
        /\ MBarrier' \in [Node -> BOOLEAN]
    BY <1>1 DEF IInv, TypeOK, NodePostCreation
  <2>2. /\ MLeaves' \in [Instance -> SUBSET Node]
        /\ MLastBarrier' \in [Instance -> Node \cup {NoNode}]
    BY <1>1 DEF IInv, TypeOK, NodePostCreation, LeavesAfter
  <2>3. SyncPointsAfter(p, i) \in [SyncPoint -> Node \cup {NoNode}]
    BY <1>1 DEF IInv, TypeOK, SyncPointsAfter
  <2>4. MSyncPointMap' \in [Instance -> [SyncPoint -> Node \cup {NoNode}]]
    BY <1>1, <2>3 DEF IInv, TypeOK, NodePostCreation
  <2> QED
    BY <1>1, <2>1, <2>2, <2>4 DEF IInv, TypeOK, instanceVars, Calls, Idle, Mapping,
                                  Releasing, Destroying
<1>3. /\ MPreds'[k] = P /\ \A n \in Recorded : MPreds'[n] = MPreds[n]
      /\ \A n \in Node \ Recorded' : MPreds'[n] = MPreds[n]
      /\ MInstance'[k] = i /\ \A n \in Recorded : MInstance'[n] = MInstance[n]
      /\ MBarrier'[k] = isBarrier /\ \A n \in Recorded : MBarrier'[n] = MBarrier[n]
  BY <1>1 DEF IInv, TypeOK, NodePostCreation
<1>4. ASSUME NEW C \in SUBSET Node, Closed(C, MPreds')
      PROVE  Closed(C, MPreds) /\ (k \in C => P \subseteq C)
  <2>1. MPreds[k] = {} /\ \A n \in Node : n # k => MPreds'[n] = MPreds[n]
    BY <1>1, <1>3 DEF IInv, Wellformed
  <2> QED
    BY <1>3, <1>4, <2>1 DEF Closed
<1>5. /\ NodesOf(i)' = NodesOf(i) \cup {k} /\ Back(i)' = {k}
      /\ \A j \in Instance : j # i => NodesOf(j)' = NodesOf(j) /\ Back(j)' = Back(j)
  <2>1. /\ NodesOf(i)' = NodesOf(i) \cup {k}
        /\ \A j \in Instance : j # i => NodesOf(j)' = NodesOf(j)
    BY <1>1, <1>3 DEF NodesOf
  <2>2. k \in Int /\ \A n \in NodesOf(i) : n \in Int /\ n < k
    BY <1>1 DEF NodesOf, Node
  <2>3. Back(i)' = {k}
    <3>1. k \in NodesOf(i)' /\ \A m \in NodesOf(i)' : m <= k
      BY <2>1, <2>2
    <3>2. ASSUME NEW n \in NodesOf(i)', \A m \in NodesOf(i)' : m <= n
          PROVE  n = k
      BY <2>1, <2>2, <3>1, <3>2
    <3> QED
      BY <3>1, <3>2 DEF Back
  <2> QED
    BY <2>1, <2>3 DEF Back
<1>6. /\ MLeaves'[i] = (MLeaves[i] \ P) \cup {k}
      /\ MLastBarrier'[i] = IF isBarrier THEN k ELSE MLastBarrier[i]
      /\ \A j \in Instance : j # i => /\ MLeaves'[j] = MLeaves[j]
                                      /\ MLastBarrier'[j] = MLastBarrier[j]
                                      /\ MSyncPointMap'[j] = MSyncPointMap[j]
      /\ \A s \in SyncPoint : MSyncPointMap'[i][s] \in {MSyncPointMap[i][s], k}
  BY <1>1 DEF IInv, TypeOK, NodePostCreation, LeavesAfter, SyncPointsAfter
<1>7. Wellformed'
  <2>1. ASSUME NEW n \in Recorded'
        PROVE  /\ MInstance'[n] \in 1 .. instances'
               /\ MPreds'[n] \subseteq {m \in NodesOf(MInstance[n])' : m < n}
    <3>1. CASE n = k
      BY <1>1, <1>3, <1>5, <3>1 DEF instanceVars, NodesOf
    <3>2. CASE n \in Recorded
      <4>1. /\ MInstance[n] \in Instance /\ MInstance[n] \in 1 .. instances
            /\ MPreds[n] \subseteq {m \in NodesOf(MInstance[n]) : m < n}
        BY <3>2 DEF IInv, TypeOK, Wellformed, Instance
      <4>2. NodesOf(MInstance[n]) \subseteq NodesOf(MInstance[n])'
        BY <1>1, <1>3, <3>2 DEF NodesOf
      <4> QED
        BY <1>3, <3>2, <4>1, <4>2 DEF instanceVars
    <3> QED
      BY <1>1, <3>1, <3>2
  <2>2. \A n \in Node \ Recorded' : MPreds'[n] = {}
    BY <1>1, <1>3 DEF IInv, Wellformed
  <2>3. ASSUME NEW j \in Instance
        PROVE  /\ MLeaves'[j] \subseteq NodesOf(j)'
               /\ MLastBarrier'[j] \in {n \in NodesOf(j)' : MBarrier'[n]} \cup {NoNode}
               /\ \A s \in SyncPoint : MSyncPointMap'[j][s] \in NodesOf(j)' \cup {NoNode}
    <3>1. /\ MLeaves[j] \subseteq NodesOf(j)
          /\ MLastBarrier[j] \in {n \in NodesOf(j) : MBarrier[n]} \cup {NoNode}
          /\ \A s \in SyncPoint : MSyncPointMap[j][s] \in NodesOf(j) \cup {NoNode}
      BY DEF IInv, Wellformed
    <3>2. /\ NodesOf(j) \subseteq NodesOf(j)'
          /\ \A n \in NodesOf(j) : MBarrier'[n] = MBarrier[n]
          /\ j = i => k \in NodesOf(j)' /\ MBarrier'[k] = isBarrier
      BY <1>3, <1>5 DEF NodesOf
    <3> HIDE DEF k
    <3> QED
      BY <1>6, <3>1, <3>2
  <2> QED
    BY <1>1, <2>1, <2>2, <2>3 DEF Wellformed, instanceVars, IInv
<1>8. Covered'
  <2> DEFINE barriers(j) == {n \in NodesOf(j) : MBarrier[n]}
  <2>1. /\ Under(MLeaves[i], NodesOf(i))
        /\ MIsInOrder[i] => Under(Back(i), NodesOf(i))
        /\ Under({MLastBarrier[i]} \ {NoNode}, barriers(i))
    BY <1>1 DEF IInv, Covered
  <2>2. Under(MLeaves[i], NodesOf(i))'
    BY <1>1, <1>4, <1>5, <1>6, <2>1 DEF Under
  <2>3. MIsInOrder'[i] => Under(Back(i), NodesOf(i))'
    BY <1>1, <1>4, <1>5, <2>1 DEF Under, instanceVars
  <2>4. Under({MLastBarrier[i]} \ {NoNode}, barriers(i))'
    <3>1. CASE isBarrier
      <4>1. barriers(i)' = barriers(i) \cup {k}
        BY <1>1, <1>3, <1>5, <3>1 DEF NodesOf
      <4>2. {MLastBarrier'[i]} \ {NoNode} = {k}
        BY <1>1, <1>6, <3>1
      <4> QED
        BY <1>1, <1>4, <2>1, <4>1, <4>2 DEF Under
    <3>2. CASE ~ isBarrier
      <4>1. barriers(i)' = barriers(i) /\ MLastBarrier'[i] = MLastBarrier[i]
        BY <1>1, <1>3, <1>5, <1>6, <3>2 DEF NodesOf
      <4> QED
        BY <1>1, <1>4, <2>1, <4>1 DEF Under
    <3> QED
      BY <3>1, <3>2
  <2>5. ASSUME NEW j \in Instance, j # i
        PROVE  /\ Under(MLeaves[j], NodesOf(j))'
               /\ MIsInOrder'[j] => Under(Back(j), NodesOf(j))'
               /\ Under({MLastBarrier[j]} \ {NoNode}, barriers(j))'
    <3>1. /\ NodesOf(j)' = NodesOf(j) /\ Back(j)' = Back(j)
          /\ MLeaves'[j] = MLeaves[j] /\ MLastBarrier'[j] = MLastBarrier[j]
          /\ MIsInOrder'[j] = MIsInOrder[j]
      BY <1>5, <1>6, <2>5 DEF instanceVars
    <3>2. barriers(j)' = barriers(j)
      BY <1>3, <3>1 DEF NodesOf
    <3>3. /\ Under(MLeaves[j], NodesOf(j))
          /\ MIsInOrder[j] => Under(Back(j), NodesOf(j))
          /\ Under({MLastBarrier[j]} \ {NoNode}, barriers(j))
      BY DEF IInv, Covered
    <3> QED
      BY <1>1, <1>4, <3>1, <3>2, <3>3 DEF Under
  <2> QED
    BY <1>1, <2>2, <2>3, <2>4, <2>5 DEF Covered
<1>9. MPreds \in [Node -> SUBSET Node] /\ MPreds' \in [Node -> SUBSET Node]
  BY <1>1, <1>2 DEF IInv, TypeOK
<1>10. ASSUME NEW n \in Recorded
       PROVE  Ancestors(n, MPreds) \subseteq Ancestors(n, MPreds')
  <2>1. n \in Node /\ MPreds'[n] = MPreds[n]
    BY <1>1, <1>3
  <2>2. /\ Ancestors(n, MPreds') \in SUBSET Node
        /\ MPreds[n] \subseteq Ancestors(n, MPreds')
        /\ Closed(Ancestors(n, MPreds'), MPreds')
    BY <1>9, <2>1, AncestorsFacts
  <2>3. \A C \in SUBSET Node :
          MPreds[n] \subseteq C /\ Closed(C, MPreds) => Ancestors(n, MPreds) \subseteq C
    BY <1>9, <2>1, AncestorsFacts
  <2> QED
    BY <1>4, <2>2, <2>3
<1>11. /\ Ancestors(k, MPreds') \in SUBSET Node /\ P \subseteq Ancestors(k, MPreds')
       /\ Closed(Ancestors(k, MPreds'), MPreds)
  <2>1. /\ Ancestors(k, MPreds') \in SUBSET Node
        /\ MPreds'[k] \subseteq Ancestors(k, MPreds')
        /\ Closed(Ancestors(k, MPreds'), MPreds')
    BY <1>1, <1>9, AncestorsFacts
  <2> QED
    BY <1>3, <1>4, <2>1
<1>12. OrderIsKept'
  <2> SUFFICES ASSUME NEW m \in Recorded', NEW n \in Recorded', m < n,
                      MInstance'[m] = MInstance'[n],
                      MIsInOrder'[MInstance'[n]] \/ MBarrier'[m]
               PROVE  m \in Ancestors(n, MPreds')
    BY DEF OrderIsKept
  <2>1. m \in Recorded /\ MBarrier'[m] = MBarrier[m] /\ MIsInOrder' = MIsInOrder
    BY <1>1, <1>3 DEF Recorded, instanceVars, NodePostCreation, IInv, TypeOK
  <2>2. CASE n = k
    <3>1. m \in NodesOf(i) /\ (MIsInOrder[i] \/ MBarrier[m])
      BY <1>3, <2>1, <2>2 DEF NodesOf
    <3>2. CASE MIsInOrder[i]
      <4>1. Back(i) \subseteq P /\ Under(Back(i), NodesOf(i))
        BY <1>1, <3>2 DEF IInv, Covered
      <4> QED
        BY <1>11, <2>2, <3>1, <4>1 DEF Under
    <3>3. CASE MBarrier[m]
      <4>1. Under({MLastBarrier[i]} \ {NoNode}, {x \in NodesOf(i) : MBarrier[x]})
        BY <1>1 DEF IInv, Covered
      <4> QED
        BY <1>11, <2>2, <3>1, <3>3, <4>1 DEF Under
    <3> QED
      BY <3>1, <3>2, <3>3
  <2>3. CASE n # k
    <3>1. n \in Recorded
      BY <1>1, <2>3
    <3>2. m \in Ancestors(n, MPreds)
      BY <1>3, <2>1, <3>1 DEF IInv, OrderIsKept
    <3> QED
      BY <1>10, <3>1, <3>2
  <2> QED
    BY <2>2, <2>3
<1>13. LiveEntries' /\ MDefined' = {}
  BY DEF IInv, LiveEntries, instanceVars
<1> QED
  BY <1>2, <1>7, <1>8, <1>12, <1>13 DEF IInv

\* What a command waits for are nodes of the instance of its command-buffer,
\* and include those that stand for its last barrier and its last node.
LEMMA AddPreserves ==
  ASSUME IInv, printed' \in Prints, NEW t \in Thread, NEW p \in CLCommandBuffer,
         NEW D \in SUBSET Known(p), Add(t, p, D)
  PROVE  IInv'
<1> USE BoundsAssumption
<1> DEFINE i == MCommandBufferInstanceMap[p]
<1>1. CASE AddAborts(t, p, D)
  <2>1. issued' \in [CLCommandBuffer -> 0 .. MaxNodes]
    BY <1>1 DEF AddAborts, Accepted, IInv, TypeOK
  <2> QED
    BY <1>1, <2>1, QuietPreserves DEF AddAborts, Accepted, IInv, TypeOK
<1>2. CASE AddCommand(t, p, D) \/ AddBarrier(t, p, D)
  <2>1. /\ MNodes < MaxNodes /\ ~ Asserts(p, D)
        /\ UNCHANGED <<MCommandBufferInstanceMap, instanceVars, MDefined, refs, held,
                       born, faulted, call, process>>
        /\ issued[p] < MaxNodes /\ issued' = [issued EXCEPT ![p] = @ + 1]
    BY <1>2 DEF AddCommand, AddBarrier, Accepted
  <2>2. issued' \in [CLCommandBuffer -> 0 .. MaxNodes]
    BY <2>1 DEF IInv, TypeOK
  <2>3. i \in 1 .. instances /\ i \in Instance
    BY <2>1 DEF Asserts, IInv, LiveEntries, TypeOK, Instance
  <2>4. D \subseteq SyncPoint
    BY DEF Known, SyncPoint, IInv, TypeOK
  <2>5. /\ NodePreCreation(i, D) \subseteq NodesOf(i)
        /\ {MLastBarrier[i]} \ {NoNode} \subseteq NodePreCreation(i, D)
        /\ MIsInOrder[i] => Back(i) \subseteq NodePreCreation(i, D)
    BY <2>3, <2>4 DEF NodePreCreation, Back, IInv, Wellformed, NodesOf, Recorded,
                      NoNode
  <2>6. NodePreCreation(i, D) \subseteq BarrierPreds(i, D) /\ BarrierPreds(i, D) \subseteq NodesOf(i)
    BY <2>3, <2>5 DEF BarrierPreds, IInv, Wellformed
  <2>7. CASE AddCommand(t, p, D)
    <3>1. NodePostCreation(p, i, NodePreCreation(i, D), FALSE)
      BY <2>7 DEF AddCommand
    <3> QED
      BY <2>1, <2>2, <2>3, <2>5, <3>1, RecordPreserves
  <2>8. CASE AddBarrier(t, p, D)
    <3>1. NodePostCreation(p, i, BarrierPreds(i, D), TRUE)
      BY <2>8 DEF AddBarrier
    <3>2. /\ {MLastBarrier[i]} \ {NoNode} \subseteq BarrierPreds(i, D)
          /\ MIsInOrder[i] => Back(i) \subseteq BarrierPreds(i, D)
      BY <2>5, <2>6
    <3> QED
      BY <2>1, <2>2, <2>3, <2>6, <3>1, <3>2, RecordPreserves
  <2> QED
    BY <1>2, <2>7, <2>8
<1> QED
  BY <1>1, <1>2 DEF Add

-----------------------------------------------------------------------------
(***************************************************************************)
(* The life of command-buffers, for any number of threads.                 *)
(***************************************************************************)

\* Entries leave the map together with the instances that are deleted.
LEMMA UnmapPreserves ==
  ASSUME IInv, printed' \in Prints, NEW Q \in SUBSET CLCommandBuffer,
         deleted' = deleted \cup
           ({MCommandBufferInstanceMap[p] : p \in Q} \ {NoInstance}),
         MCommandBufferInstanceMap' =
           [p \in CLCommandBuffer |->
              IF p \in Q THEN NoInstance ELSE MCommandBufferInstanceMap[p]],
         UNCHANGED <<instances, MIsInOrder, graphVars, MDefined, driverVars, held,
                     born, faulted>>,
         call' \in [Thread -> Calls],
         process' \in {"running", "ended", "aborted"}
  PROVE  IInv'
<1>1. Node' = Node /\ Instance' = Instance /\ SyncPoint' = SyncPoint /\ Calls' = Calls
  BY DEF Node, Instance, SyncPoint, Calls, Idle, Mapping, Releasing, Destroying
<1>2. /\ deleted' \subseteq 1 .. instances' /\ deleted' \subseteq Instance
      /\ MCommandBufferInstanceMap' \in [CLCommandBuffer -> Instance \cup {NoInstance}]
  <2>1. \A p \in CLCommandBuffer : MCommandBufferInstanceMap[p] # NoInstance =>
          MCommandBufferInstanceMap[p] \in 1 .. instances
    BY DEF IInv, LiveEntries
  <2>2. 1 .. instances \subseteq Instance /\ deleted \subseteq 1 .. instances
    <3>1. instances \in 0 .. MaxInstances /\ deleted \subseteq 1 .. instances
      BY DEF IInv, TypeOK, Wellformed
    <3> QED
      BY <3>1, BoundsAssumption DEF Instance
  <2>3. deleted' \subseteq 1 .. instances
    BY <2>1, <2>2
  <2> QED
    BY <2>2, <2>3 DEF IInv, TypeOK
<1>3. TypeOK'
  <2>1. /\ MCommandBufferInstanceMap' \in [CLCommandBuffer -> Instance' \cup {NoInstance}]
        /\ deleted' \in SUBSET (Instance')
        /\ call' \in [Thread -> Calls']
        /\ process' \in {"running", "ended", "aborted"}
    BY <1>1, <1>2
  <2>2. /\ instances' \in 0 .. MaxInstances
        /\ MIsInOrder' \in [Instance' -> BOOLEAN]
        /\ held' \in [CLCommandBuffer -> Nat]
        /\ born' \in [CLCommandBuffer -> Instance' \cup {NoInstance}]
        /\ faulted' \in BOOLEAN
        /\ refs' \in [CLCommandBuffer -> Int]
        /\ issued' \in [CLCommandBuffer -> 0 .. MaxNodes]
        /\ MDefined' \in SUBSET (Node')
    BY <1>1 DEF IInv, TypeOK, driverVars
  <2>3. /\ MLastBarrier' \in [Instance' -> Node' \cup {NoNode}]
        /\ MLeaves' \in [Instance' -> SUBSET (Node')]
        /\ MSyncPointMap' \in [Instance' -> [SyncPoint' -> Node' \cup {NoNode}]]
        /\ MNodes' \in 0 .. MaxNodes
        /\ MInstance' \in [Node' -> Instance' \cup {NoInstance}]
        /\ MPreds' \in [Node' -> SUBSET (Node')]
        /\ MBarrier' \in [Node' -> BOOLEAN]
    BY <1>1 DEF IInv, TypeOK, graphVars
  <2> QED
    BY <1>1, <2>1, <2>2, <2>3 DEF TypeOK, Prints
<1>4. Wellformed' /\ Covered' /\ OrderIsKept' /\ MDefined' = {}
  BY <1>2, GraphKept DEF IInv, TypeOK
<1>5. LiveEntries'
  BY DEF IInv, LiveEntries, TypeOK
<1> QED
  BY <1>3, <1>4, <1>5 DEF IInv

\* Creating and releasing, with all their races: a new instance is entered
\* only where no entry is, and a deleted one leaves the map at once.
LEMMA CreateOrReleasePreserves ==
  ASSUME IInv, printed' \in Prints, NEW t \in Thread, NEW p \in CLCommandBuffer, CreateOrRelease(t, p)
  PROVE  IInv'
<1> USE BoundsAssumption
<1>1. CASE Create(t, p) \/ CreateMultiDevice(t, p)
  <2>1. /\ UNCHANGED <<MCommandBufferInstanceMap, instanceVars, graphVars, MDefined,
                       issued, born, faulted, process>>
        /\ refs' = [refs EXCEPT ![p] = 1]
        /\ held' = held \/ held' = [held EXCEPT ![p] = 1]
        /\ call' = call \/ Goto(t, Mapping(p))
    BY <1>1 DEF Create, CreateMultiDevice, DriverCreates
  <2>2. call' \in [Thread -> Calls]
    BY <2>1, GotoType, CallTypes DEF IInv, TypeOK
  <2> QED
    BY <2>1, <2>2, QuietPreserves DEF IInv, TypeOK
<1>2. ASSUME NEW isInOrder \in BOOLEAN, CreateVizInstance(t, p, isInOrder)
      PROVE  IInv'
  <2> DEFINE new == instances + 1
  <2>1. /\ new \in Instance /\ new # NoInstance /\ instances' = new /\ new \notin 1 .. instances
        /\ MIsInOrder' = [MIsInOrder EXCEPT ![new] = isInOrder]
        /\ MCommandBufferInstanceMap' =
             [MCommandBufferInstanceMap EXCEPT ![p] = IF @ = NoInstance THEN new ELSE @]
        /\ born' = [born EXCEPT ![p] = new] /\ held' = [held EXCEPT ![p] = 1]
        /\ Goto(t, Idle)
        /\ UNCHANGED <<deleted, graphVars, MDefined, driverVars, faulted, process>>
    BY <1>2 DEF CreateVizInstance, IInv, TypeOK, Instance, NoInstance
  <2>2. call' \in [Thread -> Calls] /\ Calls' = Calls
    BY <2>1, GotoType, CallTypes DEF IInv
  <2>3. Node' = Node /\ Instance' = Instance /\ SyncPoint' = SyncPoint
    BY DEF Node, Instance, SyncPoint
  <2>4. /\ instances' \in 0 .. MaxInstances /\ instances <= instances'
        /\ 1 .. instances \subseteq 1 .. instances' /\ new \in 1 .. instances'
        /\ \A i \in 1 .. instances : MIsInOrder'[i] = MIsInOrder[i]
    BY <2>1 DEF IInv, TypeOK, Instance
  <2>5. TypeOK'
    <3>1. /\ MIsInOrder' \in [Instance -> BOOLEAN]
          /\ MCommandBufferInstanceMap' \in [CLCommandBuffer -> Instance \cup {NoInstance}]
          /\ born' \in [CLCommandBuffer -> Instance \cup {NoInstance}]
          /\ held' \in [CLCommandBuffer -> Nat]
      BY <2>1 DEF IInv, TypeOK
    <3> QED
      BY <2>1, <2>2, <2>3, <2>4, <3>1 DEF IInv, TypeOK, Prints, graphVars, driverVars
  <2>6. deleted' \subseteq 1 .. instances'
    BY <2>1, <2>4 DEF IInv, Wellformed
  <2>7. Wellformed' /\ Covered' /\ OrderIsKept' /\ MDefined' = {}
    BY <2>1, <2>4, <2>6, GraphKept
  <2>8. LiveEntries'
    <3>1. /\ new \notin deleted
          /\ \A r \in CLCommandBuffer : MCommandBufferInstanceMap[r] # new
      BY <2>1 DEF IInv, Wellformed, LiveEntries
    <3> QED
      BY <2>1, <2>4, <3>1 DEF IInv, LiveEntries, TypeOK
  <2> QED
    BY <2>5, <2>7, <2>8 DEF IInv
<1>3. CASE CreateVizInstanceFails(t, p)
  <2>1. call' \in [Thread -> Calls] /\ held' \in [CLCommandBuffer -> Nat]
    BY <1>3, GotoType, CallTypes DEF CreateVizInstanceFails, IInv, TypeOK
  <2> QED
    BY <1>3, <2>1, QuietPreserves DEF CreateVizInstanceFails, IInv, TypeOK, driverVars
<1>4. ASSUME NEW failed \in BOOLEAN, QueryCount(t, p, failed)
      PROVE  IInv'
  <2>1. (~ failed /\ refs[p] = 1) \in BOOLEAN /\ faulted' \in BOOLEAN
    BY <1>4 DEF QueryCount, IInv, TypeOK
  <2>2. call' \in [Thread -> Calls]
    BY <1>4, <2>1, GotoType, CallTypes DEF QueryCount, IInv
  <2>3. held' \in [CLCommandBuffer -> Nat]
    BY <1>4 DEF QueryCount, IInv, TypeOK
  <2> QED
    BY <1>4, <2>1, <2>2, <2>3, QuietPreserves DEF QueryCount, IInv, TypeOK, driverVars
<1>5. ASSUME NEW last \in BOOLEAN, DriverReleases(t, p, last)
      PROVE  IInv'
  <2>1. call' \in [Thread -> Calls]
    BY <1>5, GotoType, CallTypes DEF DriverReleases, IInv
  <2>2. /\ refs' \in [CLCommandBuffer -> Int]
        /\ issued' \in [CLCommandBuffer -> 0 .. MaxNodes]
        /\ born' \in [CLCommandBuffer -> Instance \cup {NoInstance}]
    BY <1>5, BoundsAssumption DEF DriverReleases, IInv, TypeOK
  <2> QED
    BY <1>5, <2>1, <2>2, QuietPreserves DEF DriverReleases, IInv, TypeOK
<1>6. ASSUME NEW last \in BOOLEAN, DriverRefuses(t, p, last)
      PROVE  IInv'
  <2>1. call' \in [Thread -> Calls] /\ held' \in [CLCommandBuffer -> Nat]
    BY <1>6, GotoType, CallTypes DEF DriverRefuses, IInv, TypeOK
  <2> QED
    BY <1>6, <2>1, QuietPreserves DEF DriverRefuses, IInv, TypeOK, driverVars
<1>7. CASE DestroyVizInstance(t, p)
  <2>1. call' \in [Thread -> Calls]
    BY <1>7, GotoType, CallTypes DEF DestroyVizInstance, IInv
  <2>2. /\ deleted' = deleted \cup
             ({MCommandBufferInstanceMap[r] : r \in {p}} \ {NoInstance})
        /\ MCommandBufferInstanceMap' =
             [r \in CLCommandBuffer |->
                IF r \in {p} THEN NoInstance ELSE MCommandBufferInstanceMap[r]]
    BY <1>7 DEF DestroyVizInstance, MapAfterDestroy, IInv, TypeOK
  <2> QED
    <3>1. {p} \in SUBSET CLCommandBuffer /\ process' \in {"running", "ended", "aborted"}
      BY <1>7 DEF DestroyVizInstance, IInv, TypeOK
    <3> QED
      BY <1>7, <2>1, <2>2, <3>1, UnmapPreserves DEF DestroyVizInstance
<1> QED
  BY <1>1, <1>2, <1>3, <1>4, <1>5, <1>6, <1>7 DEF CreateOrRelease

-----------------------------------------------------------------------------
LEMMA NothingIsPrint == Nothing \in Prints
  BY DEF Nothing, Prints

\* Every step preserves the invariant.
LEMMA NextPreserves == IInv /\ [Next]_vars => IInv'
<1> SUFFICES ASSUME IInv, [Next]_vars PROVE IInv'
  OBVIOUS
<1>1. ASSUME NEW t \in Thread, NEW p \in CLCommandBuffer, CreateOrRelease(t, p),
             printed' = Nothing
      PROVE  IInv'
  BY <1>1, NothingIsPrint, CreateOrReleasePreserves
<1>2. ASSUME NEW t \in Thread, NEW p \in CLCommandBuffer, NEW D \in SUBSET Known(p),
             Add(t, p, D), printed' = Nothing
      PROVE  IInv'
  BY <1>2, NothingIsPrint, AddPreserves
<1>3. ASSUME NEW t \in Thread, NEW p \in CLCommandBuffer, DotPrint(t, p)
      PROVE  IInv'
  <2>1. MDefined' = {}
    BY <1>3 DEF DotPrint, DefinedAfterPrint, Defines, IInv
  <2>2. printed' \in Prints
    <3>1. MCommandBufferInstanceMap[p] \in Instance \cup {NoInstance}
      BY DEF IInv, TypeOK
    <3>2. Recorded \subseteq Node
      BY BoundsAssumption DEF IInv, TypeOK, Recorded, Node
    <3>3. Defines(MCommandBufferInstanceMap[p]) \subseteq Node
      BY <3>2 DEF Defines, NodesOf
    <3>4. printed' = [instance |-> MCommandBufferInstanceMap[p],
                      nodes |-> Defines(MCommandBufferInstanceMap[p])]
      BY <1>3 DEF DotPrint
    <3> QED
      BY <3>1, <3>3, <3>4 DEF Prints
  <2> QED
    BY <1>3, <2>1, <2>2, QuietPreserves DEF DotPrint, IInv, TypeOK, driverVars
<1>4. ASSUME NEW p \in CLCommandBuffer, Retain(p), printed' = Nothing
      PROVE  IInv'
  <2>1. refs' \in [CLCommandBuffer -> Int] /\ held' \in [CLCommandBuffer -> Nat]
    BY <1>4 DEF Retain, IInv, TypeOK
  <2> QED
    BY <1>4, <2>1, NothingIsPrint, QuietPreserves DEF Retain, IInv, TypeOK
<1>5. CASE Deinit /\ printed' = Nothing
  <2>1. call' \in [Thread -> Calls] /\ process' \in {"running", "ended", "aborted"}
    BY <1>5 DEF Deinit, IInv, TypeOK
  <2>2. MCommandBufferInstanceMap' =
          [r \in CLCommandBuffer |->
             IF r \in CLCommandBuffer THEN NoInstance ELSE MCommandBufferInstanceMap[r]]
    BY <1>5 DEF Deinit
  <2> QED
    BY <1>5, <2>1, <2>2, NothingIsPrint, UnmapPreserves
       DEF Deinit, IInv, TypeOK, driverVars
<1>6. CASE UNCHANGED vars
  BY <1>6, QuietPreserves DEF vars, driverVars, IInv, TypeOK
<1> QED
  BY <1>1, <1>2, <1>3, <1>4, <1>5, <1>6 DEF Next

\* The inductive invariant holds in every reachable state.
THEOREM Invariance == Spec => []IInv
<1>1. Init => IInv
  BY InitIInv
<1>2. IInv /\ [Next]_vars => IInv'
  BY NextPreserves
<1> QED
  BY <1>1, <1>2, PTL DEF Spec

\* Whatever threads create and release at once, and whatever pointers come
\* back, no call reaches a deleted instance and none is deleted twice.
THEOREM EntriesStayLive == Spec => []LiveEntries
<1>1. IInv => LiveEntries
  BY DEF IInv
<1> QED
  BY <1>1, Invariance, PTL

\* The few edges kept per node order an in-order command-buffer completely,
\* and order what follows a barrier after it.
THEOREM CommandsStayOrdered == Spec => []OrderIsKept
<1>1. IInv => OrderIsKept
  BY DEF IInv
<1> QED
  BY <1>1, Invariance, PTL

\* What a step writes to a file is the whole graph: a print defines every node
\* its edges name, however many prints there were before.
THEOREM PrintsAreComplete == Spec => []PrintIsComplete
<1> DEFINE Whole == printed.nodes = NodesOf(printed.instance)
<1>1. IInv => NodesOf(NoInstance) = {}
  BY DEF IInv, Wellformed, NodesOf, NoInstance
<1>2. Init => Whole
  BY DEF Init, Nothing, NodesOf, Recorded
<1>3. IInv /\ IInv' /\ Whole /\ [Next]_vars => Whole'
  <2> SUFFICES ASSUME IInv, IInv', Whole, [Next]_vars PROVE Whole'
    OBVIOUS
  <2>1. CASE printed' = Nothing
    <3>1. NodesOf(NoInstance)' = {}
      BY DEF IInv, Wellformed, NodesOf, NoInstance
    <3> QED
      BY <2>1, <3>1 DEF Nothing, NodesOf
  <2>2. ASSUME NEW t \in Thread, NEW p \in CLCommandBuffer, DotPrint(t, p)
        PROVE  Whole'
    <3>1. /\ printed' = [instance |-> MCommandBufferInstanceMap[p],
                         nodes |-> Defines(MCommandBufferInstanceMap[p])]
          /\ UNCHANGED <<MNodes, MInstance>>
      BY <2>2 DEF DotPrint, graphVars
    <3>2. Defines(MCommandBufferInstanceMap[p]) = NodesOf(MCommandBufferInstanceMap[p])
      BY DEF Defines, IInv
    <3> QED
      BY <3>1, <3>2 DEF NodesOf, Recorded
  <2>3. CASE UNCHANGED vars
    BY <2>3 DEF vars, graphVars, NodesOf, Recorded
  <2> QED
    BY <2>1, <2>2, <2>3 DEF Next
<1>4. IInv /\ Whole => PrintIsComplete
  BY DEF IInv, Wellformed, PrintIsComplete, NodesOf
<1> QED
  BY <1>2, <1>3, <1>4, Invariance, PTL DEF Spec

-----------------------------------------------------------------------------
(***************************************************************************)
(* The promise of CommandOrder is kept, by any number of threads.          *)
(***************************************************************************)

\* A graph without edges orders nothing.
LEMMA InitPromises == Init => Promise!Init
<1> SUFFICES ASSUME Init PROVE Promise!Init
  OBVIOUS
<1>1. ASSUME NEW n \in Node PROVE Ancestors(n, MPreds) = {}
  <2>1. MPreds \in [Node -> SUBSET Node] /\ MPreds[n] = {} /\ Closed({}, MPreds)
    BY DEF Init, Closed
  <2> QED
    BY <2>1, AncestorsFacts
<1>2. \A e \in Instance \X SyncPoint : SignalOf(e) = Free
  BY DEF Init, SignalOf
<1> QED
  BY <1>1, <1>2 DEF Init, Promise!Init, Promise!Queue, Promise!Command, Promise!NoQueue,
     Promise!None, Promise!Free, Instance, Node, NoInstance, NoNode, Free

\* A step that touches neither graphs nor instances is none of the promise.
LEMMA QuietStutters ==
  ASSUME UNCHANGED <<instances, MIsInOrder, graphVars>>
  PROVE  UNCHANGED Promise!vars
<1>1. /\ [n \in Node |-> Ancestors(n, MPreds)]' = [n \in Node |-> Ancestors(n, MPreds)]
      /\ [e \in Instance \X SyncPoint |-> SignalOf(e)]' =
           [e \in Instance \X SyncPoint |-> SignalOf(e)]
      /\ [t \in NoThread |-> NoNode]' = [t \in NoThread |-> NoNode]
  BY DEF graphVars, Node, Instance, SyncPoint, SignalOf, NoThread, NoNode, Free
<1> QED
  BY <1>1 DEF Promise!vars, Promise!orderVars, graphVars

\* An instance that is created is a new queue.
LEMMA CreatePromises ==
  ASSUME IInv, NEW t \in Thread, NEW p \in CLCommandBuffer, NEW isInOrder \in BOOLEAN,
         CreateVizInstance(t, p, isInOrder)
  PROVE  Promise!Next
<1>1. /\ instances + 1 \in Instance /\ instances' = instances + 1
      /\ MIsInOrder' = [MIsInOrder EXCEPT ![instances + 1] = isInOrder]
      /\ UNCHANGED graphVars
  BY BoundsAssumption DEF CreateVizInstance, IInv, TypeOK, Instance
<1>2. /\ [n \in Node |-> Ancestors(n, MPreds)]' = [n \in Node |-> Ancestors(n, MPreds)]
      /\ [e \in Instance \X SyncPoint |-> SignalOf(e)]' =
           [e \in Instance \X SyncPoint |-> SignalOf(e)]
      /\ [s \in NoThread |-> NoNode]' = [s \in NoThread |-> NoNode]
  BY <1>1 DEF graphVars, Node, Instance, SyncPoint, SignalOf, NoThread, NoNode, Free
<1>3. Promise!Create(instances + 1, isInOrder)
  BY <1>1, <1>2 DEF Promise!Create, Promise!orderVars, graphVars
<1> QED
  BY <1>1, <1>3 DEF Promise!Next, Promise!Queue, Instance

\* The commands a new command of instance i is directly ordered after, by the
\* rules of CommandOrder.
Direct(i, D, covers) ==
  {MSyncPointMap[i][s] : s \in D} \cup
  {c \in NodesOf(i) : MIsInOrder[i] \/ covers \/ MBarrier[c]}

\* The edges of a new node stand for edges from all of these, and from no
\* other: the node is ordered after them and all they are ordered after.
LEMMA RecordOrders ==
  ASSUME IInv, MNodes < MaxNodes, NEW i \in 1 .. instances,
         NEW D \in SUBSET SyncPoint, \A s \in D : MSyncPointMap[i][s] # NoNode,
         NEW covers \in BOOLEAN, MPreds' \in [Node -> SUBSET Node],
         MPreds'[MNodes] = NodePreCreation(i, D) \cup (IF covers THEN MLeaves[i] ELSE {}),
         \A n \in Node : n # MNodes => MPreds'[n] = MPreds[n]
  PROVE  /\ \A n \in Node : n # MNodes => Ancestors(n, MPreds') = Ancestors(n, MPreds)
         /\ Ancestors(MNodes, MPreds') = WithAncestors(Direct(i, D, covers), MPreds)
<1> USE BoundsAssumption
<1> DEFINE T == Direct(i, D, covers)
           P == MPreds'[MNodes]
<1>1. /\ MNodes \in Node /\ MNodes \notin Recorded /\ i \in Instance
      /\ Recorded \subseteq Node /\ NoNode \notin Node
      /\ MPreds \in [Node -> SUBSET Node]
  BY DEF IInv, TypeOK, Node, Instance, Recorded, NoNode
<1>2. MPreds[MNodes] = {} /\ \A n \in Node : MNodes \notin MPreds[n]
  <2>1. \A n \in Recorded : MPreds[n] \subseteq Recorded
    BY DEF IInv, Wellformed, NodesOf
  <2> QED
    BY <1>1, <2>1 DEF IInv, Wellformed
<1>3. /\ \A s \in D : MSyncPointMap[i][s] \in NodesOf(i)
      /\ MLeaves[i] \subseteq NodesOf(i) /\ Back(i) \subseteq NodesOf(i)
      /\ MLastBarrier[i] \in {n \in NodesOf(i) : MBarrier[n]} \cup {NoNode}
      /\ NodesOf(i) \subseteq Recorded
  BY <1>1 DEF IInv, Wellformed, Back, NodesOf
<1>4. P = {MSyncPointMap[i][s] : s \in D} \cup ({MLastBarrier[i]} \ {NoNode})
            \cup (IF MIsInOrder[i] THEN Back(i) ELSE {})
            \cup (IF covers THEN MLeaves[i] ELSE {})
  BY <1>1, <1>3 DEF NodePreCreation
<1>5. P \subseteq T /\ T \subseteq Recorded
  BY <1>3, <1>4 DEF Direct
<1>6. ASSUME NEW C \in SUBSET Node, P \subseteq C, Closed(C, MPreds)
      PROVE  T \subseteq C
  <2>1. /\ Under(MLeaves[i], NodesOf(i))
        /\ MIsInOrder[i] => Under(Back(i), NodesOf(i))
        /\ Under({MLastBarrier[i]} \ {NoNode}, {n \in NodesOf(i) : MBarrier[n]})
    BY <1>1 DEF IInv, Covered
  <2>2. {n \in NodesOf(i) : MBarrier[n]} \subseteq C
    BY <1>4, <1>6, <2>1 DEF Under
  <2>3. MIsInOrder[i] \/ covers => NodesOf(i) \subseteq C
    BY <1>4, <1>6, <2>1 DEF Under
  <2> QED
    BY <1>4, <1>6, <2>2, <2>3 DEF Direct
<1>7. T \in SUBSET Node /\ MNodes \notin P
  BY <1>1, <1>5
<1> HIDE DEF T
<1>8. Ancestors(MNodes, MPreds') = WithAncestors(T, MPreds)
  BY <1>1, <1>2, <1>5, <1>6, <1>7, NewNodeFollows
<1>9. ASSUME NEW n \in Node, n # MNodes
      PROVE  Ancestors(n, MPreds') = Ancestors(n, MPreds)
  BY <1>1, <1>2, <1>9, OldNodesKeep
<1> QED
  BY <1>8, <1>9 DEF T

\* A command or barrier that is recorded is one submitted, which waits for
\* the commands of its sync points and signals its own.
LEMMA AddPromises ==
  ASSUME IInv, NEW t \in Thread, NEW p \in CLCommandBuffer,
         NEW D \in SUBSET Known(p), AddCommand(t, p, D) \/ AddBarrier(t, p, D)
  PROVE  Promise!Next
<1> USE BoundsAssumption
<1> DEFINE i      == MCommandBufferInstanceMap[p]
           E      == {<<i, s>> : s \in D}
           R      == IF MSyncPointMap[i][issued[p]] = NoNode THEN {<<i, issued[p]>>} ELSE {}
           order  == [n \in Node |-> Ancestors(n, MPreds)]
           signal == [e \in Instance \X SyncPoint |-> SignalOf(e)]
           isBarrier == AddBarrier(t, p, D)
<1>1. PICK b \in BOOLEAN :
        /\ b => AddBarrier(t, p, D)
        /\ ~ b => AddCommand(t, p, D)
  OBVIOUS
<1> DEFINE covers == b /\ D = {}
           P == NodePreCreation(i, D) \cup (IF covers THEN MLeaves[i] ELSE {})
<1>2. /\ MNodes < MaxNodes /\ issued[p] < MaxNodes /\ ~ Asserts(p, D)
      /\ UNCHANGED instanceVars
      /\ NodePostCreation(p, i, P, b)
  BY <1>1 DEF AddCommand, AddBarrier, Accepted, BarrierPreds
<1>3. /\ i \in 1 .. instances /\ i \in Instance /\ i <= instances
      /\ issued[p] \in SyncPoint /\ D \in SUBSET SyncPoint
      /\ MNodes \in Node
      /\ \A s \in D : MSyncPointMap[i][s] # NoNode
  BY <1>2 DEF Asserts, IInv, LiveEntries, TypeOK, Instance, Known, SyncPoint, Node
<1> HIDE DEF P
<1>4. order' = [order EXCEPT ![MNodes] = WithAncestors(Direct(i, D, covers), MPreds)]
  <2>1. /\ MPreds' \in [Node -> SUBSET Node] /\ MPreds'[MNodes] = P
        /\ \A n \in Node : n # MNodes => MPreds'[n] = MPreds[n]
    <3>1. P \in SUBSET Node
      BY <1>3 DEF P, NodePreCreation, Back, IInv, TypeOK, NodesOf, Recorded, Node
    <3> QED
      BY <1>2, <1>3, <3>1 DEF NodePostCreation, IInv, TypeOK
  <2>2. order' = [n \in Node |-> Ancestors(n, MPreds')] /\ covers \in BOOLEAN
    BY DEF Node
  <2> HIDE DEF covers
  <2>3. /\ \A n \in Node : n # MNodes => Ancestors(n, MPreds') = Ancestors(n, MPreds)
        /\ Ancestors(MNodes, MPreds') = WithAncestors(Direct(i, D, covers), MPreds)
    BY <1>2, <1>3, <2>1, <2>2, RecordOrders DEF P
  <2> QED
    BY <1>3, <2>2, <2>3
<1> HIDE DEF covers
<1>5. signal' = [e \in Instance \X SyncPoint |-> IF e \in R THEN MNodes ELSE signal[e]]
  <2>1. MSyncPointMap' = [MSyncPointMap EXCEPT ![i] = SyncPointsAfter(p, i)]
    BY <1>2 DEF NodePostCreation
  <2>2. ASSUME NEW j \in Instance, NEW s \in SyncPoint
        PROVE  SignalOf(<<j, s>>)' =
                 IF <<j, s>> \in R THEN MNodes ELSE SignalOf(<<j, s>>)
    <3>1. MSyncPointMap'[j][s] =
            IF j = i /\ s = issued[p] /\ MSyncPointMap[i][s] = NoNode
            THEN MNodes ELSE MSyncPointMap[j][s]
      BY <1>3, <2>1 DEF IInv, TypeOK, SyncPointsAfter
    <3>2. MNodes # NoNode
      BY <1>3 DEF Node, NoNode
    <3>3. <<j, s>> \in R <=> j = i /\ s = issued[p] /\ MSyncPointMap[i][s] = NoNode
      OBVIOUS
    <3> QED
      BY <3>1, <3>2, <3>3 DEF SignalOf, NoNode, Free
  <2>3. Instance' = Instance /\ SyncPoint' = SyncPoint
    BY DEF Instance, SyncPoint
  <2> QED
    BY <2>2, <2>3
<1>6. /\ E \in SUBSET (Instance \X SyncPoint) /\ R \in SUBSET (Instance \X SyncPoint)
      /\ \A e \in E : signal[e] # Free
      /\ \A e \in R : signal[e] = Free
  BY <1>3 DEF SignalOf, Free, IInv, TypeOK, Node
<1>7. Promise!Submit(i, E, R, b, covers)
  <2> DEFINE direct == {signal[e] : e \in E} \cup
                       {c \in Promise!On(i) : (MIsInOrder[i] \/ covers) \/ MBarrier[c]}
  <2>1. direct = Direct(i, D, covers)
    <3>1. {signal[e] : e \in E} = {MSyncPointMap[i][s] : s \in D}
      <4>1. \A s \in D : <<i, s>> \in E /\ signal[<<i, s>>] = MSyncPointMap[i][s]
        BY <1>3 DEF SignalOf
      <4>2. \A e \in E : \E s \in D : e = <<i, s>>
        OBVIOUS
      <4> HIDE DEF signal, E
      <4>3. ASSUME NEW e \in E PROVE signal[e] \in {MSyncPointMap[i][s] : s \in D}
        BY <4>1, <4>2
      <4>4. ASSUME NEW s \in D PROVE MSyncPointMap[i][s] \in {signal[e] : e \in E}
        BY <4>1
      <4> QED
        BY <4>3, <4>4
    <3>2. Promise!On(i) = NodesOf(i)
      BY DEF Promise!On, NodesOf, Recorded
    <3> QED
      BY <3>1, <3>2 DEF Direct
  <2>2. direct \subseteq Node
    <3>1. Direct(i, D, covers) \subseteq Node
      BY <1>3 DEF Direct, IInv, TypeOK, NodesOf, Recorded, Node
    <3> QED
      BY <2>1, <3>1
  <2>3. Promise!WithOrder(direct) = WithAncestors(Direct(i, D, covers), MPreds)
    BY <2>1, <2>2 DEF Promise!WithOrder, WithAncestors
  <2>4. order' = [order EXCEPT ![MNodes] = Promise!WithOrder(direct)]
    BY <1>4, <2>3
  <2> QED
    BY <1>2, <1>3, <1>5, <2>4 DEF Promise!Submit, NodePostCreation, instanceVars
<1>8. E \in SUBSET Promise!Live /\ R \in Promise!Returned
  <2>1. Promise!Live = {e \in Instance \X SyncPoint : signal[e] # Free}
    BY DEF Promise!Live, Promise!Free, Free
  <2>2. E \in SUBSET Promise!Live
    BY <1>6, <2>1
  <2>3. R = {} \/ \E e \in (Instance \X SyncPoint) \ Promise!Live : R = {e}
    <3>1. CASE MSyncPointMap[i][issued[p]] = NoNode
      <4>1. <<i, issued[p]>> \in Instance \X SyncPoint /\ signal[<<i, issued[p]>>] = Free
        BY <1>3, <3>1 DEF SignalOf
      <4> QED
        BY <2>1, <3>1, <4>1
    <3>2. CASE MSyncPointMap[i][issued[p]] # NoNode
      BY <3>2
    <3> QED
      BY <3>1, <3>2
  <2>4. R \in Promise!Returned
    BY <2>3 DEF Promise!Returned
  <2> QED
    BY <2>2, <2>4
<1>9. covers = (b /\ E = {})
  BY DEF covers
<1> HIDE DEF E, R
<1>10. Promise!SubmitAny(i, E, R)
  <2>1. [s \in NoThread |-> NoNode]' = [s \in NoThread |-> NoNode]
    BY DEF NoThread, NoNode
  <2>2. CASE b
    <3>1. Promise!Submit(i, E, R, b, E = {})
      BY <1>7, <1>9, <2>2
    <3> QED
      BY <2>1, <3>1 DEF Promise!SubmitAny
  <2>3. CASE ~ b
    <3>1. Promise!Submit(i, E, R, FALSE, FALSE)
      BY <1>7, <1>9, <2>3
    <3> QED
      BY <2>1, <3>1 DEF Promise!SubmitAny
  <2> QED
    BY <2>2, <2>3
<1>11. i \in Promise!Queue
  BY <1>3 DEF Promise!Queue, Instance
<1> HIDE DEF i
<1> QED
  BY <1>8, <1>10, <1>11 DEF Promise!Next

\* Every step is one of the promise, or none.
LEMMA StepPromises == IInv /\ [Next]_vars => [Promise!Next]_(Promise!vars)
<1> SUFFICES ASSUME IInv, [Next]_vars
             PROVE  Promise!Next \/ UNCHANGED Promise!vars
  OBVIOUS
<1>1. ASSUME NEW t \in Thread, NEW p \in CLCommandBuffer, CreateOrRelease(t, p)
      PROVE  Promise!Next \/ UNCHANGED Promise!vars
  <2>1. ASSUME NEW isInOrder \in BOOLEAN, CreateVizInstance(t, p, isInOrder)
        PROVE  Promise!Next
    BY <2>1, CreatePromises
  <2>2. \/ \E isInOrder \in BOOLEAN : CreateVizInstance(t, p, isInOrder)
        \/ UNCHANGED <<instances, MIsInOrder, graphVars>>
    BY <1>1 DEF CreateOrRelease, Create, CreateMultiDevice, DriverCreates,
                CreateVizInstanceFails, QueryCount, DriverReleases, DriverRefuses,
                DestroyVizInstance, instanceVars
  <2> QED
    BY <2>1, <2>2, QuietStutters
<1>2. ASSUME NEW t \in Thread, NEW p \in CLCommandBuffer, NEW D \in SUBSET Known(p),
             Add(t, p, D)
      PROVE  Promise!Next \/ UNCHANGED Promise!vars
  <2>1. CASE AddCommand(t, p, D) \/ AddBarrier(t, p, D)
    BY <2>1, AddPromises
  <2>2. CASE AddAborts(t, p, D)
    BY <2>2, QuietStutters DEF AddAborts, Accepted, instanceVars
  <2> QED
    BY <1>2, <2>1, <2>2 DEF Add
<1>3. ASSUME NEW t \in Thread, NEW p \in CLCommandBuffer, DotPrint(t, p)
      PROVE  UNCHANGED Promise!vars
  BY <1>3, QuietStutters DEF DotPrint, instanceVars
<1>4. ASSUME NEW p \in CLCommandBuffer, Retain(p)
      PROVE  UNCHANGED Promise!vars
  BY <1>4, QuietStutters DEF Retain, instanceVars
<1>5. CASE Deinit
  BY <1>5, QuietStutters DEF Deinit
<1>6. CASE UNCHANGED vars
  BY <1>6, QuietStutters DEF vars, instanceVars
<1> QED
  BY <1>1, <1>2, <1>3, <1>4, <1>5, <1>6 DEF Next

\* The edges that are kept per command-buffer order each command after all
\* that the rules of CommandOrder name and after nothing else, whatever
\* threads do and whatever pointers come back.
THEOREM OrdersAsPromised == Spec => KeepsPromise
<1>1. Init => Promise!Init
  BY InitPromises
<1>2. IInv /\ [Next]_vars => [Promise!Next]_(Promise!vars)
  BY StepPromises
<1> QED
  BY <1>1, <1>2, Invariance, PTL DEF Spec, KeepsPromise, Promise!Spec

-----------------------------------------------------------------------------
(***************************************************************************)
(* A single thread and a driver that answers.                              *)
(***************************************************************************)

\* The steps of a call are distinct.
LEMMA StepsDiffer ==
  ASSUME NEW p, NEW r, NEW last, NEW also
  PROVE  /\ Idle # Mapping(p) /\ Idle # Releasing(p, last) /\ Idle # Destroying(p)
         /\ Mapping(p) # Releasing(r, last) /\ Mapping(p) # Destroying(r)
         /\ Releasing(p, last) # Destroying(r)
         /\ (Mapping(p) = Mapping(r) <=> p = r)
         /\ (Destroying(p) = Destroying(r) <=> p = r)
         /\ (Releasing(p, last) = Releasing(r, also) <=> p = r /\ last = also)
<1>1. /\ Idle.step = "idle"
      /\ Mapping(p).step = "map" /\ Mapping(p).buffer = p
      /\ Mapping(r).buffer = r
      /\ Releasing(p, last).step = "release" /\ Releasing(r, last).step = "release"
      /\ Releasing(p, last).buffer = p /\ Releasing(p, last).last = last
      /\ Releasing(r, also).buffer = r /\ Releasing(r, also).last = also
      /\ Destroying(p).step = "destroy" /\ Destroying(p).buffer = p
      /\ Destroying(r).step = "destroy" /\ Destroying(r).buffer = r
  BY DEF Idle, Mapping, Releasing, Destroying
<1> QED
  BY <1>1

\* The step c of a call is one on handle p.
Concerns(c, p) ==
  c \in {Mapping(p), Releasing(p, TRUE), Releasing(p, FALSE), Destroying(p)}

\* An idle thread is in no call.
LEMMA IdleConcerns == \A r : ~ Concerns(Idle, r)
  BY StepsDiffer DEF Concerns

\* A call is on one handle.
LEMMA CallConcerns ==
  ASSUME NEW p, NEW last \in BOOLEAN, NEW r, r # p,
         NEW c \in {Mapping(p), Releasing(p, last), Destroying(p)}
  PROVE  ~ Concerns(c, r)
<1>1. ~ Concerns(Mapping(p), r) /\ ~ Concerns(Destroying(p), r)
  <2>1. \A b \in BOOLEAN : /\ Mapping(p) # Releasing(r, b) /\ Mapping(p) # Destroying(r)
                           /\ Releasing(r, b) # Destroying(p)
    BY StepsDiffer
  <2>2. /\ Mapping(p) # Mapping(r) /\ Destroying(p) # Destroying(r)
        /\ Mapping(r) # Destroying(p)
    BY StepsDiffer
  <2> QED
    BY <2>1, <2>2 DEF Concerns
<1>2. ~ Concerns(Releasing(p, last), r)
  <2>1. \A b \in BOOLEAN : Releasing(p, last) # Releasing(r, b)
    BY StepsDiffer
  <2>2. Mapping(r) # Releasing(p, last) /\ Releasing(p, last) # Destroying(r)
    BY StepsDiffer
  <2> QED
    BY <2>1, <2>2 DEF Concerns
<1> QED
  BY <1>1, <1>2

\* Nothing is created at first.
LEMMA InitLone == Init => LoneIInv
<1> SUFFICES ASSUME Init PROVE LoneIInv
  OBVIOUS
<1>1. \A t \in Thread, p \in CLCommandBuffer : ~ Concerns(call[t], p)
  BY IdleConcerns DEF Init
<1>2. CountsReferences
  <2>1. \A t \in Thread, p \in CLCommandBuffer : ~ HoldsReference(t, p)
    BY <1>1 DEF HoldsReference, Concerns
  <2> QED
    BY <2>1 DEF Init, CountsReferences
<1>3. NothingBefore /\ CallsKnow
  BY <1>1 DEF Init, NothingBefore, CallsKnow, Concerns
<1>4. EntriesAreOwn
  BY DEF Init, EntriesAreOwn
<1> QED
  BY <1>2, <1>3, <1>4 DEF LoneIInv

\* The part of the invariant that is about thread t and handle r.
LoneOf(t, r) ==
  /\ refs[r] >= 0
  /\ refs[r] = held[r] + (IF HoldsReference(t, r) THEN 1 ELSE 0)
  /\ refs[r] = 0 \/ call[t] = Mapping(r) => issued[r] = 0 /\ born[r] = NoInstance
  /\ call[t] = Mapping(r) => held[r] = 0
  /\ call[t] = Destroying(r) => refs[r] = 0
  /\ call[t] = Releasing(r, TRUE) => refs[r] = 1
  /\ ~ faulted /\ call[t] = Releasing(r, FALSE) => refs[r] # 1
  /\ process = "running" /\ ~ faulted =>
       /\ call[t] # Destroying(r) => MCommandBufferInstanceMap[r] = born[r]
       /\ born[r] # NoInstance =>
            \A s \in Known(r) : MSyncPointMap[born[r]][s] # NoNode

\* With a single thread these parts are all of it.
LEMMA LoneParts ==
  ASSUME Alone, NEW t \in Thread
  PROVE  /\ LoneIInv <=> \A r \in CLCommandBuffer : LoneOf(t, r)
         /\ LoneIInv' <=> \A r \in CLCommandBuffer : LoneOf(t, r)'
<1>1. \A u \in Thread : u = t
  BY DEF Alone
<1>2. LoneIInv <=> \A r \in CLCommandBuffer : LoneOf(t, r)
  BY <1>1 DEF LoneIInv, CountsReferences, NothingBefore, CallsKnow, EntriesAreOwn, LoneOf
<1>3. LoneIInv' <=> \A r \in CLCommandBuffer : LoneOf(t, r)'
  BY <1>1 DEF LoneIInv, CountsReferences, NothingBefore, CallsKnow, EntriesAreOwn, LoneOf
<1> QED
  BY <1>2, <1>3

\* A step on another handle, which at most adds sync points to instances,
\* keeps the part about r.
LEMMA OthersKeep ==
  ASSUME NEW t \in Thread, NEW r \in CLCommandBuffer, LoneOf(t, r),
         ~ Concerns(call[t], r), ~ Concerns(call'[t], r),
         refs'[r] = refs[r], held'[r] = held[r], issued'[r] = issued[r],
         born'[r] = born[r],
         MCommandBufferInstanceMap'[r] = MCommandBufferInstanceMap[r],
         \A s \in Known(r) : MSyncPointMap[born[r]][s] # NoNode =>
                               MSyncPointMap'[born[r]][s] # NoNode,
         process' = "running" => process = "running", faulted => faulted'
  PROVE  LoneOf(t, r)'
<1>1. /\ ~ HoldsReference(t, r) /\ ~ HoldsReference(t, r)'
      /\ call[t] # Mapping(r) /\ call'[t] # Mapping(r)
      /\ call[t] # Destroying(r) /\ call'[t] # Destroying(r)
      /\ call'[t] # Releasing(r, TRUE) /\ call'[t] # Releasing(r, FALSE)
  BY DEF Concerns, HoldsReference, Mapping, Releasing, Destroying
<1>2. Known(r)' = Known(r) /\ NoNode' = NoNode /\ NoInstance' = NoInstance
  BY DEF Known, NoNode, NoInstance
<1> QED
  BY <1>1, <1>2 DEF LoneOf, Mapping, Releasing, Destroying

\* Creating and releasing: between two calls the count, the entry and the
\* instance of each handle agree.
LEMMA CreateOrReleaseKeepsLone ==
  ASSUME Alone, IInv, LoneIInv, NEW t \in Thread, NEW p \in CLCommandBuffer,
         CreateOrRelease(t, p)
  PROVE  LoneIInv'
<1> USE BoundsAssumption
<1>1. SUFFICES ASSUME NEW r \in CLCommandBuffer PROVE LoneOf(t, r)'
  BY LoneParts
<1>2. LoneOf(t, r) /\ LoneOf(t, p)
  BY LoneParts
<1>3. /\ refs \in [CLCommandBuffer -> Int] /\ held \in [CLCommandBuffer -> Nat]
      /\ issued \in [CLCommandBuffer -> 0 .. MaxNodes]
      /\ born \in [CLCommandBuffer -> Instance \cup {NoInstance}]
      /\ MCommandBufferInstanceMap \in [CLCommandBuffer -> Instance \cup {NoInstance}]
      /\ call \in [Thread -> Calls] /\ instances \in 0 .. MaxInstances
  BY DEF IInv, TypeOK
<1>4. ASSUME r # p PROVE LoneOf(t, r)'
  <2>1. ~ Concerns(call[t], r) /\ ~ Concerns(call'[t], r)
    <3>1. /\ call[t] = Idle \/ \E last \in BOOLEAN :
                call[t] \in {Mapping(p), Releasing(p, last), Destroying(p)}
          /\ call'[t] = Idle \/ \E last \in BOOLEAN :
                call'[t] \in {Mapping(p), Releasing(p, last), Destroying(p)}
      BY <1>3 DEF CreateOrRelease, Create, CreateMultiDevice, CreateVizInstance,
         CreateVizInstanceFails, QueryCount, DriverReleases, DriverRefuses,
         DestroyVizInstance, At, Goto
    <3>2. ~ Concerns(Idle, r)
      BY IdleConcerns
    <3>3. ASSUME NEW last \in BOOLEAN,
                 NEW c \in {Mapping(p), Releasing(p, last), Destroying(p)}
          PROVE  ~ Concerns(c, r)
      BY <1>4, CallConcerns
    <3> QED
      BY <3>1, <3>2, <3>3
  <2>2. /\ refs'[r] = refs[r] /\ held'[r] = held[r] /\ issued'[r] = issued[r]
        /\ born'[r] = born[r]
        /\ MCommandBufferInstanceMap'[r] = MCommandBufferInstanceMap[r]
        /\ MSyncPointMap' = MSyncPointMap /\ process' = process /\ (faulted => faulted')
    <3>1. CASE Create(t, p) \/ CreateMultiDevice(t, p)
      BY <1>3, <1>4, <3>1 DEF Create, CreateMultiDevice, DriverCreates, graphVars
    <3>2. CASE \E isInOrder \in BOOLEAN : CreateVizInstance(t, p, isInOrder)
      BY <1>3, <1>4, <3>2 DEF CreateVizInstance, graphVars, driverVars
    <3>3. CASE CreateVizInstanceFails(t, p)
      BY <1>3, <1>4, <3>3 DEF CreateVizInstanceFails, graphVars, driverVars
    <3>4. CASE \E failed \in BOOLEAN : QueryCount(t, p, failed)
      BY <1>3, <1>4, <3>4 DEF QueryCount, graphVars, driverVars
    <3>5. CASE \E last \in BOOLEAN : DriverReleases(t, p, last)
      BY <1>3, <1>4, <3>5 DEF DriverReleases, graphVars
    <3>6. CASE \E last \in BOOLEAN : DriverRefuses(t, p, last)
      BY <1>3, <1>4, <3>6 DEF DriverRefuses, graphVars, driverVars
    <3>7. CASE DestroyVizInstance(t, p)
      BY <1>3, <1>4, <3>7 DEF DestroyVizInstance, MapAfterDestroy, graphVars, driverVars
    <3> QED
      BY <3>1, <3>2, <3>3, <3>4, <3>5, <3>6, <3>7 DEF CreateOrRelease
  <2> QED
    BY <1>2, <2>1, <2>2, OthersKeep
\* What the steps of a call on p rule out.
<1>6. \A last \in BOOLEAN :
        /\ Idle # Mapping(p) /\ Idle # Releasing(p, last) /\ Idle # Destroying(p)
        /\ Mapping(p) # Releasing(p, last) /\ Mapping(p) # Destroying(p)
        /\ Releasing(p, last) # Destroying(p)
        /\ \A also \in BOOLEAN : Releasing(p, last) = Releasing(p, also) <=> last = also
  BY StepsDiffer
<1>17. Idle # Releasing(p, TRUE) /\ Idle # Releasing(p, FALSE)
  BY <1>6
<1> DEFINE Holds(c) == c \in {Mapping(p), Releasing(p, TRUE), Releasing(p, FALSE)}
<1>7. /\ HoldsReference(t, p) <=> Holds(call[t])
      /\ HoldsReference(t, p)' <=> Holds(call'[t])
      /\ Holds(Mapping(p)) /\ ~ Holds(Idle) /\ ~ Holds(Destroying(p))
      /\ \A last \in BOOLEAN : Holds(Releasing(p, last))
  BY <1>6 DEF HoldsReference, Mapping, Releasing
<1> HIDE DEF Holds
<1>8. /\ Known(p)' = 0 .. (issued'[p] - 1) /\ Known(p) = 0 .. (issued[p] - 1)
      /\ NoNode' = NoNode /\ NoInstance' = NoInstance
      /\ Mapping(p)' = Mapping(p) /\ Destroying(p)' = Destroying(p)
      /\ \A last \in BOOLEAN : Releasing(p, last)' = Releasing(p, last)
  BY DEF Known, NoNode, NoInstance, Mapping, Destroying, Releasing
<1> DEFINE Counted ==
             /\ refs'[p] >= 0
             /\ refs'[p] = held'[p] + (IF Holds(call'[t]) THEN 1 ELSE 0)
           Remembered ==
             /\ refs'[p] = 0 \/ call'[t] = Mapping(p) =>
                  issued'[p] = 0 /\ born'[p] = NoInstance
             /\ call'[t] = Mapping(p) => held'[p] = 0
             /\ call'[t] = Destroying(p) => refs'[p] = 0
             /\ call'[t] = Releasing(p, TRUE) => refs'[p] = 1
             /\ ~ faulted' /\ call'[t] = Releasing(p, FALSE) => refs'[p] # 1
           Entered ==
             process' = "running" /\ ~ faulted' =>
               /\ call'[t] # Destroying(p) => MCommandBufferInstanceMap'[p] = born'[p]
               /\ born'[p] # NoInstance =>
                    \A s \in 0 .. (issued'[p] - 1) : MSyncPointMap'[born'[p]][s] # NoNode
<1>5. SUFFICES Counted /\ Remembered /\ Entered
  BY <1>4, <1>7, <1>8 DEF LoneOf
<1>9. ASSUME call[t] = Idle, refs[p] = 0, refs'[p] = 1,
             \/ held'[p] = 0 /\ call'[t] = Mapping(p)
             \/ held'[p] = 1 /\ call'[t] = Idle,
             UNCHANGED <<MCommandBufferInstanceMap, MSyncPointMap, issued, born,
                         faulted, process>>
      PROVE  Counted /\ Remembered /\ Entered
  <2>1. Counted
    BY <1>2, <1>6, <1>7, <1>8, <1>9 DEF LoneOf
  <2>2. Remembered
    BY <1>2, <1>6, <1>7, <1>8, <1>9 DEF LoneOf
  <2>3. Entered
    BY <1>2, <1>6, <1>7, <1>8, <1>9 DEF LoneOf
  <2> QED
    BY <2>1, <2>2, <2>3
<1>10. CASE Create(t, p) \/ CreateMultiDevice(t, p)
  <2>1. /\ call[t] = Idle /\ refs[p] = 0 /\ refs'[p] = 1
        /\ UNCHANGED <<MCommandBufferInstanceMap, MSyncPointMap, issued, born,
                       faulted, process>>
    BY <1>3, <1>10 DEF Create, CreateMultiDevice, DriverCreates, At, graphVars
  <2>2. held[p] = 0
    BY <1>2, <1>3, <1>7, <2>1 DEF LoneOf
  <2>3. \/ held'[p] = 0 /\ call'[t] = Mapping(p)
        \/ held'[p] = 1 /\ call'[t] = Idle
    BY <1>3, <1>10, <2>1, <2>2 DEF Create, CreateMultiDevice, Goto
  <2> QED
    BY <1>9, <2>1, <2>3
<1>11. ASSUME NEW isInOrder \in BOOLEAN, CreateVizInstance(t, p, isInOrder)
       PROVE  Counted /\ Remembered /\ Entered
  <2>1. /\ call[t] = Mapping(p) /\ call'[t] = Idle /\ held'[p] = 1
        /\ MCommandBufferInstanceMap'[p] =
             IF MCommandBufferInstanceMap[p] = NoInstance THEN instances + 1
             ELSE MCommandBufferInstanceMap[p]
        /\ born'[p] = instances + 1
        /\ UNCHANGED <<MSyncPointMap, refs, issued, faulted, process>>
    BY <1>3, <1>11 DEF CreateVizInstance, At, Goto, graphVars, driverVars
  <2>2. /\ held[p] = 0 /\ refs[p] = 1 /\ issued[p] = 0 /\ born[p] = NoInstance
        /\ process = "running" /\ ~ faulted => MCommandBufferInstanceMap[p] = born[p]
    BY <1>2, <1>3, <1>6, <1>7, <2>1 DEF LoneOf
  <2> QED
    <3>1. Counted
      BY <1>6, <1>7, <1>8, <1>17, <2>1, <2>2
    <3>2. Remembered
      <4>1. refs'[p] = 1 /\ refs'[p] # 0 /\ call'[t] = Idle
        BY <2>1, <2>2
      <4>2. /\ call'[t] # Mapping(p) /\ call'[t] # Destroying(p)
            /\ call'[t] # Releasing(p, TRUE) /\ call'[t] # Releasing(p, FALSE)
        BY <1>6, <4>1
      <4> QED
        BY <4>1, <4>2
    <3>3. Entered
      BY <1>6, <1>7, <1>8, <1>17, <2>1, <2>2
    <3> QED
      BY <3>1, <3>2, <3>3
<1>12. CASE CreateVizInstanceFails(t, p)
  <2>1. /\ call[t] = Mapping(p) /\ call'[t] = Idle /\ held'[p] = 1 /\ faulted'
        /\ UNCHANGED <<refs, issued, born, process>>
    BY <1>3, <1>12 DEF CreateVizInstanceFails, At, Goto, driverVars
  <2>2. held[p] = 0 /\ refs[p] = 1
    BY <1>2, <1>3, <1>7, <2>1 DEF LoneOf
  <2> QED
    <3>1. Counted
      BY <1>6, <1>7, <1>8, <1>17, <2>1, <2>2
    <3>2. Remembered
      <4>1. refs'[p] = 1 /\ refs'[p] # 0 /\ call'[t] = Idle
        BY <2>1, <2>2
      <4>2. /\ call'[t] # Mapping(p) /\ call'[t] # Destroying(p)
            /\ call'[t] # Releasing(p, TRUE) /\ call'[t] # Releasing(p, FALSE)
        BY <1>6, <4>1
      <4> QED
        BY <4>1, <4>2
    <3>3. Entered
      BY <1>6, <1>7, <1>8, <1>17, <2>1, <2>2
    <3> QED
      BY <3>1, <3>2, <3>3
<1>13. ASSUME NEW failed \in BOOLEAN, QueryCount(t, p, failed)
       PROVE  Counted /\ Remembered /\ Entered
  <2> DEFINE last == ~ failed /\ refs[p] = 1
  <2>1. /\ call[t] = Idle /\ call'[t] = Releasing(p, last) /\ held[p] > 0
        /\ held'[p] = held[p] - 1 /\ faulted' = (faulted \/ failed)
        /\ UNCHANGED <<MCommandBufferInstanceMap, MSyncPointMap, refs, issued, born,
                       process>>
    BY <1>3, <1>13 DEF QueryCount, At, Goto, graphVars, driverVars
  <2>2. last \in BOOLEAN /\ (last => refs[p] = 1) /\ (~ faulted' /\ ~ last => refs[p] # 1)
    BY <2>1
  <2> HIDE DEF last
  <2>3. refs[p] = held[p] /\ held[p] \in Nat
    BY <1>2, <1>3, <1>7, <2>1 DEF LoneOf
  <2>4. refs'[p] = held'[p] + 1 /\ refs'[p] > 0
    BY <2>1, <2>3
  <2>5. CASE last = TRUE
    <3>1. Counted
      BY <1>2, <1>6, <1>7, <1>8, <2>1, <2>2, <2>4, <2>5 DEF LoneOf
    <3>2. Remembered
      BY <1>2, <1>6, <1>7, <1>8, <2>1, <2>2, <2>4, <2>5 DEF LoneOf
    <3>3. Entered
      BY <1>2, <1>6, <1>7, <1>8, <2>1, <2>2, <2>4, <2>5 DEF LoneOf
    <3> QED
      BY <3>1, <3>2, <3>3
  <2>6. CASE last = FALSE
    <3>1. Counted
      BY <1>2, <1>6, <1>7, <1>8, <2>1, <2>2, <2>4, <2>6 DEF LoneOf
    <3>2. Remembered
      BY <1>2, <1>6, <1>7, <1>8, <2>1, <2>2, <2>4, <2>6 DEF LoneOf
    <3>3. Entered
      BY <1>2, <1>6, <1>7, <1>8, <2>1, <2>2, <2>4, <2>6 DEF LoneOf
    <3> QED
      BY <3>1, <3>2, <3>3
  <2> QED
    BY <2>2, <2>5, <2>6
<1>14. ASSUME NEW last \in BOOLEAN, DriverReleases(t, p, last)
       PROVE  Counted /\ Remembered /\ Entered
  <2>1. /\ call[t] = Releasing(p, last)
        /\ call'[t] = IF last THEN Destroying(p) ELSE Idle
        /\ refs'[p] = refs[p] - 1
        /\ issued'[p] = IF refs[p] = 1 THEN 0 ELSE issued[p]
        /\ born'[p] = IF refs[p] = 1 THEN NoInstance ELSE born[p]
        /\ UNCHANGED <<MCommandBufferInstanceMap, MSyncPointMap, held, faulted, process>>
    BY <1>3, <1>14 DEF DriverReleases, At, Goto, graphVars
  <2>2. refs[p] = held[p] + 1 /\ held[p] \in Nat
    BY <1>2, <1>3, <1>7, <2>1 DEF LoneOf
  <2>3. refs'[p] = held[p] /\ refs'[p] >= 0 /\ (refs[p] = 1 <=> refs'[p] = 0)
    BY <1>3, <2>1, <2>2
  <2>4. CASE last = TRUE
    <3>1. call[t] = Releasing(p, TRUE) /\ call'[t] = Destroying(p)
      BY <2>1, <2>4
    <3> QED
      <4>1. Counted
        BY <1>2, <1>6, <1>7, <1>8, <2>1, <2>2, <2>3, <3>1 DEF LoneOf
      <4>2. Remembered
        BY <1>2, <1>6, <1>7, <1>8, <2>1, <2>2, <2>3, <3>1 DEF LoneOf
      <4>3. Entered
        BY <1>2, <1>6, <1>7, <1>8, <2>1, <2>2, <2>3, <3>1 DEF LoneOf
      <4> QED
        BY <4>1, <4>2, <4>3
  <2>5. CASE last = FALSE
    <3>1. call[t] = Releasing(p, FALSE) /\ call'[t] = Idle
      BY <2>1, <2>5
    <3> QED
      <4>1. Counted
        BY <1>2, <1>6, <1>7, <1>8, <2>1, <2>2, <2>3, <3>1 DEF LoneOf
      <4>2. Remembered
        BY <1>2, <1>6, <1>7, <1>8, <2>1, <2>2, <2>3, <3>1 DEF LoneOf
      <4>3. Entered
        BY <1>2, <1>6, <1>7, <1>8, <2>1, <2>2, <2>3, <3>1 DEF LoneOf
      <4> QED
        BY <4>1, <4>2, <4>3
  <2> QED
    BY <2>4, <2>5
<1>15. ASSUME NEW last \in BOOLEAN, DriverRefuses(t, p, last)
       PROVE  Counted /\ Remembered /\ Entered
  <2>1. /\ call[t] = Releasing(p, last) /\ call'[t] = Idle
        /\ held'[p] = held[p] + 1
        /\ UNCHANGED <<MCommandBufferInstanceMap, MSyncPointMap, refs, issued, born,
                       faulted, process>>
    BY <1>3, <1>15 DEF DriverRefuses, At, Goto, graphVars, driverVars
  <2>2. refs[p] = held[p] + 1 /\ held[p] \in Nat
    BY <1>2, <1>3, <1>7, <2>1 DEF LoneOf
  <2> QED
    <3>1. Counted
      BY <1>2, <1>6, <1>7, <1>8, <2>1, <2>2 DEF LoneOf
    <3>2. Remembered
      BY <1>2, <1>6, <1>7, <1>8, <2>1, <2>2 DEF LoneOf
    <3>3. Entered
      BY <1>2, <1>6, <1>7, <1>8, <2>1, <2>2 DEF LoneOf
    <3> QED
      BY <3>1, <3>2, <3>3
<1>16. CASE DestroyVizInstance(t, p)
  <2>1. /\ call[t] = Destroying(p) /\ call'[t] = Idle
        /\ MCommandBufferInstanceMap'[p] = NoInstance
        /\ UNCHANGED <<MSyncPointMap, refs, issued, held, born, faulted, process>>
    BY <1>3, <1>16 DEF DestroyVizInstance, MapAfterDestroy, At, Goto, graphVars,
                       driverVars
  <2>2. refs[p] = 0 /\ refs[p] = held[p] /\ born[p] = NoInstance
    BY <1>2, <1>3, <1>7, <2>1 DEF LoneOf
  <2> QED
    <3>1. Counted
      BY <1>2, <1>6, <1>7, <1>8, <2>1, <2>2 DEF LoneOf
    <3>2. Remembered
      BY <1>2, <1>6, <1>7, <1>8, <2>1, <2>2 DEF LoneOf
    <3>3. Entered
      BY <1>2, <1>6, <1>7, <1>8, <2>1, <2>2 DEF LoneOf
    <3> QED
      BY <3>1, <3>2, <3>3
<1> HIDE DEF Counted, Remembered, Entered
<1> QED
  BY <1>10, <1>11, <1>12, <1>13, <1>14, <1>15, <1>16 DEF CreateOrRelease

\* Recording finds the instance of the command-buffer, and enters the sync
\* point that the driver returned.
LEMMA AddKeepsLone ==
  ASSUME Alone, IInv, LoneIInv, NEW t \in Thread, NEW p \in CLCommandBuffer,
         NEW D \in SUBSET Known(p), Add(t, p, D)
  PROVE  LoneIInv'
<1> USE BoundsAssumption
<1>1. SUFFICES ASSUME NEW r \in CLCommandBuffer PROVE LoneOf(t, r)'
  BY LoneParts
<1>2. LoneOf(t, r) /\ LoneOf(t, p)
  BY LoneParts
<1>3. /\ call[t] = Idle /\ call' = call /\ process = "running" /\ held[p] > 0
      /\ MNodes < MaxNodes /\ issued[p] < MaxNodes
      /\ issued' = [issued EXCEPT ![p] = @ + 1]
      /\ UNCHANGED <<MCommandBufferInstanceMap, refs, held, born, faulted>>
  BY DEF Add, AddCommand, AddBarrier, AddAborts, Accepted, At
<1>4. /\ held \in [CLCommandBuffer -> Nat] /\ refs \in [CLCommandBuffer -> Int]
      /\ issued \in [CLCommandBuffer -> 0 .. MaxNodes]
      /\ born \in [CLCommandBuffer -> Instance \cup {NoInstance}]
      /\ MSyncPointMap \in [Instance -> [SyncPoint -> Node \cup {NoNode}]]
      /\ MNodes \in Node /\ MNodes # NoNode
  BY <1>3 DEF IInv, TypeOK, Node, NoNode
<1>5. \A x : ~ Concerns(call[t], x) /\ ~ Concerns(call'[t], x)
  BY <1>3, IdleConcerns
<1>6. refs[p] # 0
  <2>1. ~ HoldsReference(t, p)
    BY <1>5 DEF HoldsReference, Concerns
  <2> QED
    BY <1>2, <1>3, <1>4, <2>1 DEF LoneOf
<1> DEFINE i == MCommandBufferInstanceMap[p]
\* The sync points of all instances are kept, and that of the command added.
<1>7. ASSUME process' = "running"
      PROVE  /\ i \in Instance
             /\ \A j \in Instance, s \in SyncPoint :
                  /\ MSyncPointMap[j][s] # NoNode => MSyncPointMap'[j][s] # NoNode
                  /\ j = i /\ s = issued[p] => MSyncPointMap'[j][s] # NoNode
  <2>1. ~ Asserts(p, D) /\ MSyncPointMap' = [MSyncPointMap EXCEPT ![i] = SyncPointsAfter(p, i)]
    BY <1>7 DEF Add, AddCommand, AddBarrier, AddAborts, NodePostCreation
  <2>2. i \in Instance
    BY <2>1 DEF Asserts, IInv, TypeOK
  <2>3. \A s \in SyncPoint : MSyncPointMap'[i][s] =
          IF s = issued[p] /\ MSyncPointMap[i][s] = NoNode THEN MNodes
          ELSE MSyncPointMap[i][s]
    BY <1>4, <2>1, <2>2 DEF SyncPointsAfter
  <2>4. \A j \in Instance : j # i => MSyncPointMap'[j] = MSyncPointMap[j]
    BY <1>4, <2>1, <2>2
  <2> QED
    BY <1>4, <2>2, <2>3, <2>4
<1>8. \A x \in CLCommandBuffer : Known(x) \subseteq SyncPoint /\ issued[p] \in SyncPoint
  BY <1>3, <1>4 DEF Known, SyncPoint
<1>9. ASSUME NEW s \in Known(r)', process' = "running", ~ faulted, born[r] # NoInstance
      PROVE  MSyncPointMap'[born[r]][s] # NoNode
  <2>1. born[r] \in Instance /\ MCommandBufferInstanceMap[r] = born[r]
    BY <1>2, <1>3, <1>4, <1>5, <1>9 DEF LoneOf, Concerns
  <2>2. CASE s \in Known(r)
    <3>1. MSyncPointMap[born[r]][s] # NoNode
      BY <1>2, <1>3, <1>9, <2>2 DEF LoneOf
    <3> QED
      BY <1>7, <1>8, <1>9, <2>1, <2>2, <3>1
  <2>3. CASE s \notin Known(r)
    <3>1. r # p => issued'[r] = issued[r]
      BY <1>3, <1>4
    <3>2. issued'[p] = issued[p] + 1 /\ issued[p] \in Nat /\ issued[r] \in Nat
      BY <1>3, <1>4
    <3>3. s \in 0 .. (issued'[r] - 1) /\ s \notin 0 .. (issued[r] - 1)
      BY <1>9, <2>3 DEF Known
    <3>4. r = p
      BY <3>1, <3>3
    <3>5. s = issued[p]
      BY <3>2, <3>3, <3>4
    <3> QED
      BY <1>7, <1>8, <1>9, <2>1, <3>4, <3>5
  <2> QED
    BY <2>2, <2>3
<1>10. /\ ~ HoldsReference(t, r) /\ ~ HoldsReference(t, r)'
       /\ call'[t] # Mapping(r) /\ call'[t] # Destroying(r) /\ call[t] # Destroying(r)
       /\ call'[t] # Releasing(r, TRUE) /\ call'[t] # Releasing(r, FALSE)
  BY <1>5 DEF HoldsReference, Concerns, Mapping, Releasing, Destroying
<1>11. refs[r] = 0 => issued'[r] = issued[r]
  BY <1>3, <1>4, <1>6
<1> QED
  BY <1>2, <1>3, <1>9, <1>10, <1>11 DEF LoneOf, NoNode, NoInstance, Mapping, Releasing,
                                       Destroying

\* A reference more, of an application that holds one, is not the last.
LEMMA RetainKeepsLone ==
  ASSUME IInv, LoneIInv, NEW p \in CLCommandBuffer, Retain(p)
  PROVE  LoneIInv'
<1>1. /\ held \in [CLCommandBuffer -> Nat] /\ refs \in [CLCommandBuffer -> Int]
      /\ held[p] > 0
      /\ refs' = [refs EXCEPT ![p] = @ + 1] /\ held' = [held EXCEPT ![p] = @ + 1]
      /\ UNCHANGED <<MCommandBufferInstanceMap, MSyncPointMap, issued, born, faulted,
                     call, process>>
  BY DEF Retain, IInv, TypeOK, graphVars
<1>2. \A t \in Thread, r \in CLCommandBuffer :
        /\ HoldsReference(t, r)' <=> HoldsReference(t, r)
        /\ call[t] = Destroying(r) => ~ HoldsReference(t, r)
        /\ call[t] \in {Releasing(r, TRUE), Releasing(r, FALSE)} => HoldsReference(t, r)
  <2>1. \A t \in Thread, r \in CLCommandBuffer :
          HoldsReference(t, r)' <=> HoldsReference(t, r)
    BY <1>1 DEF HoldsReference, Mapping, Releasing
  <2>2. ASSUME NEW r, NEW last \in BOOLEAN
        PROVE  Mapping(r) # Destroying(r) /\ Releasing(r, last) # Destroying(r)
    BY StepsDiffer
  <2> QED
    BY <2>1, <2>2 DEF HoldsReference
<1>3. \A r \in CLCommandBuffer : r # p => refs'[r] = refs[r] /\ held'[r] = held[r]
  BY <1>1
<1>4. /\ refs'[p] = refs[p] + 1 /\ held'[p] = held[p] + 1 /\ refs[p] >= 0
      /\ held[p] \in Nat /\ refs[p] \in Int
  BY <1>1 DEF LoneIInv, CountsReferences
<1>5. \A t \in Thread : refs[p] = held[p] + (IF HoldsReference(t, p) THEN 1 ELSE 0)
  BY DEF LoneIInv, CountsReferences
<1>6. CountsReferences'
  <2>1. SUFFICES ASSUME NEW r \in CLCommandBuffer
                 PROVE  /\ refs'[r] >= 0
                        /\ \A t \in Thread :
                             refs'[r] = held'[r] + (IF HoldsReference(t, r)' THEN 1 ELSE 0)
    BY DEF CountsReferences
  <2>2. CASE r = p
    <3>1. \A t \in Thread : HoldsReference(t, p)' <=> HoldsReference(t, p)
      BY <1>2
    <3>2. ASSUME NEW t \in Thread
          PROVE  refs'[p] = held'[p] + (IF HoldsReference(t, p)' THEN 1 ELSE 0)
      <4>1. CASE HoldsReference(t, p)
        BY <1>4, <1>5, <3>1, <4>1
      <4>2. CASE ~ HoldsReference(t, p)
        BY <1>4, <1>5, <3>1, <4>2
      <4> QED
        BY <4>1, <4>2
    <3>3. refs'[p] >= 0
      BY <1>4
    <3> QED
      BY <2>2, <3>2, <3>3
  <2>3. CASE r # p
    <3>1. \A t \in Thread : HoldsReference(t, r)' <=> HoldsReference(t, r)
      BY <1>2
    <3>2. refs'[r] = refs[r] /\ held'[r] = held[r]
      BY <1>3, <2>3
    <3> QED
      BY <3>1, <3>2 DEF LoneIInv, CountsReferences
  <2> QED
    BY <2>2, <2>3
\* The application holds one, and the call another: it is not about to map
\* the handle, and did not read a count of one.
<1>7. \A t \in Thread : /\ call[t] # Mapping(p) /\ call[t] # Destroying(p)
                        /\ call[t] # Releasing(p, TRUE)
                        /\ call[t] = Releasing(p, FALSE) => refs'[p] # 1
  <2>1. TAKE t \in Thread
  <2>2. /\ held[p] # 0 /\ refs[p] # 0
        /\ HoldsReference(t, p) => refs[p] # 1 /\ refs'[p] # 1
    BY <1>1, <1>4, <1>5
  <2>3. call[t] # Mapping(p)
    BY <2>2 DEF LoneIInv, CallsKnow
  <2>4. call[t] # Destroying(p)
    BY <2>2 DEF LoneIInv, CallsKnow
  <2>5. call[t] # Releasing(p, TRUE)
    BY <1>2, <2>2 DEF LoneIInv, CallsKnow
  <2>6. call[t] = Releasing(p, FALSE) => refs'[p] # 1
    BY <1>2, <2>2
  <2> QED
    BY <2>3, <2>4, <2>5, <2>6
<1>8. NothingBefore'
  <2>1. refs'[p] # 0
    BY <1>4
  <2> QED
    BY <1>1, <1>3, <1>7, <2>1 DEF LoneIInv, NothingBefore, Mapping, NoInstance
<1>9. CallsKnow'
  BY <1>1, <1>3, <1>7 DEF LoneIInv, CallsKnow, Mapping, Destroying, Releasing
<1>10. EntriesAreOwn'
  BY <1>1 DEF LoneIInv, EntriesAreOwn, Known, NoNode, NoInstance, Destroying
<1> QED
  BY <1>6, <1>8, <1>9, <1>10 DEF LoneIInv

\* Every step of a single thread keeps the invariant.
LEMMA StepKeepsLone == ASSUME Alone PROVE IInv /\ LoneIInv /\ [Next]_vars => LoneIInv'
<1> SUFFICES ASSUME IInv, LoneIInv, [Next]_vars PROVE LoneIInv'
  OBVIOUS
<1>1. ASSUME NEW t \in Thread, NEW p \in CLCommandBuffer, CreateOrRelease(t, p)
      PROVE  LoneIInv'
  BY <1>1, CreateOrReleaseKeepsLone
<1>2. ASSUME NEW t \in Thread, NEW p \in CLCommandBuffer, NEW D \in SUBSET Known(p),
             Add(t, p, D)
      PROVE  LoneIInv'
  BY <1>2, AddKeepsLone
<1>3. ASSUME NEW p \in CLCommandBuffer, Retain(p)
      PROVE  LoneIInv'
  BY <1>3, RetainKeepsLone
<1>4. ASSUME UNCHANGED <<refs, held, issued, born, faulted, call, MSyncPointMap>>,
             process' # "running" \/ UNCHANGED <<MCommandBufferInstanceMap, process>>
      PROVE  LoneIInv'
  <2>1. \A t \in Thread, p \in CLCommandBuffer :
          HoldsReference(t, p)' <=> HoldsReference(t, p)
    BY <1>4 DEF HoldsReference, Mapping, Releasing
  <2>2. CountsReferences'
    BY <1>4, <2>1 DEF LoneIInv, CountsReferences
  <2>3. NothingBefore' /\ CallsKnow'
    BY <1>4 DEF LoneIInv, NothingBefore, CallsKnow, Mapping, Destroying, Releasing,
                NoInstance
  <2>4. EntriesAreOwn'
    BY <1>4 DEF LoneIInv, EntriesAreOwn, Known, NoNode, NoInstance, Destroying
  <2> QED
    BY <2>2, <2>3, <2>4 DEF LoneIInv
<1>5. ASSUME NEW t \in Thread, NEW p \in CLCommandBuffer, DotPrint(t, p)
      PROVE  LoneIInv'
  BY <1>4, <1>5 DEF DotPrint, driverVars, graphVars
<1>6. CASE Deinit
  BY <1>4, <1>6 DEF Deinit, driverVars, graphVars
<1>7. CASE UNCHANGED vars
  BY <1>4, <1>7 DEF vars, driverVars, graphVars
<1> QED
  BY <1>1, <1>2, <1>3, <1>5, <1>6, <1>7 DEF Next

\* With a single thread, the driver's counts are those of the application and
\* of its call, and entries are those of the command-buffers that live.
THEOREM LoneInvariance == ASSUME Alone PROVE Spec => []LoneIInv
<1>1. Init => LoneIInv
  BY InitLone
<1>2. IInv /\ LoneIInv /\ [Next]_vars => LoneIInv'
  BY StepKeepsLone
<1> QED
  BY <1>1, <1>2, Invariance, PTL DEF Spec

\* Between calls, a command-buffer is mapped to the instance that was created
\* for it, and a handle that was released to none.
THEOREM HandlesMapToOwn == ASSUME Alone PROVE Spec => []MapsToOwnDag
<1>1. LoneIInv => MapsToOwnDag
  <2> SUFFICES ASSUME LoneIInv, process = "running", ~ faulted,
                      NEW p \in CLCommandBuffer, Settled(p)
               PROVE  MCommandBufferInstanceMap[p] = born[p]
    BY DEF MapsToOwnDag
  <2>1. \A t \in Thread : call[t] # Destroying(p)
    BY DEF Settled, Idle, Destroying
  <2> QED
    BY <2>1 DEF LoneIInv, EntriesAreOwn
<1> QED
  BY <1>1, LoneInvariance, PTL

\* Recording into a command-buffer that has an instance finds the instance and
\* all sync points: the assertions of the layer hold.
THEOREM RecordingNeverAborts == ASSUME Alone PROVE Spec => NeverAborts
<1> DEFINE Finds == \A t \in Thread, p \in CLCommandBuffer :
             \A D \in SUBSET Known(p) :
               AddAborts(t, p, D) => faulted \/ born[p] = NoInstance
<1>1. LoneIInv => Finds
  <2> SUFFICES ASSUME LoneIInv, NEW t \in Thread, NEW p \in CLCommandBuffer,
                      NEW D \in SUBSET Known(p), AddAborts(t, p, D),
                      ~ faulted, born[p] # NoInstance
               PROVE  FALSE
    OBVIOUS
  <2>1. process = "running" /\ call[t] = Idle /\ Asserts(p, D)
    BY DEF AddAborts, Accepted, At
  <2>2. \A u \in Thread : call[u] # Destroying(p)
    BY <2>1, StepsDiffer DEF Alone
  <2> QED
    BY <2>1, <2>2 DEF LoneIInv, EntriesAreOwn, Asserts
<1> QED
  BY <1>1, LoneInvariance, PTL DEF NeverAborts
=============================================================================

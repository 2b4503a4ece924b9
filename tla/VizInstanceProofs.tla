------------------------- MODULE VizInstanceProofs -------------------------
(***************************************************************************)
(* Proofs about VizInstance, for every set of pointer values, events and   *)
(* threads and every bound.                                                *)
(***************************************************************************)
EXTENDS VizInstance, DagProofs, SequenceTheorems

-----------------------------------------------------------------------------
(***************************************************************************)
(* The initial state.                                                      *)
(***************************************************************************)

\* Nothing is recorded at first, and the file has no cluster.
LEMMA InitIInv == Init => IInv
<1> SUFFICES ASSUME Init PROVE IInv
  OBVIOUS
<1> USE ConstantsAssumption
<1>1. Recorded = {} /\ \A q : OnQueue(q) = {}
  BY DEF Init, Recorded, OnQueue
<1>2. TypeOK
  BY DEF Init, TypeOK, Node, VizQueue
<1>3. Wellformed
  BY <1>1 DEF Init, Wellformed, NoQueue
<1>4. LeavesCover /\ LastNodeCovers /\ LastBarrierCovers
  BY <1>1 DEF LeavesCover, LastNodeCovers, LastBarrierCovers
<1>5. Closed(MDefined, MPreds)
  BY DEF Init, Closed
<1>6. PrintedOnce /\ EdgesDeclared
  BY DEF Init, PrintedOnce, EdgesDeclared, PrintedBy, Printed
<1>7. EventMapCurrent /\ InOrderChain /\ AfterBarrier /\ NothingLost
  BY <1>1 DEF Init, EventMapCurrent, InOrderChain, AfterBarrier, NothingLost,
              Free, Node
<1> QED
  BY <1>2, <1>3, <1>4, <1>5, <1>6, <1>7 DEF IInv

-----------------------------------------------------------------------------
(***************************************************************************)
(* Recording a command.                                                    *)
(***************************************************************************)

\* A node joins the graph with an edge from the last node and from the last
\* barrier of its queue, if there are any: the invariant is preserved.
LEMMA RecordPreserves ==
  ASSUME IInv, open,
         NEW q \in 1 .. MQueues, NEW P \in SUBSET Recorded,
         {MLastNode[q], MLastBarrier[q]} \ {NoNode} \subseteq P,
         NEW isBarrier \in BOOLEAN, NEW R \in SUBSET Event,
         NodePostCreation(q, P, isBarrier, R),
         UNCHANGED <<queueVars, fileVars, open, due>>,
         pending' \in [Thread -> Recorded' \cup {NoNode}]
  PROVE  IInv'
<1> USE ConstantsAssumption
<1> DEFINE k == MNodes
<1>1. /\ k \in Node /\ k \notin Recorded /\ q \in VizQueue /\ P \subseteq Node
      /\ Recorded \subseteq Node /\ Recorded' = Recorded \cup {k}
      /\ Node' = Node /\ VizQueue' = VizQueue
      /\ \A n \in Recorded : n < k
  BY DEF IInv, TypeOK, NodePostCreation, LastNodeAfter, EventMapAfter, Node,
         VizQueue, Recorded
<1>2. TypeOK'
  <2>1. MNodes' \in 0 .. MaxNodes /\ NoNode \notin Node
    BY DEF IInv, TypeOK, NodePostCreation, LastNodeAfter, EventMapAfter, Node,
           NoNode
  <2>2. /\ MQueue' \in [Node -> VizQueue \cup {NoQueue}]
        /\ MPreds' \in [Node -> SUBSET Node]
        /\ MBarrier' \in [Node -> BOOLEAN]
    BY <1>1 DEF IInv, TypeOK, NodePostCreation, LastNodeAfter, EventMapAfter
  <2>3. /\ MLeaves' \in [VizQueue -> SUBSET Node]
        /\ MLastNode' \in [VizQueue -> Node \cup {NoNode}]
        /\ MLastBarrier' \in [VizQueue -> Node \cup {NoNode}]
    BY <1>1 DEF IInv, TypeOK, NodePostCreation, LastNodeAfter, EventMapAfter,
                LeavesAfter
  <2>4. /\ MEventMap' \in [Event -> Node \cup {NoNode}]
        /\ signal' \in [Event -> Node \cup {Free, Unknown}]
    BY <1>1 DEF IInv, TypeOK, NodePostCreation, LastNodeAfter, EventMapAfter
  <2>5. pending' \in [Thread -> Node \cup {NoNode}]
    BY <1>1
  <2> QED
    BY <2>1, <2>2, <2>3, <2>4, <2>5, <1>1 DEF IInv, TypeOK, queueVars, fileVars
<1>3. /\ MPreds' = [MPreds EXCEPT ![k] = P] /\ MPreds[k] = {}
      /\ MPreds'[k] = P /\ \A n \in Recorded : MPreds'[n] = MPreds[n]
      /\ MQueue'[k] = q /\ \A n \in Recorded : MQueue'[n] = MQueue[n]
      /\ MBarrier'[k] = isBarrier /\ \A n \in Recorded : MBarrier'[n] = MBarrier[n]
  BY <1>1 DEF IInv, TypeOK, Wellformed, NodePostCreation, LastNodeAfter,
              EventMapAfter
<1>4. ASSUME NEW C \in SUBSET Node, Closed(C, MPreds')
      PROVE  Closed(C, MPreds) /\ (k \in C => P \subseteq C)
  BY <1>1, <1>3, <1>4 DEF Closed, IInv, TypeOK
<1>5. /\ OnQueue(q)' = OnQueue(q) \cup {k}
      /\ \A r \in VizQueue : r # q => OnQueue(r)' = OnQueue(r)
  BY <1>1, <1>3 DEF OnQueue
<1>6. Wellformed'
  <2>1. \A n \in Recorded' : MQueue'[n] \in 1 .. MQueues' /\ MPreds'[n] \subseteq 0 .. (n - 1)
    BY <1>1, <1>3 DEF IInv, Wellformed, queueVars, Recorded
  <2>2. \A n \in Node \ Recorded' : MPreds'[n] = {}
    BY <1>1, <1>3 DEF IInv, TypeOK, Wellformed
  <2>3. \A r \in VizQueue : /\ MLeaves'[r] \subseteq Recorded'
                           /\ MLastNode'[r] \in Recorded' \cup {NoNode}
                           /\ MLastBarrier'[r] \in Recorded' \cup {NoNode}
    BY <1>1 DEF IInv, TypeOK, Wellformed, NodePostCreation, LastNodeAfter,
                EventMapAfter, LeavesAfter
  <2>4. \A e \in Event : MEventMap'[e] \in Recorded' \cup {NoNode}
    BY <1>1 DEF IInv, TypeOK, Wellformed, NodePostCreation, LastNodeAfter,
                EventMapAfter
  <2> QED
    BY <1>1, <2>1, <2>2, <2>3, <2>4 DEF IInv, Wellformed, queueVars, fileVars
<1>7. EventMapCurrent'
  BY <1>1 DEF IInv, EventMapCurrent, NodePostCreation, LastNodeAfter,
              EventMapAfter
<1>8. LeavesCover'
  <2> SUFFICES ASSUME NEW r \in VizQueue, NEW C \in SUBSET Node,
                      MLeaves'[r] \subseteq C, Closed(C, MPreds')
               PROVE  OnQueue(r)' \subseteq C
    BY <1>1 DEF LeavesCover
  <2>1. Closed(C, MPreds) /\ (k \in C => P \subseteq C)
    BY <1>4
  <2>2. CASE r = q
    <3>1. MLeaves'[q] = (MLeaves[q] \ P) \cup {k}
      BY <1>1 DEF IInv, TypeOK, NodePostCreation, LastNodeAfter, EventMapAfter,
                  LeavesAfter
    <3>2. MLeaves[q] \subseteq C /\ k \in C
      BY <2>1, <2>2, <3>1
    <3> QED
      BY <1>1, <1>5, <2>1, <2>2, <3>2 DEF IInv, LeavesCover
  <2>3. CASE r # q
    <3>1. MLeaves'[r] = MLeaves[r]
      BY <1>1, <2>3 DEF IInv, TypeOK, NodePostCreation, LastNodeAfter,
                        EventMapAfter
    <3> QED
      BY <1>5, <2>1, <2>3, <3>1 DEF IInv, LeavesCover
  <2> QED
    BY <2>2, <2>3
<1>9. LastNodeCovers'
  <2> SUFFICES ASSUME NEW r \in VizQueue, MIsInOrder'[r], OnQueue(r)' # {}
               PROVE  MLastNode'[r] # NoNode /\ Covers(MLastNode[r], OnQueue(r))'
    BY <1>1 DEF LastNodeCovers
  <2>1. MIsInOrder[r]
    BY DEF queueVars
  <2>2. CASE r = q
    <3>1. MLastNode'[r] = k /\ k # NoNode
      BY <1>1, <2>1, <2>2 DEF IInv, TypeOK, NodePostCreation, LastNodeAfter,
             EventMapAfter, Node, NoNode
    <3>2. ASSUME NEW C \in SUBSET Node, k \in C, Closed(C, MPreds')
          PROVE  OnQueue(q)' \subseteq C
      <4>1. Closed(C, MPreds) /\ P \subseteq C
        BY <1>4, <3>2
      <4>2. OnQueue(q) \subseteq C
        BY <1>1, <2>1, <2>2, <4>1 DEF IInv, LastNodeCovers, Covers
      <4> QED
        BY <1>5, <3>2, <4>2
    <3> QED
      BY <1>1, <2>2, <3>1, <3>2 DEF Covers
  <2>3. CASE r # q
    <3>1. MLastNode'[r] = MLastNode[r] /\ OnQueue(r)' = OnQueue(r)
      BY <1>1, <1>5, <2>3 DEF IInv, TypeOK, NodePostCreation, LastNodeAfter,
             EventMapAfter
    <3>2. MLastNode[r] # NoNode /\ Covers(MLastNode[r], OnQueue(r))
      BY <2>1, <3>1 DEF IInv, LastNodeCovers
    <3> QED
      BY <1>1, <1>4, <3>1, <3>2 DEF Covers
  <2> QED
    BY <2>2, <2>3
<1>10. LastBarrierCovers'
  <2> DEFINE barriers(r) == {n \in OnQueue(r) : MBarrier[n]}
  <2> SUFFICES ASSUME NEW r \in VizQueue, barriers(r)' # {}
               PROVE  MLastBarrier'[r] # NoNode /\ Covers(MLastBarrier[r], barriers(r))'
    BY <1>1 DEF LastBarrierCovers
  <2>1. OnQueue(r) \subseteq Recorded
    BY DEF OnQueue
  <2>2. CASE r = q /\ isBarrier
    <3>1. MLastBarrier'[r] = k /\ k # NoNode
      BY <1>1, <2>2 DEF IInv, TypeOK, NodePostCreation, LastNodeAfter,
                        EventMapAfter, Node, NoNode
    <3>2. barriers(r)' = barriers(r) \cup {k}
      BY <1>1, <1>3, <1>5, <2>1, <2>2
    <3>3. ASSUME NEW C \in SUBSET Node, k \in C, Closed(C, MPreds')
          PROVE  barriers(r)' \subseteq C
      <4>1. Closed(C, MPreds) /\ P \subseteq C
        BY <1>4, <3>3
      <4>2. barriers(r) \subseteq C
        BY <1>1, <2>2, <4>1 DEF IInv, LastBarrierCovers, Covers
      <4> QED
        BY <3>2, <3>3, <4>2
    <3> QED
      BY <1>1, <3>1, <3>3 DEF Covers
  <2>3. CASE ~(r = q /\ isBarrier)
    <3>1. MLastBarrier'[r] = MLastBarrier[r]
      BY <1>1, <2>3 DEF IInv, TypeOK, NodePostCreation, LastNodeAfter,
                        EventMapAfter
    <3>2. barriers(r)' = barriers(r)
      BY <1>1, <1>3, <1>5, <2>1, <2>3
    <3>3. MLastBarrier[r] # NoNode /\ Covers(MLastBarrier[r], barriers(r))
      BY <3>2 DEF IInv, LastBarrierCovers
    <3> QED
      BY <1>1, <1>4, <3>1, <3>2, <3>3 DEF Covers
  <2> QED
    BY <2>2, <2>3
<1>11. Closed(MDefined', MPreds')
  BY <1>1, <1>3 DEF IInv, Wellformed, Closed, fileVars
<1>12. PrintedOnce' /\ EdgesDeclared'
  <2>1. dot' = dot /\ MDefined' = MDefined
    BY DEF fileVars
  <2>2. PrintedOnce'
    BY <2>1 DEF IInv, PrintedOnce, PrintedBy, Printed
  <2>3. ASSUME NEW i \in 1 .. Len(dot), NEW n \in Printed(i) PROVE n \in Recorded
    <3>1. i \in 1 .. Len(dot) /\ Len(dot) \in Nat
      BY DEF IInv, TypeOK
    <3>2. n \in PrintedBy(Len(dot))
      BY <2>3, <3>1 DEF PrintedBy
    <3> QED
      BY <3>2 DEF IInv, PrintedOnce, Wellformed
  <2>4. EdgesDeclared'
    BY <1>3, <2>1, <2>3 DEF IInv, EdgesDeclared, PrintedBy, Printed
  <2> QED
    BY <2>2, <2>4
<1>13. MPreds \in [Node -> SUBSET Node] /\ MPreds' \in [Node -> SUBSET Node]
  BY <1>1, <1>2 DEF IInv, TypeOK
<1>14. ASSUME NEW n \in Recorded
       PROVE  Ancestors(n, MPreds) \subseteq Ancestors(n, MPreds')
  <2>1. n \in Node /\ MPreds'[n] = MPreds[n]
    BY <1>1, <1>3
  <2>2. /\ Ancestors(n, MPreds') \in SUBSET Node
        /\ MPreds[n] \subseteq Ancestors(n, MPreds')
        /\ Closed(Ancestors(n, MPreds'), MPreds')
    BY <1>13, <2>1, AncestorsFacts
  <2>3. \A C \in SUBSET Node :
          MPreds[n] \subseteq C /\ Closed(C, MPreds) => Ancestors(n, MPreds) \subseteq C
    BY <1>13, <2>1, AncestorsFacts
  <2> QED
    BY <1>4, <2>2, <2>3
<1>15. /\ Ancestors(k, MPreds') \in SUBSET Node /\ P \subseteq Ancestors(k, MPreds')
       /\ Closed(Ancestors(k, MPreds'), MPreds) /\ Closed(Ancestors(k, MPreds'), MPreds')
  <2>1. /\ Ancestors(k, MPreds') \in SUBSET Node
        /\ MPreds'[k] \subseteq Ancestors(k, MPreds')
        /\ Closed(Ancestors(k, MPreds'), MPreds')
    BY <1>1, <1>13, AncestorsFacts
  <2> QED
    BY <1>3, <1>4, <2>1
<1>16. InOrderChain'
  <2> SUFFICES ASSUME NEW m \in Recorded', NEW n \in Recorded', m < n,
                      MQueue'[m] = MQueue'[n], MIsInOrder'[MQueue'[n]]
               PROVE  m \in Ancestors(n, MPreds')
    BY DEF InOrderChain
  <2>1. m \in Recorded /\ m \in Int /\ MIsInOrder' = MIsInOrder
    BY <1>1 DEF Recorded, queueVars, NodePostCreation, LastNodeAfter,
                EventMapAfter, IInv, TypeOK
  <2>2. CASE n = k
    <3>1. m \in OnQueue(q) /\ MIsInOrder[q]
      BY <1>3, <2>1, <2>2 DEF OnQueue
    <3>2. MLastNode[q] \in P /\ Covers(MLastNode[q], OnQueue(q))
      BY <1>1, <3>1 DEF IInv, LastNodeCovers
    <3> QED
      BY <1>15, <2>2, <3>1, <3>2 DEF Covers
  <2>3. CASE n # k
    <3>1. n \in Recorded
      BY <1>1, <2>3
    <3>2. m \in Ancestors(n, MPreds)
      BY <1>3, <2>1, <3>1 DEF IInv, InOrderChain
    <3> QED
      BY <1>14, <3>1, <3>2
  <2> QED
    BY <2>2, <2>3
<1>17. AfterBarrier'
  <2> SUFFICES ASSUME NEW b \in Recorded', NEW n \in Recorded', b < n,
                      MQueue'[b] = MQueue'[n], MBarrier'[b]
               PROVE  b \in Ancestors(n, MPreds')
    BY DEF AfterBarrier
  <2>1. b \in Recorded /\ MBarrier[b]
    BY <1>1, <1>3 DEF Recorded, NodePostCreation, LastNodeAfter, EventMapAfter,
                      IInv, TypeOK
  <2>2. CASE n = k
    <3>1. b \in {c \in OnQueue(q) : MBarrier[c]}
      BY <1>3, <2>1, <2>2 DEF OnQueue
    <3>2. /\ MLastBarrier[q] \in P
          /\ Covers(MLastBarrier[q], {c \in OnQueue(q) : MBarrier[c]})
      BY <1>1, <3>1 DEF IInv, LastBarrierCovers
    <3> QED
      BY <1>15, <2>2, <3>1, <3>2 DEF Covers
  <2>3. CASE n # k
    <3>1. n \in Recorded
      BY <1>1, <2>3
    <3>2. b \in Ancestors(n, MPreds)
      BY <1>3, <2>1, <3>1 DEF IInv, AfterBarrier
    <3> QED
      BY <1>14, <3>1, <3>2
  <2> QED
    BY <2>2, <2>3
<1>18. NothingLost'
  BY DEF NothingLost
<1> QED
  BY <1>2, <1>6, <1>7, <1>8, <1>9, <1>10, <1>11, <1>12, <1>16, <1>17, <1>18
     DEF IInv

-----------------------------------------------------------------------------
(***************************************************************************)
(* Writing a cluster.                                                      *)
(***************************************************************************)

\* What flush prints from the nodes S is new to the file; afterwards the file
\* defines S and is closed under predecessors.  It prints nothing outside of a
\* closed set that includes S.
LEMMA FlushFacts ==
  ASSUME TypeOK, Wellformed, Closed(MDefined, MPreds),
         NEW S \in SUBSET Recorded, Flush(S)
  PROVE  /\ PrintNodes(S) \in SUBSET Recorded
         /\ PrintNodes(S) \cap MDefined = {}
         /\ \A n \in PrintNodes(S) : MPreds[n] \subseteq MDefined \cup PrintNodes(S)
         /\ MDefined' = MDefined \cup PrintNodes(S)
         /\ S \subseteq MDefined'
         /\ Closed(MDefined', MPreds)
         /\ \A C \in SUBSET Node :
              S \subseteq C /\ Closed(C, MPreds) => PrintNodes(S) \subseteq C
<1> USE ConstantsAssumption
<1> DEFINE P == PrintNodes(S)
<1>1. /\ MPreds \in [Node -> SUBSET Node] /\ MDefined \in SUBSET Node
      /\ Recorded \subseteq Node /\ S \in SUBSET Node
  BY DEF TypeOK, Node, Recorded
<1>2. P = Reach(S \ MDefined, Without(MPreds, MDefined))
  BY DEF PrintNodes
<1>3. Completes(P, S, MDefined, MPreds, Node)
  BY <1>1, <1>2, UndefinedReach
<1>4. Closed(Recorded, MPreds)
  BY DEF Wellformed, Closed, Recorded, TypeOK
<1>5. MDefined' = MDefined \cup P
  BY DEF Flush, WriteSubgraph
<1> QED
  BY <1>1, <1>3, <1>4, <1>5 DEF Completes

\* A flush preserves the invariant, if nothing is lost in case it is the last.
LEMMA FlushPreserves ==
  ASSUME IInv, NEW S \in SUBSET Recorded, Flush(S),
         UNCHANGED <<queueVars, graphVars, signal>>,
         pending' \in [Thread -> Recorded \cup {NoNode}],
         open' \in BOOLEAN, due' \in SUBSET Node, NothingLost'
  PROVE  IInv'
<1> USE ConstantsAssumption
<1> DEFINE P == PrintNodes(S)
<1>1. /\ P \in SUBSET Recorded /\ P \cap MDefined = {}
      /\ \A n \in P : MPreds[n] \subseteq MDefined \cup P
      /\ MDefined' = MDefined \cup P /\ Closed(MDefined', MPreds)
  BY FlushFacts DEF IInv
<1>2. /\ Node' = Node /\ VizQueue' = VizQueue /\ Recorded' = Recorded
      /\ Recorded \subseteq Node
      /\ \A q \in VizQueue : OnQueue(q)' = OnQueue(q)
  BY DEF graphVars, Node, VizQueue, Recorded, OnQueue, IInv, TypeOK
<1>3. dot \in Seq(SUBSET Node)
  BY DEF IInv, TypeOK
<1>4. P \in SUBSET Node
  BY <1>1, <1>2
<1>5. CASE P = {}
  <2>1. dot' = dot /\ MDefined' = MDefined
    BY <1>1, <1>5 DEF Flush, WriteSubgraph
  <2>2. PrintedOnce' /\ EdgesDeclared'
    BY <2>1 DEF IInv, PrintedOnce, EdgesDeclared, PrintedBy, Printed, graphVars
  <2>3. TypeOK'
    BY <1>2, <2>1 DEF IInv, TypeOK, queueVars, graphVars
  <2> QED
    BY <1>1, <1>2, <2>1, <2>2, <2>3
       DEF IInv, Wellformed, EventMapCurrent, LeavesCover, LastNodeCovers,
           LastBarrierCovers, Covers, InOrderChain, AfterBarrier, queueVars,
           graphVars
<1>6. CASE P # {}
  <2> PICK L \in Nat : L = Len(dot)
    BY <1>3
  <2>1. dot' = Append(dot, P)
    BY <1>6 DEF Flush, WriteSubgraph
  <2>2. /\ Len(dot') = L + 1
        /\ \A i \in 1 .. L : dot'[i] = dot[i]
        /\ dot'[L + 1] = P
    BY <1>3, <1>4, <2>1
  <2>3. /\ \A i \in 1 .. L : Printed(i)' = Printed(i)
        /\ Printed(L + 1)' = P
    BY <2>2 DEF Printed
  <2>4. \A i \in 1 .. L : PrintedBy(i)' = PrintedBy(i)
    BY <2>2, <2>3 DEF PrintedBy
  <2>5. PrintedBy(L)' = PrintedBy(L)
    BY <2>2, <2>3 DEF PrintedBy
  <2>6. PrintedBy(L + 1)' = MDefined \cup P
    <3>1. PrintedBy(L + 1)' = PrintedBy(L) \cup P
      BY <2>2, <2>3 DEF PrintedBy
    <3> QED
      BY <3>1 DEF IInv, PrintedOnce
  <2>7. \A i \in 1 .. L : Printed(i) \subseteq MDefined
    BY <2>2 DEF IInv, PrintedOnce, PrintedBy
  <2>8. PrintedOnce'
    <3>1. MDefined' = PrintedBy(L + 1)'
      BY <1>1, <2>6
    <3>2. ASSUME NEW i \in 1 .. (L + 1), NEW j \in 1 .. (L + 1), i # j
          PROVE  Printed(i)' \cap Printed(j)' = {}
      <4>1. CASE i = L + 1
        BY <1>1, <2>2, <2>3, <2>7, <3>2, <4>1
      <4>2. CASE j = L + 1
        BY <1>1, <2>2, <2>3, <2>7, <3>2, <4>2
      <4>3. CASE i # L + 1 /\ j # L + 1
        BY <2>2, <2>3, <3>2, <4>3 DEF IInv, PrintedOnce
      <4> QED
        BY <4>1, <4>2, <4>3
    <3> QED
      BY <2>2, <3>1, <3>2 DEF PrintedOnce
  <2>9. EdgesDeclared'
    <3>1. ASSUME NEW i \in 1 .. (L + 1), NEW n \in Printed(i)'
          PROVE  MPreds[n] \subseteq PrintedBy(i)'
      <4>1. CASE i = L + 1
        BY <1>1, <2>3, <2>6, <3>1, <4>1
      <4>2. CASE i # L + 1
        BY <2>2, <2>3, <2>4, <3>1, <4>2 DEF IInv, EdgesDeclared
      <4> QED
        BY <4>1, <4>2
    <3> QED
      BY <2>2, <3>1 DEF EdgesDeclared, graphVars
  <2>10. TypeOK'
    <3> HIDE DEF P
    <3>1. dot' \in Seq(SUBSET Node)
      BY <1>3, <1>4, <2>1, AppendProperties
    <3>2. MDefined' \in SUBSET Node
      BY <1>1, <1>2 DEF IInv, TypeOK
    <3> QED
      BY <1>2, <3>1, <3>2 DEF IInv, TypeOK, queueVars, graphVars
  <2> QED
    BY <1>1, <1>2, <2>8, <2>9, <2>10
       DEF IInv, Wellformed, EventMapCurrent, LeavesCover, LastNodeCovers,
           LastBarrierCovers, Covers, InOrderChain, AfterBarrier, queueVars,
           graphVars
<1> QED
  BY <1>5, <1>6

-----------------------------------------------------------------------------
(***************************************************************************)
(* One step.                                                               *)
(***************************************************************************)

\* The predecessors every way of enqueuing computes are recorded nodes, the
\* last node and the last barrier of the queue among them.
LEMMA PredsRecorded ==
  ASSUME IInv, NEW q \in VizQueue, NEW E \in SUBSET Event
  PROVE  /\ NodePreCreation(q, E) \in SUBSET Recorded
         /\ MarkerPreds(q, E) \in SUBSET Recorded
         /\ {MLastNode[q], MLastBarrier[q]} \ {NoNode} \subseteq NodePreCreation(q, E)
         /\ NodePreCreation(q, E) \subseteq MarkerPreds(q, E)
         /\ E = {} => MLeaves[q] \subseteq MarkerPreds(q, E)
  BY DEF IInv, Wellformed, NodePreCreation, MarkerPreds

\* The live VizQueue of a mapped pointer is one of those created.
LEMMA MappedQueue ==
  ASSUME IInv, NEW cq \in CLQueue, MQueueMap[cq] # NoQueue
  PROVE  MQueueMap[cq] \in 1 .. MQueues /\ MQueueMap[cq] \in VizQueue
  BY ConstantsAssumption DEF IInv, TypeOK, Wellformed, NoQueue, VizQueue

\* Each of the four ways of enqueuing a command preserves the invariant.
LEMMA EnqueuePreserves ==
  ASSUME IInv, NEW cq \in CLQueue, NEW E \in SUBSET Live, NEW R \in Returned,
         Enqueue(cq, E, R)
  PROVE  IInv'
<1> DEFINE q == MQueueMap[cq]
<1>1. E \in SUBSET Event /\ R \in SUBSET Event
  BY DEF Live, Returned
<1>2. q # NoQueue /\ open
  BY DEF Enqueue, EnqueueCommand, EnqueueMarker, EnqueueBarrier,
         EnqueueBlocking, Callable
<1>3. q \in 1 .. MQueues /\ q \in VizQueue
  BY <1>2, MappedQueue
<1>4. /\ NodePreCreation(q, E) \in SUBSET Recorded
      /\ MarkerPreds(q, E) \in SUBSET Recorded
      /\ {MLastNode[q], MLastBarrier[q]} \ {NoNode} \subseteq NodePreCreation(q, E)
      /\ {MLastNode[q], MLastBarrier[q]} \ {NoNode} \subseteq MarkerPreds(q, E)
  BY <1>1, <1>3, PredsRecorded
<1>5. /\ pending \in [Thread -> Recorded \cup {NoNode}]
      /\ Enqueue(cq, E, R) => Recorded' = Recorded \cup {MNodes}
  BY DEF IInv, TypeOK, Wellformed, Recorded, Enqueue, EnqueueCommand,
         EnqueueMarker, EnqueueBarrier, EnqueueBlocking, NodePostCreation, LastNodeAfter, EventMapAfter
<1>6. CASE EnqueueCommand(cq, E, R)
  BY <1>1, <1>2, <1>3, <1>4, <1>5, <1>6, RecordPreserves DEF EnqueueCommand
<1>7. CASE EnqueueMarker(cq, E, R)
  BY <1>1, <1>2, <1>3, <1>4, <1>5, <1>7, RecordPreserves DEF EnqueueMarker
<1>8. CASE EnqueueBarrier(cq, E, R)
  BY <1>1, <1>2, <1>3, <1>4, <1>5, <1>8, RecordPreserves DEF EnqueueBarrier
<1>9. ASSUME NEW t \in Thread, EnqueueBlocking(t, cq, E, R)
      PROVE  IInv'
  <2>1. pending' \in [Thread -> Recorded' \cup {NoNode}]
    BY <1>5, <1>9 DEF EnqueueBlocking
  <2> QED
    BY <1>1, <1>2, <1>3, <1>4, <1>9, <2>1, RecordPreserves DEF EnqueueBlocking
<1> QED
  BY <1>6, <1>7, <1>8, <1>9 DEF Enqueue

\* A new VizQueue, even for a pointer already mapped, preserves the invariant:
\* nothing was recorded on it yet.
LEMMA CreateQueuePreserves ==
  ASSUME IInv, NEW cq \in CLQueue, NEW isInOrder \in BOOLEAN,
         CreateQueue(cq, isInOrder)
  PROVE  IInv'
<1> USE ConstantsAssumption
<1> DEFINE new == MQueues + 1
<1>1. /\ new \in VizQueue /\ MQueues \in Nat /\ new \in 1 .. MQueues'
      /\ Node' = Node /\ VizQueue' = VizQueue /\ Recorded' = Recorded
      /\ \A q : OnQueue(q)' = OnQueue(q)
  BY DEF CreateQueue, IInv, TypeOK, VizQueue, Node, Recorded, OnQueue, graphVars
<1>2. TypeOK'
  BY <1>1 DEF IInv, TypeOK, CreateQueue, graphVars, fileVars
<1>3. Wellformed'
  BY <1>1 DEF IInv, TypeOK, Wellformed, CreateQueue, graphVars, fileVars
<1>4. OnQueue(new) = {}
  BY <1>1 DEF IInv, Wellformed, OnQueue
<1>5. \A q \in VizQueue : q # new => MIsInOrder'[q] = MIsInOrder[q]
  BY DEF CreateQueue, IInv, TypeOK
<1>6. LastNodeCovers'
  BY <1>1, <1>4, <1>5
     DEF IInv, LastNodeCovers, Covers, CreateQueue, graphVars
<1>7. InOrderChain'
  <2>1. \A n \in Recorded : MQueue[n] \in VizQueue /\ MQueue[n] # new
    BY <1>1 DEF IInv, Wellformed, VizQueue, TypeOK
  <2> QED
    BY <1>1, <1>5, <2>1 DEF IInv, InOrderChain, CreateQueue, graphVars
<1>8. LeavesCover' /\ LastBarrierCovers' /\ AfterBarrier' /\ EventMapCurrent'
  BY <1>1 DEF IInv, LeavesCover, LastBarrierCovers, Covers, AfterBarrier,
              EventMapCurrent, CreateQueue, graphVars
<1>9. Closed(MDefined, MPreds)' /\ PrintedOnce' /\ EdgesDeclared' /\ NothingLost'
  BY <1>1 DEF IInv, PrintedOnce, EdgesDeclared, PrintedBy, Printed, NothingLost,
              CreateQueue, graphVars, fileVars
<1> QED
  BY <1>2, <1>3, <1>6, <1>7, <1>8, <1>9 DEF IInv

\* The invariant does not mention what an event pointer that is not a
\* recorded node's stands for.
LEMMA EventPreserves ==
  ASSUME IInv, NEW e \in Event, ReleaseEvent(e) \/ UnrecordedEvent(e)
  PROVE  IInv'
<1>1. /\ UNCHANGED <<queueVars, graphVars, fileVars, open, pending, due>>
      /\ \E x \in {Free, Unknown} : signal' = [signal EXCEPT ![e] = x]
  BY DEF ReleaseEvent, UnrecordedEvent
<1>2. /\ Node' = Node /\ VizQueue' = VizQueue /\ Recorded' = Recorded
      /\ \A q : OnQueue(q)' = OnQueue(q)
  BY <1>1 DEF graphVars, Node, VizQueue, Recorded, OnQueue
<1>3. TypeOK'
  BY <1>1, <1>2 DEF IInv, TypeOK, queueVars, graphVars, fileVars
<1>4. EventMapCurrent'
  BY <1>1, <1>2 DEF IInv, TypeOK, EventMapCurrent, graphVars, Free, Unknown, Node
<1>5. /\ Wellformed' /\ LeavesCover' /\ LastNodeCovers' /\ LastBarrierCovers'
      /\ InOrderChain' /\ AfterBarrier'
  BY <1>1, <1>2
     DEF IInv, Wellformed, LeavesCover, LastNodeCovers, LastBarrierCovers,
         Covers, InOrderChain, AfterBarrier, queueVars, graphVars, fileVars
<1>6. Closed(MDefined, MPreds)' /\ PrintedOnce' /\ EdgesDeclared' /\ NothingLost'
  BY <1>1, <1>2
     DEF IInv, PrintedOnce, EdgesDeclared, PrintedBy, Printed, NothingLost,
         graphVars, fileVars
<1> QED
  BY <1>3, <1>4, <1>5, <1>6 DEF IInv

\* If a flush starts at the leaves of a queue, the file then defines all of
\* the queue's nodes.
LEMMA FlushLeaves ==
  ASSUME IInv, NEW S \in SUBSET Recorded, Flush(S),
         NEW q \in VizQueue, MLeaves[q] \subseteq S
  PROVE  OnQueue(q) \subseteq MDefined'
<1>1. S \subseteq MDefined' /\ Closed(MDefined', MPreds) /\ MDefined' \in SUBSET Recorded
  BY FlushFacts DEF IInv, Wellformed
<1>2. Recorded \subseteq Node
  BY ConstantsAssumption DEF IInv, TypeOK, Recorded, Node
<1> QED
  BY <1>1, <1>2 DEF IInv, LeavesCover

\* The destructor loses nothing.
LEMMA TeardownPreserves == ASSUME IInv, Teardown PROVE IInv'
<1> DEFINE S == UNION {MLeaves[q] : q \in 1 .. MQueues}
<1>1. \A q \in 1 .. MQueues : q \in VizQueue
  BY ConstantsAssumption DEF IInv, TypeOK, VizQueue
<1>2. S \in SUBSET Recorded /\ Flush(S)
  BY <1>1 DEF IInv, Wellformed, Teardown
<1>3. MDefined' \in SUBSET Recorded
  BY <1>2, FlushFacts DEF IInv, Wellformed
<1>4. ASSUME NEW n \in Recorded PROVE n \in MDefined'
  <2>1. MQueue[n] \in 1 .. MQueues /\ n \in OnQueue(MQueue[n])
    BY DEF IInv, Wellformed, OnQueue
  <2>2. MLeaves[MQueue[n]] \subseteq S
    BY <2>1
  <2> QED
    BY <1>1, <1>2, <2>1, <2>2, FlushLeaves
<1>5. NothingLost'
  BY <1>3, <1>4 DEF NothingLost, Recorded, Teardown, graphVars
<1>6. pending' \in [Thread -> Recorded \cup {NoNode}] /\ open' \in BOOLEAN
  BY DEF IInv, TypeOK, Wellformed, Teardown
<1>7. due' \in SUBSET Node
  <2>1. Recorded \in SUBSET Node
    BY ConstantsAssumption DEF IInv, TypeOK, Recorded, Node
  <2> QED
    BY <2>1 DEF Teardown
<1> QED
  BY <1>2, <1>5, <1>6, <1>7, FlushPreserves DEF Teardown

\* What the host waited for are nodes.
LEMMA WaitedNodes ==
  ASSUME IInv, NEW S \in SUBSET Node, Waited(S)
  PROVE  due' \in SUBSET Node
<1>1. ASSUME NEW n \in S PROVE Ancestors(n, MPreds) \in SUBSET Node
  BY AncestorsFacts DEF IInv, TypeOK
<1>2. UNION {Ancestors(n, MPreds) : n \in S} \subseteq Node
  BY <1>1
<1> QED
  BY <1>2 DEF Waited, IInv, TypeOK

\* Every step preserves the invariant.
LEMMA NextPreserves == IInv /\ [Next]_vars => IInv'
<1> SUFFICES ASSUME IInv, [Next]_vars PROVE IInv'
  OBVIOUS
<1>1. \A S \in SUBSET Recorded :
        /\ Flush(S) /\ open /\ open' = open /\ due' \in SUBSET Node
        /\ UNCHANGED <<queueVars, graphVars, signal>>
        /\ pending' \in [Thread -> Recorded \cup {NoNode}]
        => IInv'
  BY FlushPreserves DEF NothingLost
<1>2. pending \in [Thread -> Recorded \cup {NoNode}]
  BY DEF IInv, TypeOK, Wellformed
<1>3. ASSUME NEW cq \in CLQueue, NEW isInOrder \in BOOLEAN, CreateQueue(cq, isInOrder)
      PROVE  IInv'
  BY <1>3, CreateQueuePreserves
<1>4. ASSUME NEW cq \in CLQueue, NEW E \in SUBSET Live, NEW R \in Returned,
             Enqueue(cq, E, R)
      PROVE  IInv'
  BY <1>4, EnqueuePreserves
<1>5. ASSUME NEW cq \in CLQueue, Finish(cq)
      PROVE  IInv'
  <2>1. MLeaves[MQueueMap[cq]] \in SUBSET Recorded
    BY <1>5, MappedQueue DEF Finish, IInv, Wellformed
  <2>2. OnQueue(MQueueMap[cq]) \in SUBSET Node
    BY ConstantsAssumption DEF OnQueue, Recorded, Node, IInv, TypeOK
  <2>3. due' \in SUBSET Node
    BY <1>5, <2>2, WaitedNodes DEF Finish
  <2> QED
    BY <1>1, <1>2, <1>5, <2>1, <2>3 DEF Finish, Callable
<1>6. ASSUME NEW E \in SUBSET Live, WaitForEvents(E)
      PROVE  IInv'
  <2>1. {MEventMap[e] : e \in E} \ {NoNode} \in SUBSET Recorded
    BY DEF Live, IInv, Wellformed
  <2>2. due' \in SUBSET Node
    BY <1>6, WaitedNodes DEF WaitForEvents
  <2> QED
    BY <1>1, <1>2, <1>6, <2>1, <2>2 DEF WaitForEvents, Callable
<1>7. ASSUME NEW t \in Thread, FlushBlocking(t)
      PROVE  IInv'
  <2>1. pending' \in [Thread -> Recorded \cup {NoNode}]
    BY <1>2, <1>7 DEF FlushBlocking
  <2>2. {MNodes - 1} \in SUBSET Recorded
    BY <1>7, ConstantsAssumption DEF FlushBlocking, IInv, TypeOK, Wellformed,
           Recorded, Node, NoNode
  <2>3. {pending[t]} \in SUBSET Node
    BY <1>7 DEF FlushBlocking, IInv, TypeOK
  <2>4. due' \in SUBSET Node
    BY <1>7, <2>3, WaitedNodes DEF FlushBlocking
  <2> QED
    BY <1>1, <1>7, <2>1, <2>2, <2>4 DEF FlushBlocking
<1>8. ASSUME NEW e \in Event, ReleaseEvent(e) \/ UnrecordedEvent(e)
      PROVE  IInv'
  BY <1>8, EventPreserves
<1>9. CASE Teardown
  BY <1>9, TeardownPreserves
<1>10. CASE UNCHANGED vars
  <2>1. UNCHANGED <<queueVars, graphVars, fileVars, open, pending, signal, due>>
    BY <1>10 DEF vars
  <2>2. /\ Node' = Node /\ VizQueue' = VizQueue /\ Recorded' = Recorded
        /\ \A q : OnQueue(q)' = OnQueue(q)
    BY <2>1 DEF graphVars, Node, VizQueue, Recorded, OnQueue
  <2>3. TypeOK' /\ Wellformed' /\ EventMapCurrent' /\ NothingLost'
    BY <2>1, <2>2
       DEF IInv, TypeOK, Wellformed, EventMapCurrent, NothingLost, queueVars,
           graphVars, fileVars
  <2>4. /\ LeavesCover' /\ LastNodeCovers' /\ LastBarrierCovers'
        /\ InOrderChain' /\ AfterBarrier'
    BY <2>1, <2>2
       DEF IInv, LeavesCover, LastNodeCovers, LastBarrierCovers, Covers,
           InOrderChain, AfterBarrier, queueVars, graphVars
  <2>5. Closed(MDefined, MPreds)' /\ PrintedOnce' /\ EdgesDeclared'
    BY <2>1
       DEF IInv, PrintedOnce, EdgesDeclared, PrintedBy, Printed, graphVars,
           fileVars
  <2> QED
    BY <2>3, <2>4, <2>5 DEF IInv
<1> QED
  BY <1>3, <1>4, <1>5, <1>6, <1>7, <1>8, <1>9, <1>10 DEF Next

-----------------------------------------------------------------------------
(***************************************************************************)
(* The theorems.                                                           *)
(***************************************************************************)

\* The inductive invariant holds in every reachable state.
THEOREM Invariance == Spec => []IInv
<1>1. Init => IInv
  BY InitIInv
<1>2. IInv /\ [Next]_vars => IInv'
  BY NextPreserves
<1> QED
  BY <1>1, <1>2, PTL DEF Spec

\* Type correctness of the instance's fields and of the file.
THEOREM TypeCorrect == Spec => []TypeOK
<1>1. IInv => TypeOK
  BY DEF IInv
<1> QED
  BY <1>1, Invariance, PTL

\* However event pointers are reused among recorded commands, a wait list and
\* clWaitForEvents find the node the event was returned for.
THEOREM EventsAreCurrent == Spec => []EventMapCurrent
<1>1. IInv => EventMapCurrent
  BY DEF IInv
<1> QED
  BY <1>1, Invariance, PTL

\* Flushes overlap, and still every node is in one cluster of the file and
\* written once.
THEOREM FileIsConsistent == Spec => []PrintedOnce
<1>1. IInv => PrintedOnce
  BY DEF IInv
<1> QED
  BY <1>1, Invariance, PTL

\* Whatever order the flushes come in, no edge names a node that the file
\* does not define by then.
THEOREM EdgesAreDeclared == Spec => []EdgesDeclared
<1>1. IInv => EdgesDeclared
  BY DEF IInv
<1> QED
  BY <1>1, Invariance, PTL

\* The few edges kept per node order an in-order queue completely.
THEOREM OrderIsKept == Spec => []InOrderChain
<1>1. IInv => InOrderChain
  BY DEF IInv
<1> QED
  BY <1>1, Invariance, PTL

\* Everything on a queue is ordered after the barriers enqueued before it.
THEOREM BarriersAreKept == Spec => []AfterBarrier
<1>1. IInv => AfterBarrier
  BY DEF IInv
<1> QED
  BY <1>1, Invariance, PTL

\* No recorded node is missing from the file of a destroyed instance, those
\* on queues whose pointer was given to another queue included.
THEOREM NothingIsLost == Spec => []NothingLost
<1>1. IInv => NothingLost
  BY DEF IInv
<1> QED
  BY <1>1, Invariance, PTL

\* clFinish leaves nothing of its queue unprinted, whatever other queues
\* depend on it and whatever was flushed before.
THEOREM FinishIsComplete == Spec => FinishPrintsQueue
<1> DEFINE Complete == \A cq \in CLQueue :
             Finish(cq) => OnQueue(MQueueMap[cq]) \subseteq MDefined'
<1>1. IInv => Complete
  <2> SUFFICES ASSUME IInv, NEW cq \in CLQueue, Finish(cq)
               PROVE  OnQueue(MQueueMap[cq]) \subseteq MDefined'
    OBVIOUS
  <2>1. MQueueMap[cq] \in VizQueue /\ Flush(MLeaves[MQueueMap[cq]])
    BY MappedQueue DEF Finish
  <2>2. MLeaves[MQueueMap[cq]] \in SUBSET Recorded
    BY <2>1 DEF IInv, Wellformed
  <2> QED
    BY <2>1, <2>2, FlushLeaves
<1> QED
  BY <1>1, Invariance, PTL DEF FinishPrintsQueue

\* After clWaitForEvents the command of a recorded event and everything it is
\* ordered after is in the file.
THEOREM WaitIsComplete == Spec => WaitPrintsCommands
<1> DEFINE Complete == \A e \in Event :
             signal[e] \in Node /\ WaitForEvents({e})
               => {signal[e]} \cup Ancestors(signal[e], MPreds) \subseteq MDefined'
<1>1. IInv => Complete
  <2> SUFFICES ASSUME IInv, NEW e \in Event, WaitForEvents({e}), signal[e] \in Node
               PROVE  {signal[e]} \cup Ancestors(signal[e], MPreds) \subseteq MDefined'
    OBVIOUS
  <2> DEFINE S == {MEventMap[x] : x \in {e}} \ {NoNode}
             n == signal[e]
  <2>1. MEventMap[e] = n /\ n # NoNode /\ n \in Recorded
    BY DEF IInv, EventMapCurrent, Wellformed, Node, NoNode
  <2>2. S \in SUBSET Recorded /\ n \in S /\ Flush(S)
    BY <2>1 DEF IInv, Wellformed, WaitForEvents
  <2>3. n \in MDefined' /\ Closed(MDefined', MPreds) /\ MDefined' \in SUBSET Recorded
    BY <2>2, FlushFacts DEF IInv, Wellformed
  <2>4. MPreds \in [Node -> SUBSET Node] /\ MDefined' \in SUBSET Node
    BY <2>3, ConstantsAssumption DEF IInv, TypeOK, Recorded, Node
  <2>5. MPreds[n] \subseteq MDefined'
    BY <2>3 DEF Closed
  <2>6. Ancestors(n, MPreds) \subseteq MDefined'
    BY <2>3, <2>4, <2>5, AncestorsFacts
  <2> QED
    BY <2>3, <2>6
<1> QED
  BY <1>1, Invariance, PTL DEF WaitPrintsCommands

\* A barrier or marker without a wait list is ordered after all its queue.
THEOREM BarriersCover == Spec => CoversQueue
<1> DEFINE Covered == \A cq \in CLQueue, R \in Returned :
             EnqueueMarker(cq, {}, R) \/ EnqueueBarrier(cq, {}, R)
               => OnQueue(MQueueMap[cq]) \subseteq Ancestors(MNodes, MPreds')
<1>1. IInv /\ IInv' => Covered
  <2> SUFFICES ASSUME IInv, IInv', NEW cq \in CLQueue, NEW R \in Returned,
                      EnqueueMarker(cq, {}, R) \/ EnqueueBarrier(cq, {}, R)
               PROVE  OnQueue(MQueueMap[cq]) \subseteq Ancestors(MNodes, MPreds')
    OBVIOUS
  <2> DEFINE q == MQueueMap[cq]
             k == MNodes
             A == Ancestors(k, MPreds')
  <2>1. /\ q # NoQueue /\ k < MaxNodes
        /\ MPreds' = [MPreds EXCEPT ![k] = MarkerPreds(q, {})]
    BY DEF EnqueueMarker, EnqueueBarrier, NodePostCreation, LastNodeAfter,
           EventMapAfter
  <2>2. q \in VizQueue /\ MLeaves[q] \subseteq MarkerPreds(q, {})
    BY <2>1, MappedQueue, PredsRecorded
  <2>3. /\ k \in Node /\ k \notin Recorded /\ Node' = Node
        /\ MPreds \in [Node -> SUBSET Node] /\ MPreds' \in [Node -> SUBSET Node]
    BY <2>1, ConstantsAssumption DEF IInv, TypeOK, Node, Recorded
  <2>4. MPreds[k] = {}
    BY <2>3 DEF IInv, Wellformed
  <2>5. A \in SUBSET Node /\ MPreds'[k] \subseteq A /\ Closed(A, MPreds')
    BY <2>3, AncestorsFacts
  <2> HIDE DEF A
  <2>6. MLeaves[q] \subseteq A
    BY <2>1, <2>2, <2>3, <2>5
  <2>7. Closed(A, MPreds)
    BY <2>1, <2>3, <2>4, <2>5 DEF Closed
  <2>8. OnQueue(q) \subseteq A
    BY <2>2, <2>5, <2>6, <2>7 DEF IInv, LeavesCover
  <2> QED
    BY <2>8 DEF A
<1> QED
  BY <1>1, Invariance, PTL DEF CoversQueue

-----------------------------------------------------------------------------
(***************************************************************************)
(* Neither more nor less than is due: with one thread, and all events those*)
(* of recorded commands.                                                   *)
(***************************************************************************)

\* The calls of one thread are never between the two halves of another's.
Alone == Foreign = {} /\ \A t, u \in Thread : t = u

\* The invariant adds that the nodes kept for a queue are its own, so that
\* clFinish prints nothing else, that every live event is that of a recorded
\* command, and that MNodes.back() is the node of the blocking command.
ExactInv ==
  /\ PrintsWhatIsDue
  /\ OwnNodes
  /\ BlockingCommandIsLast
  /\ \A e \in Event : signal[e] # Unknown

\* A flush from nodes of T that leaves T defined writes exactly what waiting
\* for T makes due.
LEMMA FlushIsExact ==
  ASSUME IInv, PrintsWhatIsDue, NEW S \in SUBSET Recorded, NEW T \in SUBSET Node,
         Flush(S), Waited(T), S \subseteq T, T \subseteq MDefined'
  PROVE  PrintsWhatIsDue'
<1>1. /\ MDefined' = MDefined \cup PrintNodes(S)
      /\ Closed(MDefined', MPreds) /\ MDefined' \in SUBSET Node
      /\ \A C \in SUBSET Node :
           S \subseteq C /\ Closed(C, MPreds) => PrintNodes(S) \subseteq C
  <2>1. Recorded \subseteq Node /\ MDefined \in SUBSET Node
    BY ConstantsAssumption DEF IInv, TypeOK, Recorded, Node
  <2> QED
    BY <2>1, FlushFacts DEF IInv
<1>2. MPreds \in [Node -> SUBSET Node] /\ due = MDefined
  BY DEF IInv, TypeOK, PrintsWhatIsDue
<1>3. ASSUME NEW n \in T
      PROVE  /\ Ancestors(n, MPreds) \in SUBSET Node
             /\ MPreds[n] \subseteq Ancestors(n, MPreds)
             /\ Closed(Ancestors(n, MPreds), MPreds)
             /\ Ancestors(n, MPreds) \subseteq MDefined'
  <2>1. MPreds[n] \subseteq MDefined'
    BY <1>1, <1>3 DEF Closed
  <2> QED
    BY <1>1, <1>2, <1>3, <2>1, AncestorsFacts
<1> DEFINE Above == UNION {Ancestors(n, MPreds) : n \in T}
<1>4. due' = MDefined \cup T \cup Above
  BY <1>2 DEF Waited
<1>5. Above \subseteq Node /\ Above \subseteq MDefined'
  BY <1>3
<1>6. Closed(due', MPreds)
  <2>1. Closed(MDefined, MPreds)
    BY DEF IInv
  <2>2. ASSUME NEW n \in due' PROVE MPreds[n] \subseteq due'
    <3>1. CASE n \in MDefined
      BY <1>4, <2>1, <3>1 DEF Closed
    <3>2. CASE n \in T
      BY <1>3, <1>4, <3>2
    <3>3. ASSUME NEW m \in T, n \in Ancestors(m, MPreds)
          PROVE  MPreds[n] \subseteq due'
      BY <1>3, <1>4, <3>3 DEF Closed
    <3> QED
      BY <1>4, <2>2, <3>1, <3>2, <3>3
  <2> QED
    BY <2>2 DEF Closed
<1>7. due' \in SUBSET Node /\ S \subseteq due'
  BY <1>1, <1>4, <1>5
<1>8. PrintNodes(S) \subseteq due'
  BY <1>1, <1>6, <1>7
<1>9. MDefined' = due'
  BY <1>1, <1>4, <1>5, <1>8
<1> QED
  BY <1>9 DEF PrintsWhatIsDue

\* Recording a command keeps the rest of the invariant.
LEMMA RecordIsExact ==
  ASSUME Alone, IInv, ExactInv, NEW cq \in CLQueue, NEW E \in SUBSET Live,
         NEW R \in Returned, Enqueue(cq, E, R)
  PROVE  ExactInv'
<1> USE ConstantsAssumption
<1> DEFINE q == MQueueMap[cq]
<1> PICK P \in {NodePreCreation(q, E), MarkerPreds(q, E)}, isBarrier \in BOOLEAN :
      NodePostCreation(q, P, isBarrier, R)
  BY DEF Enqueue, EnqueueCommand, EnqueueMarker, EnqueueBarrier, EnqueueBlocking
<1>1. /\ q # NoQueue /\ MNodes \in Node /\ MNodes' = MNodes + 1
      /\ MQueue' = [MQueue EXCEPT ![MNodes] = q]
      /\ MLeaves' = [MLeaves EXCEPT ![q] = (MLeaves[q] \ P) \cup {MNodes}]
      /\ MLastNode' = [MLastNode EXCEPT ![q] = LastNodeAfter(q)]
      /\ MBarrier' = [MBarrier EXCEPT ![MNodes] = isBarrier]
      /\ MLastBarrier' = [MLastBarrier EXCEPT ![q] = IF isBarrier THEN MNodes ELSE @]
      /\ signal' = [e \in Event |-> IF e \in R THEN MNodes ELSE signal[e]]
      /\ UNCHANGED <<queueVars, fileVars, due>>
  BY DEF Enqueue, EnqueueCommand, EnqueueMarker, EnqueueBarrier, EnqueueBlocking,
         NodePostCreation, LeavesAfter, IInv, TypeOK, Node
<1>2. q \in VizQueue
  BY <1>1, MappedQueue
<1>3. PrintsWhatIsDue'
  BY <1>1 DEF ExactInv, PrintsWhatIsDue, fileVars
<1>4. OwnNodes'
  <2>1. Recorded' = Recorded \cup {MNodes} /\ MNodes \notin Recorded
    BY <1>1 DEF Recorded, Node
  <2>2. /\ MQueue'[MNodes] = q /\ \A n \in Recorded : MQueue'[n] = MQueue[n]
        /\ \A n \in Recorded : MBarrier'[n] = MBarrier[n]
    BY <1>1, <2>1 DEF IInv, TypeOK
  <2>3. \A r \in VizQueue : /\ OnQueue(r) \subseteq OnQueue(r)'
                            /\ r = q => MNodes \in OnQueue(r)'
                            /\ OnQueue(r) \subseteq Recorded
    BY <2>1, <2>2 DEF OnQueue
  <2>4. \A r \in VizQueue : MLeaves'[r] \subseteq MLeaves[r] \cup {n \in {MNodes} : r = q}
    BY <1>1, <1>2 DEF IInv, TypeOK
  <2>5. \A r \in VizQueue :
          \/ MLastNode'[r] = MLastNode[r]
          \/ r = q /\ MIsInOrder[q] /\ MLastNode'[r] = MNodes
    BY <1>1, <1>2 DEF IInv, TypeOK, LastNodeAfter
  <2>6. \A r \in VizQueue :
          \/ MLastBarrier'[r] = MLastBarrier[r]
          \/ r = q /\ MBarrier'[MNodes] /\ MLastBarrier'[r] = MNodes
    BY <1>1, <1>2 DEF IInv, TypeOK
  <2>7. VizQueue' = VizQueue /\ MIsInOrder' = MIsInOrder
    BY <1>1 DEF VizQueue, queueVars
  <2>8. ASSUME NEW r \in VizQueue
        PROVE  /\ MLeaves'[r] \subseteq OnQueue(r)'
               /\ MLastNode'[r] \in {n \in OnQueue(r)' : MIsInOrder'[r]} \cup {NoNode}
               /\ MLastBarrier'[r] \in {n \in OnQueue(r)' : MBarrier'[n]} \cup {NoNode}
    <3>1. /\ MLeaves[r] \subseteq OnQueue(r)
          /\ MLastNode[r] \in {n \in OnQueue(r) : MIsInOrder[r]} \cup {NoNode}
          /\ MLastBarrier[r] \in {n \in OnQueue(r) : MBarrier[n]} \cup {NoNode}
      BY DEF ExactInv, OwnNodes
    <3>2. MLeaves'[r] \subseteq OnQueue(r)'
      BY <2>3, <2>4, <3>1
    <3>3. MLastNode'[r] \in {n \in OnQueue(r)' : MIsInOrder'[r]} \cup {NoNode}
      BY <2>3, <2>5, <2>7, <3>1
    <3>4. MLastBarrier'[r] \in {n \in OnQueue(r)' : MBarrier'[n]} \cup {NoNode}
      BY <2>2, <2>3, <2>6, <3>1
    <3> QED
      BY <3>2, <3>3, <3>4
  <2> QED
    BY <2>7, <2>8 DEF OwnNodes
<1>5. BlockingCommandIsLast'
  <2>1. \A t \in Thread : pending[t] = NoNode
    BY DEF Enqueue, EnqueueCommand, EnqueueMarker, EnqueueBarrier,
           EnqueueBlocking,
           Callable, Alone
  <2>2. \A t \in Thread : pending'[t] \in {NoNode, MNodes}
    BY <2>1 DEF Enqueue, EnqueueCommand, EnqueueMarker, EnqueueBarrier,
                EnqueueBlocking, IInv, TypeOK
  <2> QED
    BY <1>1, <2>2 DEF BlockingCommandIsLast, Node
<1>6. \A e \in Event : signal'[e] # Unknown
  BY <1>1 DEF ExactInv, Unknown, Node
<1> QED
  BY <1>3, <1>4, <1>5, <1>6 DEF ExactInv

\* Every step preserves exactness.
LEMMA StepIsExact ==
  ASSUME Alone, IInv, IInv', ExactInv, [Next]_vars
  PROVE  ExactInv'
<1> USE ConstantsAssumption
<1>1. Recorded \subseteq Node
  BY DEF IInv, TypeOK, Recorded, Node
\* A step that records nothing keeps the queues' nodes and leaves.
<1>2. UNCHANGED graphVars =>
        /\ UNCHANGED MIsInOrder => OwnNodes'
        /\ UNCHANGED MNodes
  BY DEF graphVars, OwnNodes, ExactInv, OnQueue, Recorded, VizQueue
<1>3. ASSUME NEW cq \in CLQueue, NEW isInOrder \in BOOLEAN, CreateQueue(cq, isInOrder)
      PROVE  ExactInv'
  <2> DEFINE new == MQueues + 1
  <2>1. /\ new \in VizQueue /\ UNCHANGED <<graphVars, fileVars, pending, signal, due>>
        /\ VizQueue' = VizQueue /\ \A q : OnQueue(q)' = OnQueue(q)
        /\ \A q \in VizQueue : q # new => MIsInOrder'[q] = MIsInOrder[q]
    BY <1>3 DEF CreateQueue, IInv, TypeOK, VizQueue, OnQueue, Recorded, graphVars
  <2>2. OnQueue(new) = {}
    BY DEF IInv, TypeOK, Wellformed, OnQueue
  <2>3. OwnNodes'
    BY <2>1, <2>2 DEF ExactInv, OwnNodes, graphVars
  <2> QED
    BY <1>2, <2>1, <2>3 DEF ExactInv, PrintsWhatIsDue, BlockingCommandIsLast, fileVars
<1>4. ASSUME NEW cq \in CLQueue, NEW E \in SUBSET Live, NEW R \in Returned,
             Enqueue(cq, E, R)
      PROVE  ExactInv'
  BY <1>4, RecordIsExact
<1>5. ASSUME NEW cq \in CLQueue, Finish(cq)
      PROVE  ExactInv'
  <2> DEFINE q == MQueueMap[cq]
  <2>1. /\ q \in VizQueue /\ Flush(MLeaves[q]) /\ Waited(OnQueue(q))
        /\ UNCHANGED <<graphVars, pending, signal>>
    BY <1>5, MappedQueue DEF Finish
  <2>2. MLeaves[q] \subseteq OnQueue(q)
    BY <2>1 DEF ExactInv, OwnNodes
  <2>3. MLeaves[q] \in SUBSET Recorded /\ OnQueue(q) \in SUBSET Node
    BY <1>1, <2>1 DEF IInv, Wellformed, OnQueue
  <2>4. OnQueue(q) \subseteq MDefined'
    BY <2>1, <2>3, FlushLeaves
  <2>5. PrintsWhatIsDue'
    BY <2>1, <2>2, <2>3, <2>4, FlushIsExact DEF ExactInv
  <2> QED
    BY <1>2, <1>5, <2>1, <2>5 DEF Finish, ExactInv, BlockingCommandIsLast, queueVars
<1>6. ASSUME NEW E \in SUBSET Live, WaitForEvents(E)
      PROVE  ExactInv'
  <2> DEFINE S == {MEventMap[e] : e \in E} \ {NoNode}
             T == {signal[e] : e \in E} \cap Node
  <2>1. \A e \in E : e \in Event /\ signal[e] \in Node /\ MEventMap[e] = signal[e]
    BY DEF Live, ExactInv, IInv, TypeOK, EventMapCurrent
  <2>2. S = T
    BY <2>1 DEF Node, NoNode
  <2>3. S \in SUBSET Recorded
    BY <2>1 DEF IInv, Wellformed
  <2>4. Flush(S) /\ Waited(T) /\ UNCHANGED <<graphVars, pending, signal>>
    BY <1>6 DEF WaitForEvents
  <2> HIDE DEF S, T
  <2>5. T \in SUBSET Node /\ S \subseteq MDefined'
    BY <1>1, <2>2, <2>3, <2>4, FlushFacts DEF IInv
  <2>6. PrintsWhatIsDue'
    BY <2>2, <2>3, <2>4, <2>5, FlushIsExact DEF ExactInv
  <2> QED
    BY <1>2, <1>6, <2>4, <2>6 DEF WaitForEvents, ExactInv, BlockingCommandIsLast, queueVars
<1>7. ASSUME NEW t \in Thread, FlushBlocking(t)
      PROVE  ExactInv'
  <2> DEFINE S == {MNodes - 1}
  <2>1. /\ pending[t] = MNodes - 1 /\ pending[t] \in Recorded
        /\ Flush(S) /\ Waited({pending[t]}) /\ UNCHANGED <<graphVars, signal>>
        /\ pending' = [pending EXCEPT ![t] = NoNode]
    BY <1>7 DEF FlushBlocking, ExactInv, BlockingCommandIsLast, IInv, TypeOK,
                Wellformed
  <2>2. S = {pending[t]} /\ S \in SUBSET Recorded
    BY <2>1
  <2> HIDE DEF S
  <2>3. S \in SUBSET Node /\ S \subseteq MDefined'
    BY <1>1, <2>1, <2>2, FlushFacts DEF IInv
  <2>4. PrintsWhatIsDue'
    BY <2>1, <2>2, <2>3, FlushIsExact DEF ExactInv
  <2>5. BlockingCommandIsLast'
    BY <1>2, <2>1 DEF ExactInv, BlockingCommandIsLast, IInv, TypeOK
  <2> QED
    BY <1>2, <1>7, <2>1, <2>4, <2>5 DEF FlushBlocking, ExactInv, queueVars
<1>8. ASSUME NEW e \in Event, ReleaseEvent(e) \/ UnrecordedEvent(e)
      PROVE  ExactInv'
  <2>1. /\ UNCHANGED <<queueVars, graphVars, fileVars, open, pending, due>>
        /\ signal' = [signal EXCEPT ![e] = Free]
    BY <1>8 DEF ReleaseEvent, UnrecordedEvent, Alone
  <2>2. \A x \in Event : signal'[x] # Unknown
    BY <2>1 DEF ExactInv, IInv, TypeOK, Free, Unknown
  <2> QED
    BY <1>2, <2>1, <2>2 DEF ExactInv, PrintsWhatIsDue, BlockingCommandIsLast,
                            fileVars, queueVars
<1>9. CASE Teardown
  <2>1. MDefined' = Recorded
    BY <1>9 DEF IInv, NothingLost, Teardown, Recorded, graphVars
  <2> QED
    BY <1>2, <1>9, <2>1 DEF Teardown, ExactInv, PrintsWhatIsDue,
                            BlockingCommandIsLast, queueVars
<1>10. CASE UNCHANGED vars
  BY <1>2, <1>10 DEF vars, ExactInv, PrintsWhatIsDue, BlockingCommandIsLast,
                     fileVars, queueVars
<1> QED
  BY <1>3, <1>4, <1>5, <1>6, <1>7, <1>8, <1>9, <1>10 DEF Next

\* Neither more nor less than is due is an invariant, with the rest.
LEMMA Exactness == ASSUME Alone PROVE Spec => []ExactInv
<1>1. Init => ExactInv
  BY DEF Init, ExactInv, PrintsWhatIsDue, OwnNodes, BlockingCommandIsLast,
         Free, Unknown
<1>2. IInv /\ IInv' /\ ExactInv /\ [Next]_vars => ExactInv'
  BY StepIsExact
<1> QED
  BY <1>1, <1>2, Invariance, PTL DEF Spec

\* The file defines exactly what the host waited for and what that is ordered
\* after.  BlockingCommandIsLast is what a second thread breaks, and the last
\* part of ExactInv what the event of an unrecorded command breaks.
THEOREM FileIsExact == ASSUME Alone PROVE Spec => []PrintsWhatIsDue
<1>1. ExactInv => PrintsWhatIsDue
  BY DEF ExactInv
<1> QED
  BY <1>1, Exactness, PTL

-----------------------------------------------------------------------------
(***************************************************************************)
(* What a single thread records and prints is what CommandOrder promises.  *)
(***************************************************************************)

\* Nothing is recorded at first, and nothing promised.
LEMMA InitPromises == Init => Promise!Init
<1> SUFFICES ASSUME Init PROVE Promise!Init
  OBVIOUS
<1>1. ASSUME NEW n \in Node PROVE Ancestors(n, MPreds) = {}
  <2>1. MPreds \in [Node -> SUBSET Node] /\ MPreds[n] = {} /\ Closed({}, MPreds)
    BY DEF Init, Closed
  <2> QED
    BY <2>1, AncestorsFacts
<1> QED
  BY <1>1 DEF Init, Promise!Init, Promise!Queue, Promise!Command, Promise!NoQueue,
     Promise!None, Promise!Free, VizQueue, Node, NoQueue, NoNode, Free

\* The commands a new command of queue q is directly ordered after, by the
\* rules of CommandOrder.
Direct(q, E, covers) ==
  {signal[e] : e \in E} \cup
  {c \in OnQueue(q) : (MIsInOrder[q] \/ covers) \/ MBarrier[c]}

\* The edges of a new node stand for edges from all of these, and from no
\* other: the node is ordered after them and all they are ordered after.
LEMMA RecordOrders ==
  ASSUME IInv, ExactInv, MNodes < MaxNodes, NEW q \in VizQueue,
         NEW E \in SUBSET Live, NEW covers \in BOOLEAN,
         MPreds' \in [Node -> SUBSET Node],
         MPreds'[MNodes] = NodePreCreation(q, E) \cup (IF covers THEN MLeaves[q] ELSE {}),
         \A n \in Node : n # MNodes => MPreds'[n] = MPreds[n]
  PROVE  /\ \A n \in Node : n # MNodes => Ancestors(n, MPreds') = Ancestors(n, MPreds)
         /\ Ancestors(MNodes, MPreds') = WithAncestors(Direct(q, E, covers), MPreds)
<1> USE ConstantsAssumption
<1> DEFINE T == Direct(q, E, covers)
           P == MPreds'[MNodes]
<1>1. /\ MNodes \in Node /\ MNodes \notin Recorded
      /\ Recorded \subseteq Node /\ NoNode \notin Node
      /\ MPreds \in [Node -> SUBSET Node]
  BY DEF IInv, TypeOK, Node, Recorded, NoNode
<1>2. MPreds[MNodes] = {} /\ \A n \in Node : MNodes \notin MPreds[n]
  <2>1. \A n \in Recorded : MPreds[n] \subseteq Recorded
    BY DEF IInv, TypeOK, Wellformed, Recorded
  <2> QED
    BY <1>1, <2>1 DEF IInv, Wellformed
<1>3. /\ \A e \in E : MEventMap[e] = signal[e] /\ signal[e] \in Recorded
      /\ MLeaves[q] \subseteq OnQueue(q)
      /\ MLastNode[q] \in {n \in OnQueue(q) : MIsInOrder[q]} \cup {NoNode}
      /\ MLastBarrier[q] \in {n \in OnQueue(q) : MBarrier[n]} \cup {NoNode}
      /\ OnQueue(q) \subseteq Recorded
  <2>1. \A e \in E : e \in Event /\ signal[e] \in Node /\ MEventMap[e] = signal[e]
    BY DEF Live, ExactInv, IInv, TypeOK, EventMapCurrent
  <2>2. \A e \in E : signal[e] \in Recorded
    BY <1>1, <2>1 DEF IInv, Wellformed
  <2> QED
    BY <2>1, <2>2 DEF ExactInv, OwnNodes, OnQueue
<1>4. P = {signal[e] : e \in E} \cup ({MLastNode[q], MLastBarrier[q]} \ {NoNode})
            \cup (IF covers THEN MLeaves[q] ELSE {})
  <2>1. {MEventMap[e] : e \in E} = {signal[e] : e \in E} /\ NoNode \notin {signal[e] : e \in E}
    BY <1>1, <1>3
  <2> QED
    BY <2>1 DEF NodePreCreation
<1>5. P \subseteq T /\ T \subseteq Recorded
  BY <1>3, <1>4 DEF Direct
<1>6. ASSUME NEW C \in SUBSET Node, P \subseteq C, Closed(C, MPreds)
      PROVE  T \subseteq C
  <2>1. {n \in OnQueue(q) : MBarrier[n]} \subseteq C
    BY <1>4, <1>6 DEF IInv, LastBarrierCovers, Covers
  <2>2. covers => OnQueue(q) \subseteq C
    BY <1>4, <1>6 DEF IInv, LeavesCover
  <2>3. MIsInOrder[q] => OnQueue(q) \subseteq C
    BY <1>4, <1>6 DEF IInv, LastNodeCovers, Covers
  <2> QED
    BY <1>4, <1>6, <2>1, <2>2, <2>3 DEF Direct
<1>7. T \in SUBSET Node /\ MNodes \notin P
  BY <1>1, <1>5
<1> HIDE DEF T
<1>8. Ancestors(MNodes, MPreds') = WithAncestors(T, MPreds)
  BY <1>1, <1>2, <1>5, <1>6, <1>7, NewNodeFollows
<1>9. ASSUME NEW n \in Node, n # MNodes
      PROVE  Ancestors(n, MPreds') = Ancestors(n, MPreds)
  BY <1>1, <1>2, <1>9, OldNodesKeep
<1> QED
  BY <1>8, <1>9 DEF T

\* A node that is recorded is a command submitted, which waits for what the
\* rules say and signals the events it returned.
LEMMA RecordSubmits ==
  ASSUME IInv, ExactInv, NEW q \in 1 .. MQueues, NEW E \in SUBSET Live,
         NEW R \in SUBSET Event, NEW covers \in BOOLEAN, NEW isBarrier \in BOOLEAN,
         NodePostCreation(q, NodePreCreation(q, E) \cup (IF covers THEN MLeaves[q] ELSE {}),
                          isBarrier, R),
         UNCHANGED <<queueVars, fileVars, open>>
  PROVE  Promise!Submit(q, E, R, isBarrier, covers)
<1> USE ConstantsAssumption
<1> DEFINE P      == NodePreCreation(q, E) \cup (IF covers THEN MLeaves[q] ELSE {})
           order  == [n \in Node |-> Ancestors(n, MPreds)]
           direct == {signal[e] : e \in E} \cup
                     {c \in Promise!On(q) : (MIsInOrder[q] \/ covers) \/ MBarrier[c]}
<1>1. q \in VizQueue /\ q <= MQueues /\ MNodes \in Node /\ MNodes < MaxNodes
  BY DEF IInv, TypeOK, VizQueue, Node, NodePostCreation
<1>2. NodePreCreation(q, E) \in SUBSET Node /\ MLeaves[q] \in SUBSET Node
  <2>1. E \in SUBSET Event /\ Recorded \subseteq Node
    BY DEF Live, IInv, TypeOK, Recorded, Node
  <2> QED
    BY <1>1, <2>1, PredsRecorded DEF IInv, TypeOK
<1>3. P \in SUBSET Node
  BY <1>2
<1> HIDE DEF P
<1>4. /\ MPreds' \in [Node -> SUBSET Node] /\ MPreds'[MNodes] = P
      /\ \A n \in Node : n # MNodes => MPreds'[n] = MPreds[n]
  BY <1>1, <1>3 DEF P, NodePostCreation, IInv, TypeOK
<1>5. /\ \A n \in Node : n # MNodes => Ancestors(n, MPreds') = Ancestors(n, MPreds)
      /\ Ancestors(MNodes, MPreds') = WithAncestors(Direct(q, E, covers), MPreds)
  BY <1>1, <1>4, RecordOrders DEF P
<1>6. Promise!On(q) = OnQueue(q)
  BY DEF Promise!On, OnQueue, Recorded
<1>7. direct = Direct(q, E, covers)
  BY <1>6 DEF Direct
<1>8. direct \subseteq Node
  <2>1. \A e \in E : signal[e] \in Node
    BY DEF Live, ExactInv, IInv, TypeOK
  <2>2. OnQueue(q) \subseteq Node
    BY DEF OnQueue, Recorded, IInv, TypeOK, Node
  <2> QED
    BY <1>6, <2>1, <2>2
<1>9. Promise!WithOrder(direct) = WithAncestors(Direct(q, E, covers), MPreds)
  BY <1>7, <1>8 DEF Promise!WithOrder, WithAncestors
<1>10. order' = [order EXCEPT ![MNodes] = Promise!WithOrder(direct)]
  <2>1. order' = [n \in Node |-> Ancestors(n, MPreds')]
    BY DEF Node
  <2> HIDE DEF direct
  <2> QED
    BY <1>1, <1>5, <1>9, <2>1
<1> QED
  BY <1>1, <1>10 DEF Promise!Submit, NodePostCreation, EventMapAfter, queueVars, fileVars

\* Each of the four ways of enqueuing a command is one of the promise.
LEMMA EnqueuePromises ==
  ASSUME IInv, ExactInv, NEW cq \in CLQueue, NEW E \in SUBSET Live,
         NEW R \in Returned, Enqueue(cq, E, R)
  PROVE  Promise!Next
<1> DEFINE q == MQueueMap[cq]
<1>1. q # NoQueue /\ open /\ UNCHANGED <<queueVars, fileVars, open>>
  BY DEF Enqueue, EnqueueCommand, EnqueueMarker, EnqueueBarrier, EnqueueBlocking,
         Callable
<1>2. q \in 1 .. MQueues /\ q \in VizQueue /\ R \in SUBSET Event
  BY <1>1, MappedQueue DEF Returned, Live
<1>3. E \in SUBSET Promise!Live /\ R \in Promise!Returned
  BY DEF Promise!Live, Promise!Returned, Promise!Free, Live, Returned, Free
<1>4. /\ MarkerPreds(q, E) = NodePreCreation(q, E) \cup (IF E = {} THEN MLeaves[q] ELSE {})
      /\ NodePreCreation(q, E) = NodePreCreation(q, E) \cup (IF FALSE THEN MLeaves[q] ELSE {})
  BY DEF MarkerPreds
<1> HIDE DEF q
<1>5. ASSUME NEW isBarrier \in BOOLEAN,
             NodePostCreation(q, MarkerPreds(q, E), isBarrier, R)
      PROVE  Promise!Submit(q, E, R, isBarrier, E = {})
  <2>1. PICK covers \in BOOLEAN : covers = (E = {})
    OBVIOUS
  <2>2. MarkerPreds(q, E) = NodePreCreation(q, E) \cup (IF covers THEN MLeaves[q] ELSE {})
    BY <1>4, <2>1
  <2>3. Promise!Submit(q, E, R, isBarrier, covers)
    BY <1>1, <1>2, <1>5, <2>2, RecordSubmits
  <2> QED
    BY <2>1, <2>3
<1>6. ASSUME NodePostCreation(q, NodePreCreation(q, E), FALSE, R)
      PROVE  Promise!Submit(q, E, R, FALSE, FALSE)
  BY <1>1, <1>2, <1>4, <1>6, RecordSubmits
<1>7. ASSUME EnqueueCommand(cq, E, R) \/ EnqueueMarker(cq, E, R) \/ EnqueueBarrier(cq, E, R)
      PROVE  Promise!SubmitAny(q, E, R)
  <2>1. CASE EnqueueCommand(cq, E, R)
    BY <1>6, <2>1 DEF EnqueueCommand, Promise!SubmitAny, q
  <2>2. CASE EnqueueMarker(cq, E, R)
    BY <1>5, <2>2 DEF EnqueueMarker, Promise!SubmitAny, q
  <2>3. CASE EnqueueBarrier(cq, E, R)
    BY <1>5, <2>3 DEF EnqueueBarrier, Promise!SubmitAny, q
  <2> QED
    BY <1>7, <2>1, <2>2, <2>3
<1>8. ASSUME NEW t \in Thread, EnqueueBlocking(t, cq, E, R)
      PROVE  Promise!SubmitBlocking(t, q, E, R)
  BY <1>6, <1>8 DEF EnqueueBlocking, Promise!SubmitBlocking, Promise!None, NoNode, q
<1> QED
  BY <1>1, <1>2, <1>3, <1>7, <1>8 DEF Enqueue, Promise!Next, Promise!Queue, VizQueue

\* As long as the file defines what is due, a call that waits for the
\* commands S reports them.
LEMMA WaitedReports ==
  ASSUME PrintsWhatIsDue, PrintsWhatIsDue', NEW S \in SUBSET Node, Waited(S),
         UNCHANGED <<queueVars, graphVars>>
  PROVE  Promise!Report(S)
<1> DEFINE order == [n \in Node |-> Ancestors(n, MPreds)]
<1>1. order' = order
  BY DEF Node, graphVars
<1>2. Promise!WithOrder(S) = S \cup UNION {Ancestors(n, MPreds) : n \in S}
  BY DEF Promise!WithOrder
<1>3. MDefined' = MDefined \cup Promise!WithOrder(S)
  BY <1>2 DEF PrintsWhatIsDue, Waited
<1> QED
  BY <1>1, <1>3 DEF Promise!Report, Promise!orderVars, queueVars, graphVars

\* Every step is one of the promise, or none.
LEMMA StepPromises ==
  ASSUME Alone, IInv, ExactInv, IInv', ExactInv', [Next]_vars
  PROVE  Promise!Next \/ UNCHANGED Promise!vars
<1> USE ConstantsAssumption
<1>1. Recorded \subseteq Node
  BY DEF IInv, TypeOK, Recorded, Node
<1>2. PrintsWhatIsDue /\ PrintsWhatIsDue'
  BY DEF ExactInv
<1>3. UNCHANGED graphVars =>
        [n \in Node |-> Ancestors(n, MPreds)]' = [n \in Node |-> Ancestors(n, MPreds)]
  BY DEF Node, graphVars
<1>4. ASSUME NEW cq \in CLQueue, NEW isInOrder \in BOOLEAN, CreateQueue(cq, isInOrder)
      PROVE  Promise!Next
  <2>1. Promise!Create(MQueues + 1, isInOrder) /\ open
    BY <1>3, <1>4 DEF CreateQueue, Callable, Promise!Create, Promise!orderVars, graphVars,
                      fileVars
  <2>2. MQueues + 1 \in Promise!Queue
    BY <1>4 DEF CreateQueue, Promise!Queue, IInv, TypeOK
  <2> QED
    BY <2>1, <2>2 DEF Promise!Next
<1>5. ASSUME NEW cq \in CLQueue, NEW E \in SUBSET Live, NEW R \in Returned,
             Enqueue(cq, E, R)
      PROVE  Promise!Next
  BY <1>5, EnqueuePromises
<1>6. ASSUME NEW cq \in CLQueue, Finish(cq)
      PROVE  Promise!Next
  <2> DEFINE q == MQueueMap[cq]
  <2>1. /\ q \in VizQueue /\ Waited(OnQueue(q)) /\ open
        /\ UNCHANGED <<queueVars, graphVars, open, pending, signal>>
    BY <1>6, MappedQueue DEF Finish, Callable
  <2>2. OnQueue(q) \in SUBSET Node /\ Promise!On(q) = OnQueue(q)
    BY <1>1 DEF OnQueue, Promise!On, Recorded
  <2>3. Promise!Report(OnQueue(q))
    BY <1>2, <2>1, <2>2, WaitedReports
  <2>4. Promise!Finish(q)
    BY <2>1, <2>2, <2>3 DEF Promise!Finish
  <2> HIDE DEF q
  <2> QED
    BY <2>1, <2>4 DEF Promise!Next, Promise!Queue, VizQueue
<1>7. ASSUME NEW E \in SUBSET Live, WaitForEvents(E)
      PROVE  Promise!Next
  <2> DEFINE S == {signal[e] : e \in E}
  <2>1. \A e \in E : signal[e] \in Node
    BY DEF Live, ExactInv, IInv, TypeOK
  <2>2. S \in SUBSET Node /\ S \cap Node = S
    BY <2>1
  <2>3. Waited(S \cap Node) /\ open /\ UNCHANGED <<queueVars, graphVars, open, pending, signal>>
    BY <1>7 DEF WaitForEvents, Callable
  <2>4. Promise!Report(S)
    BY <1>2, <2>2, <2>3, WaitedReports
  <2>5. Promise!Wait(E)
    BY <2>3, <2>4 DEF Promise!Wait
  <2> QED
    BY <2>3, <2>5 DEF Promise!Next, Promise!Live, Promise!Free, Live, Free
<1>8. ASSUME NEW t \in Thread, FlushBlocking(t)
      PROVE  Promise!Next
  <2>1. /\ pending[t] # NoNode /\ Waited({pending[t]}) /\ open
        /\ UNCHANGED <<queueVars, graphVars, open, signal>>
        /\ pending' = [pending EXCEPT ![t] = NoNode]
    BY <1>8 DEF FlushBlocking
  <2>2. {pending[t]} \in SUBSET Node
    BY <2>1 DEF IInv, TypeOK
  <2>3. Promise!Report({pending[t]})
    BY <1>2, <2>1, <2>2, WaitedReports
  <2>4. Promise!Unblock(t)
    BY <2>1, <2>3 DEF Promise!Unblock, Promise!None, NoNode
  <2> QED
    BY <2>1, <2>4 DEF Promise!Next
<1>9. ASSUME NEW e \in Event, ReleaseEvent(e) \/ UnrecordedEvent(e)
      PROVE  Promise!Next
  <2>1. ReleaseEvent(e)
    BY <1>9 DEF UnrecordedEvent, Alone
  <2>2. Promise!Release(e) /\ open
    BY <1>3, <2>1 DEF ReleaseEvent, Callable, Promise!Release, Promise!Free, Free,
                      Promise!orderVars, queueVars, graphVars, fileVars
  <2> QED
    BY <2>2 DEF Promise!Next
<1>10. CASE Teardown
  <2>1. /\ open /\ ~ open' /\ due' = Recorded
        /\ UNCHANGED <<queueVars, graphVars, pending, signal>>
    BY <1>10 DEF Teardown
  <2>2. ASSUME NEW n \in Recorded PROVE Ancestors(n, MPreds) \subseteq Recorded
    <3>1. MPreds \in [Node -> SUBSET Node] /\ Recorded \in SUBSET Node /\ n \in Node
      BY <1>1 DEF IInv, TypeOK
    <3>2. Closed(Recorded, MPreds) /\ MPreds[n] \subseteq Recorded
      BY DEF IInv, TypeOK, Wellformed, Closed, Recorded
    <3> QED
      BY <3>1, <3>2, AncestorsFacts
  <2>3. Waited(Recorded)
    <3>1. due \subseteq Recorded
      BY <1>2 DEF PrintsWhatIsDue, IInv, Wellformed
    <3>2. UNION {Ancestors(n, MPreds) : n \in Recorded} \subseteq Recorded
      BY <2>2
    <3> QED
      BY <2>1, <3>1, <3>2 DEF Waited
  <2>4. Promise!Report(Recorded)
    BY <1>1, <1>2, <2>1, <2>3, WaitedReports
  <2>5. Promise!Close
    BY <2>1, <2>4 DEF Promise!Close, Recorded
  <2> QED
    BY <2>1, <2>5 DEF Promise!Next
<1>11. CASE UNCHANGED vars
  BY <1>3, <1>11 DEF vars, queueVars, graphVars, fileVars, Promise!vars, Promise!orderVars
<1> QED
  BY <1>4, <1>5, <1>6, <1>7, <1>8, <1>9, <1>10, <1>11 DEF Next

\* The few edges kept per queue order each command after all that the rules
\* of CommandOrder name and after nothing else, and each blocking call prints
\* exactly what the host then knows to be complete.
THEOREM RecordsAsPromised == ASSUME Alone PROVE Spec => KeepsPromise
<1>1. Init => Promise!Init
  BY InitPromises
<1>2. IInv /\ IInv' /\ ExactInv /\ ExactInv' /\ [Next]_vars => [Promise!Next]_(Promise!vars)
  BY StepPromises
<1> QED
  BY <1>1, <1>2, Invariance, Exactness, PTL DEF Spec, KeepsPromise, Promise!Spec
=============================================================================

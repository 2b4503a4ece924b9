---------------------------- MODULE FlushProofs ----------------------------
(***************************************************************************)
(* The loop of flush collects what PrintNodes of VizInstance says, for     *)
(* every graph, every set of defined nodes and every start.                *)
(***************************************************************************)
EXTENDS Flush, DagProofs

\* The entries of a vector are those of its last place and of the rest.
LEMMA ElementsOfTop ==
  ASSUME NEW T, NEW s \in Seq(T), s # << >>
  PROVE  LET r == SubSeq(s, 1, Len(s) - 1)
         IN  /\ r \in Seq(T) /\ s[Len(s)] \in T
             /\ Elements(s) = Elements(r) \cup {s[Len(s)]}
<1> DEFINE r == SubSeq(s, 1, Len(s) - 1)
<1>1. /\ Len(s) \in Nat \ {0} /\ DOMAIN s = 1 .. Len(s)
      /\ r \in Seq(T) /\ Len(r) = Len(s) - 1 /\ DOMAIN r = 1 .. (Len(s) - 1)
      /\ \A i \in 1 .. (Len(s) - 1) : r[i] = s[i]
  OBVIOUS
<1>2. Len(s) \in DOMAIN s /\ s[Len(s)] \in T
  BY <1>1
<1> HIDE DEF r
<1>3. ASSUME NEW i \in DOMAIN s PROVE s[i] \in Elements(r) \cup {s[Len(s)]}
  <2>1. CASE i = Len(s)
    BY <2>1
  <2>2. CASE i # Len(s)
    <3>1. i \in DOMAIN r /\ r[i] = s[i]
      BY <1>1, <1>3, <2>2
    <3> QED
      BY <3>1 DEF Elements
  <2> QED
    BY <2>1, <2>2
<1>4. ASSUME NEW i \in DOMAIN r PROVE r[i] \in Elements(s)
  <2>1. i \in DOMAIN s /\ s[i] = r[i]
    BY <1>1, <1>4
  <2> QED
    BY <2>1 DEF Elements
<1>5. Elements(s) \subseteq Elements(r) \cup {s[Len(s)]} /\ Elements(r) \subseteq Elements(s)
  BY <1>3, <1>4 DEF Elements
<1>6. s[Len(s)] \in Elements(s)
  BY <1>2 DEF Elements
<1> QED
  BY <1>1, <1>2, <1>5, <1>6 DEF r

\* The entries of two vectors in a row are those of both.
LEMMA ElementsOfConcat ==
  ASSUME NEW T, NEW s \in Seq(T), NEW u \in Seq(T)
  PROVE  s \o u \in Seq(T) /\ Elements(s \o u) = Elements(s) \cup Elements(u)
<1>1. /\ s \o u \in Seq(T) /\ Len(s) \in Nat /\ Len(u) \in Nat
      /\ DOMAIN s = 1 .. Len(s) /\ DOMAIN u = 1 .. Len(u)
      /\ DOMAIN (s \o u) = 1 .. (Len(s) + Len(u))
      /\ \A i \in 1 .. Len(s) : (s \o u)[i] = s[i]
      /\ \A i \in 1 .. Len(u) : (s \o u)[Len(s) + i] = u[i]
  OBVIOUS
<1>2. Elements(s \o u) \subseteq Elements(s) \cup Elements(u)
  <2> SUFFICES ASSUME NEW i \in 1 .. (Len(s) + Len(u))
               PROVE  (s \o u)[i] \in Elements(s) \cup Elements(u)
    BY <1>1 DEF Elements
  <2>1. CASE i <= Len(s)
    BY <1>1, <2>1 DEF Elements
  <2>2. CASE i > Len(s)
    <3>1. i - Len(s) \in 1 .. Len(u) /\ i = Len(s) + (i - Len(s))
      BY <1>1, <2>2
    <3> QED
      BY <1>1, <3>1 DEF Elements
  <2> QED
    BY <1>1, <2>1, <2>2
<1>3. Elements(s) \subseteq Elements(s \o u)
  BY <1>1 DEF Elements
<1>4. Elements(u) \subseteq Elements(s \o u)
  <2> SUFFICES ASSUME NEW i \in 1 .. Len(u) PROVE u[i] \in Elements(s \o u)
    BY <1>1 DEF Elements
  <2>1. Len(s) + i \in DOMAIN (s \o u) /\ u[i] = (s \o u)[Len(s) + i]
    BY <1>1
  <2> QED
    BY <2>1 DEF Elements
<1> QED
  BY <1>1, <1>2, <1>3, <1>4

-----------------------------------------------------------------------------
FlushInv == TypeOK /\ Closed(MDefined, PredSets) /\ LoopInvariant

\* The graph as sets, and as a traversal sees it that stops at MDefined.
LEMMA GraphTypes ==
  ASSUME TypeOK
  PROVE  /\ PredSets \in [Node -> SUBSET Node]
         /\ Undefined \in [Node -> SUBSET Node]
         /\ \A n \in Node : /\ PredSets[n] = Elements(MPreds[n])
                            /\ Undefined[n] = Elements(MPreds[n]) \ MDefined
         /\ Elements(start) \in SUBSET Node
         /\ Elements(NodeStack) \in SUBSET Node
<1>1. \A s \in Seq(Node) : Elements(s) \in SUBSET Node
  BY DEF Elements
<1>2. \A n \in Node : MPreds[n] \in Seq(Node)
  BY DEF TypeOK
<1>3. /\ PredSets \in [Node -> SUBSET Node]
      /\ \A n \in Node : PredSets[n] = Elements(MPreds[n])
  BY <1>1, <1>2 DEF PredSets
<1> QED
  BY <1>1, <1>3 DEF Undefined, Without, TypeOK

\* The loop starts with the caller's nodes on the stack and nothing to print.
LEMMA FlushInit == Init => FlushInv
<1> SUFFICES ASSUME Init PROVE FlushInv
  OBVIOUS
<1> USE FlushAssumption
<1>1. TypeOK
  <2>1. \A n \in Node : \A v \in EarlierVectors(n) : v \in Seq(Node)
    BY DEF EarlierVectors, Node
  <2>2. MPreds \in [Node -> Seq(Node)]
    BY <2>1 DEF Init, Graphs
  <2>3. start \in Seq(Node)
    BY DEF Init, Node
  <2> QED
    BY <2>2, <2>3 DEF Init, TypeOK
<1>2. Closed(MDefined, PredSets)
  BY DEF Init
<1>3. Elements(start) \ MDefined \subseteq Reach(Elements(start) \ MDefined, Undefined)
  BY <1>1, GraphTypes, ReachHasStart
<1>4. LoopInvariant
  BY <1>3 DEF Init, LoopInvariant
<1> QED
  BY <1>1, <1>2, <1>4 DEF FlushInv

\* Each iteration keeps the loop invariant.
LEMMA FlushStep == FlushInv /\ [Next]_vars => FlushInv'
<1> SUFFICES ASSUME FlushInv, [Next]_vars PROVE FlushInv'
  OBVIOUS
<1> DEFINE wanted == Reach(Elements(start) \ MDefined, Undefined)
           rest   == Elements(Popped)
<1>1. TypeOK /\ Closed(MDefined, PredSets) /\ LoopInvariant
  BY DEF FlushInv
<1>2. /\ PredSets \in [Node -> SUBSET Node] /\ Undefined \in [Node -> SUBSET Node]
      /\ \A n \in Node : Undefined[n] = Elements(MPreds[n]) \ MDefined
  BY <1>1, GraphTypes
<1>3. wanted \in SUBSET Node /\ Closed(wanted, Undefined)
  BY <1>2, ReachClosed
<1>4. ASSUME NodeStack # << >>
      PROVE  /\ Popped \in Seq(Node) /\ Top \in Node
             /\ Elements(NodeStack) = rest \cup {Top}
  BY <1>1, <1>4, ElementsOfTop DEF TypeOK, Top, Popped
<1>5. ASSUME UNCHANGED graph
      PROVE  /\ Node' = Node /\ PredSets' = PredSets /\ Undefined' = Undefined
             /\ MPreds' = MPreds /\ MDefined' = MDefined /\ start' = start
  BY <1>5 DEF graph, Node, PredSets, Undefined, Elements
<1> HIDE DEF wanted, rest
<1>6. CASE PopDefined
  <2>1. /\ NodeStack # << >> /\ Top \in MDefined /\ NodeStack' = Popped
        /\ UNCHANGED <<graph, printNodes, done>>
    BY <1>6 DEF PopDefined
  <2>2. Elements(NodeStack') = rest
    BY <2>1 DEF rest
  <2>3. TypeOK'
    BY <1>1, <1>4, <1>5, <2>1 DEF TypeOK
  <2>4. LoopInvariant'
    <3> DEFINE pending == printNodes \cup Elements(NodeStack)
    <3>1. pending = pending' \cup {Top}
      BY <1>4, <2>1, <2>2
    <3>2. /\ Elements(start) \ MDefined \subseteq pending
          /\ \A n \in printNodes : Undefined[n] \subseteq pending
          /\ pending \ MDefined \subseteq wanted
          /\ printNodes \cap MDefined = {}
          /\ ~done
      BY <1>1, <2>1 DEF LoopInvariant, wanted
    <3>3. \A n \in printNodes : Undefined[n] \cap MDefined = {}
      BY <1>1, <1>2 DEF TypeOK
    <3> HIDE DEF pending
    <3>4. /\ Elements(start) \ MDefined \subseteq pending'
          /\ \A n \in printNodes' : Undefined[n] \subseteq pending'
          /\ pending' \ MDefined \subseteq wanted
          /\ printNodes' \cap MDefined = {}
      BY <2>1, <3>1, <3>2, <3>3
    <3>5. wanted' = wanted /\ Elements(start') = Elements(start) /\ ~done'
      BY <1>5, <2>1, <3>2 DEF wanted
    <3> QED
      BY <1>5, <2>1, <3>4, <3>5 DEF LoopInvariant, pending, wanted
  <2> QED
    BY <1>1, <1>5, <2>1, <2>3, <2>4 DEF FlushInv
<1>7. CASE Expand
  <2>1. /\ NodeStack # << >> /\ Top \notin MDefined
        /\ printNodes' = printNodes \cup {Top}
        /\ NodeStack' = Popped \o MPreds[Top]
        /\ UNCHANGED <<graph, done>>
    BY <1>7 DEF Expand
  <2>2. MPreds[Top] \in Seq(Node)
    BY <1>1, <1>4, <2>1 DEF TypeOK
  <2>3. /\ NodeStack' \in Seq(Node)
        /\ Elements(NodeStack') = rest \cup Elements(MPreds[Top])
    BY <1>4, <2>1, <2>2, ElementsOfConcat DEF rest
  <2>4. TypeOK'
    BY <1>1, <1>4, <1>5, <2>1, <2>3 DEF TypeOK
  <2>5. Top \in wanted /\ Undefined[Top] \subseteq wanted
    <3>1. Top \in wanted
      BY <1>1, <1>4, <2>1 DEF LoopInvariant, wanted
    <3> QED
      BY <1>3, <3>1 DEF Closed
  <2>6. LoopInvariant'
    <3> DEFINE pending == printNodes \cup Elements(NodeStack)
    <3>1. pending' = pending \cup Elements(MPreds[Top])
      BY <1>4, <2>1, <2>3
    <3>2. Undefined[Top] = Elements(MPreds[Top]) \ MDefined
      BY <1>2, <1>4, <2>1
    <3>3. /\ Elements(start) \ MDefined \subseteq pending
          /\ \A n \in printNodes : Undefined[n] \subseteq pending
          /\ pending \ MDefined \subseteq wanted
          /\ printNodes \cap MDefined = {}
          /\ ~done
      BY <1>1, <2>1 DEF LoopInvariant, wanted
    <3> HIDE DEF pending
    <3>4. /\ Elements(start) \ MDefined \subseteq pending'
          /\ \A n \in printNodes' : Undefined[n] \subseteq pending'
          /\ pending' \ MDefined \subseteq wanted
          /\ printNodes' \cap MDefined = {}
      BY <2>1, <2>5, <3>1, <3>2, <3>3
    <3>5. wanted' = wanted /\ Elements(start') = Elements(start) /\ ~done'
      BY <1>5, <2>1, <3>3 DEF wanted
    <3> QED
      BY <1>5, <2>1, <3>4, <3>5 DEF LoopInvariant, pending, wanted
  <2> QED
    BY <1>1, <1>5, <2>1, <2>4, <2>6 DEF FlushInv
<1>8. CASE Finish
  BY <1>1, <1>5, <1>8 DEF Finish, FlushInv, TypeOK, LoopInvariant
<1>9. CASE UNCHANGED vars
  BY <1>1, <1>5, <1>9 DEF vars, FlushInv, TypeOK, LoopInvariant
<1> QED
  BY <1>6, <1>7, <1>8, <1>9 DEF Next

-----------------------------------------------------------------------------
\* The stack never runs under, and it and the set to print hold nodes of the
\* graph only.
THEOREM StackIsTyped == Spec => []TypeOK
<1>1. FlushInv => TypeOK
  BY DEF FlushInv
<1> QED
  BY <1>1, FlushInit, FlushStep, PTL DEF Spec

\* The loop invariant of flush holds on every graph.
THEOREM LoopInvariance == Spec => []LoopInvariant
<1>1. FlushInv => LoopInvariant
  BY DEF FlushInv
<1> QED
  BY <1>1, FlushInit, FlushStep, PTL DEF Spec

\* When the loop of flush ends, it has collected the nodes that are needed to
\* print its start and that the file does not define: no more and no fewer.
THEOREM FlushIsCorrect == Spec => []CollectsReachable
<1>1. FlushInv => CollectsReachable
  <2> SUFFICES ASSUME FlushInv, done
               PROVE  printNodes = Reach(Elements(start) \ MDefined, Undefined)
    BY DEF CollectsReachable
  <2> DEFINE S == Elements(start) \ MDefined
  <2>1. TypeOK /\ Undefined \in [Node -> SUBSET Node] /\ Elements(start) \in SUBSET Node
    BY GraphTypes DEF FlushInv
  <2>2. Elements(NodeStack) = {}
    BY DEF FlushInv, LoopInvariant, Elements
  <2>3. /\ S \subseteq printNodes
        /\ Closed(printNodes, Undefined)
        /\ printNodes \subseteq Reach(S, Undefined)
    BY <2>2 DEF FlushInv, LoopInvariant, Closed
  <2>4. Reach(S, Undefined) \subseteq printNodes
    <3>1. printNodes \in SUBSET DOMAIN Undefined
      BY <2>1 DEF TypeOK
    <3> QED
      BY <2>3, <3>1, ReachLeast
  <2> QED
    BY <2>3, <2>4
<1> QED
  BY <1>1, FlushInit, FlushStep, PTL DEF Spec

\* After the call the file defines, once, whatever one of its edges names.
THEOREM FileStaysClosed == Spec => []LeavesFileClosed
<1>1. FlushInv => LeavesFileClosed
  <2> SUFFICES ASSUME FlushInv, done
               PROVE  /\ Closed(MDefined \cup printNodes, PredSets)
                      /\ printNodes \cap MDefined = {}
    BY DEF LeavesFileClosed
  <2>1. /\ TypeOK /\ Closed(MDefined, PredSets) /\ printNodes \cap MDefined = {}
        /\ \A n \in printNodes : Undefined[n] \subseteq printNodes
    BY DEF FlushInv, LoopInvariant, Elements
  <2>2. \A n \in printNodes : PredSets[n] \ MDefined = Undefined[n]
    BY <2>1, GraphTypes DEF TypeOK
  <2> QED
    BY <2>1, <2>2 DEF Closed
<1> QED
  BY <1>1, FlushInit, FlushStep, PTL DEF Spec
=============================================================================

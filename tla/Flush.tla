------------------------------- MODULE Flush -------------------------------
(***************************************************************************)
(* The loop of VizInstance::flush, one iteration a step: the explicit      *)
(* stack, the set of nodes to print, and the test of MDefined.  VizInstance*)
(* takes what the loop collects as one set (PrintNodes); this module shows *)
(* that the loop ends with that set, on every graph.                       *)
(*                                                                         *)
(* The graph does not change while the loop runs, under the lock of the    *)
(* context, so it is chosen once, in Init: MPreds with the repeated entries*)
(* the recording really makes (last node, last barrier and a wait list may *)
(* be one and the same node), and MDefined from earlier calls.             *)
(***************************************************************************)
EXTENDS Integers, Sequences, Dag

CONSTANTS
  MaxNodes,  \* bound on the nodes of the graph
  MaxPreds,  \* bound on the entries of one MPreds vector
  MaxStart   \* bound on the nodes the caller pushes

ASSUME FlushAssumption == MaxNodes \in Nat /\ MaxPreds \in Nat /\ MaxStart \in Nat

Node == 0 .. (MaxNodes - 1)

VARIABLES
  MPreds,     \* per node: the vector of its predecessors
  MDefined,   \* nodes defined in the DOT file before the call
  start,      \* the nodes the caller pushed: leaves, or those of events
  NodeStack,  \* the stack, its top last
  printNodes, \* the set to print
  done        \* the loop has ended

graph == <<MPreds, MDefined, start>>
vars == <<graph, NodeStack, printNodes, done>>

Elements(s) == {s[i] : i \in DOMAIN s}

\* A slip for the next definition: a null MLastNode gets into the vector.
EarlierVectors_NullSlip(n) ==
  UNION {[1 .. k -> -1 .. (n - 1)] : k \in 0 .. MaxPreds}

\* The vectors of earlier nodes: a node is created after its predecessors.
EarlierVectors(n) ==
  UNION {[1 .. k -> 0 .. (n - 1)] : k \in 0 .. MaxPreds}

\* The graphs there can be when flush is called: edges point to earlier
\* nodes, and the nodes already defined have their predecessors defined.
Graphs ==
  {g \in [Node -> UNION {EarlierVectors(n) : n \in Node}] :
     \A n \in Node : g[n] \in EarlierVectors(n)}

PredSets == [n \in Node |-> Elements(MPreds[n])]

Init ==
  /\ MPreds \in Graphs
  /\ MDefined \in {D \in SUBSET Node : Closed(D, PredSets)}
  /\ start \in UNION {[1 .. k -> Node] : k \in 0 .. MaxStart}
  /\ NodeStack = start
  /\ printNodes = {}
  /\ done = FALSE

-----------------------------------------------------------------------------
Top == NodeStack[Len(NodeStack)]

Popped == SubSeq(NodeStack, 1, Len(NodeStack) - 1)

\* A node the file defines already is dropped from the stack.
PopDefined ==
  /\ NodeStack # << >>
  /\ Top \in MDefined
  /\ NodeStack' = Popped
  /\ UNCHANGED <<graph, printNodes, done>>

\* The slips: the predecessors are left out, or the node is left on the
\* stack while they are pushed, or the stack is replaced by them.  No step of
\* the loop takes them; with one in the place of Expand a property fails.
Expand_PredsSlip ==
  /\ NodeStack # << >>
  /\ Top \notin MDefined
  /\ printNodes' = printNodes \cup {Top}
  /\ NodeStack' = Popped
  /\ UNCHANGED <<graph, done>>

Expand_PopSlip ==
  /\ NodeStack # << >>
  /\ Top \notin MDefined
  /\ printNodes' = printNodes \cup {Top}
  /\ NodeStack' = NodeStack
  /\ UNCHANGED <<graph, done>>

Expand_StackSlip ==
  /\ NodeStack # << >>
  /\ Top \notin MDefined
  /\ printNodes' = printNodes \cup {Top}
  /\ NodeStack' = MPreds[Top]
  /\ UNCHANGED <<graph, done>>

\* Any other node is to be printed, and its predecessors are pushed, even if
\* the node was met before in this call: MDefined is only set by the writing.
Expand ==
  /\ NodeStack # << >>
  /\ Top \notin MDefined
  /\ printNodes' = printNodes \cup {Top}
  /\ NodeStack' = Popped \o MPreds[Top]
  /\ UNCHANGED <<graph, done>>

Finish ==
  /\ NodeStack = << >>
  /\ ~done
  /\ done' = TRUE
  /\ UNCHANGED <<graph, NodeStack, printNodes>>

Next == PopDefined \/ Expand \/ Finish

Spec == Init /\ [][Next]_vars

\* The loop runs under the lock and nothing stops it.
FairSpec == Spec /\ WF_vars(Next)

-----------------------------------------------------------------------------
TypeOK ==
  /\ MPreds \in [Node -> Seq(Node)]
  /\ MDefined \in SUBSET Node
  /\ start \in Seq(Node)
  /\ NodeStack \in Seq(Node)
  /\ printNodes \in SUBSET Node
  /\ done \in BOOLEAN

\* The edges of the traversal: it does not go into what is defined already.
Undefined == Without(PredSets, MDefined)

\* The loop invariant: what is still to be printed is printed already, or it
\* is on the stack or below a node of the stack; nothing else is.
LoopInvariant ==
  LET wanted  == Reach(Elements(start) \ MDefined, Undefined)
      pending == printNodes \cup Elements(NodeStack)
  IN /\ Elements(start) \ MDefined \subseteq pending
     /\ \A n \in printNodes : Undefined[n] \subseteq pending
     /\ pending \ MDefined \subseteq wanted
     /\ printNodes \cap MDefined = {}
     /\ done => NodeStack = << >>

\* The loop ends with exactly the nodes that are not yet in the file and are
\* needed to print the nodes it was started from.
CollectsReachable == done => printNodes = Reach(Elements(start) \ MDefined, Undefined)

\* After the call, the file defines whatever one of its edges names.
LeavesFileClosed ==
  done => Closed(MDefined \cup printNodes, PredSets) /\ printNodes \cap MDefined = {}

\* The loop ends, however often it meets a node.
Terminates == <>done
=============================================================================

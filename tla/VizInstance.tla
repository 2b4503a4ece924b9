---------------------------- MODULE VizInstance ----------------------------
(***************************************************************************)
(* One VizInstance of the layer (source/viz_instance.cpp, viz_instance.h,  *)
(* viz_dag.h, viz_node.h) with the VizDotFile it owns (source/io.cpp): the *)
(* commands an application enqueues become the nodes of a graph, and the   *)
(* blocking calls of the application write parts of it to the DOT file as  *)
(* clusters.                                                               *)
(*                                                                         *)
(* Every action is one critical section of VizContext::MMutex.  A blocking *)
(* enqueue is two of them, createVizNode and then flushQueue: `pending'    *)
(* holds the threads between the two.  The environment is the application  *)
(* and the driver behind the layer, whose handles (queues, events) come    *)
(* back with an old pointer value once they were released.                 *)
(*                                                                         *)
(* Heap objects are numbers in order of allocation: a VizNode is its MID,  *)
(* a VizQueue its place in MQueues.  MPreds is a set here: a repeated      *)
(* entry of the vector changes neither the closure nor the leaves.         *)
(*                                                                         *)
(* An operator named X_Slip is X with a slip of the pen, used by no action:*)
(* with it in the place of X some property must fail.                      *)
(***************************************************************************)
EXTENDS Integers, Sequences, Dag

CONSTANTS
  CLQueue,   \* cl_command_queue pointer values the driver hands out
  Event,     \* cl_event pointer values the driver hands out
  Foreign,   \* the members of Event that calls the instance does not record
             \* may return too: clCreateUserEvent, or a queue not captured
  Thread,    \* application threads
  MaxQueues, \* bound on the VizQueue objects of the instance
  MaxNodes   \* bound on the nodes of the instance

ASSUME ConstantsAssumption ==
  /\ Foreign \subseteq Event
  /\ MaxQueues \in Nat
  /\ MaxNodes \in Nat

Node     == 0 .. (MaxNodes - 1)
NoNode   == -1               \* a null VizNode*
VizQueue == 1 .. MaxQueues
NoQueue  == 0                \* no entry for a CL queue in MQueueMap
Free     == -2               \* an event pointer that names no event
Unknown  == -3               \* an event of a call that was not recorded

VARIABLES
  MQueues,      \* number of VizQueue objects created so far
  MQueueMap,    \* the VizQueue a CL queue pointer stands for
  MIsInOrder,   \* per VizQueue: executes in order
  MLastNode,    \* per VizQueue: last node if in-order, else NoNode
  MLastBarrier, \* per VizQueue: last barrier
  MLeaves,      \* per VizQueue: nodes no later node of the queue depends on
  MNodes,       \* number of nodes created so far
  MQueue,       \* per node: its VizQueue
  MPreds,       \* per node: the nodes it has an edge from
  MBarrier,     \* per node: whether MName is that of a barrier
  MDefined,     \* the nodes already defined in the DOT file
  MEventMap,    \* per event pointer: the node it was last returned for
  dot,          \* the clusters of the DOT file, in the order written
  open,         \* the instance was not destroyed
  pending,      \* per thread: node of its blocking enqueue, not yet flushed
  signal,       \* environment: what each event pointer now stands for
  due           \* history: the nodes the file must define by now

queueVars == <<MQueues, MQueueMap, MIsInOrder>>
graphVars == <<MLastNode, MLastBarrier, MLeaves, MNodes, MQueue, MPreds,
               MBarrier, MEventMap>>
fileVars  == <<MDefined, dot>>
vars == <<queueVars, graphVars, fileVars, open, pending, signal, due>>

Recorded   == 0 .. (MNodes - 1)
OnQueue(q) == {n \in Recorded : MQueue[n] = q}

TypeOK ==
  /\ MQueues \in 0 .. MaxQueues
  /\ MQueueMap \in [CLQueue -> VizQueue \cup {NoQueue}]
  /\ MIsInOrder \in [VizQueue -> BOOLEAN]
  /\ MLastNode \in [VizQueue -> Node \cup {NoNode}]
  /\ MLastBarrier \in [VizQueue -> Node \cup {NoNode}]
  /\ MLeaves \in [VizQueue -> SUBSET Node]
  /\ MNodes \in 0 .. MaxNodes
  /\ MQueue \in [Node -> VizQueue \cup {NoQueue}]
  /\ MPreds \in [Node -> SUBSET Node]
  /\ MBarrier \in [Node -> BOOLEAN]
  /\ MDefined \in SUBSET Node
  /\ MEventMap \in [Event -> Node \cup {NoNode}]
  /\ dot \in Seq(SUBSET Node)
  /\ open \in BOOLEAN
  /\ pending \in [Thread -> Node \cup {NoNode}]
  /\ signal \in [Event -> Node \cup {Free, Unknown}]
  /\ due \in SUBSET Node

Init ==
  /\ MQueues = 0
  /\ MQueueMap = [cq \in CLQueue |-> NoQueue]
  /\ MIsInOrder = [q \in VizQueue |-> FALSE]
  /\ MLastNode = [q \in VizQueue |-> NoNode]
  /\ MLastBarrier = [q \in VizQueue |-> NoNode]
  /\ MLeaves = [q \in VizQueue |-> {}]
  /\ MNodes = 0
  /\ MQueue = [n \in Node |-> NoQueue]
  /\ MPreds = [n \in Node |-> {}]
  /\ MBarrier = [n \in Node |-> FALSE]
  /\ MDefined = {}
  /\ MEventMap = [e \in Event |-> NoNode]
  /\ dot = << >>
  /\ open = TRUE
  /\ pending = [t \in Thread |-> NoNode]
  /\ signal = [e \in Event |-> Free]
  /\ due = {}

-----------------------------------------------------------------------------
(***************************************************************************)
(* What the environment may do: a call starts on a thread that is not      *)
(* inside a blocking enqueue, on a queue it created, with a wait list of   *)
(* events not yet released; the event returned, if one was asked for, has  *)
(* a pointer value that is not in use.  R is the set of returned events,   *)
(* empty or a singleton.                                                   *)
(***************************************************************************)
Callable == open /\ \E t \in Thread : pending[t] = NoNode

Live == {e \in Event : signal[e] # Free}

Returned == {{}} \cup {{e} : e \in Event \ Live}

-----------------------------------------------------------------------------
(***************************************************************************)
(* Recording a command.                                                    *)
(***************************************************************************)

\* The test for "not found" or for null is forgotten.
NodePreCreation_NullSlip(q, E) ==
  {MEventMap[e] : e \in E} \cup {MLastNode[q], MLastBarrier[q]}

\* The in-order dependency is forgotten.
NodePreCreation_InOrderSlip(q, E) ==
  ({MEventMap[e] : e \in E} \cup {MLastBarrier[q]}) \ {NoNode}

\* The barrier is forgotten.
NodePreCreation_BarrierSlip(q, E) ==
  ({MEventMap[e] : e \in E} \cup {MLastNode[q]}) \ {NoNode}

\* The dependencies every command has: the known events of its wait list,
\* the last node of an in-order queue, and the last barrier of the queue.
NodePreCreation(q, E) ==
  ({MEventMap[e] : e \in E} \cup {MLastNode[q], MLastBarrier[q]}) \ {NoNode}

\* The leaves are added when there is a wait list, not when there is none.
MarkerPreds_WaitListSlip(q, E) ==
  NodePreCreation(q, E) \cup (IF E # {} THEN MLeaves[q] ELSE {})

\* The leaves of all queues are added.
MarkerPreds_AllLeavesSlip(q, E) ==
  NodePreCreation(q, E) \cup
    (IF E = {} THEN UNION {MLeaves[r] : r \in VizQueue} ELSE {})

\* Markers and barriers without a wait list depend on all leaves too.
MarkerPreds(q, E) ==
  NodePreCreation(q, E) \cup (IF E = {} THEN MLeaves[q] ELSE {})

\* The new node is taken for the only leaf.
LeavesAfter_OnlyLeafSlip(q, P) == {MNodes}

\* The leaves of queue q once a node with predecessors P was added to it.
LeavesAfter(q, P) == (MLeaves[q] \ P) \cup {MNodes}

\* MLastNode is set on out-of-order queues too.
LastNodeAfter_OutOfOrderSlip(q) == MNodes

\* The last node of queue q once a node was added to it.
LastNodeAfter(q) == IF MIsInOrder[q] THEN MNodes ELSE MLastNode[q]

\* The entry of a reused event pointer is not erased: emplace keeps it.
EventMapAfter_ReuseSlip(R) ==
  [e \in Event |-> IF e \in R /\ MEventMap[e] = NoNode THEN MNodes ELSE MEventMap[e]]

\* The event map once a node was added that returned the events R.
EventMapAfter(R) == [e \in Event |-> IF e \in R THEN MNodes ELSE MEventMap[e]]

\* A node with predecessors P joins the graph: a leaf of its own queue, the
\* end of an in-order chain, and what the returned events R now stand for.
NodePostCreation(q, P, isBarrier, R) ==
  /\ MNodes < MaxNodes
  /\ MNodes' = MNodes + 1
  /\ MQueue' = [MQueue EXCEPT ![MNodes] = q]
  /\ MPreds' = [MPreds EXCEPT ![MNodes] = P]
  /\ MBarrier' = [MBarrier EXCEPT ![MNodes] = isBarrier]
  /\ MLeaves' = [MLeaves EXCEPT ![q] = LeavesAfter(q, P)]
  /\ MLastNode' = [MLastNode EXCEPT ![q] = LastNodeAfter(q)]
  /\ MLastBarrier' = [MLastBarrier EXCEPT ![q] = IF isBarrier THEN MNodes ELSE @]
  /\ MEventMap' = EventMapAfter(R)
  /\ signal' = [e \in Event |-> IF e \in R THEN MNodes ELSE signal[e]]

\* A kernel, fill, copy, ..., non-blocking read or write.  A wait list may
\* name any live events, of this queue or of others.
EnqueueCommand(cq, E, R) ==
  /\ Callable
  /\ MQueueMap[cq] # NoQueue
  /\ NodePostCreation(MQueueMap[cq], NodePreCreation(MQueueMap[cq], E), FALSE, R)
  /\ UNCHANGED <<queueVars, fileVars, open, pending, due>>

\* clEnqueueMarker, clEnqueueMarkerWithWaitList.
EnqueueMarker(cq, E, R) ==
  /\ Callable
  /\ MQueueMap[cq] # NoQueue
  /\ NodePostCreation(MQueueMap[cq], MarkerPreds(MQueueMap[cq], E), FALSE, R)
  /\ UNCHANGED <<queueVars, fileVars, open, pending, due>>

\* clEnqueueBarrier, clEnqueueBarrierWithWaitList.
EnqueueBarrier(cq, E, R) ==
  /\ Callable
  /\ MQueueMap[cq] # NoQueue
  /\ NodePostCreation(MQueueMap[cq], MarkerPreds(MQueueMap[cq], E), TRUE, R)
  /\ UNCHANGED <<queueVars, fileVars, open, pending, due>>

\* First half of a blocking read, write, map or memcpy: the node is created
\* and the lock released; FlushBlocking is the second half.
EnqueueBlocking(t, cq, E, R) ==
  /\ open
  /\ pending[t] = NoNode
  /\ MQueueMap[cq] # NoQueue
  /\ NodePostCreation(MQueueMap[cq], NodePreCreation(MQueueMap[cq], E), FALSE, R)
  /\ pending' = [pending EXCEPT ![t] = MNodes]
  /\ UNCHANGED <<queueVars, fileVars, open, due>>

-----------------------------------------------------------------------------
(***************************************************************************)
(* Writing to the DOT file.                                                *)
(***************************************************************************)

\* MDefined is not looked at.
PrintNodes_DefinedSlip(S) == Reach(S, MPreds)

\* The predecessors are not pushed.
PrintNodes_PredsSlip(S) == S \ MDefined

\* What flush collects: from the nodes S, along predecessors, stopping at
\* every node the file already defines.
PrintNodes(S) == Reach(S \ MDefined, Without(MPreds, MDefined))

\* flush and writeSubgraph: one cluster, unless there is nothing to print.
WriteSubgraph(P) ==
  /\ MDefined' = MDefined \cup P
  /\ dot' = IF P = {} THEN dot ELSE Append(dot, P)

Flush(S) == WriteSubgraph(PrintNodes(S))

\* The host waited for the commands S, and so for all they are ordered after.
Waited(S) == due' = due \cup S \cup UNION {Ancestors(n, MPreds) : n \in S}

\* Started from the last node instead of the leaves.
Finish_LastNodeSlip(cq) ==
  /\ Callable
  /\ MQueueMap[cq] # NoQueue
  /\ Flush({MLastNode[MQueueMap[cq]]} \ {NoNode})
  /\ Waited(OnQueue(MQueueMap[cq]))
  /\ UNCHANGED <<queueVars, graphVars, open, pending, signal>>

\* clFinish.
Finish(cq) ==
  /\ Callable
  /\ MQueueMap[cq] # NoQueue
  /\ Flush(MLeaves[MQueueMap[cq]])
  /\ Waited(OnQueue(MQueueMap[cq]))
  /\ UNCHANGED <<queueVars, graphVars, open, pending, signal>>

\* clWaitForEvents: events the instance has no node for are skipped.
WaitForEvents(E) ==
  /\ Callable
  /\ Flush({MEventMap[e] : e \in E} \ {NoNode})
  /\ Waited({signal[e] : e \in E} \cap Node)
  /\ UNCHANGED <<queueVars, graphVars, open, pending, signal>>

\* Started from the last node of the queue, null if it is out-of-order.
FlushBlocking_LastNodeSlip(t) ==
  /\ open
  /\ pending[t] # NoNode
  /\ Flush({MLastNode[MQueue[pending[t]]]} \ {NoNode})
  /\ Waited({pending[t]})
  /\ pending' = [pending EXCEPT ![t] = NoNode]
  /\ UNCHANGED <<queueVars, graphVars, open, signal>>

\* Second half of a blocking enqueue: flushes MNodes.back().
FlushBlocking(t) ==
  /\ open
  /\ pending[t] # NoNode
  /\ Flush({MNodes - 1})
  /\ Waited({pending[t]})
  /\ pending' = [pending EXCEPT ![t] = NoNode]
  /\ UNCHANGED <<queueVars, graphVars, open, signal>>

\* Only the queues that still have a map entry are flushed.
Teardown_MappedSlip ==
  /\ open
  /\ Flush(UNION {MLeaves[MQueueMap[cq]] : cq \in {c \in CLQueue : MQueueMap[c] # NoQueue}})
  /\ open' = FALSE
  /\ due' = Recorded
  /\ UNCHANGED <<queueVars, graphVars, pending, signal>>

\* ~VizInstance: the leaves of every VizQueue there ever was.
Teardown ==
  /\ open
  /\ Flush(UNION {MLeaves[q] : q \in 1 .. MQueues})
  /\ open' = FALSE
  /\ due' = Recorded
  /\ UNCHANGED <<queueVars, graphVars, pending, signal>>

-----------------------------------------------------------------------------
(***************************************************************************)
(* Handles.                                                                *)
(***************************************************************************)

\* clCreateCommandQueue, and the queues a dot graph object is created with.
\* The pointer may be that of a released queue: the old VizQueue then loses
\* its map entry but stays in MQueues.  No call is under way on it.
CreateQueue(cq, isInOrder) ==
  /\ Callable
  /\ MQueues < MaxQueues
  /\ \A t \in Thread : pending[t] # NoNode => MQueue[pending[t]] # MQueueMap[cq]
  /\ MQueues' = MQueues + 1
  /\ MQueueMap' = [MQueueMap EXCEPT ![cq] = MQueues + 1]
  /\ MIsInOrder' = [MIsInOrder EXCEPT ![MQueues + 1] = isInOrder]
  /\ UNCHANGED <<graphVars, fileVars, open, pending, signal, due>>

\* clReleaseEvent has no shim: the instance is not told.
ReleaseEvent(e) ==
  /\ Callable
  /\ signal[e] # Free
  /\ signal' = [signal EXCEPT ![e] = Free]
  /\ UNCHANGED <<queueVars, graphVars, fileVars, open, pending, due>>

\* An event of a call that is not recorded.
UnrecordedEvent(e) ==
  /\ Callable
  /\ e \in Foreign
  /\ signal[e] = Free
  /\ signal' = [signal EXCEPT ![e] = Unknown]
  /\ UNCHANGED <<queueVars, graphVars, fileVars, open, pending, due>>

-----------------------------------------------------------------------------
Enqueue(cq, E, R) ==
  \/ EnqueueCommand(cq, E, R)
  \/ EnqueueMarker(cq, E, R)
  \/ EnqueueBarrier(cq, E, R)
  \/ \E t \in Thread : EnqueueBlocking(t, cq, E, R)

Next ==
  \/ \E cq \in CLQueue, isInOrder \in BOOLEAN : CreateQueue(cq, isInOrder)
  \/ \E cq \in CLQueue, E \in SUBSET Live, R \in Returned : Enqueue(cq, E, R)
  \/ \E cq \in CLQueue : Finish(cq)
  \/ \E E \in (SUBSET Live) \ {{}} : WaitForEvents(E)
  \/ \E t \in Thread : FlushBlocking(t)
  \/ \E e \in Event : ReleaseEvent(e) \/ UnrecordedEvent(e)
  \/ Teardown

Spec == Init /\ [][Next]_vars

-----------------------------------------------------------------------------
(***************************************************************************)
(* Safety.                                                                 *)
(***************************************************************************)

Printed(i) == dot[i]

PrintedBy(i) == UNION {Printed(j) : j \in 1 .. i}

\* Every node is defined in one cluster only, and MDefined marks exactly the
\* nodes that are: no cluster repeats a node of an earlier one.
PrintedOnce ==
  /\ MDefined = PrintedBy(Len(dot))
  /\ \A i, j \in 1 .. Len(dot) : i # j => Printed(i) \cap Printed(j) = {}

\* writeEdges names every predecessor: each was defined in the same cluster
\* or an earlier one, so that no edge introduces an unlabelled node.
EdgesDeclared ==
  \A i \in 1 .. Len(dot) : \A n \in Printed(i) : MPreds[n] \subseteq PrintedBy(i)

\* While an event lives, MEventMap names the node it was returned for, even
\* if the pointer was that of an event released earlier.
EventMapCurrent ==
  \A e \in Event : signal[e] \in Node => MEventMap[e] = signal[e]

\* Of two commands of one in-order queue, the later is ordered after the
\* earlier, whatever barriers, markers and wait lists lie between.
InOrderChain ==
  \A m, n \in Recorded :
    m < n /\ MQueue[m] = MQueue[n] /\ MIsInOrder[MQueue[n]]
      => m \in Ancestors(n, MPreds)

\* Everything enqueued to a queue after a barrier is ordered after it.
AfterBarrier ==
  \A b, n \in Recorded :
    b < n /\ MQueue[b] = MQueue[n] /\ MBarrier[b] => b \in Ancestors(n, MPreds)

\* Once the instance is destroyed, every node recorded is in the DOT file,
\* those of a queue whose pointer was reused included.
NothingLost == ~open => MDefined = Recorded

\* The file defines what the host has waited for, with what that is ordered
\* after: no call prints less, and none prints what is not known complete.
\* It takes a single thread, and no events of unrecorded commands.
PrintsWhatIsDue == MDefined = due

-----------------------------------------------------------------------------
(***************************************************************************)
(* Why it is so: the inductive invariant.                                  *)
(***************************************************************************)

\* References are to objects that exist, and edges to older nodes.
Wellformed ==
  /\ \A n \in Recorded : MQueue[n] \in 1 .. MQueues /\ MPreds[n] \subseteq 0 .. (n - 1)
  /\ \A n \in Node \ Recorded : MPreds[n] = {}
  /\ \A q \in VizQueue : /\ MLeaves[q] \subseteq Recorded
                         /\ MLastNode[q] \in Recorded \cup {NoNode}
                         /\ MLastBarrier[q] \in Recorded \cup {NoNode}
  /\ \A cq \in CLQueue : MQueueMap[cq] \in 0 .. MQueues
  /\ \A e \in Event : MEventMap[e] \in Recorded \cup {NoNode}
  /\ \A t \in Thread : pending[t] \in Recorded \cup {NoNode}
  /\ MDefined \subseteq Recorded

\* Whoever has node m has all of S: S is in every closed set with m.
Covers(m, S) ==
  \A C \in SUBSET Node : m \in C /\ Closed(C, MPreds) => S \subseteq C

\* A flush that starts at the leaves of a queue misses none of its nodes.
LeavesCover ==
  \A q \in VizQueue : \A C \in SUBSET Node :
    MLeaves[q] \subseteq C /\ Closed(C, MPreds) => OnQueue(q) \subseteq C

\* An edge from the last node of an in-order queue stands for edges from all
\* of its nodes.
LastNodeCovers ==
  \A q \in VizQueue : MIsInOrder[q] /\ OnQueue(q) # {} =>
    MLastNode[q] # NoNode /\ Covers(MLastNode[q], OnQueue(q))

\* An edge from the last barrier of a queue stands for edges from all its
\* barriers.
LastBarrierCovers ==
  \A q \in VizQueue : LET barriers == {n \in OnQueue(q) : MBarrier[n]} IN
    barriers # {} => MLastBarrier[q] # NoNode /\ Covers(MLastBarrier[q], barriers)

\* MNodes.back() is the node the blocking command created (the comment in
\* flushQueue).  One thread makes it so; two do not.
BlockingCommandIsLast ==
  \A t \in Thread : pending[t] # NoNode => pending[t] = MNodes - 1

\* The leaves, the last node and the last barrier of a queue are of the queue,
\* and there is a last node only if it is in-order: an edge from one of them
\* stands for no more than the rules of CommandOrder ask for.
OwnNodes ==
  \A q \in VizQueue :
    /\ MLeaves[q] \subseteq OnQueue(q)
    /\ MLastNode[q] \in {n \in OnQueue(q) : MIsInOrder[q]} \cup {NoNode}
    /\ MLastBarrier[q] \in {n \in OnQueue(q) : MBarrier[n]} \cup {NoNode}

IInv ==
  /\ TypeOK
  /\ Wellformed
  /\ EventMapCurrent
  /\ LeavesCover
  /\ LastNodeCovers
  /\ LastBarrierCovers
  /\ Closed(MDefined, MPreds)
  /\ PrintedOnce
  /\ EdgesDeclared
  /\ InOrderChain
  /\ AfterBarrier
  /\ NothingLost

-----------------------------------------------------------------------------
(***************************************************************************)
(* What a step must achieve.                                               *)
(***************************************************************************)

\* After clFinish, all that was enqueued to the queue is in the DOT file.
FinishPrintsQueue ==
  [][\A cq \in CLQueue :
       Finish(cq) => OnQueue(MQueueMap[cq]) \subseteq MDefined']_vars

\* After clWaitForEvents, the commands of the recorded events waited for and
\* all they are ordered after are in the DOT file.
WaitPrintsCommands ==
  [][\A e \in Event :
       signal[e] \in Node /\ WaitForEvents({e})
         => {signal[e]} \cup Ancestors(signal[e], MPreds) \subseteq MDefined']_vars

\* A barrier or marker without a wait list is ordered after everything that
\* was enqueued to its queue before.
CoversQueue ==
  [][\A cq \in CLQueue, R \in Returned :
       EnqueueMarker(cq, {}, R) \/ EnqueueBarrier(cq, {}, R)
         => OnQueue(MQueueMap[cq]) \subseteq Ancestors(MNodes, MPreds')]_vars

-----------------------------------------------------------------------------
(***************************************************************************)
(* The promise of CommandOrder, under the mapping that reads the order off *)
(* the edges of the graph.                                                 *)
(***************************************************************************)
Promise == INSTANCE CommandOrder WITH
  queues   <- MQueues,
  inOrder  <- MIsInOrder,
  commands <- MNodes,
  queue    <- MQueue,
  barrier  <- MBarrier,
  order    <- [n \in Node |-> Ancestors(n, MPreds)],
  blocked  <- pending,
  reported <- MDefined,
  closed   <- ~open

\* The few edges the instance keeps (leaves, last node, last barrier) order
\* each command after all that the rules of CommandOrder name and after
\* nothing else, and each blocking call prints exactly what the host then
\* knows.  Like PrintsWhatIsDue it takes a single thread, and no events of
\* unrecorded commands.
KeepsPromise == Promise!Spec
=============================================================================

--------------------------- MODULE CommandBuffer ---------------------------
(***************************************************************************)
(* The graphs of command-buffers: the VizInstance a cl_command_buffer_khr  *)
(* is recorded into (the overloads of viz_instance.cpp that take sync      *)
(* points, VizCB of viz_dag.h), the map of VizContext from handles to those*)
(* instances, and the shims that create, record, print and release         *)
(* (main.cpp 1547-2036, cl_ext_command_buffer_dot_print.cpp).              *)
(*                                                                         *)
(* Creating and releasing are several steps, of which only those of the    *)
(* context take MMutex: the driver's count of references is read, then the *)
(* driver releases, then the instance is destroyed.  `call' remembers where*)
(* a thread is.  Recording is one step: OpenCL leaves it to the application*)
(* that no two threads record into one command-buffer at a time.           *)
(*                                                                         *)
(* The environment is the driver, which gives the pointer of a command-    *)
(* buffer out again as soon as its count is zero, and the application.     *)
(*                                                                         *)
(* An operator named X_Slip is X with a slip of the pen, used by no action:*)
(* with it in the place of X some property must fail.                      *)
(***************************************************************************)
EXTENDS Integers, Dag

CONSTANTS
  CLCommandBuffer, \* cl_command_buffer_khr pointer values
  Thread,          \* application threads
  MaxInstances,    \* bound on the instances created
  MaxNodes,        \* bound on the nodes of all instances
  MaxRefs          \* bound on the driver's reference count

ASSUME BoundsAssumption ==
  MaxInstances \in Nat /\ MaxNodes \in Nat /\ MaxRefs \in Nat

Node       == 0 .. (MaxNodes - 1)
NoNode     == -1                  \* a null VizNode*
SyncPoint  == 0 .. (MaxNodes - 1)
Instance   == 1 .. MaxInstances
NoInstance == 0                   \* no entry in the map

VARIABLES
  MCommandBufferInstanceMap, \* per pointer: the instance of its entry
  instances,     \* number of instances created
  deleted,       \* the instances deleted
  MIsInOrder,    \* per instance: MCommandBuffer->MIsInOrder
  MLastBarrier,  \* per instance: last barrier
  MLeaves,       \* per instance: nodes no later node depends on
  MSyncPointMap, \* per instance: the node of each sync point
  MNodes,        \* number of command-buffer nodes, and the next MID
  MInstance,     \* per node: the instance whose MNodes lists it
  MPreds,        \* per node: the nodes it has an edge from
  MBarrier,      \* per node: whether MName is that of a barrier
  MDefined,      \* the nodes whose MDefined is set
  printed,       \* history: what the last step wrote to a file
  refs,          \* driver: reference count, 0 for a free pointer
  issued,        \* driver: sync points returned for the command-buffer
  held,          \* application: its references, but those being released
  born,          \* history: the instance created for the living command-buffer
  faulted,       \* history: a query of the driver failed
  call,          \* per thread: the call it is in
  process        \* running, ended (clDeinitLayer) or aborted

instanceVars == <<instances, deleted, MIsInOrder>>
graphVars    == <<MLastBarrier, MLeaves, MSyncPointMap, MNodes, MInstance,
                  MPreds, MBarrier>>
driverVars   == <<refs, issued>>
vars == <<MCommandBufferInstanceMap, instanceVars, graphVars, MDefined, printed,
          driverVars, held, born, faulted, call, process>>

Idle              == [step |-> "idle"]
Mapping(p)        == [step |-> "map", buffer |-> p]
Releasing(p, last) == [step |-> "release", buffer |-> p, last |-> last]
Destroying(p)     == [step |-> "destroy", buffer |-> p]

\* What a step may write: for an instance, the nodes the file defines.
Prints  == [instance : Instance \cup {NoInstance}, nodes : SUBSET Node]
Nothing == [instance |-> NoInstance, nodes |-> {}]

Calls ==
  {Idle} \cup {Mapping(p) : p \in CLCommandBuffer}
         \cup {Releasing(p, last) : p \in CLCommandBuffer, last \in BOOLEAN}
         \cup {Destroying(p) : p \in CLCommandBuffer}

Recorded   == 0 .. (MNodes - 1)
NodesOf(i) == {n \in Recorded : MInstance[n] = i}

TypeOK ==
  /\ MCommandBufferInstanceMap \in [CLCommandBuffer -> Instance \cup {NoInstance}]
  /\ instances \in 0 .. MaxInstances
  /\ deleted \in SUBSET Instance
  /\ MIsInOrder \in [Instance -> BOOLEAN]
  /\ MLastBarrier \in [Instance -> Node \cup {NoNode}]
  /\ MLeaves \in [Instance -> SUBSET Node]
  /\ MSyncPointMap \in [Instance -> [SyncPoint -> Node \cup {NoNode}]]
  /\ MNodes \in 0 .. MaxNodes
  /\ MInstance \in [Node -> Instance \cup {NoInstance}]
  /\ MPreds \in [Node -> SUBSET Node]
  /\ MBarrier \in [Node -> BOOLEAN]
  /\ MDefined \in SUBSET Node
  /\ printed \in Prints
  /\ refs \in [CLCommandBuffer -> Int]
  /\ issued \in [CLCommandBuffer -> 0 .. MaxNodes]
  /\ held \in [CLCommandBuffer -> Nat]
  /\ born \in [CLCommandBuffer -> Instance \cup {NoInstance}]
  /\ faulted \in BOOLEAN
  /\ call \in [Thread -> Calls]
  /\ process \in {"running", "ended", "aborted"}

Init ==
  /\ MCommandBufferInstanceMap = [p \in CLCommandBuffer |-> NoInstance]
  /\ instances = 0
  /\ deleted = {}
  /\ MIsInOrder = [i \in Instance |-> FALSE]
  /\ MLastBarrier = [i \in Instance |-> NoNode]
  /\ MLeaves = [i \in Instance |-> {}]
  /\ MSyncPointMap = [i \in Instance |-> [s \in SyncPoint |-> NoNode]]
  /\ MNodes = 0
  /\ MInstance = [n \in Node |-> NoInstance]
  /\ MPreds = [n \in Node |-> {}]
  /\ MBarrier = [n \in Node |-> FALSE]
  /\ MDefined = {}
  /\ printed = Nothing
  /\ refs = [p \in CLCommandBuffer |-> 0]
  /\ issued = [p \in CLCommandBuffer |-> 0]
  /\ held = [p \in CLCommandBuffer |-> 0]
  /\ born = [p \in CLCommandBuffer |-> NoInstance]
  /\ faulted = FALSE
  /\ call = [t \in Thread |-> Idle]
  /\ process = "running"

\* Thread t starts a call, or takes its next step in one.
At(t, c) == process = "running" /\ call[t] = c

Goto(t, c) == call' = [call EXCEPT ![t] = c]

\* The sync points of the command-buffer that the application knows.
Known(p) == 0 .. (issued[p] - 1)

-----------------------------------------------------------------------------
(***************************************************************************)
(* Creation.                                                               *)
(***************************************************************************)

\* clCreateCommandBufferKHR, the driver's part.
DriverCreates(p) ==
  /\ refs[p] = 0
  /\ refs' = [refs EXCEPT ![p] = 1]
  /\ UNCHANGED <<MCommandBufferInstanceMap, instanceVars, graphVars, MDefined,
                 issued, born, faulted, process>>

\* On one queue: the instance is still to be created.
Create(t, p) ==
  /\ At(t, Idle)
  /\ DriverCreates(p)
  /\ Goto(t, Mapping(p))
  /\ UNCHANGED held

\* On several queues: an error is logged and no instance created.
CreateMultiDevice(t, p) ==
  /\ At(t, Idle)
  /\ DriverCreates(p)
  /\ held' = [held EXCEPT ![p] = 1]
  /\ UNCHANGED call

\* createVizInstance: emplace does not replace an entry that is there.
CreateVizInstance(t, p, isInOrder) ==
  /\ At(t, Mapping(p))
  /\ instances < MaxInstances
  /\ instances' = instances + 1
  /\ MIsInOrder' = [MIsInOrder EXCEPT ![instances + 1] = isInOrder]
  /\ MCommandBufferInstanceMap' =
       [MCommandBufferInstanceMap EXCEPT ![p] =
          IF @ = NoInstance THEN instances + 1 ELSE @]
  /\ born' = [born EXCEPT ![p] = instances + 1]
  /\ held' = [held EXCEPT ![p] = 1]
  /\ Goto(t, Idle)
  /\ UNCHANGED <<deleted, graphVars, MDefined, driverVars, faulted, process>>

\* The query of the queue's properties fails: the application gets its
\* command-buffer, the context no instance for it.
CreateVizInstanceFails(t, p) ==
  /\ At(t, Mapping(p))
  /\ faulted' = TRUE
  /\ held' = [held EXCEPT ![p] = 1]
  /\ Goto(t, Idle)
  /\ UNCHANGED <<MCommandBufferInstanceMap, instanceVars, graphVars, MDefined,
                 driverVars, born, process>>

-----------------------------------------------------------------------------
(***************************************************************************)
(* Recording.                                                              *)
(***************************************************************************)

\* MNodes.back() of instance i, as a set: empty if it has no node.
Back(i) == {n \in NodesOf(i) : \A m \in NodesOf(i) : m <= n}

\* The in-order dependency is forgotten.
NodePreCreation_InOrderSlip(i, D) ==
  ({MSyncPointMap[i][s] : s \in D} \cup {MLastBarrier[i]}) \ {NoNode}

\* The nodes of the sync points D, the last barrier, and the last node of an
\* in-order command-buffer.
NodePreCreation(i, D) ==
  ({MSyncPointMap[i][s] : s \in D} \cup {MLastBarrier[i]}
     \cup (IF MIsInOrder[i] THEN Back(i) ELSE {})) \ {NoNode}

\* The leaves are not added.
BarrierPreds_LeavesSlip(i, D) == NodePreCreation(i, D)

\* A barrier without a wait list depends on all leaves too.
BarrierPreds(i, D) ==
  NodePreCreation(i, D) \cup (IF D = {} THEN MLeaves[i] ELSE {})

\* The new node is taken for the only leaf.
LeavesAfter_OnlyLeafSlip(i, P) == {MNodes}

LeavesAfter(i, P) == (MLeaves[i] \ P) \cup {MNodes}

\* The sync point is not entered.
SyncPointsAfter_ForgetSlip(p, i) == MSyncPointMap[i]

\* The sync points of instance i once a command of p was recorded: an entry
\* that is there is kept.  A caller that asks for no sync point is one that
\* never uses the one it was given.
SyncPointsAfter(p, i) ==
  [s \in SyncPoint |-> IF s = issued[p] /\ MSyncPointMap[i][s] = NoNode
                       THEN MNodes ELSE MSyncPointMap[i][s]]

\* NodePostCreation, and MLastBarrier if it is a barrier.
NodePostCreation(p, i, P, isBarrier) ==
  /\ MNodes' = MNodes + 1
  /\ MInstance' = [MInstance EXCEPT ![MNodes] = i]
  /\ MPreds' = [MPreds EXCEPT ![MNodes] = P]
  /\ MBarrier' = [MBarrier EXCEPT ![MNodes] = isBarrier]
  /\ MSyncPointMap' = [MSyncPointMap EXCEPT ![i] = SyncPointsAfter(p, i)]
  /\ MLeaves' = [MLeaves EXCEPT ![i] = LeavesAfter(i, P)]
  /\ MLastBarrier' = [MLastBarrier EXCEPT ![i] = IF isBarrier THEN MNodes ELSE @]

\* There is no entry for p, or none for a sync point of D: an assertion fails,
\* or with assertions off the null behind end() is dereferenced.
Asserts(p, D) ==
  LET i == MCommandBufferInstanceMap[p] IN
    i = NoInstance \/ \E s \in D : MSyncPointMap[i][s] = NoNode

\* The driver took a command of p that waits for the sync points D.
Accepted(t, p, D) ==
  /\ At(t, Idle)
  /\ held[p] > 0
  /\ D \subseteq Known(p)
  /\ MNodes < MaxNodes
  /\ issued[p] < MaxNodes
  /\ issued' = [issued EXCEPT ![p] = @ + 1]
  /\ UNCHANGED <<MCommandBufferInstanceMap, instanceVars, MDefined, refs, held,
                 born, faulted, call>>

\* clCommandNDRangeKernelKHR, the copies and the fills.
AddCommand(t, p, D) ==
  LET i == MCommandBufferInstanceMap[p] IN
  /\ Accepted(t, p, D)
  /\ ~ Asserts(p, D)
  /\ NodePostCreation(p, i, NodePreCreation(i, D), FALSE)
  /\ UNCHANGED process

\* clCommandBarrierWithWaitListKHR.
AddBarrier(t, p, D) ==
  LET i == MCommandBufferInstanceMap[p] IN
  /\ Accepted(t, p, D)
  /\ ~ Asserts(p, D)
  /\ NodePostCreation(p, i, BarrierPreds(i, D), TRUE)
  /\ UNCHANGED process

AddAborts(t, p, D) ==
  /\ Accepted(t, p, D)
  /\ Asserts(p, D)
  /\ process' = "aborted"
  /\ UNCHANGED graphVars

-----------------------------------------------------------------------------
(***************************************************************************)
(* Printing.                                                               *)
(***************************************************************************)

\* MDefined is not reset.
DefinedAfterPrint_ResetSlip(i) == MDefined \cup NodesOf(i)

\* The nodes writeNode defines for instance i: it skips what is defined.
Defines(i) == NodesOf(i) \ MDefined

\* writeNode sets MDefined; the second loop of flushCommandBuffer resets it.
DefinedAfterPrint(i) == (MDefined \cup Defines(i)) \ NodesOf(i)

\* clDotPrintCommandBufferEXT, to a file of its own: the nodes defined, and
\* the edges to all nodes of the instance.  It does nothing if there is no
\* entry.
DotPrint(t, p) ==
  LET i == MCommandBufferInstanceMap[p] IN
  /\ At(t, Idle)
  /\ held[p] > 0
  /\ i # NoInstance
  /\ printed' = [instance |-> i, nodes |-> Defines(i)]
  /\ MDefined' = DefinedAfterPrint(i)
  /\ UNCHANGED <<MCommandBufferInstanceMap, instanceVars, graphVars, driverVars,
                 held, born, faulted, call, process>>

-----------------------------------------------------------------------------
(***************************************************************************)
(* Release.                                                                *)
(***************************************************************************)

\* clRetainCommandBufferKHR, which has no shim.
Retain(p) ==
  /\ process = "running"
  /\ held[p] > 0
  /\ refs[p] < MaxRefs
  /\ refs' = [refs EXCEPT ![p] = @ + 1]
  /\ held' = [held EXCEPT ![p] = @ + 1]
  /\ UNCHANGED <<MCommandBufferInstanceMap, instanceVars, graphVars, MDefined,
                 issued, born, faulted, call, process>>

\* The count is taken for what is left after the release.
QueryCount_OldCountSlip(t, p, failed) ==
  /\ At(t, Idle)
  /\ held[p] > 0
  /\ held' = [held EXCEPT ![p] = @ - 1]
  /\ faulted' = (faulted \/ failed)
  /\ Goto(t, Releasing(p, ~ failed /\ refs[p] = 0))
  /\ UNCHANGED <<MCommandBufferInstanceMap, instanceVars, graphVars, MDefined,
                 driverVars, born, process>>

\* clReleaseCommandBufferKHR, first the query of the count, which may fail.
QueryCount(t, p, failed) ==
  /\ At(t, Idle)
  /\ held[p] > 0
  /\ held' = [held EXCEPT ![p] = @ - 1]
  /\ faulted' = (faulted \/ failed)
  /\ Goto(t, Releasing(p, ~ failed /\ refs[p] = 1))
  /\ UNCHANGED <<MCommandBufferInstanceMap, instanceVars, graphVars, MDefined,
                 driverVars, born, process>>

\* Then the release: at zero the driver may give the pointer out again.
DriverReleases(t, p, last) ==
  /\ At(t, Releasing(p, last))
  /\ refs' = [refs EXCEPT ![p] = @ - 1]
  /\ issued' = [issued EXCEPT ![p] = IF refs[p] = 1 THEN 0 ELSE @]
  /\ born' = [born EXCEPT ![p] = IF refs[p] = 1 THEN NoInstance ELSE @]
  /\ Goto(t, IF last THEN Destroying(p) ELSE Idle)
  /\ UNCHANGED <<MCommandBufferInstanceMap, instanceVars, graphVars, MDefined,
                 held, faulted, process>>

\* The driver refuses, and the application keeps its reference.
DriverRefuses(t, p, last) ==
  /\ At(t, Releasing(p, last))
  /\ held' = [held EXCEPT ![p] = @ + 1]
  /\ Goto(t, Idle)
  /\ UNCHANGED <<MCommandBufferInstanceMap, instanceVars, graphVars, MDefined,
                 driverVars, born, faulted, process>>

\* The instance is deleted, but its entry stays.
MapAfterDestroy_EraseSlip(p) == MCommandBufferInstanceMap

MapAfterDestroy(p) == [MCommandBufferInstanceMap EXCEPT ![p] = NoInstance]

\* Last destroyVizInstance, if the count read was one.
DestroyVizInstance(t, p) ==
  /\ At(t, Destroying(p))
  /\ deleted' = deleted \cup ({MCommandBufferInstanceMap[p]} \ {NoInstance})
  /\ MCommandBufferInstanceMap' = MapAfterDestroy(p)
  /\ Goto(t, Idle)
  /\ UNCHANGED <<instances, MIsInOrder, graphVars, MDefined, driverVars, held,
                 born, faulted, process>>

\* clDeinitLayer, with no call under way: ~VizContext deletes what it maps.
Deinit ==
  /\ \A t \in Thread : At(t, Idle)
  /\ deleted' = deleted \cup
       ({MCommandBufferInstanceMap[p] : p \in CLCommandBuffer} \ {NoInstance})
  /\ MCommandBufferInstanceMap' = [p \in CLCommandBuffer |-> NoInstance]
  /\ process' = "ended"
  /\ UNCHANGED <<instances, MIsInOrder, graphVars, MDefined, driverVars, held,
                 born, faulted, call>>

-----------------------------------------------------------------------------
CreateOrRelease(t, p) ==
  \/ Create(t, p) \/ CreateMultiDevice(t, p)
  \/ \E isInOrder \in BOOLEAN : CreateVizInstance(t, p, isInOrder)
  \/ CreateVizInstanceFails(t, p)
  \/ \E failed \in BOOLEAN : QueryCount(t, p, failed)
  \/ \E last \in BOOLEAN : DriverReleases(t, p, last) \/ DriverRefuses(t, p, last)
  \/ DestroyVizInstance(t, p)

Add(t, p, D) ==
  AddCommand(t, p, D) \/ AddBarrier(t, p, D) \/ AddAborts(t, p, D)

Next ==
  \/ /\ \/ \E t \in Thread, p \in CLCommandBuffer :
              \/ CreateOrRelease(t, p)
              \/ \E D \in SUBSET Known(p) : Add(t, p, D)
        \/ \E p \in CLCommandBuffer : Retain(p)
        \/ Deinit
     /\ printed' = Nothing
  \/ \E t \in Thread, p \in CLCommandBuffer : DotPrint(t, p)

Spec == Init /\ [][Next]_vars

-----------------------------------------------------------------------------
(***************************************************************************)
(* Safety.                                                                 *)
(***************************************************************************)

\* No call is under way that creates or releases p.
Settled(p) == \A t \in Thread : call[t] = Idle \/ call[t].buffer # p

\* A command-buffer that lives is mapped to the instance that was created for
\* it, and one that was released to none, however pointers come back.  It
\* takes a driver that answers, and a single thread.
MapsToOwnDag ==
  process = "running" /\ ~ faulted =>
    \A p \in CLCommandBuffer : Settled(p) =>
      MCommandBufferInstanceMap[p] = born[p]

\* The entries of the map are instances that exist and were not deleted, each
\* under one handle: no call reaches a deleted instance, and none is deleted
\* twice, whatever threads do.
LiveEntries ==
  \A p, r \in CLCommandBuffer :
    LET i == MCommandBufferInstanceMap[p] IN
      i # NoInstance =>
        /\ i \in (1 .. instances) \ deleted
        /\ MCommandBufferInstanceMap[r] = i => p = r

\* Of two commands of an in-order command-buffer the later is ordered after
\* the earlier, and everything is ordered after the barriers before it.
OrderIsKept ==
  \A m, n \in Recorded :
    /\ m < n
    /\ MInstance[m] = MInstance[n]
    /\ MIsInOrder[MInstance[n]] \/ MBarrier[m]
    => m \in Ancestors(n, MPreds)

\* However often a command-buffer was printed before, and however it grew in
\* between, a print defines all the nodes it has and no other, so that no
\* edge of the file names an undefined one.
PrintIsComplete ==
  LET file == printed IN
  /\ file.nodes = NodesOf(file.instance)
  /\ \A n \in file.nodes : MPreds[n] \subseteq file.nodes

-----------------------------------------------------------------------------
(***************************************************************************)
(* Why it is so: the inductive invariant.                                  *)
(***************************************************************************)

\* References are to objects that exist, and edges to older nodes of the same
\* instance.
Wellformed ==
  /\ deleted \subseteq 1 .. instances
  /\ \A n \in Recorded : /\ MInstance[n] \in 1 .. instances
                         /\ MPreds[n] \subseteq {m \in NodesOf(MInstance[n]) : m < n}
  /\ \A n \in Node \ Recorded : MPreds[n] = {}
  /\ \A i \in Instance :
       /\ MLeaves[i] \subseteq NodesOf(i)
       /\ MLastBarrier[i] \in {n \in NodesOf(i) : MBarrier[n]} \cup {NoNode}
       /\ \A s \in SyncPoint : MSyncPointMap[i][s] \in NodesOf(i) \cup {NoNode}

\* S is in every closed set that includes T.
Under(T, S) ==
  \A C \in SUBSET Node : T \subseteq C /\ Closed(C, MPreds) => S \subseteq C

\* An edge from each leaf stands for edges from all nodes, one from the last
\* node of an in-order command-buffer as well, and one from the last barrier
\* for edges from all barriers.
Covered ==
  \A i \in Instance :
    LET barriers == {n \in NodesOf(i) : MBarrier[n]} IN
    /\ Under(MLeaves[i], NodesOf(i))
    /\ MIsInOrder[i] => Under(Back(i), NodesOf(i))
    /\ Under({MLastBarrier[i]} \ {NoNode}, barriers)

IInv ==
  /\ TypeOK
  /\ Wellformed
  /\ LiveEntries
  /\ Covered
  /\ OrderIsKept
  /\ MDefined = {}

-----------------------------------------------------------------------------
(***************************************************************************)
(* What a single thread keeps besides.                                     *)
(***************************************************************************)

\* No two calls are under way at once.
Alone == \A t, u \in Thread : t = u

\* The call of thread t holds a reference to p that the application does not
\* count: it is about to hand it out, or to give it up.
HoldsReference(t, p) ==
  call[t] \in {Mapping(p), Releasing(p, TRUE), Releasing(p, FALSE)}

\* The driver counts the references of the application and of the call.
CountsReferences ==
  \A p \in CLCommandBuffer :
    /\ refs[p] >= 0
    /\ \A t \in Thread :
         refs[p] = held[p] + (IF HoldsReference(t, p) THEN 1 ELSE 0)

\* A command-buffer that is no more, or that is not created yet, has neither
\* sync points nor an instance of its own.
NothingBefore ==
  \A p \in CLCommandBuffer :
    refs[p] = 0 \/ (\E t \in Thread : call[t] = Mapping(p))
      => issued[p] = 0 /\ born[p] = NoInstance

\* Within a call, the count that was read still tells whether the reference
\* is the last.
CallsKnow ==
  \A t \in Thread, p \in CLCommandBuffer :
    /\ call[t] = Mapping(p) => held[p] = 0
    /\ call[t] = Destroying(p) => refs[p] = 0
    /\ call[t] = Releasing(p, TRUE) => refs[p] = 1
    /\ ~ faulted /\ call[t] = Releasing(p, FALSE) => refs[p] # 1

\* The entry of a handle is the instance born with the command-buffer, but
\* for the moment between the driver's release and the destruction; and that
\* instance has a node for each sync point the driver returned.
EntriesAreOwn ==
  process = "running" /\ ~ faulted =>
    \A p \in CLCommandBuffer :
      /\ (\A t \in Thread : call[t] # Destroying(p)) =>
           MCommandBufferInstanceMap[p] = born[p]
      /\ born[p] # NoInstance =>
           \A s \in Known(p) : MSyncPointMap[born[p]][s] # NoNode

LoneIInv == CountsReferences /\ NothingBefore /\ CallsKnow /\ EntriesAreOwn

-----------------------------------------------------------------------------
(***************************************************************************)
(* What a step must achieve.                                               *)
(***************************************************************************)

\* Recording into a command-buffer an instance was created for finds the
\* instance and every sync point the driver returned.
NeverAborts ==
  [][\A t \in Thread, p \in CLCommandBuffer :
       \A D \in SUBSET Known(p) :
         AddAborts(t, p, D) => faulted \/ born[p] = NoInstance]_vars

-----------------------------------------------------------------------------
(***************************************************************************)
(* The promise of CommandOrder, with instances for queues, sync points for *)
(* events, and neither blocking calls nor a file.                          *)
(***************************************************************************)
Free == -2

NoThread == {}

SignalOf(e) ==
  LET n == MSyncPointMap[e[1]][e[2]] IN IF n = NoNode THEN Free ELSE n

Promise == INSTANCE CommandOrder WITH
  Event     <- Instance \X SyncPoint,
  Thread    <- NoThread,
  MaxQueues <- MaxInstances,
  queues    <- instances,
  inOrder   <- MIsInOrder,
  commands  <- MNodes,
  queue     <- MInstance,
  barrier   <- MBarrier,
  order     <- [n \in Node |-> Ancestors(n, MPreds)],
  signal    <- [e \in Instance \X SyncPoint |-> SignalOf(e)],
  blocked   <- [t \in NoThread |-> NoNode],
  reported  <- {},
  closed    <- FALSE

\* The edges kept per command-buffer order its commands as the rules of
\* CommandOrder let them: after their sync points, after barriers, after
\* everything if in-order, and after nothing else.
KeepsPromise == Promise!Spec
=============================================================================

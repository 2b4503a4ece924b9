----------------------------- MODULE VizContext -----------------------------
(***************************************************************************)
(* The layer with VIZ_EXT set: the VizContext, its list of instances, and  *)
(* the dot graph handles of cl_ext_dot_graph that create and destroy them  *)
(* (source/viz_context.cpp, viz_context.h, cl_ext_dot_graph.cpp).  What an *)
(* instance does with a command is the subject of VizInstance; here it is  *)
(* only whether it records it.                                             *)
(*                                                                         *)
(* An action is one critical section of MMutex, or one access to what the  *)
(* mutex does not protect: the steps of a release, and verbose(), which    *)
(* walks MInstances without the lock.  A call of several steps is          *)
(* remembered in `call'.                                                   *)
(*                                                                         *)
(* Handles and instances are addresses: one that was freed may be given    *)
(* to the next object.  Using an address that is free either aborts the    *)
(* process or goes on with whatever value is found; using one that is      *)
(* taken again finds the new object.                                       *)
(*                                                                         *)
(* An operator named X_Slip is X with a slip of the pen, used by no action:*)
(* with it in the place of X some property must fail.                      *)
(***************************************************************************)
EXTENDS Naturals, FiniteSets

CONSTANTS
  Thread,     \* application threads
  CLQueue,    \* command queues
  DotGraph,   \* addresses of _cl_dot_graph_ext objects
  Instance,   \* addresses of VizInstance objects
  NoInstance, \* MInstance of an address that is no handle
  MaxRefs     \* the count of a handle is unsigned: it wraps after MaxRefs

ASSUME RefsAssumption == MaxRefs \in Nat \ {0}

ASSUME InstanceAssumption == NoInstance \notin Instance

VARIABLES
  MInstances, \* the list of the context
  instance,   \* per VizInstance address: live or free
  MQueueMap,  \* per VizInstance: the queues it records
  captured,   \* per VizInstance: the queues it has recorded commands of
  object,     \* per handle address: live or free
  MRefCount,  \* per handle
  MInstance,  \* per handle
  owned,      \* application: the references each thread holds
  listed,     \* application: the queues the handle was created with
  queues,     \* application: the queues created
  call,       \* per thread: the call it is in
  seen,       \* per thread: the list verbose() is walking
  process,    \* running, ended (clDeinitLayer) or aborted
  destroyed,  \* history: the handles destroyVizInstance was called for
  raced       \* history: a release closed a handle while another was under way

instanceVars == <<MInstances, instance, MQueueMap, captured>>
handleVars   == <<object, MRefCount, MInstance>>
appVars      == <<owned, listed, queues>>
historyVars  == <<destroyed, raced>>
vars == <<instanceVars, handleVars, appVars, call, seen, process, historyVars>>

Idle             == [step |-> "idle"]
Loading(h)       == [step |-> "load", dot |-> h]
Reading(h)       == [step |-> "read", dot |-> h]
Destroying(h, i) == [step |-> "destroy", dot |-> h, instance |-> i]
Deleting(h)      == [step |-> "delete", dot |-> h]
Querying(cq)     == [step |-> "verbose", queue |-> cq]
Recording(cq)    == [step |-> "record", queue |-> cq]
Flushing(cq)     == [step |-> "flush", queue |-> cq]

\* The steps of a release of h that found the count at zero, or the object
\* free, and of any release of h.
ClosingCalls(h) == {Reading(h), Deleting(h)} \cup {Destroying(h, i) : i \in Instance}
ReleaseCalls(h) == {Loading(h)} \cup ClosingCalls(h)

Calls ==
  {Idle} \cup {Loading(h) : h \in DotGraph} \cup {Reading(h) : h \in DotGraph}
         \cup {Destroying(h, i) : h \in DotGraph, i \in Instance}
         \cup {Deleting(h) : h \in DotGraph}
         \cup {Querying(cq) : cq \in CLQueue}
         \cup {Recording(cq) : cq \in CLQueue}
         \cup {Flushing(cq) : cq \in CLQueue}

TypeOK ==
  /\ MInstances \in SUBSET Instance
  /\ instance \in [Instance -> {"free", "live"}]
  /\ MQueueMap \in [Instance -> SUBSET CLQueue]
  /\ captured \in [Instance -> SUBSET CLQueue]
  /\ object \in [DotGraph -> {"free", "live"}]
  /\ MRefCount \in [DotGraph -> 0 .. MaxRefs]
  /\ MInstance \in [DotGraph -> Instance \cup {NoInstance}]
  /\ \A h \in DotGraph : object[h] = "live" => MInstance[h] \in Instance
  /\ owned \in [Thread -> [DotGraph -> 0 .. MaxRefs]]
  /\ listed \in [DotGraph -> SUBSET CLQueue]
  /\ queues \in SUBSET CLQueue
  /\ call \in [Thread -> Calls]
  /\ seen \in [Thread -> SUBSET Instance]
  /\ process \in {"running", "ended", "aborted"}
  /\ destroyed \in SUBSET DotGraph
  /\ raced \in BOOLEAN

Init ==
  /\ MInstances = {}
  /\ instance = [i \in Instance |-> "free"]
  /\ MQueueMap = [i \in Instance |-> {}]
  /\ captured = [i \in Instance |-> {}]
  /\ object = [h \in DotGraph |-> "free"]
  /\ MRefCount = [h \in DotGraph |-> 0]
  /\ MInstance = [h \in DotGraph |-> NoInstance]
  /\ owned = [t \in Thread |-> [h \in DotGraph |-> 0]]
  /\ listed = [h \in DotGraph |-> {}]
  /\ queues = {}
  /\ call = [t \in Thread |-> Idle]
  /\ seen = [t \in Thread |-> {}]
  /\ process = "running"
  /\ destroyed = {}
  /\ raced = FALSE

Owned(h) == \E t \in Thread : owned[t][h] > 0

\* Thread t starts a call, or takes its next step in one.
At(t, c) == process = "running" /\ call[t] = c

Goto(t, c) == call' = [call EXCEPT ![t] = c]

\* A free address was used: the process may abort.
MayAbort(used) == process' \in (IF used THEN {"running", "aborted"} ELSE {"running"})

-----------------------------------------------------------------------------
(***************************************************************************)
(* Dot graph handles.                                                      *)
(***************************************************************************)

\* The queues of the list are not added.
CreateVizInstance_QueuesSlip(i, R) ==
  /\ instance[i] = "free"
  /\ MInstances' = MInstances \cup {i}
  /\ instance' = [instance EXCEPT ![i] = "live"]
  /\ UNCHANGED <<MQueueMap, captured>>

\* createVizInstance: a new VizInstance goes to a free address and to the
\* list; then the queues are added one by one, those in R without a failure.
CreateVizInstance(i, R) ==
  /\ instance[i] = "free"
  /\ MInstances' = MInstances \cup {i}
  /\ instance' = [instance EXCEPT ![i] = "live"]
  /\ MQueueMap' = [MQueueMap EXCEPT ![i] = R]
  /\ UNCHANGED captured

\* The count starts at zero.
CreateDotGraph_CountSlip(t, h, i, Q) ==
  /\ At(t, Idle)
  /\ object[h] = "free"
  /\ owned[t][h] < MaxRefs
  /\ CreateVizInstance(i, Q)
  /\ object' = [object EXCEPT ![h] = "live"]
  /\ MRefCount' = [MRefCount EXCEPT ![h] = 0]
  /\ MInstance' = [MInstance EXCEPT ![h] = i]
  /\ owned' = [owned EXCEPT ![t][h] = @ + 1]
  /\ listed' = [listed EXCEPT ![h] = Q]
  /\ destroyed' = destroyed \ {h}
  /\ UNCHANGED <<queues, call, seen, process, raced>>

\* clCreateDotGraphEXT for the queues in Q: a new object goes to a free
\* address, with a count of one.
CreateDotGraph(t, h, i, Q) ==
  /\ At(t, Idle)
  /\ object[h] = "free"
  /\ owned[t][h] < MaxRefs
  /\ CreateVizInstance(i, Q)
  /\ object' = [object EXCEPT ![h] = "live"]
  /\ MRefCount' = [MRefCount EXCEPT ![h] = 1]
  /\ MInstance' = [MInstance EXCEPT ![h] = i]
  /\ owned' = [owned EXCEPT ![t][h] = @ + 1]
  /\ listed' = [listed EXCEPT ![h] = Q]
  /\ destroyed' = destroyed \ {h}
  /\ UNCHANGED <<queues, call, seen, process, raced>>

\* The query of the properties of a queue fails: the exception frees the
\* handle and the caller gets NULL, but the instance stays in the list.
CreateDotGraphFails(t, i, R) ==
  /\ At(t, Idle)
  /\ CreateVizInstance(i, R)
  /\ UNCHANGED <<handleVars, appVars, call, seen, process, historyVars>>

\* clRetainDotGraphEXT, by a thread that holds a reference.  What it adds to
\* a free address is lost.
Retain(t, h) ==
  /\ At(t, Idle)
  /\ owned[t][h] \in 1 .. MaxRefs - 1
  /\ \/ /\ object[h] = "live"
        /\ MRefCount[h] < MaxRefs
        /\ MRefCount' = [MRefCount EXCEPT ![h] = @ + 1]
     \/ object[h] = "free" /\ UNCHANGED MRefCount
  /\ owned' = [owned EXCEPT ![t][h] = @ + 1]
  /\ MayAbort(object[h] = "free")
  /\ UNCHANGED <<instanceVars, object, MInstance, listed, queues, call, seen, historyVars>>

\* The application hands a reference to another thread.
HandOver(t, u, h) ==
  /\ At(t, Idle)
  /\ t # u
  /\ owned[t][h] > 0
  /\ owned[u][h] < MaxRefs
  /\ owned' = [owned EXCEPT ![t][h] = @ - 1, ![u][h] = @ + 1]
  /\ UNCHANGED <<instanceVars, handleVars, listed, queues, call, seen, process, historyVars>>

\* fetch_sub on an unsigned count.
Decremented(c) == IF c = 0 THEN MaxRefs ELSE c - 1

\* clReleaseDotGraphEXT: the count goes down ...
Release(t, h) ==
  /\ At(t, Idle)
  /\ owned[t][h] > 0
  /\ MRefCount' = IF object[h] = "live" THEN [MRefCount EXCEPT ![h] = Decremented(@)]
                  ELSE MRefCount
  /\ owned' = [owned EXCEPT ![t][h] = @ - 1]
  /\ Goto(t, Loading(h))
  /\ MayAbort(object[h] = "free")
  /\ UNCHANGED <<instanceVars, object, MInstance, listed, queues, seen, historyVars>>

\* Off by one: the reference that is left does not count.
Load_LastReferenceSlip(t, h) ==
  /\ At(t, Loading(h))
  /\ \/ (object[h] = "free" \/ MRefCount[h] <= 1) /\ Goto(t, Reading(h))
     \/ (object[h] = "free" \/ MRefCount[h] > 1) /\ Goto(t, Idle)
  /\ MayAbort(object[h] = "free")
  /\ UNCHANGED <<instanceVars, handleVars, appVars, seen, historyVars>>

\* The count before the decrement is compared with zero, as a use of what
\* fetch_sub returns would.
Load_OldCountSlip(t, h) ==
  /\ At(t, Loading(h))
  /\ \/ (object[h] = "free" \/ MRefCount[h] + 1 = 0) /\ Goto(t, Reading(h))
     \/ (object[h] = "free" \/ MRefCount[h] + 1 # 0) /\ Goto(t, Idle)
  /\ MayAbort(object[h] = "free")
  /\ UNCHANGED <<instanceVars, handleVars, appVars, seen, historyVars>>

\* ... is then read, from an address another thread may have freed ...
Load(t, h) ==
  /\ At(t, Loading(h))
  /\ \/ (object[h] = "free" \/ MRefCount[h] = 0) /\ Goto(t, Reading(h))
     \/ (object[h] = "free" \/ MRefCount[h] # 0) /\ Goto(t, Idle)
  /\ MayAbort(object[h] = "free")
  /\ UNCHANGED <<instanceVars, handleVars, appVars, seen, historyVars>>

\* ... and if it was zero so is MInstance, the argument of destroyVizInstance.
ReadInstance(t, h) ==
  /\ At(t, Reading(h))
  /\ \E i \in Instance : /\ object[h] = "live" => i = MInstance[h]
                         /\ Goto(t, Destroying(h, i))
  /\ MayAbort(object[h] = "free")
  /\ UNCHANGED <<instanceVars, handleVars, appVars, seen, historyVars>>

\* The instance is not erased from the list.
DestroyVizInstance_EraseSlip(t, h, i) ==
  /\ At(t, Destroying(h, i))
  /\ instance' = [instance EXCEPT ![i] = "free"]
  /\ MQueueMap' = [MQueueMap EXCEPT ![i] = {}]
  /\ captured' = [captured EXCEPT ![i] = {}]
  /\ Goto(t, Deleting(h))
  /\ MayAbort(instance[i] = "free")
  /\ destroyed' = destroyed \cup {h}
  /\ raced' = (raced \/ \E u \in Thread \ {t} : call[u] \in ReleaseCalls(h))
  /\ UNCHANGED <<MInstances, handleVars, appVars, seen>>

\* destroyVizInstance: deletes what lives at that address, which writes what
\* is left of its file, and takes it out of the list.
DestroyVizInstance(t, h, i) ==
  /\ At(t, Destroying(h, i))
  /\ instance' = [instance EXCEPT ![i] = "free"]
  /\ MInstances' = MInstances \ {i}
  /\ MQueueMap' = [MQueueMap EXCEPT ![i] = {}]
  /\ captured' = [captured EXCEPT ![i] = {}]
  /\ Goto(t, Deleting(h))
  /\ MayAbort(instance[i] = "free")
  /\ destroyed' = destroyed \cup {h}
  /\ raced' = (raced \/ \E u \in Thread \ {t} : call[u] \in ReleaseCalls(h))
  /\ UNCHANGED <<handleVars, appVars, seen>>

\* `delete this', of what lives at the address of the handle.
DeleteThis(t, h) ==
  /\ At(t, Deleting(h))
  /\ object' = [object EXCEPT ![h] = "free"]
  /\ MRefCount' = [MRefCount EXCEPT ![h] = 0]
  /\ MInstance' = [MInstance EXCEPT ![h] = NoInstance]
  /\ listed' = [listed EXCEPT ![h] = {}]
  /\ Goto(t, Idle)
  /\ MayAbort(object[h] = "free")
  /\ UNCHANGED <<instanceVars, owned, queues, seen, historyVars>>

-----------------------------------------------------------------------------
(***************************************************************************)
(* Queues and commands.                                                    *)
(***************************************************************************)

\* A new command queue goes to every instance of the list.
CreateQueue(t, cq) ==
  /\ At(t, Idle)
  /\ cq \notin queues
  /\ queues' = queues \cup {cq}
  /\ MQueueMap' = [i \in Instance |->
                     MQueueMap[i] \cup (IF i \in MInstances THEN {cq} ELSE {})]
  /\ UNCHANGED <<MInstances, instance, captured, handleVars, owned, listed, call,
                 seen, process, historyVars>>

\* An enqueue whose driver call succeeded: verbose() starts on the list.
Enqueue(t, cq) ==
  /\ At(t, Idle)
  /\ cq \in queues
  /\ seen' = [seen EXCEPT ![t] = MInstances]
  /\ Goto(t, Querying(cq))
  /\ UNCHANGED <<instanceVars, handleVars, appVars, process, historyVars>>

\* isVerbose() of the instances found on the list.
Verbose(t, cq) ==
  /\ At(t, Querying(cq))
  /\ seen' = [seen EXCEPT ![t] = {}]
  /\ Goto(t, Recording(cq))
  /\ MayAbort(\E i \in seen[t] : instance[i] = "free")
  /\ UNCHANGED <<instanceVars, handleVars, appVars, historyVars>>

\* createVizNode on every instance; one that does not record cq skips it.  A
\* command that is blocking is flushed next.
Record(t, cq, blocking) ==
  /\ At(t, Recording(cq))
  /\ captured' = [i \in Instance |-> captured[i] \cup
                    (IF i \in MInstances THEN MQueueMap[i] \cap {cq} ELSE {})]
  /\ Goto(t, IF blocking THEN Flushing(cq) ELSE Idle)
  /\ UNCHANGED <<MInstances, instance, MQueueMap, handleVars, appVars, seen, process,
                 historyVars>>

\* flushQueue on every instance.  One that was created since the node of this
\* thread was recorded may have no MNodes.back() to start from.
FlushQueue(t, cq) ==
  /\ At(t, Flushing(cq))
  /\ Goto(t, Idle)
  /\ MayAbort(\E i \in MInstances : cq \in MQueueMap[i] /\ captured[i] = {})
  /\ UNCHANGED <<instanceVars, handleVars, appVars, seen, historyVars>>

\* clDeinitLayer, with no call under way: ~VizContext deletes the list.
Deinit ==
  /\ \A t \in Thread : At(t, Idle)
  /\ instance' = [i \in Instance |-> IF i \in MInstances THEN "free" ELSE instance[i]]
  /\ MInstances' = {}
  /\ process' = "ended"
  /\ UNCHANGED <<MQueueMap, captured, handleVars, appVars, call, seen, historyVars>>

-----------------------------------------------------------------------------
\* The rest of a call that has begun.
Continue(t) ==
  \/ \E h \in DotGraph :
       \/ Load(t, h) \/ ReadInstance(t, h) \/ DeleteThis(t, h)
       \/ \E i \in Instance : DestroyVizInstance(t, h, i)
  \/ \E cq \in CLQueue : Verbose(t, cq) \/ FlushQueue(t, cq)
  \/ \E cq \in CLQueue, blocking \in BOOLEAN : Record(t, cq, blocking)

Begin(t) ==
  \/ \E h \in DotGraph :
       \/ \E i \in Instance, Q \in SUBSET queues : CreateDotGraph(t, h, i, Q)
       \/ Retain(t, h) \/ Release(t, h)
       \/ \E u \in Thread : HandOver(t, u, h)
  \/ \E i \in Instance, Q \in SUBSET queues : \E R \in SUBSET Q :
       R # Q /\ CreateDotGraphFails(t, i, R)
  \/ \E cq \in CLQueue : CreateQueue(t, cq) \/ Enqueue(t, cq)

Next == (\E t \in Thread : Begin(t) \/ Continue(t)) \/ Deinit

Spec == Init /\ [][Next]_vars

\* A call that has begun goes on; no thread need begin another.
FairSpec == Spec /\ \A t \in Thread : WF_vars(Continue(t))

-----------------------------------------------------------------------------
\* As long as no release closed a handle while another was under way, whoever
\* holds a reference holds a live object whose MInstance is live and known to
\* the context, whichever threads release theirs and whatever addresses are
\* reused.
OwnersSafe ==
  process # "ended" /\ ~raced =>
    \A h \in DotGraph : Owned(h) =>
      object[h] = "live" /\ instance[MInstance[h]] = "live" /\ MInstance[h] \in MInstances

\* The list holds the live instances and no other, so that no call under the
\* lock meets a deleted one and the end of the layer closes every file: also
\* after a release has deleted the instance of another handle.
ListIsExact ==
  /\ MInstances = {i \in Instance : instance[i] = "live"}
  /\ process = "ended" => \A i \in Instance : instance[i] # "live"

\* While a reference to a dot graph is held, every command recorded on a
\* queue it was created with goes to its instance, up to the first race.
OwnersCapture ==
  [][\A t \in Thread, cq \in CLQueue, blocking \in BOOLEAN :
       Record(t, cq, blocking) /\ ~raced =>
         \A h \in DotGraph :
           Owned(h) /\ cq \in listed[h] => cq \in captured'[MInstance[h]]]_vars

\* When the last reference is gone the object is deleted, which comes after
\* its instance and its file: of releases that race one sees the count at zero.
ClosedOnceReleased ==
  \A h \in DotGraph :
    (object[h] = "live" /\ ~Owned(h) /\ ~raced /\ process = "running")
      ~> (object[h] = "free" \/ process = "aborted")

\* "Destroy object if zero": once, by the release that made it zero.
DestroyedOnce ==
  [][\A t \in Thread, h \in DotGraph, i \in Instance :
       DestroyVizInstance(t, h, i) => h \notin destroyed]_vars

-----------------------------------------------------------------------------
(***************************************************************************)
(* Why it is so: the inductive invariant.  HandleSound says of one handle, *)
(* and InstancesApart of all, what holds until a release closes a handle   *)
(* under another.                                                          *)
(***************************************************************************)

\* The references there are if thread t holds f[t]: the i-th of t is <<t, i>>.
Refs(f) == {r \in Thread \X (1 .. MaxRefs) : r[2] <= f[r[1]]}

HeldOf(h) == [t \in Thread |-> owned[t][h]]

Releases(t, h) == call[t] \in ReleaseCalls(h)

Closing(t, h) == call[t] \in ClosingCalls(h)

\* The instance of h is still to be destroyed.
Open(h) == object[h] = "live" /\ \A t \in Thread : call[t] # Deleting(h)

\* The count is that of the references held, those being released left out.
CountIsExact(h) ==
  object[h] = "live" =>
    IsFiniteSet(Refs(HeldOf(h))) /\ MRefCount[h] = Cardinality(Refs(HeldOf(h)))

\* What is held or being released is alive: its address is not given away.
UsedIsLive(h) == Owned(h) \/ (\E t \in Thread : Releases(t, h)) => object[h] = "live"

\* Only what nobody holds is closed.
ClosedWhenUnowned(h) == (\E t \in Thread : Closing(t, h)) => ~Owned(h)

\* A release is past the destruction only when it is the last.
LastDeletes(h) ==
  \A t, u \in Thread : call[t] = Deleting(h) /\ Releases(u, h) => t = u

\* A live object that nobody holds is on its way to be closed: the last of
\* the releases that may race has not looked at the count yet, or has found it
\* at zero.  None of them leaves the closing to another.
CloserUnderWay(h) ==
  object[h] = "live" /\ ~Owned(h) => \E t \in Thread : Releases(t, h)

\* An open handle has a live instance, which records the queues the handle was
\* created with; it is that instance its release is about to destroy.
InstanceKept(h) ==
  /\ process # "ended" /\ Open(h) =>
       instance[MInstance[h]] = "live" /\ listed[h] \subseteq MQueueMap[MInstance[h]]
  /\ \A t \in Thread, i \in Instance : call[t] = Destroying(h, i) => i = MInstance[h]

\* The instance of a handle is destroyed at the end only.
NotYetDestroyed(h) == Open(h) => h \notin destroyed

HandleSound(h) ==
  /\ CountIsExact(h)
  /\ UsedIsLive(h)
  /\ ClosedWhenUnowned(h)
  /\ LastDeletes(h)
  /\ CloserUnderWay(h)
  /\ InstanceKept(h)
  /\ NotYetDestroyed(h)

\* No two open handles share an instance.
InstancesApart ==
  \A h, g \in DotGraph : Open(h) /\ Open(g) /\ MInstance[h] = MInstance[g] => h = g

ContextIInv ==
  /\ TypeOK
  /\ ListIsExact
  /\ ~raced => InstancesApart /\ \A h \in DotGraph : HandleSound(h)
=============================================================================

# Verification of CLVizulayer

CLVizulayer is an OpenCL layer: a shared library the ICD loader puts between an
application and its driver. It records the commands the application enqueues as
the nodes of a graph and writes the graph to a DOT file, in clusters, one for
each call in which the host waited. This directory holds TLA+ models of the
layer, the TLC configurations that check them on small instances, and proofs
about them that TLAPS checks for every value of the constants.

1. [The system](#the-system)
2. [The modules and the code](#the-modules-and-the-code)
3. [The runs](#the-runs)
4. [What is proved](#what-is-proved)
5. [Where the code and its words disagree](#where-the-code-and-its-words-disagree)
6. [What is not modelled](#what-is-not-modelled)
7. [The plan](#the-plan)

Line numbers are those of `src/source/` unless a path says otherwise.

## The system

| Component | State it keeps | Operations | What makes it correct |
|---|---|---|---|
| **VizInstance** (`viz_instance.*`, `viz_dag.h`, `viz_node.h`): one recording | `MQueueMap`, `MQueues`; per queue `MIsInOrder`, `MLastNode`, `MLastBarrier`, `MLeaves`; `MNodes` with `MPreds`; `MEventMap` | `createVizQueue`, `createVizNode`, `createVizMarkerNode`, `createVizBarrierNode`, `flushQueue`, `flushEvents`, destructor | the edges order commands as OpenCL does; a flush prints what the host waited for and nothing is lost |
| **Flush loop** (`VizInstance::flush`) | a stack and the set to print | one loop | ends; collects the undefined nodes below its start |
| **VizDotFile** (`io.*`) | `MDefined` of the nodes, cluster counter, previous cluster, colours; static suffix and colour counters | `writeSubgraph`, `newColor`, choice of a file name | a node is defined once, and before an edge names it; no graph overwrites another; a queue keeps its colour, and colours tell queues apart |
| **VizContext** (`viz_context.*`) | `MInstances`, `MMutex`, `MCommandBufferInstanceMap`, driver pointers | forwards each call to every instance; creates and destroys instances | the list holds exactly the live instances; the map leads to the graph of the command-buffer |
| **Dot graph handles** (`cl_ext_dot_graph.cpp`) | an atomic reference count and an instance | create, retain, release | what an owner holds is alive and records; the last release closes the file, once |
| **Command-buffers** (`viz_instance.cpp`, `main.cpp` 1547-2036, `cl_ext_command_buffer_dot_print.cpp`) | a `VizCB` with sync points, leaves, last barrier | record, print, create, release | a print defines the whole graph each time; recording finds the right live graph |
| **Shims** (`main.cpp`) | none | call the driver, then record or flush | the recorded order is the order the driver accepted; a wait is reported in full |
| **Layer loading** (`main.cpp` 98-145, `viz_context.cpp` 18-41) | the global context | init, deinit | no call after the end, every file closed |
| **Info queries** (`main.cpp` 2040-2300) | saved function pointers | lists of extensions, table look-up | both forms of a list agree; a shim that was given can call its driver |

How they interact: the application calls a shim on any thread. The shim calls the
driver without a lock, and if that succeeded it reads `verbose()` without a lock
and calls the context, which takes `MMutex` and calls every instance of its list.
A blocking command calls the context twice, once to record its node and once to
flush. An instance writes to its own `VizDotFile` while the lock is held. Handles
create and destroy instances through the context, under the lock; their reference
counts are not under it. A command-buffer has an instance of its own, found by its
pointer in a map. The driver reuses the pointer values of released queues, events
and command-buffers; the layer sees only the release of the last.

The hard behaviours, each at its line, are the hazards of `PROJECT.json`: a driver
call and a recording that are not one step, two critical sections in one call,
pointers that come back, a graph of which only leaves and last nodes are kept,
overlapping flushes, counts read before or after they change, an exception between
two updates, names chosen by looking at a directory others write to.

## The modules and the code

| Module | Models |
|---|---|
| `Dag` | reachability along `MPreds`, as the least closed set (no recursion, so that it can be proved about) |
| `VizInstance` | one recording with its DOT file, all threads, and the driver's handles; its refinement mapping to `CommandOrder` |
| `LayerCalls` | composes: each thread's call as a driver step and a later step of `VizInstance` |
| `CommandOrder` | abstract: what a recording promises, with no graph and no traversal |
| `Flush` | the loop of `VizInstance::flush`, one iteration a step |
| `VizContext` | the context with `VIZ_EXT`, its list of instances, and the dot graph handles |
| `CommandBuffer` | the graphs of command-buffers, the map that finds them, their creation and release; its refinement mapping to `CommandOrder` |
| `DotFile` | names and colours of the DOT files of all processes on a machine |
| `Extensions` | lists of extensions, and the driver functions saved for shims |
| `MC...` | small sets for TLC, and symmetry |
| `...Proofs` | theorems about the module of that name, and their proofs |

**`VizInstance`** is written so that one action is one critical section of `MMutex`.
Its variables have the names of the members they stand for. A `VizNode*` is the
node's `MID`, a `VizQueue*` its place in `MQueues`, and null is `NoNode` or
`NoQueue`. What the code does in helpers is an operator of the same name:
`NodePreCreation` computes the dependencies, `NodePostCreation` adds the node.
The enqueue entry points fall in four families, one action each: commands
(`EnqueueCommand`), markers, barriers, and blocking commands, whose second half is
`FlushBlocking`. `CreateQueue` covers a reused queue pointer, `ReleaseEvent` and
`UnrecordedEvent` what happens to event pointers behind the layer's back.
`MPreds` is a set: the code's vector may repeat an entry, which changes neither
the leaves nor what a flush collects. `Flush` keeps the vectors and shows it.
`due` is a history variable: the nodes the host knows to be complete, from the
calls it made. No action reads it.

**`LayerCalls`** extends it with what a shim does outside the lock. `DriverTakes`
is the call of the driver in every enqueue shim, `Record` what follows under the
lock, `FlushAfterBlocking` the third part of a blocking one; `clFinish` and
`clWaitForEvents` have two parts each. `call` remembers what a thread is in.
`ticket` and `raced` are history: which command of the driver a node stands for,
and the queues on which two threads were between the two parts at once. The
environment holds on to what a call uses until it returns. Every step is a step
of `VizInstance` or leaves it alone: the property `IsARecording`.

**`VizContext`** asks of an instance only whether it records a command. A step is
one critical section, or one access to something the mutex does not protect: in a
release the decrement, the load of the count, the read of `MInstance` and
`delete this`, and in an enqueue `verbose()`. Handles and instances are addresses:
creation takes any that is free, so that one that was freed comes back. Using an
address that is free either aborts the process or goes on with whatever value is
found; using one that was given out again finds the new object, so that
`destroyVizInstance` deletes what lives at the address it was passed, whoever owns
that. `owned` is what the application holds, `MRefCount` what the layer counts, and
nothing in the model makes them equal but the code. `destroyed` and `raced` are
history: the handles `destroyVizInstance` was called for, and whether some release
destroyed the instance of a handle while another release of that handle was under
way. After that nothing about owners can be said, and `OwnersSafe`,
`OwnersCapture` and `ClosedOnceReleased` claim nothing: the run `destroyed` shows such
a race, and the section on disagreements what may follow. Without `VIZ_EXT` there is one instance from start to
end, and its behaviour is `VizInstance`.

**`CommandBuffer`** holds all instances at once, because the driver gives a pointer
out again. Creation is the driver's part and then `createVizInstance`; release is
the query of the count, the driver's release, and `destroyVizInstance`. Queries may
fail and the driver may refuse. Recording is one step: OpenCL forbids two threads
in one command-buffer. `Asserts` is what `viz_context.h:91` and
`viz_instance.cpp:345` assert. `printed`, `born` and `faulted` are history: the nodes
the step just taken defined in a file, none unless it was a print; the instance that
was created for the command-buffer that now lives; and whether a query failed.

**`DotFile`** splits the choice of a name where other processes may come between:
the clock, `exists`, `open`. A process is also one that starts after another ended,
since the counters are static. The clock may go back. The pool of colours is a
constant that may have a name at two places, as the code's has `cyan` and
`greenyellow` (`io.cpp:93-94`, `121-122`). What is read past its end
(`io.cpp:184`) is any text as a colour, or the end of the process
(`WriteNodeCrashes`). `painted` and `taken` are history: the colours that were
written for each queue, and the index each was read at.

**`Extensions`** splits `GET_SHIM` into its test and its assignment, which no lock
joins. An extension list is a sequence of names, a string one with blanks in it, so
that `back()` and the separators are modelled. Of each kind of function there is
one.

Definitions named `X_Slip` are `X` with a plausible mistake in it. No action uses
them. Each property was checked to fail when one of them takes the place of `X`
(`PROJECT.json` lists which), so that no property holds whatever the code does.

`CommandOrder` states the promise: each command carries the full set of commands
it is ordered after, by the rules its header lists (wait list, in-order queue,
barrier, marker or barrier without a wait list), and each blocking call reports what
the host then knows. The rules are OpenCL's but for two places:
`clEnqueueWaitForEvents`, which holds back what is enqueued after it, counts as a
plain command, as it does in the layer (`main.cpp:366`); and a plain command without
a wait list is not told from a marker, so that one ordered after its whole queue
would pass. `VizInstance!KeepsPromise` and `CommandBuffer!KeepsPromise` are the
refinements: `order` is the set of ancestors in the recorded graph, `reported` is
`MDefined`; in the second an instance takes the place of a queue and a sync point
that of an event. They say that the few edges the code keeps mean
all the order these rules name and no other, and that flushes print no command too
few or too many.

## The runs

| Run | Shows | Bounds |
|---|---|---|
| `order` | `IInv` of the proofs; `InOrderChain`, `AfterBarrier`: later commands inherit the order; `CoversQueue`: barriers and markers; `PrintsWhatIsDue`: the file is exact; `KeepsPromise`: refinement of `CommandOrder` | 1 thread, 2 queue pointers, 2 queues, 1 event, 3 nodes; 106,702 states |
| `events` | `EventMapCurrent`, `WaitPrintsCommands` when pointers come back, also from calls that are not recorded | 1 thread, 1 queue, 2 events, both foreign, 3 nodes; 44,044 states |
| `calls` | `IsARecording`: the shims implement `VizInstance`; `PrintedOnce`, `EdgesDeclared`, `NothingLost`, `FinishPrintsQueue` hold through it; `OrderedUnlessRaced`: order against the driver's; `CallsReport`: a wait is reported in full; `CallsIInv` of the proofs | 2 threads, 2 queue pointers, 2 queues, 1 event, also foreign, 2 nodes; 394,283 states |
| `flush` | the loop ends with exactly the set `VizInstance` takes it for | every graph of 4 nodes with at most 2 entries in `MPreds`, every closed `MDefined`, every start of at most 2 nodes; 214,026 states |
| `context` | `ListIsExact`, whatever races; `OwnersSafe` and `OwnersCapture` up to the first race; `ContextIInv` of the proofs, with `CloserUnderWay`, what is safety in `ClosedOnceReleased` | 2 threads, 2 handle and 2 instance addresses that are reused, 1 queue, count up to 2; 3,484,203 states |
| `closed` | `ClosedOnceReleased`, up to the first race | 2 threads, 1 handle and 2 instance addresses, 1 queue, count up to 2; 110,408 states |
| `cbuffer` | `MapsToOwnDag`, `NeverAborts`: recording finds the graph of its command-buffer; `LiveEntries`; `PrintIsComplete`; `KeepsPromise`: refinement of `CommandOrder`; `IInv` and `LoneIInv` of the proofs | 1 thread, 2 pointers, 2 instances, 3 nodes, count up to 2; 542,865 states |
| `dotfile` | `OwnFilesKept`, `OneColorEach`, `PoolLasts`; `FilesIInv` of the proofs | 2 processes, 3 files, 2 seconds, suffixes up to 2, 2 queues, a pool of 3 with one name twice, and one index past its end; 2,077,711 states |
| `extensions` | `ListsAgree`, `ShimsHaveDriver`; `ExtIInv` of the proofs | 1 thread, 2 platforms, 6 lists; 71,873 states |
| `destroyed`, `inversion`, `platforms` | a disagreement each, see below | the same sets, smaller |

Why the bounds are enough to be interesting: three nodes on two queues hold a
dependency across queues, a barrier or marker with a node before and a node
after, a leaf that another queue's node covers, and two flushes that overlap; with
two queues and one or two pointers the pointer of an old queue can come back while
its nodes are unprinted. Two nodes and two threads in `calls` hold every race of
two recordings and of a recording with a wait, on one queue or on two, with an
event or a barrier between them. Two events in `events` are a reused pointer beside
a live one. Four nodes in `Flush` hold a diamond, and two
entries in `MPreds` a repeated entry. Two threads and a count of two hold every
race of two releases of one handle, and the second address holds a handle that is
created meanwhile. Two instances under two pointers hold a pointer that comes
back, and three nodes in them a barrier with a node on either side. Three files,
two processes and two seconds hold a second name that is taken, the same suffix
twice, and a clock that goes back; two queues in three files exceed a pool of three,
and the last two of the pool are one name, as in the code. The
lists hold each extension alone, with another, in both orders, and the name that
begins with the name of another. The proofs say that the safety properties do not
depend on these bounds.

Deadlock is not checked: a bounded instance stops when its nodes or queues are
used up, and a destroyed instance or an ended layer stops for good.

Symmetry: pointers, addresses, threads, processes, queues and platforms are interchangeable
where a run says so, because no action looks at more than equality and `Foreign`
holds all events or none. It is not used where a liveness property is checked.

Fairness: `Flush!FairSpec` has weak fairness of the loop, which runs under the
lock and waits for nothing. `VizContext!FairSpec` has weak fairness of
`Continue(t)` for each thread (run `closed`): a call that has begun goes on (the
mutex is held for finite sections only, and the loop in them ends by `Terminates`);
no thread need ever begin a call.

## What is proved

All constants are arbitrary (`MaxQueues`, `MaxNodes` and the like are any natural
numbers); the assumptions are those named in the modules (`ConstantsAssumption`,
`BoundsAssumption`, `RefsAssumption`, `PathAssumption`, `PlatformAssumption`,
`ListsAssumption`, ...), which the runs evaluate. `Alone` is a hypothesis of some
theorems, said where they are listed: at most one thread is in the layer.

| Theorem | Property |
|---|---|
| `VizInstanceProofs!Invariance` | `IInv`, the inductive invariant |
| `TypeCorrect`, `EventsAreCurrent` | `TypeOK`, `EventMapCurrent` |
| `FileIsConsistent`, `EdgesAreDeclared`, `NothingIsLost` | `PrintedOnce`, `EdgesDeclared`, `NothingLost` |
| `OrderIsKept`, `BarriersAreKept`, `BarriersCover` | `InOrderChain`, `AfterBarrier`, `CoversQueue` |
| `FinishIsComplete`, `WaitIsComplete` | `FinishPrintsQueue`, `WaitPrintsCommands` |
| `FileIsExact` | `PrintsWhatIsDue`, under `Alone` |
| `RecordsAsPromised` | `KeepsPromise`: `VizInstance` implements `CommandOrder`, under `Alone` |
| `LayerCallsProofs!CallsInvariance` | `IInv` and `CallsIInv` |
| `CallsAreRecordings` | `IsARecording`: `LayerCalls` implements `VizInstance` |
| `InversionNeedsRace` | `OrderedUnlessRaced` |
| `CallsReportWhatTheyKnew` | `CallsReport` |
| `CommandBufferProofs!Invariance`, `EntriesStayLive` | `IInv`, `LiveEntries` |
| `CommandsStayOrdered`, `PrintsAreComplete` | `OrderIsKept`, `PrintIsComplete` |
| `OrdersAsPromised` | `KeepsPromise`: `CommandBuffer` implements `CommandOrder` |
| `LoneInvariance`, `HandlesMapToOwn`, `RecordingNeverAborts` | `LoneIInv`, `MapsToOwnDag`, `NeverAborts`, under `Alone` |
| `DotFileProofs!Invariance`, `OwnNamesDiffer`, `ColorsMatchQueues`, `PoolIsUsedFully` | `FilesIInv`, `OwnFilesKept`, `OneColorEach`, `PoolLasts` |
| `ExtensionsProofs!Invariance`, `ShimsCanCall` | `ExtIInv`, `ShimsHaveDriver`, under `Alone` |
| `ListsAreTheSame` | `ListsAgree` |
| `FlushProofs!StackIsTyped`, `LoopInvariance` | `TypeOK`, `LoopInvariant` |
| `FlushIsCorrect`, `FileStaysClosed` | `CollectsReachable`, `LeavesFileClosed` |
| `VizContextProofs!Invariance` | `ContextIInv` |
| `ListStaysExact` | `ListIsExact` |
| `OwnersAreSafe`, `OwnersAreRecorded` | `OwnersSafe`, `OwnersCapture`, up to the first race |
| `ClosersCome` | `CloserUnderWay`, up to the first race |
| `AloneDestroysOnce` | `DestroyedOnce`, under `Alone` |

**The invariant of a recording.** The properties are about whole queues, but the
code keeps only leaves, one last node and one last barrier. What makes that enough
is that everything dropped is still below something kept:

- `LeavesCover`: every set closed under predecessors that holds the leaves of a
  queue holds all of its nodes. A new node takes a leaf away only if it depends on
  it.
- `LastNodeCovers`, `LastBarrierCovers`: the same of the last node of an in-order
  queue, and of the last barrier and all barriers of the queue.
- `MDefined` is closed under predecessors: a flush that stops at a defined node
  misses nothing below it.
- `Wellformed`: references are to existing objects, and edges go to older nodes,
  so that a new node disturbs no closed set of old ones.

"Every closed set that holds m" is a form of "m reaches" that needs no induction
over paths; the lemmas of `DagProofs` relate it to `Reach`. `FinishPrintsQueue` then
follows from `LeavesCover`, `InOrderChain` from `LastNodeCovers`, and so on. The
invariant of `CommandBuffer` has the same argument for instances (`Covered`).

**The file is exact** (`FileIsExact`) assumes `Alone`, which in this module also
says that there is no event from a call that is not recorded. Both are needed:
without the first another thread's command may come between the two halves of a
blocking enqueue, without the second a wait may find the node of an event that was
released. The added invariant `ExactInv` says that the nodes kept for a queue are
its own (`OwnNodes`), a pending blocking command is the last node, and
`MDefined = due`.

**The refinements.** `CommandOrder` lets a command come after everything its queue
and wait list ask for, and after all that comes before that. The recorded graph has
an edge to a leaf, a last node or a last barrier instead. That no order is missing
follows from what was covered: the ancestors of the new node are closed under
predecessors, so if the leaves are among them the whole queue is. That there is no
order too much follows from `OwnNodes`: each edge goes to a command that the rules
name themselves. `RecordOrders` says both of any call that records, `RecordSubmits`
and `EnqueuePromises` take the entry points one by one, and older nodes keep their
ancestors because edges go to older nodes only. The blocking calls report exactly
what they must by `FileIsExact`, which is why `RecordsAsPromised` needs `Alone`;
`OrdersAsPromised` has no file and needs no such hypothesis: it holds whatever
threads create, release and print at once.

**The calls.** `Held` says that what a call is going to use is there when it comes
to use it, from which every step of `LayerCalls` is a step of `VizInstance` or none
(`StepOfInstance`); the theorem `CallsAreRecordings` carries all theorems of
`VizInstance` over to the shims. `TicketsInOrder` says of every node a command may
still get an edge from that the driver took it earlier: an event of the wait list
was recorded before the call began, and the leaves, last node and last barrier of
a queue are its own (`OwnQueues`), so that only a race on that queue can put a
later command there. `KnownStays` keeps what a wait knew within what its flush
starts from.

**The loop.** `LoopInvariant` says that what is still to be printed is printed or
on the stack or below it, and nothing else is. It holds although the loop may
meet a node many times.

**Names and colours.** `NamesInOrder`: each suffix a process gave is behind its
counter, and a name without a suffix is on disk for good once a file was opened
under it. `ColorsInOrder`: a queue's colour is what the pool has at the index it
took, the indices taken are behind the counter and no two queues of a file took
the same, and the counter counts the coloured queues. `OneColorEach` follows by
`SharedOnlyByPool`: two queues with one colour took it at two places of the pool, or
one of them past its end. That the code's pool has names twice is among the disagreements.

**Prints** (`PrintsAreComplete`). `MDefined = {}` between steps is part of `IInv`, so
`writeNode` skips no node of the instance; edges stay within it (`Wellformed`).

**The reference count** (`ContextIInv`, any number of threads). `ListIsExact` holds
whatever happens: the list and the live instances change together under the lock, by
the address that was passed. The rest, `HandleSound` of each handle and
`InstancesApart`, holds until `raced`. The count is not written as a sum over
threads, which would need an induction, but as the cardinality of a set: `Refs` holds
a pair `<<t, i>>` for the i-th reference of thread t, so that retain, release and
hand-over add, remove or rename one element (`CountIsExact`). `UsedIsLive` keeps the
address of a handle that is owned or being released from being given out again.
A load that reads zero finds nobody who holds a reference, and nobody can come by one
again (`ClosedWhenUnowned`). `InstanceKept` and `InstancesApart` say that the address
a release is about to destroy is that of its own handle's instance, and of no other's.
The step that breaks this is `DestroyVizInstance` with a second release of the handle
under way: it sets `raced`; if there is none, `LastDeletes` has the deletion to come as the
last use of the handle. `OwnersSafe` and `OwnersCapture` follow. `CloserUnderWay` is
the safety half of `ClosedOnceReleased`: of the releases that race, one has yet to
look at the count, or has found it at zero. `AloneDestroysOnce` shows that the
disagreement of the run `destroyed` takes two threads. `MaxRefs` is where the
unsigned count wraps.

**The handles of command-buffers** (`LoneIInv`, under `Alone`). The driver's count
is the references of the application and that of the call under way
(`CountsReferences`), so the count that a release read still tells whether it is
the last (`CallsKnow`). A handle that comes back therefore finds the old entry
erased, and its entry is the instance born with it, which has a node for each sync
point the driver returned (`EntriesAreOwn`). With two threads each of these steps
fails (see the next section).

**The saved functions** (`Alone`). `NoSaveLost` says that what is about
to be saved has not been saved, which is where a second thread would break it, and
`InfoSaved` that a query past the first test finds the function for information.

**The lists of extensions.** `DriverStringReads` says that a string with blanks
between its names, and perhaps one at its end, names what the driver announced;
`AppendedReads` that both ways to append keep what was named and add one name, by
the last element that `back()` looks at. `ListsAssumption`: a driver announces a
name once, and none of the two that the layer adds.

Model-checked only: the liveness properties `Terminates` and `ClosedOnceReleased`,
which are out of the prover's reach, and the three disagreements below, which are
counterexamples. Every other property of a run is the statement of a theorem, where the table says
so under `Alone`.

## Where the code and its words disagree

| Run | The code | The words |
|---|---|---|
| `destroyed` | the count is decremented and read in two operations (`cl_ext_dot_graph.cpp:35-36`): two releases decrement before either reads, both read zero, and both destroy | line 33: "destroy object if zero" |
| `inversion` | the driver call is outside the lock (`main.cpp:152`): of two commands that a queue orders, the one the driver took second may be recorded first, and the edge leads from it to the one taken first; on an out-of-order queue, which is TLC's trace, one of the two is a barrier or a marker | `src/README.md:7`: "Edges represent happens-before dependencies" |
| `platforms` | one saved pointer serves all platforms (`main.cpp:2060`) | `viz_context.h:187`: "returned by the underlying driver [...] so that we can call them from our equivalent shim entry-points" |

Also met, and in the models, but without a run of their own:

- The pool of colours names `cyan` and `greenyellow` twice (`io.cpp:93-94`,
  `121-122`): two queues of one file that take those places look alike, with the pool
  far from used up. `doc/cl_ext_dot_graph.asciidoc:126` and `src/README.md:152` say
  "Use color in dot file to distinguish queues". `OneColorEach` allows just that and
  the read past the end.
- After the race of `destroyed` the second release destroys what lives at the address
  by then (`cl_ext_dot_graph.cpp:39`), which may be the instance of a new graph: its
  owner's next command is recorded nowhere, against
  `doc/cl_ext_dot_graph.asciidoc:77-79`, "All user enqueue calls to those queues will be
  tracked in the dot file until the point when the dot file handle is destroyed".
  Without `~raced` in them, `OwnersSafe` and `OwnersCapture` fail so.
- An event pointer that comes back from a call that is not recorded keeps its old
  node (`viz_instance.cpp:374`); line 370 says "explicitly passed node
  dependencies".
- `viz_instance.cpp:262` flushes `MNodes.back()` in a second critical section; line
  260 says the blocking command "will be last node". With two threads it may not be.
- `io.cpp:258` joins any two consecutive clusters; line 256 says "serialization from
  blocking host waits", but a later cluster may hold commands enqueued before the
  wait.
- `viz_context.h:55` adds a new queue to every instance;
  `doc/cl_ext_dot_graph.asciidoc:76-77` says "created by passing a list of queues to
  print the submissions of".
- `viz_context.cpp:178` walks the list without the lock; `viz_context.h:229` says
  "Only one thread can access the context at a time."
- With two threads a command-buffer's release is lost if both read a count of two
  (`main.cpp:2015`), and a pointer that comes back between the driver's release and
  `destroyVizInstance` loses its new instance (`main.cpp:2032`): `MapsToOwnDag`
  fails with two threads, while `LiveEntries` is proved for any number.
- The look at the directory (`io.cpp:39`) and the opening of the file (57) are two
  steps: two processes that look before either opens both find the base name of the
  second free, both open it, and the second empties the file of the first. The suffix
  is counted per process and never looked up (44): two that find the base name in use
  may both choose `_1`. Line 40 says "multiple processes could create a VizDotFile
  instance in the same second. Suffix filenames with a unique ID in this case."
- With two threads a null may be saved over a driver's pointer (`main.cpp:2061`).
- `io.cpp:186` reports the pool of colours as exceeded when its last colour is taken;
  the read past the end (184) comes after, and its result is used.

## What is not modelled

- What a call does with the context after `clDeinitLayer` deleted it: undefined
  behaviour with no bound on its outcomes. The models end there.
- Text: labels, verbose details, flags, the validation of properties lists, sizes
  and buffers of info queries. No state depends on it.
- Failing allocations, other than the failing queries in `createVizInstance`.
- A driver that answers a query for extensions with an error.
- `clMemBlockingFreeINTEL`, which blocks without recording or flushing.
- Other programs that write to or remove files from the directory of the DOT files.
- `src/test` and `src/samples`: read, not modelled.

## The plan

Done: every component of the table above but the loading of the layer, with the
runs and theorems above. What is left, in order of importance:

1. The layer's life cycle: static and heap contexts, and what loading fails on.
2. Proofs: which of the theorems under `Alone` hold with more threads once calls on
   one handle, or on one queue, do not overlap.
3. `LayerCalls` and `VizContext` composed: several instances that are created and
   destroyed while calls are under way.

---------------------------- MODULE CommandOrder ----------------------------
(***************************************************************************)
(* What a recording promises to the reader of the DOT file, with no graph, *)
(* no leaves and no traversal: every command is ordered after the commands *)
(* that the rules below name, and every blocking call reports what the     *)
(* host then knows to be complete.                                         *)
(*                                                                         *)
(* The rules of order:                                                     *)
(*   - after the commands of the events of the wait list;                  *)
(*   - on an in-order queue, after everything enqueued to it before;       *)
(*   - after every barrier enqueued to the queue before;                   *)
(*   - a barrier or marker with no wait list, after everything enqueued to *)
(*     its queue before;                                                   *)
(*   - and after whatever those commands are ordered after.                *)
(*                                                                         *)
(* They are OpenCL's but for two places.  clEnqueueWaitForEvents, which    *)
(* holds back what is enqueued after it, counts as a plain command here,   *)
(* as it does in the layer.  And a command is not told from a marker: one  *)
(* with no wait list may be ordered after its whole queue.                 *)
(***************************************************************************)
EXTENDS Integers

CONSTANTS
  Event,     \* event handles
  Thread,    \* application threads
  MaxQueues, \* bound on the queues created
  MaxNodes   \* bound on the commands recorded

Command == 0 .. (MaxNodes - 1)
Queue   == 1 .. MaxQueues
NoQueue == 0
None    == -1                \* a thread in no blocking enqueue
Free    == -2                \* an event handle not in use

VARIABLES
  queues,    \* number of queues created
  inOrder,   \* per queue: executes in order
  commands,  \* number of commands recorded
  queue,     \* per command: its queue
  barrier,   \* per command: it is a barrier
  order,     \* per command: all the commands it is ordered after
  signal,    \* per event handle: the command it stands for
  blocked,   \* per thread: the command its blocking enqueue waits for
  reported,  \* the commands in the DOT file
  closed     \* the DOT file is finished

orderVars == <<commands, queue, barrier, order>>
vars == <<queues, inOrder, orderVars, signal, blocked, reported, closed>>

Init ==
  /\ queues = 0
  /\ inOrder = [q \in Queue |-> FALSE]
  /\ commands = 0
  /\ queue = [c \in Command |-> NoQueue]
  /\ barrier = [c \in Command |-> FALSE]
  /\ order = [c \in Command |-> {}]
  /\ signal = [e \in Event |-> Free]
  /\ blocked = [t \in Thread |-> None]
  /\ reported = {}
  /\ closed = FALSE

On(q) == {c \in 0 .. (commands - 1) : queue[c] = q}

\* The commands S with everything they are ordered after.
WithOrder(S) == S \cup UNION {order[c] : c \in S}

-----------------------------------------------------------------------------
Create(q, isInOrder) ==
  /\ q = queues + 1
  /\ queues' = q
  /\ inOrder' = [inOrder EXCEPT ![q] = isInOrder]
  /\ UNCHANGED <<orderVars, signal, blocked, reported, closed>>

\* A command on queue q that waits for the events E and returns the events
\* R; covers says that it waits for the whole queue.
Submit(q, E, R, isBarrier, covers) ==
  LET whole  == inOrder[q] \/ covers
      direct == {signal[e] : e \in E} \cup
                {c \in On(q) : whole \/ barrier[c]}
  IN /\ q <= queues
     /\ commands < MaxNodes
     /\ commands' = commands + 1
     /\ queue' = [queue EXCEPT ![commands] = q]
     /\ barrier' = [barrier EXCEPT ![commands] = isBarrier]
     /\ signal' = [e \in Event |-> IF e \in R THEN commands ELSE signal[e]]
     /\ order' = [order EXCEPT ![commands] = WithOrder(direct)]
     /\ UNCHANGED <<queues, inOrder, reported, closed>>

SubmitAny(q, E, R) ==
  /\ UNCHANGED blocked
  /\ \/ Submit(q, E, R, FALSE, FALSE)
     \/ \E isBarrier \in BOOLEAN : Submit(q, E, R, isBarrier, E = {})

SubmitBlocking(t, q, E, R) ==
  /\ blocked[t] = None
  /\ blocked' = [blocked EXCEPT ![t] = commands]
  /\ Submit(q, E, R, FALSE, FALSE)

Report(S) ==
  /\ UNCHANGED <<queues, inOrder, orderVars>>
  /\ reported' = reported \cup WithOrder(S)

\* The host waited for all of queue q.
Finish(q) == Report(On(q)) /\ UNCHANGED <<signal, blocked, closed>>

\* The host waited for the events E.
Wait(E) == Report({signal[e] : e \in E}) /\ UNCHANGED <<signal, blocked, closed>>

\* The blocking enqueue of thread t returns.
Unblock(t) ==
  /\ blocked[t] # None
  /\ Report({blocked[t]})
  /\ blocked' = [blocked EXCEPT ![t] = None]
  /\ UNCHANGED <<signal, closed>>

\* Nothing recorded is missing from a finished file.
Close ==
  /\ Report(0 .. (commands - 1))
  /\ closed' = TRUE
  /\ UNCHANGED <<signal, blocked>>

Release(e) ==
  /\ signal' = [signal EXCEPT ![e] = Free]
  /\ UNCHANGED <<queues, inOrder, orderVars, blocked, reported, closed>>

Live == {e \in Event : signal[e] # Free}

\* A command returns one event or none.
Returned == {{}} \cup {{e} : e \in Event \ Live}

Next ==
  /\ ~closed
  /\ \/ \E q \in Queue, isInOrder \in BOOLEAN : Create(q, isInOrder)
     \/ \E E \in SUBSET Live : Wait(E)
     \/ \E q \in Queue, E \in SUBSET Live, R \in Returned :
          \/ SubmitAny(q, E, R)
          \/ \E t \in Thread : SubmitBlocking(t, q, E, R)
     \/ \E q \in Queue : Finish(q)
     \/ \E t \in Thread : Unblock(t)
     \/ \E e \in Event : Release(e)
     \/ Close

Spec == Init /\ [][Next]_vars
=============================================================================

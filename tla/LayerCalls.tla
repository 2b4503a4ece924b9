----------------------------- MODULE LayerCalls -----------------------------
(***************************************************************************)
(* The calls of the application, thread by thread (the shims of main.cpp): *)
(* each calls the driver without a lock, and what the driver did is        *)
(* recorded or flushed under MMutex afterwards, in an action of            *)
(* VizInstance.  Between the two any other thread may take a step.  A call *)
(* the driver refuses records nothing and is no step, but for clFinish and *)
(* clWaitForEvents, which flush whatever the driver answered.              *)
(*                                                                         *)
(* A thread holds what it passes to a call until the call returns: the     *)
(* events of the wait list are not released before, nor the queue, and an  *)
(* event pointer the driver returned is not returned to another.           *)
(*                                                                         *)
(* An operator named X_Slip is X with a slip of the pen, used by no action:*)
(* with it in the place of X some property must fail.                      *)
(***************************************************************************)
EXTENDS VizInstance

VARIABLES
  accepted, \* driver: number of commands taken
  call,     \* per thread: the call whose driver part is over
  ticket,   \* history, per node: which command of the driver it records
  raced     \* history: the VizQueues that two threads were enqueuing to

callVars == <<accepted, call, ticket, raced>>

Ticket   == 0 .. (MaxNodes - 1)
NoTicket == MaxNodes
Kinds    == {"command", "marker", "barrier", "blocking"}

Idle == [step |-> "idle"]
Enqueuing(kind, cq, E, R, n) ==
  [step |-> "enqueue", kind |-> kind, queue |-> cq, wait |-> E, returns |-> R,
   ticket |-> n]
Finishing(cq, S) == [step |-> "finish", queue |-> cq, known |-> S]
Waiting(E, S)    == [step |-> "wait", wait |-> E, known |-> S]

Calls ==
  {Idle}
    \cup [step : {"enqueue"}, kind : Kinds, queue : CLQueue, wait : SUBSET Event,
          returns : SUBSET Event, ticket : Ticket]
    \cup [step : {"finish"}, queue : CLQueue, known : SUBSET Node]
    \cup [step : {"wait"}, wait : SUBSET Event, known : SUBSET Node]

CallsTypeOK ==
  /\ accepted \in 0 .. MaxNodes
  /\ call \in [Thread -> Calls]
  /\ ticket \in [Node -> Ticket \cup {NoTicket}]
  /\ raced \in SUBSET VizQueue

CallsInit ==
  /\ Init
  /\ accepted = 0
  /\ call = [t \in Thread |-> Idle]
  /\ ticket = [n \in Node |-> NoTicket]
  /\ raced = {}

\* The calls whose recording is still to come, those that use cq, and the
\* events the calls under way hold.
Under(step)   == {t \in Thread : call[t].step = step}
Using(cq)     == {t \in Under("enqueue") \cup Under("finish") : call[t].queue = cq}
HeldEvents    == UNION {call[t].wait : t \in Under("enqueue") \cup Under("wait")}
PromisedEvents == UNION {call[t].returns : t \in Under("enqueue")}

Ready(t) == open /\ pending[t] = NoNode /\ call[t] = Idle

Goto(t, c) == call' = [call EXCEPT ![t] = c]

-----------------------------------------------------------------------------
\* First part of every enqueue shim: the driver takes the command.
DriverTakes(t, kind, cq, E, R) ==
  /\ Ready(t)
  /\ MQueueMap[cq] # NoQueue
  /\ R \cap PromisedEvents = {}
  /\ accepted < MaxNodes
  /\ accepted' = accepted + 1
  /\ Goto(t, Enqueuing(kind, cq, E, R, accepted))
  /\ raced' = IF \E u \in Under("enqueue") : call[u].queue = cq
              THEN raced \cup {MQueueMap[cq]} ELSE raced
  /\ UNCHANGED <<vars, ticket>>

\* The two lists of events are swapped.
Record_SwapSlip(t) ==
  LET c == call[t] IN
  /\ c.step = "enqueue"
  /\ EnqueueCommand(c.queue, c.returns, c.wait)
  /\ ticket' = [ticket EXCEPT ![MNodes] = c.ticket]
  /\ Goto(t, Idle)
  /\ UNCHANGED <<accepted, raced>>

\* Second part: createVizNode, createVizMarkerNode or createVizBarrierNode.
Record(t) ==
  LET c == call[t] IN
  /\ c.step = "enqueue"
  /\ CASE c.kind = "command"  -> EnqueueCommand(c.queue, c.wait, c.returns)
       [] c.kind = "marker"   -> EnqueueMarker(c.queue, c.wait, c.returns)
       [] c.kind = "barrier"  -> EnqueueBarrier(c.queue, c.wait, c.returns)
       [] c.kind = "blocking" -> EnqueueBlocking(t, c.queue, c.wait, c.returns)
  /\ ticket' = [ticket EXCEPT ![MNodes] = c.ticket]
  /\ Goto(t, Idle)
  /\ UNCHANGED <<accepted, raced>>

\* Third part of a blocking enqueue.
FlushAfterBlocking(t) == FlushBlocking(t) /\ UNCHANGED callVars

\* clFinish: the driver, then the flush.
DriverFinishes(t, cq) ==
  /\ Ready(t)
  /\ MQueueMap[cq] # NoQueue
  /\ Goto(t, Finishing(cq, OnQueue(MQueueMap[cq])))
  /\ UNCHANGED <<vars, accepted, ticket, raced>>

FlushFinished(t) ==
  /\ call[t].step = "finish"
  /\ Finish(call[t].queue)
  /\ Goto(t, Idle)
  /\ UNCHANGED <<accepted, ticket, raced>>

\* clWaitForEvents: the driver, then the flush.
DriverWaits(t, E) ==
  /\ Ready(t)
  /\ Goto(t, Waiting(E, {signal[e] : e \in E} \cap Node))
  /\ UNCHANGED <<vars, accepted, ticket, raced>>

FlushWaited(t) ==
  /\ call[t].step = "wait"
  /\ WaitForEvents(call[t].wait)
  /\ Goto(t, Idle)
  /\ UNCHANGED <<accepted, ticket, raced>>

\* clCreateCommandQueue in one step: the application has no handle before.
CreateQueueCall(cq, isInOrder) ==
  /\ Using(cq) = {}
  /\ CreateQueue(cq, isInOrder)
  /\ UNCHANGED callVars

ReleaseEventCall(e) ==
  /\ e \notin HeldEvents
  /\ ReleaseEvent(e)
  /\ UNCHANGED callVars

UnrecordedEventCall(e) ==
  /\ e \notin PromisedEvents
  /\ UnrecordedEvent(e)
  /\ UNCHANGED callVars

\* The instance is destroyed, whatever calls are under way.
TeardownCall == Teardown /\ UNCHANGED callVars

Step(t) ==
  \/ \E kind \in Kinds, cq \in CLQueue, E \in SUBSET Live, R \in Returned :
       DriverTakes(t, kind, cq, E, R)
  \/ Record(t) \/ FlushAfterBlocking(t)
  \/ \E cq \in CLQueue : DriverFinishes(t, cq)
  \/ \E E \in (SUBSET Live) \ {{}} : DriverWaits(t, E)
  \/ FlushFinished(t) \/ FlushWaited(t)

CallsNext ==
  \/ \E t \in Thread : Step(t)
  \/ \E cq \in CLQueue, isInOrder \in BOOLEAN : CreateQueueCall(cq, isInOrder)
  \/ \E e \in Event : ReleaseEventCall(e) \/ UnrecordedEventCall(e)
  \/ TeardownCall

CallsSpec == CallsInit /\ [][CallsNext]_<<vars, callVars>>

-----------------------------------------------------------------------------
(***************************************************************************)
(* Safety.                                                                 *)
(***************************************************************************)

\* "Edges represent happens-before dependencies" (README.md): the driver took
\* a command after those it has an edge from.
EdgesHappenBefore ==
  \A n \in Recorded : \A m \in MPreds[n] : ticket[m] < ticket[n]

\* Only on a queue that two threads were enqueuing to at the same time may an
\* edge point the other way, whatever threads do on other queues and however
\* their events and barriers are linked.
OrderedUnlessRaced ==
  \A n \in Recorded : \A m \in MPreds[n] :
    ticket[m] < ticket[n] \/ (MQueue[m] = MQueue[n] /\ MQueue[n] \in raced)

-----------------------------------------------------------------------------
(***************************************************************************)
(* Why it is so: the inductive invariant, beside that of VizInstance.      *)
(***************************************************************************)

\* What a call needs is there until it returns.
Held ==
  /\ \A t \in Thread : call[t] # Idle => pending[t] = NoNode
  /\ \A t \in Under("enqueue") \cup Under("finish") : MQueueMap[call[t].queue] # NoQueue
  /\ \A t \in Under("enqueue") \cup Under("wait") : call[t].wait \subseteq Live
  /\ \A t \in Under("wait") : call[t].wait # {}
  /\ \A t \in Under("enqueue") : call[t].returns \in Returned
  /\ \A t, u \in Under("enqueue") : t # u => call[t].returns \cap call[u].returns = {}

\* A VizQueue has one handle, and remembers nodes of its own only.
OwnQueues ==
  /\ \A cq, other \in CLQueue :
       MQueueMap[cq] = MQueueMap[other] /\ MQueueMap[cq] # NoQueue => cq = other
  /\ \A q \in VizQueue :
       MLeaves[q] \cup ({MLastNode[q], MLastBarrier[q]} \ {NoNode}) \subseteq OnQueue(q)

\* What a blocking call waited for is what its flush starts from.
KnownStays ==
  /\ \A t \in Under("finish") : call[t].known \subseteq OnQueue(MQueueMap[call[t].queue])
  /\ \A t \in Under("wait") : call[t].known \subseteq {MEventMap[e] : e \in call[t].wait}

\* A node a command may still get an edge from was taken before it.
TicketsInOrder ==
  /\ \A n \in Recorded : ticket[n] < accepted
  /\ \A t \in Under("enqueue") :
       LET q == MQueueMap[call[t].queue] IN
       /\ call[t].ticket < accepted
       /\ \A e \in call[t].wait : MEventMap[e] # NoNode => ticket[MEventMap[e]] < call[t].ticket
       /\ q \notin raced =>
            /\ \A n \in OnQueue(q) : ticket[n] < call[t].ticket
            /\ \A u \in Under("enqueue") :
                 call[u].queue = call[t].queue => u = t

CallsIInv ==
  /\ CallsTypeOK
  /\ Held
  /\ OwnQueues
  /\ KnownStays
  /\ TicketsInOrder
  /\ OrderedUnlessRaced

-----------------------------------------------------------------------------
(***************************************************************************)
(* What a step must achieve.                                               *)
(***************************************************************************)

\* When clFinish or clWaitForEvents returns, the file has the commands that
\* were recorded when it was called and that it waited for, although queues,
\* events and other threads' flushes go on between its two parts.
CallsReport ==
  [][\A t \in Thread :
       FlushFinished(t) \/ FlushWaited(t) => call[t].known \subseteq MDefined']_vars

\* Whatever the threads interleave, what happens to the instance is a
\* behaviour of VizInstance: a command that the driver has taken and that is
\* not recorded yet has not happened there.
IsARecording == Spec
=============================================================================

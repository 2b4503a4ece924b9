-------------------------- MODULE LayerCallsProofs --------------------------
(***************************************************************************)
(* However the calls of threads interleave, the instance behaves as        *)
(* VizInstance says, each blocking call reports what it waited for, and an *)
(* edge against the order of the driver needs a race on one queue.         *)
(***************************************************************************)
EXTENDS LayerCalls, VizInstanceProofs

\* A call has the fields its step says.
LEMMA CallFields ==
  ASSUME CallsTypeOK, NEW t \in Thread
  PROVE  /\ t \in Under("enqueue") =>
              /\ call[t].kind \in Kinds /\ call[t].queue \in CLQueue
              /\ call[t].wait \in SUBSET Event /\ call[t].returns \in SUBSET Event
              /\ call[t].ticket \in Ticket
         /\ t \in Under("finish") => call[t].queue \in CLQueue /\ call[t].known \in SUBSET Node
         /\ t \in Under("wait") => call[t].wait \in SUBSET Event /\ call[t].known \in SUBSET Node
<1>1. call[t] \in Calls
  BY DEF CallsTypeOK
<1>2. CASE call[t] = Idle
  BY <1>2 DEF Idle, Under
<1>3. CASE call[t] # Idle
  BY <1>1, <1>3 DEF Calls, Under
<1> QED
  BY <1>2, <1>3

\* What a step of a thread makes of its own call and leaves of the others.
LEMMA GotoFacts ==
  ASSUME CallsTypeOK, NEW t \in Thread, NEW c \in Calls, Goto(t, c)
  PROVE  /\ call' \in [Thread -> Calls]
         /\ call'[t] = c
         /\ \A u \in Thread \ {t} : call'[u] = call[u]
         /\ \A step : Under(step)' = IF c.step = step THEN Under(step) \cup {t}
                                                      ELSE Under(step) \ {t}
<1>1. /\ call' \in [Thread -> Calls] /\ call'[t] = c
      /\ \A u \in Thread \ {t} : call'[u] = call[u]
  BY DEF CallsTypeOK, Goto
<1>2. ASSUME NEW step
      PROVE  Under(step)' = IF c.step = step THEN Under(step) \cup {t} ELSE Under(step) \ {t}
  BY <1>1 DEF Under
<1> QED
  BY <1>1, <1>2

\* What each step of VizInstance knows of an invariant state.
LEMMA Places ==
  ASSUME IInv
  PROVE  /\ MNodes \in Nat /\ Recorded \subseteq Node /\ MNodes \notin Recorded
         /\ \A q : OnQueue(q) \subseteq Recorded
         /\ \A e \in Event : MEventMap[e] # NoNode => MEventMap[e] \in Recorded
         /\ \A cq \in CLQueue : MQueueMap[cq] # NoQueue => MQueueMap[cq] \in VizQueue
         /\ \A n \in Recorded : MPreds[n] \subseteq Recorded
<1> USE ConstantsAssumption
<1>1. MNodes \in 0 .. MaxNodes /\ MaxNodes \in Nat
  BY DEF IInv, TypeOK
<1>2. Recorded \subseteq Node /\ MNodes \notin Recorded /\ MNodes \in Nat
  BY <1>1 DEF Recorded, Node
<1>3. \A n \in Recorded : MPreds[n] \subseteq Recorded
  <2> SUFFICES ASSUME NEW n \in Recorded, NEW m \in MPreds[n] PROVE m \in Recorded
    OBVIOUS
  <2>1. m \in 0 .. (n - 1)
    BY DEF IInv, Wellformed
  <2> QED
    BY <1>1, <2>1 DEF Recorded
<1> QED
  BY <1>2, <1>3 DEF IInv, TypeOK, Wellformed, OnQueue

-----------------------------------------------------------------------------
(***************************************************************************)
(* The recording of a command.                                             *)
(***************************************************************************)

\* It is an enqueue of VizInstance, to a node whose predecessors are those of
\* the events in its wait list and nodes of its own queue.
LEMMA RecordFacts ==
  ASSUME IInv, CallsIInv, NEW t \in Thread, Record(t)
  PROVE  LET c == call[t]
             q == MQueueMap[c.queue]
         IN  /\ t \in Under("enqueue") /\ q \in VizQueue /\ c.returns \in Returned
             /\ c.queue \in CLQueue /\ c.wait \in SUBSET Live
             /\ Enqueue(c.queue, c.wait, c.returns)
             /\ \E P \in SUBSET Recorded, isBarrier \in BOOLEAN :
                  /\ P \subseteq {MEventMap[e] : e \in c.wait} \cup OnQueue(q)
                  /\ NodePostCreation(q, P, isBarrier, c.returns)
             /\ UNCHANGED <<queueVars, fileVars, open>>
             /\ \A u \in Thread \ {t} : pending'[u] = pending[u]
             /\ Goto(t, Idle)
             /\ ticket' = [ticket EXCEPT ![MNodes] = c.ticket]
             /\ UNCHANGED <<accepted, raced>>
<1> DEFINE c == call[t]
           q == MQueueMap[c.queue]
<1>1. t \in Under("enqueue") /\ c.step = "enqueue"
  BY DEF Record, Under
<1>2. c.kind \in Kinds /\ c.queue \in CLQueue /\ c.wait \in SUBSET Event
  BY <1>1, CallFields DEF CallsIInv
<1>3. c.wait \in SUBSET Live /\ c.returns \in Returned /\ q \in VizQueue
  BY <1>1, <1>2, Places DEF CallsIInv, Held
<1>4. NodePreCreation(q, c.wait) \in SUBSET Recorded /\ MarkerPreds(q, c.wait) \in SUBSET Recorded
  BY <1>2, <1>3, PredsRecorded
<1>5. /\ NodePreCreation(q, c.wait) \subseteq {MEventMap[e] : e \in c.wait} \cup OnQueue(q)
      /\ MarkerPreds(q, c.wait) \subseteq {MEventMap[e] : e \in c.wait} \cup OnQueue(q)
  BY <1>3 DEF CallsIInv, OwnQueues, NodePreCreation, MarkerPreds
<1>6. Goto(t, Idle) /\ ticket' = [ticket EXCEPT ![MNodes] = c.ticket] /\ UNCHANGED <<accepted, raced>>
  BY DEF Record
<1>7. \/ EnqueueCommand(c.queue, c.wait, c.returns)
      \/ EnqueueMarker(c.queue, c.wait, c.returns)
      \/ EnqueueBarrier(c.queue, c.wait, c.returns)
      \/ EnqueueBlocking(t, c.queue, c.wait, c.returns)
  BY <1>2 DEF Record, Kinds
<1>8. Enqueue(c.queue, c.wait, c.returns)
  BY <1>7 DEF Enqueue
<1> HIDE DEF c, q
<1>9. UNCHANGED <<queueVars, fileVars, open>> /\ \A u \in Thread \ {t} : pending'[u] = pending[u]
  BY <1>7 DEF EnqueueCommand, EnqueueMarker, EnqueueBarrier, EnqueueBlocking, IInv, TypeOK
<1>10. \E P \in {NodePreCreation(q, c.wait), MarkerPreds(q, c.wait)}, isBarrier \in BOOLEAN :
         NodePostCreation(q, P, isBarrier, c.returns)
  BY <1>7 DEF EnqueueCommand, EnqueueMarker, EnqueueBarrier, EnqueueBlocking, q
<1>11. \E P \in SUBSET Recorded, isBarrier \in BOOLEAN :
         /\ P \subseteq {MEventMap[e] : e \in c.wait} \cup OnQueue(q)
         /\ NodePostCreation(q, P, isBarrier, c.returns)
  BY <1>4, <1>5, <1>10
<1> QED
  BY <1>1, <1>2, <1>3, <1>6, <1>8, <1>9, <1>11 DEF c, q

LEMMA RecordKeepsCalls ==
  ASSUME IInv, CallsIInv, NEW t \in Thread, Record(t)
  PROVE  CallsIInv'
<1> DEFINE c == call[t]
           q == MQueueMap[c.queue]
           OnAfter(r) == {n \in Recorded' : MQueue'[n] = r}
<1>1. /\ t \in Under("enqueue") /\ q \in VizQueue /\ c.returns \in Returned
      /\ c.queue \in CLQueue /\ c.wait \in SUBSET Live
      /\ UNCHANGED <<queueVars, fileVars, open>>
      /\ \A u \in Thread \ {t} : pending'[u] = pending[u]
      /\ Goto(t, Idle)
      /\ ticket' = [ticket EXCEPT ![MNodes] = c.ticket]
      /\ UNCHANGED <<accepted, raced>>
  BY RecordFacts
<1>2. PICK P \in SUBSET Recorded, isBarrier \in BOOLEAN :
        /\ P \subseteq {MEventMap[e] : e \in c.wait} \cup OnQueue(q)
        /\ NodePostCreation(q, P, isBarrier, c.returns)
  BY RecordFacts
<1>3. c.ticket \in Ticket /\ c.ticket < accepted
  BY <1>1, CallFields DEF CallsIInv, TicketsInOrder
<1> HIDE DEF c, q, OnAfter
<1>4. /\ MNodes < MaxNodes /\ MNodes \in Node /\ MNodes' = MNodes + 1
      /\ Recorded' = Recorded \cup {MNodes} /\ MNodes \notin Recorded /\ Recorded \subseteq Node
  BY <1>2, ConstantsAssumption DEF NodePostCreation, IInv, TypeOK, Recorded, Node
<1>5. /\ MQueue'[MNodes] = q /\ MPreds'[MNodes] = P /\ ticket'[MNodes] = c.ticket
      /\ \A n \in Recorded : MQueue'[n] = MQueue[n] /\ MPreds'[n] = MPreds[n]
                               /\ ticket'[n] = ticket[n]
  BY <1>1, <1>2, <1>4 DEF NodePostCreation, IInv, TypeOK, CallsIInv, CallsTypeOK
<1>6. \A r : OnAfter(r) = OnQueue(r) \cup (IF r = q THEN {MNodes} ELSE {})
  BY <1>4, <1>5 DEF OnQueue, OnAfter
<1>7. /\ \A e \in Event : MEventMap'[e] = IF e \in c.returns THEN MNodes ELSE MEventMap[e]
      /\ \A e \in Event : signal'[e] = IF e \in c.returns THEN MNodes ELSE signal[e]
      /\ Live' = Live \cup c.returns /\ c.returns \cap Live = {} /\ c.returns \subseteq Event
  <2>1. /\ MEventMap' = [e \in Event |-> IF e \in c.returns THEN MNodes ELSE MEventMap[e]]
        /\ signal' = [e \in Event |-> IF e \in c.returns THEN MNodes ELSE signal[e]]
    BY <1>2 DEF NodePostCreation, EventMapAfter
  <2>2. c.returns \cap Live = {} /\ c.returns \subseteq Event
    BY <1>1 DEF Returned
  <2>3. MNodes # Free
    BY <1>4, ConstantsAssumption DEF Node, Free
  <2>4. Live' = Live \cup c.returns
    BY <2>1, <2>2, <2>3 DEF Live
  <2> QED
    BY <2>1, <2>2, <2>4
<1>8. /\ call' \in [Thread -> Calls] /\ call'[t] = Idle
      /\ \A u \in Thread \ {t} : call'[u] = call[u]
      /\ \A step : step # "idle" => Under(step)' = Under(step) \ {t}
      /\ \A step : Under(step) \subseteq Thread
  <2>1. Idle \in Calls /\ Idle.step = "idle"
    BY DEF Calls, Idle
  <2>2. CallsTypeOK
    BY DEF CallsIInv
  <2>3. \A step : Under(step) \subseteq Thread
    BY DEF Under
  <2> QED
    BY <1>1, <2>1, <2>2, <2>3, GotoFacts
<1>9. UNCHANGED <<MQueueMap, MIsInOrder, MQueues>>
  BY <1>1 DEF queueVars
<1>10. CallsTypeOK'
  <2>1. ticket' \in [Node -> Ticket \cup {NoTicket}]
    BY <1>1, <1>3, <1>4 DEF CallsIInv, CallsTypeOK
  <2> QED
    BY <1>1, <1>8, <2>1 DEF CallsIInv, CallsTypeOK
<1>11. Held'
  <2>1. \A u \in Thread : call'[u] # Idle => pending'[u] = NoNode
    BY <1>1, <1>8 DEF CallsIInv, Held
  <2>2. \A u \in Under("enqueue")' \cup Under("finish")' : MQueueMap'[call'[u].queue] # NoQueue
    BY <1>8, <1>9 DEF CallsIInv, Held
  <2>3. \A u \in Under("enqueue")' \cup Under("wait")' : call'[u].wait \subseteq Live'
    BY <1>7, <1>8 DEF CallsIInv, Held
  <2>4. \A u \in Under("wait")' : call'[u].wait # {}
    BY <1>8 DEF CallsIInv, Held
  <2>5. ASSUME NEW u \in Under("enqueue")' PROVE call'[u].returns \in Returned'
    <3>1. /\ u \in Under("enqueue") /\ u # t /\ call'[u] = call[u]
          /\ call[u].returns \in Returned /\ call[u].returns \cap call[t].returns = {}
      BY <1>1, <1>8 DEF CallsIInv, Held
    <3> QED
      BY <1>7, <3>1 DEF Returned, c
  <2>6. \A u, v \in Under("enqueue")' : u # v => call'[u].returns \cap call'[v].returns = {}
    BY <1>8 DEF CallsIInv, Held
  <2> QED
    BY <2>1, <2>2, <2>3, <2>4, <2>5, <2>6 DEF Held
<1>12. OwnQueues'
  <2>1. ASSUME NEW r \in VizQueue
        PROVE  MLeaves'[r] \cup ({MLastNode'[r], MLastBarrier'[r]} \ {NoNode}) \subseteq OnAfter(r)
    <3>1. MLeaves[r] \cup ({MLastNode[r], MLastBarrier[r]} \ {NoNode}) \subseteq OnQueue(r)
      BY DEF CallsIInv, OwnQueues
    <3>2. /\ MLeaves' = [MLeaves EXCEPT ![q] = (MLeaves[q] \ P) \cup {MNodes}]
          /\ MLastNode' = [MLastNode EXCEPT ![q] = IF MIsInOrder[q] THEN MNodes ELSE MLastNode[q]]
          /\ MLastBarrier' = [MLastBarrier EXCEPT ![q] = IF isBarrier THEN MNodes ELSE MLastBarrier[q]]
      BY <1>2 DEF NodePostCreation, LeavesAfter, LastNodeAfter
    <3>3. CASE r = q
      BY <1>1, <1>6, <3>1, <3>2, <3>3 DEF IInv, TypeOK
    <3>4. CASE r # q
      BY <1>1, <1>6, <3>1, <3>2, <3>4 DEF IInv, TypeOK
    <3> QED
      BY <3>3, <3>4
  <2> QED
    BY <1>9, <2>1 DEF CallsIInv, OwnQueues, OnQueue, OnAfter
<1>13. KnownStays'
  <2>1. ASSUME NEW u \in Under("finish")'
        PROVE  call'[u].known \subseteq OnAfter(MQueueMap'[call'[u].queue])
    BY <1>6, <1>8, <1>9 DEF CallsIInv, KnownStays
  <2>2. ASSUME NEW u \in Under("wait")'
        PROVE  call'[u].known \subseteq {MEventMap'[e] : e \in call'[u].wait}
    <3>1. /\ call'[u] = call[u] /\ call[u].known \subseteq {MEventMap[e] : e \in call[u].wait}
          /\ call[u].wait \subseteq Live
      BY <1>8, <2>2 DEF CallsIInv, KnownStays, Held
    <3>2. \A e \in call[u].wait : MEventMap'[e] = MEventMap[e]
      BY <1>7, <3>1 DEF Live
    <3> QED
      BY <3>1, <3>2
  <2> QED
    BY <2>1, <2>2 DEF KnownStays, OnQueue, OnAfter
<1>14. TicketsInOrder'
  <2>1. ASSUME NEW n \in Recorded' PROVE ticket'[n] < accepted'
    BY <1>1, <1>3, <1>4, <1>5 DEF CallsIInv, TicketsInOrder
  <2>2. ASSUME NEW u \in Under("enqueue")'
        PROVE  LET r == MQueueMap'[call'[u].queue] IN
               /\ call'[u].ticket < accepted'
               /\ \A e \in call'[u].wait :
                    MEventMap'[e] # NoNode => ticket'[MEventMap'[e]] < call'[u].ticket
               /\ r \notin raced' =>
                    /\ \A n \in OnAfter(r) : ticket'[n] < call'[u].ticket
                    /\ \A v \in Under("enqueue")' : call'[v].queue = call'[u].queue => v = u
    <3> DEFINE r == MQueueMap[call[u].queue]
    <3>1. u \in Under("enqueue") /\ u # t /\ u \in Thread /\ call'[u] = call[u]
      BY <1>8
    <3>2. /\ call[u].ticket < accepted
          /\ \A e \in call[u].wait : MEventMap[e] # NoNode => ticket[MEventMap[e]] < call[u].ticket
          /\ r \notin raced =>
               /\ \A n \in OnQueue(r) : ticket[n] < call[u].ticket
               /\ \A v \in Under("enqueue") : call[v].queue = call[u].queue => v = u
      BY <3>1 DEF CallsIInv, TicketsInOrder
    <3>3. ASSUME NEW e \in call[u].wait, MEventMap'[e] # NoNode
          PROVE  ticket'[MEventMap'[e]] < call[u].ticket
      <4>1. e \in Live /\ e \in Event
        BY <3>1 DEF CallsIInv, Held, Live
      <4>2. MEventMap'[e] = MEventMap[e] /\ MEventMap[e] \in Recorded
        BY <1>7, <3>3, <4>1, Places
      <4> QED
        BY <1>5, <3>2, <3>3, <4>2
    <3>4. ASSUME r \notin raced, NEW n \in OnAfter(r) PROVE ticket'[n] < call[u].ticket
      <4>1. r # q
        <5>1. call[u].queue # c.queue
          BY <1>1, <3>1, <3>2, <3>4 DEF c
        <5>2. call[u].queue \in CLQueue /\ r # NoQueue
          BY <3>1, CallFields DEF CallsIInv, Held
        <5> QED
          BY <1>1, <5>1, <5>2 DEF CallsIInv, OwnQueues, q
      <4>2. n \in OnQueue(r) /\ n \in Recorded
        BY <1>6, <3>4, <4>1, Places
      <4> QED
        BY <1>5, <3>2, <3>4, <4>2
    <3> QED
      BY <1>1, <1>8, <1>9, <3>1, <3>2, <3>3, <3>4
  <2> QED
    BY <2>1, <2>2 DEF TicketsInOrder, OnQueue, OnAfter
<1>15. OrderedUnlessRaced'
  <2> SUFFICES ASSUME NEW n \in Recorded', NEW m \in MPreds'[n]
               PROVE  ticket'[m] < ticket'[n] \/ (MQueue'[m] = MQueue'[n] /\ MQueue'[n] \in raced')
    BY DEF OrderedUnlessRaced
  <2>1. CASE n \in Recorded
    <3>1. m \in MPreds[n] /\ m \in Recorded
      BY <1>5, <2>1, Places
    <3> QED
      BY <1>1, <1>5, <2>1, <3>1 DEF CallsIInv, OrderedUnlessRaced
  <2>2. CASE n = MNodes
    <3>1. m \in P /\ m \in Recorded /\ MQueue'[m] = MQueue[m] /\ ticket'[m] = ticket[m]
      BY <1>2, <1>5, <2>2
    <3>2. CASE m \in {MEventMap[e] : e \in c.wait}
      <4>1. m # NoNode
        BY <3>1, <1>4, ConstantsAssumption DEF Node, NoNode
      <4>2. ticket[m] < c.ticket
        BY <1>1, <3>2, <4>1 DEF CallsIInv, TicketsInOrder, c
      <4> QED
        BY <1>5, <2>2, <3>1, <4>2
    <3>3. CASE m \in OnQueue(q)
      <4>1. MQueue[m] = q
        BY <3>3 DEF OnQueue
      <4>2. q \notin raced => ticket[m] < c.ticket
        BY <1>1, <3>3 DEF CallsIInv, TicketsInOrder, c, q
      <4> QED
        BY <1>1, <1>5, <2>2, <3>1, <4>1, <4>2
    <3> QED
      BY <1>2, <3>1, <3>2, <3>3
  <2> QED
    BY <1>4, <2>1, <2>2
<1> QED
  BY <1>10, <1>11, <1>12, <1>13, <1>14, <1>15 DEF CallsIInv

-----------------------------------------------------------------------------
(***************************************************************************)
(* The steps that record nothing.                                          *)
(***************************************************************************)

\* A call starts with the driver's part: what it will need is there.
LEMMA DriverTakesKeepsCalls ==
  ASSUME IInv, CallsIInv, NEW t \in Thread, NEW kind \in Kinds, NEW cq \in CLQueue,
         NEW E \in SUBSET Live, NEW R \in Returned, DriverTakes(t, kind, cq, E, R)
  PROVE  CallsIInv'
<1> DEFINE c == Enqueuing(kind, cq, E, R, accepted)
           q == MQueueMap[cq]
<1>1. /\ pending[t] = NoNode /\ call[t] = Idle /\ q # NoQueue /\ q \in VizQueue
      /\ R \cap PromisedEvents = {} /\ accepted < MaxNodes /\ accepted' = accepted + 1
      /\ Goto(t, c) /\ UNCHANGED vars /\ ticket' = ticket
      /\ raced \subseteq raced' /\ raced' \subseteq raced \cup {q}
      /\ (\E u \in Under("enqueue") : call[u].queue = cq) => q \in raced'
  BY Places DEF DriverTakes, Ready
<1>2. accepted \in 0 .. MaxNodes /\ accepted \in Ticket /\ MaxNodes \in Nat
  BY <1>1, ConstantsAssumption DEF CallsIInv, CallsTypeOK, Ticket
<1>3. E \in SUBSET Event /\ R \in SUBSET Event
  BY DEF Live, Returned
<1>4. /\ c \in Calls /\ c.step = "enqueue" /\ c.queue = cq /\ c.wait = E /\ c.returns = R
      /\ c.ticket = accepted /\ c # Idle
  <2>1. c.step # Idle.step
    BY DEF Enqueuing, Idle
  <2> QED
    BY <1>2, <1>3, <2>1 DEF Enqueuing, Calls
<1> HIDE DEF c, q
<1>5. /\ call' \in [Thread -> Calls] /\ call'[t] = c
      /\ \A u \in Thread \ {t} : call'[u] = call[u]
      /\ Under("enqueue")' = Under("enqueue") \cup {t}
      /\ Under("finish")' \subseteq Under("finish") \ {t}
      /\ Under("wait")' \subseteq Under("wait") \ {t}
      /\ \A step : Under(step) \subseteq Thread
      /\ t \notin Under("enqueue")
  <2>1. CallsTypeOK /\ \A step : Under(step) \subseteq Thread
    BY DEF CallsIInv, Under
  <2>2. t \notin Under("enqueue")
    BY <1>1 DEF Under, Idle
  <2> QED
    BY <1>1, <1>4, <2>1, <2>2, GotoFacts
<1>6. /\ MQueueMap' = MQueueMap /\ MQueue' = MQueue /\ MPreds' = MPreds
      /\ MEventMap' = MEventMap /\ Live' = Live /\ Recorded' = Recorded /\ pending' = pending
      /\ Returned' = Returned /\ \A r : OnQueue(r)' = OnQueue(r)
      /\ UNCHANGED <<MLeaves, MLastNode, MLastBarrier>>
  BY <1>1 DEF vars, queueVars, graphVars, Live, Recorded, Returned, OnQueue
<1>7. CallsTypeOK'
  BY <1>1, <1>2, <1>5 DEF CallsIInv, CallsTypeOK
<1>8. Held'
  <2>1. \A u \in Thread : call'[u] # Idle => pending'[u] = NoNode
    BY <1>1, <1>5, <1>6 DEF CallsIInv, Held
  <2>2. \A u \in Under("enqueue")' \cup Under("finish")' : MQueueMap'[call'[u].queue] # NoQueue
    BY <1>1, <1>4, <1>5, <1>6 DEF CallsIInv, Held, q
  <2>3. \A u \in Under("enqueue")' \cup Under("wait")' : call'[u].wait \subseteq Live'
    BY <1>4, <1>5, <1>6 DEF CallsIInv, Held
  <2>4. \A u \in Under("wait")' : call'[u].wait # {}
    BY <1>5 DEF CallsIInv, Held
  <2>5. \A u \in Under("enqueue")' : call'[u].returns \in Returned'
    BY <1>4, <1>5, <1>6 DEF CallsIInv, Held
  <2>6. \A u \in Under("enqueue") : call[u].returns \cap R = {}
    BY <1>1 DEF PromisedEvents
  <2>7. \A u, v \in Under("enqueue")' : u # v => call'[u].returns \cap call'[v].returns = {}
    BY <1>4, <1>5, <2>6 DEF CallsIInv, Held
  <2> QED
    BY <2>1, <2>2, <2>3, <2>4, <2>5, <2>7 DEF Held
<1>9. OwnQueues'
  BY <1>6 DEF CallsIInv, OwnQueues, OnQueue
<1>10. KnownStays'
  BY <1>5, <1>6 DEF CallsIInv, KnownStays, OnQueue
<1>11. TicketsInOrder'
  <2>1. \A n \in Recorded : ticket[n] < accepted /\ ticket[n] \in Int
    BY Places, ConstantsAssumption DEF CallsIInv, TicketsInOrder, CallsTypeOK, Ticket, NoTicket
  <2>2. ASSUME NEW n \in Recorded' PROVE ticket'[n] < accepted'
    BY <1>1, <1>2, <1>6, <2>1, <2>2
  <2>3. ASSUME NEW u \in Under("enqueue")'
        PROVE  /\ call'[u].ticket < accepted'
               /\ \A e \in call'[u].wait :
                    MEventMap'[e] # NoNode => ticket'[MEventMap'[e]] < call'[u].ticket
               /\ MQueueMap'[call'[u].queue] \notin raced' =>
                    /\ \A n \in OnQueue(MQueueMap[call'[u].queue]) : ticket'[n] < call'[u].ticket
                    /\ \A v \in Under("enqueue")' : call'[v].queue = call'[u].queue => v = u
    <3>1. CASE u = t
      <4>1. \A e \in E : MEventMap[e] # NoNode => MEventMap[e] \in Recorded
        BY <1>3, Places
      <4>2. \A v \in Under("enqueue") : call[v].queue = cq => q \in raced'
        BY <1>1
      <4> QED
        BY <1>1, <1>2, <1>4, <1>5, <1>6, <2>1, <3>1, <4>1, <4>2, Places DEF q
    <3>2. CASE u # t
      <4>1. u \in Under("enqueue") /\ call'[u] = call[u] /\ call[u].ticket \in Int
        BY <1>5, <2>3, <3>2, CallFields DEF CallsIInv, Ticket
      <4>2. call[u].queue = cq => q \in raced'
        BY <1>1, <4>1
      <4> QED
        BY <1>1, <1>2, <1>4, <1>5, <1>6, <4>1, <4>2 DEF CallsIInv, TicketsInOrder, q
    <3> QED
      BY <3>1, <3>2
  <2> QED
    BY <1>6, <2>2, <2>3 DEF TicketsInOrder, OnQueue
<1>12. OrderedUnlessRaced'
  BY <1>1, <1>6 DEF CallsIInv, OrderedUnlessRaced
<1> QED
  BY <1>7, <1>8, <1>9, <1>10, <1>11, <1>12 DEF CallsIInv

\* A blocking call starts, or any other one ends: the commands to be recorded
\* and the graph are as they were.
LEMMA OtherStepKeepsCalls ==
  ASSUME IInv, CallsIInv, NEW t \in Thread, NEW c \in Calls,
         c.step # "enqueue", call[t].step # "enqueue", call' = [call EXCEPT ![t] = c],
         c # Idle => pending'[t] = NoNode,
         pending' = pending \/ pending' = [pending EXCEPT ![t] = NoNode],
         c.step = "finish" =>
           MQueueMap[c.queue] # NoQueue /\ c.known \subseteq OnQueue(MQueueMap[c.queue]),
         c.step = "wait" =>
           c.wait # {} /\ c.wait \subseteq Live /\ c.known \subseteq {MEventMap[e] : e \in c.wait},
         UNCHANGED <<queueVars, graphVars, signal, accepted, ticket, raced>>
  PROVE  CallsIInv'
<1>1. /\ call' \in [Thread -> Calls] /\ call'[t] = c
      /\ \A u \in Thread \ {t} : call'[u] = call[u]
      /\ \A step : Under(step)' \subseteq Thread
      /\ Under("enqueue")' = Under("enqueue") /\ t \notin Under("enqueue")
      /\ \A step : \A u \in Under(step)' : (u = t /\ c.step = step) \/ (u # t /\ u \in Under(step))
  <2>1. call' \in [Thread -> Calls] /\ call'[t] = c /\ \A u \in Thread \ {t} : call'[u] = call[u]
    BY DEF CallsIInv, CallsTypeOK
  <2> QED
    BY <2>1 DEF Under
<1>2. /\ MQueueMap' = MQueueMap /\ MQueue' = MQueue /\ MPreds' = MPreds
      /\ MEventMap' = MEventMap /\ Live' = Live /\ Recorded' = Recorded
      /\ Returned' = Returned /\ \A r : OnQueue(r)' = OnQueue(r)
      /\ UNCHANGED <<MLeaves, MLastNode, MLastBarrier>>
  BY DEF queueVars, graphVars, Live, Recorded, Returned, OnQueue
<1>3. CallsTypeOK'
  BY <1>1 DEF CallsIInv, CallsTypeOK
<1>4. Held'
  <2>1. \A u \in Thread : call'[u] # Idle => pending'[u] = NoNode
    BY <1>1 DEF CallsIInv, Held, IInv, TypeOK
  <2>2. \A u \in Under("enqueue")' \cup Under("finish")' : MQueueMap'[call'[u].queue] # NoQueue
    BY <1>1, <1>2 DEF CallsIInv, Held
  <2>3. \A u \in Under("enqueue")' \cup Under("wait")' : call'[u].wait \subseteq Live'
    BY <1>1, <1>2 DEF CallsIInv, Held
  <2>4. \A u \in Under("wait")' : call'[u].wait # {}
    BY <1>1 DEF CallsIInv, Held
  <2>5. \A u \in Under("enqueue")' : call'[u].returns \in Returned'
    BY <1>1, <1>2 DEF CallsIInv, Held
  <2>6. \A u, v \in Under("enqueue")' : u # v => call'[u].returns \cap call'[v].returns = {}
    BY <1>1 DEF CallsIInv, Held
  <2> QED
    BY <2>1, <2>2, <2>3, <2>4, <2>5, <2>6 DEF Held
<1>5. OwnQueues'
  BY <1>2 DEF CallsIInv, OwnQueues, OnQueue
<1>6. KnownStays'
  BY <1>1, <1>2 DEF CallsIInv, KnownStays, OnQueue
<1>7. TicketsInOrder'
  <2>1. \A u \in Under("enqueue")' : call'[u] = call[u] /\ u \in Under("enqueue")
    BY <1>1
  <2> QED
    BY <1>1, <1>2, <2>1 DEF CallsIInv, TicketsInOrder, OnQueue
<1>8. OrderedUnlessRaced'
  BY <1>2 DEF CallsIInv, OrderedUnlessRaced
<1> QED
  BY <1>3, <1>4, <1>5, <1>6, <1>7, <1>8 DEF CallsIInv

\* A handle is created or released: none that a call under way holds.
LEMMA HandleStepKeepsCalls ==
  ASSUME IInv, CallsIInv,
         \/ \E cq \in CLQueue, isInOrder \in BOOLEAN : CreateQueueCall(cq, isInOrder)
         \/ \E e \in Event : ReleaseEventCall(e) \/ UnrecordedEventCall(e)
  PROVE  CallsIInv'
<1>1. /\ UNCHANGED <<graphVars, pending, callVars, call, accepted, ticket, raced>>
      /\ UNCHANGED <<MQueue, MPreds, MEventMap, MNodes, MLeaves, MLastNode, MLastBarrier>>
  BY DEF CreateQueueCall, ReleaseEventCall, UnrecordedEventCall, CreateQueue, ReleaseEvent,
         UnrecordedEvent, callVars, graphVars
<1>2. /\ Recorded' = Recorded /\ \A step : Under(step)' = Under(step)
      /\ \A step : Under(step) \subseteq Thread
  BY <1>1 DEF Recorded, Under
<1>3. CallsTypeOK'
  BY <1>1 DEF CallsIInv, CallsTypeOK
<1>4. \A u \in Under("enqueue") \cup Under("finish") :
        MQueueMap'[call[u].queue] = MQueueMap[call[u].queue]
  <2> SUFFICES ASSUME NEW u \in Under("enqueue") \cup Under("finish")
               PROVE  MQueueMap'[call[u].queue] = MQueueMap[call[u].queue]
    OBVIOUS
  <2>1. CASE \E cq \in CLQueue, isInOrder \in BOOLEAN : CreateQueueCall(cq, isInOrder)
    <3>1. PICK cq \in CLQueue : Using(cq) = {} /\ MQueueMap' = [MQueueMap EXCEPT ![cq] = MQueues + 1]
      BY <2>1 DEF CreateQueueCall, CreateQueue
    <3>2. call[u].queue # cq /\ call[u].queue \in CLQueue
      BY <1>2, <3>1, CallFields DEF Using, CallsIInv
    <3> QED
      BY <3>1, <3>2 DEF IInv, TypeOK
  <2>2. CASE \E e \in Event : ReleaseEventCall(e) \/ UnrecordedEventCall(e)
    BY <2>2 DEF ReleaseEventCall, UnrecordedEventCall, ReleaseEvent, UnrecordedEvent, queueVars
  <2> QED
    BY <2>1, <2>2
<1>5. /\ \A u \in Under("enqueue") \cup Under("wait") : call[u].wait \subseteq Live'
      /\ \A u \in Under("enqueue") : call[u].returns \in Returned'
  <2>1. CASE \E cq \in CLQueue, isInOrder \in BOOLEAN : CreateQueueCall(cq, isInOrder)
    <3>1. signal' = signal
      BY <2>1 DEF CreateQueueCall, CreateQueue
    <3> QED
      BY <3>1 DEF CallsIInv, Held, Live, Returned
  <2>2. ASSUME NEW e \in Event, ReleaseEventCall(e)
        PROVE  <1>5!1 /\ <1>5!2
    <3>1. e \notin HeldEvents /\ signal' = [signal EXCEPT ![e] = Free]
      BY <2>2 DEF ReleaseEventCall, ReleaseEvent
    <3>2. Live' = Live \ {e}
      BY <3>1 DEF Live, IInv, TypeOK
    <3>3. \A u \in Under("enqueue") \cup Under("wait") : e \notin call[u].wait
      BY <3>1 DEF HeldEvents
    <3> QED
      BY <3>2, <3>3 DEF CallsIInv, Held, Returned
  <2>3. ASSUME NEW e \in Event, UnrecordedEventCall(e)
        PROVE  <1>5!1 /\ <1>5!2
    <3>1. e \notin PromisedEvents /\ signal' = [signal EXCEPT ![e] = Unknown]
      BY <2>3 DEF UnrecordedEventCall, UnrecordedEvent
    <3>2. Live' = Live \cup {e}
      BY <3>1 DEF Live, IInv, TypeOK, Free, Unknown
    <3>3. \A u \in Under("enqueue") : e \notin call[u].returns
      BY <3>1 DEF PromisedEvents
    <3> QED
      BY <3>2, <3>3 DEF CallsIInv, Held, Returned
  <2> QED
    BY <2>1, <2>2, <2>3
<1>6. Held'
  BY <1>1, <1>2, <1>4, <1>5 DEF CallsIInv, Held
<1>7. OwnQueues'
  <2>1. \A cq, other \in CLQueue :
          MQueueMap'[cq] = MQueueMap'[other] /\ MQueueMap'[cq] # NoQueue => cq = other
    <3>1. CASE \E cq \in CLQueue, isInOrder \in BOOLEAN : CreateQueueCall(cq, isInOrder)
      <4>1. PICK cq \in CLQueue : MQueueMap' = [MQueueMap EXCEPT ![cq] = MQueues + 1]
        BY <3>1 DEF CreateQueueCall, CreateQueue
      <4>2. \A other \in CLQueue : MQueueMap[other] # MQueues + 1
        BY DEF IInv, TypeOK, Wellformed
      <4> QED
        BY <4>1, <4>2 DEF CallsIInv, OwnQueues, IInv, TypeOK
    <3>2. CASE \E e \in Event : ReleaseEventCall(e) \/ UnrecordedEventCall(e)
      <4>1. MQueueMap' = MQueueMap
        BY <3>2 DEF ReleaseEventCall, UnrecordedEventCall, ReleaseEvent, UnrecordedEvent, queueVars
      <4> QED
        BY <4>1 DEF CallsIInv, OwnQueues
    <3> QED
      BY <3>1, <3>2
  <2> QED
    BY <1>1, <1>2, <2>1 DEF CallsIInv, OwnQueues, OnQueue
<1>8. KnownStays'
  BY <1>1, <1>2, <1>4 DEF CallsIInv, KnownStays, OnQueue
<1>9. TicketsInOrder'
  BY <1>1, <1>2, <1>4 DEF CallsIInv, TicketsInOrder, OnQueue
<1>10. OrderedUnlessRaced'
  BY <1>1, <1>2 DEF CallsIInv, OrderedUnlessRaced
<1> QED
  BY <1>3, <1>6, <1>7, <1>8, <1>9, <1>10 DEF CallsIInv

-----------------------------------------------------------------------------
(***************************************************************************)
(* The theorems.                                                           *)
(***************************************************************************)

\* A step of the threads is a step of the instance, or none.
LEMMA StepOfInstance ==
  ASSUME IInv, CallsIInv, [CallsNext]_<<vars, callVars>>
  PROVE  [Next]_vars
<1>1. ASSUME NEW t \in Thread, Record(t) PROVE Next
  BY <1>1, RecordFacts DEF Next
<1>2. ASSUME NEW t \in Thread, FlushFinished(t) PROVE Next
  <2>1. call[t].queue \in CLQueue
    BY <1>2, CallFields DEF FlushFinished, Under, CallsIInv
  <2> QED
    BY <1>2, <2>1 DEF FlushFinished, Next
<1>3. ASSUME NEW t \in Thread, FlushWaited(t) PROVE Next
  <2>1. call[t].wait \in (SUBSET Live) \ {{}}
    <3>1. t \in Under("wait")
      BY <1>3 DEF FlushWaited, Under
    <3>2. call[t].wait # {} /\ call[t].wait \subseteq Live
      BY <3>1 DEF CallsIInv, Held
    <3> QED
      BY <3>2
  <2> QED
    BY <1>3, <2>1 DEF FlushWaited, Next
<1>4. ASSUME NEW t \in Thread, FlushAfterBlocking(t) PROVE Next
  BY <1>4 DEF FlushAfterBlocking, Next
<1>5. ASSUME \E t \in Thread :
               \/ \E kind \in Kinds, cq \in CLQueue, E \in SUBSET Live, R \in Returned :
                    DriverTakes(t, kind, cq, E, R)
               \/ \E cq \in CLQueue : DriverFinishes(t, cq)
               \/ \E E \in (SUBSET Live) \ {{}} : DriverWaits(t, E)
      PROVE  UNCHANGED vars
  BY <1>5 DEF DriverTakes, DriverFinishes, DriverWaits
<1>6. ASSUME \/ \E cq \in CLQueue, isInOrder \in BOOLEAN : CreateQueueCall(cq, isInOrder)
             \/ \E e \in Event : ReleaseEventCall(e) \/ UnrecordedEventCall(e)
             \/ TeardownCall
      PROVE  Next
  BY <1>6 DEF CreateQueueCall, ReleaseEventCall, UnrecordedEventCall, TeardownCall, Next
<1> QED
  BY <1>1, <1>2, <1>3, <1>4, <1>5, <1>6 DEF CallsNext, Step

\* Every step of the threads keeps what calls rely on.
LEMMA CallsNextPreserves ==
  ASSUME IInv, CallsIInv, [CallsNext]_<<vars, callVars>>
  PROVE  CallsIInv'
<1>1. ASSUME NEW t \in Thread, NEW kind \in Kinds, NEW cq \in CLQueue,
             NEW E \in SUBSET Live, NEW R \in Returned, DriverTakes(t, kind, cq, E, R)
      PROVE  CallsIInv'
  BY <1>1, DriverTakesKeepsCalls
<1>2. ASSUME NEW t \in Thread, Record(t) PROVE CallsIInv'
  BY <1>2, RecordKeepsCalls
<1>3. Idle \in Calls /\ Idle.step = "idle"
  BY DEF Idle, Calls
<1>4. ASSUME NEW t \in Thread, FlushAfterBlocking(t) PROVE CallsIInv'
  <2>1. /\ pending[t] # NoNode /\ pending' = [pending EXCEPT ![t] = NoNode]
        /\ UNCHANGED <<queueVars, graphVars, signal, call, accepted, ticket, raced>>
    BY <1>4 DEF FlushAfterBlocking, FlushBlocking, callVars
  <2>2. call[t] = Idle
    BY <2>1 DEF CallsIInv, Held
  <2>3. call' = [call EXCEPT ![t] = Idle]
    BY <2>1, <2>2 DEF CallsIInv, CallsTypeOK
  <2> QED
    BY <1>3, <2>1, <2>2, <2>3, OtherStepKeepsCalls
<1>5. ASSUME NEW t \in Thread, NEW cq \in CLQueue, DriverFinishes(t, cq) PROVE CallsIInv'
  <2> DEFINE c == Finishing(cq, OnQueue(MQueueMap[cq]))
  <2>1. /\ pending[t] = NoNode /\ call[t] = Idle /\ MQueueMap[cq] # NoQueue
        /\ call' = [call EXCEPT ![t] = c] /\ pending' = pending
        /\ UNCHANGED <<queueVars, graphVars, signal, accepted, ticket, raced>>
    BY <1>5 DEF DriverFinishes, Ready, Goto, vars
  <2>2. /\ c \in Calls /\ c.step = "finish" /\ c.queue = cq
        /\ c.known = OnQueue(MQueueMap[cq])
    BY Places DEF Finishing, Calls
  <2> HIDE DEF c
  <2> QED
    BY <1>3, <2>1, <2>2, OtherStepKeepsCalls
<1>6. ASSUME NEW t \in Thread, NEW E \in (SUBSET Live) \ {{}}, DriverWaits(t, E) PROVE CallsIInv'
  <2> DEFINE S == {signal[e] : e \in E} \cap Node
             c == Waiting(E, S)
  <2>1. /\ pending[t] = NoNode /\ call[t] = Idle
        /\ call' = [call EXCEPT ![t] = c] /\ pending' = pending
        /\ UNCHANGED <<queueVars, graphVars, signal, accepted, ticket, raced>>
    BY <1>6 DEF DriverWaits, Ready, Goto, vars
  <2>2. E \in SUBSET Event
    BY DEF Live
  <2>3. S \subseteq {MEventMap[e] : e \in E}
    BY <2>2 DEF IInv, EventMapCurrent
  <2>4. c \in Calls /\ c.step = "wait" /\ c.wait = E /\ c.known = S
    BY <2>2 DEF Waiting, Calls
  <2> HIDE DEF c, S
  <2> QED
    BY <1>3, <2>1, <2>3, <2>4, OtherStepKeepsCalls
<1>7. ASSUME NEW t \in Thread, FlushFinished(t) PROVE CallsIInv'
  <2>1. /\ call[t].step = "finish" /\ call' = [call EXCEPT ![t] = Idle] /\ pending' = pending
        /\ UNCHANGED <<queueVars, graphVars, signal, accepted, ticket, raced>>
    BY <1>7 DEF FlushFinished, Finish, Goto
  <2> QED
    BY <1>3, <2>1, OtherStepKeepsCalls
<1>8. ASSUME NEW t \in Thread, FlushWaited(t) PROVE CallsIInv'
  <2>1. /\ call[t].step = "wait" /\ call' = [call EXCEPT ![t] = Idle] /\ pending' = pending
        /\ UNCHANGED <<queueVars, graphVars, signal, accepted, ticket, raced>>
    BY <1>8 DEF FlushWaited, WaitForEvents, Goto
  <2> QED
    BY <1>3, <2>1, OtherStepKeepsCalls
<1>9. ASSUME TeardownCall \/ UNCHANGED <<vars, callVars>> PROVE CallsIInv'
  <2>1. UNCHANGED <<MQueues, MQueueMap, MLastNode, MLastBarrier, MLeaves, MNodes, MQueue,
                    MPreds, MEventMap, pending, signal, accepted, call, ticket, raced>>
    BY <1>9 DEF TeardownCall, Teardown, vars, queueVars, graphVars, callVars
  <2>2. CallsTypeOK' /\ Held' /\ OwnQueues'
    BY <2>1 DEF CallsIInv, CallsTypeOK, Held, OwnQueues, Under, Live, Returned, OnQueue, Recorded
  <2>3. KnownStays'
    BY <2>1 DEF CallsIInv, KnownStays, Under, OnQueue, Recorded
  <2>4. TicketsInOrder'
    BY <2>1 DEF CallsIInv, TicketsInOrder, Under, OnQueue, Recorded
  <2>5. OrderedUnlessRaced'
    BY <2>1 DEF CallsIInv, OrderedUnlessRaced, Recorded
  <2> QED
    BY <2>2, <2>3, <2>4, <2>5 DEF CallsIInv
<1>10. ASSUME \/ \E cq \in CLQueue, isInOrder \in BOOLEAN : CreateQueueCall(cq, isInOrder)
              \/ \E e \in Event : ReleaseEventCall(e) \/ UnrecordedEventCall(e)
       PROVE  CallsIInv'
  BY <1>10, HandleStepKeepsCalls
<1> QED
  BY <1>1, <1>2, <1>4, <1>5, <1>6, <1>7, <1>8, <1>9, <1>10 DEF CallsNext, Step

LEMMA CallsStart == CallsInit => CallsIInv
<1> SUFFICES ASSUME CallsInit PROVE CallsIInv
  OBVIOUS
<1>1. /\ Recorded = {} /\ \A r : OnQueue(r) = {}
      /\ Under("enqueue") = {} /\ Under("finish") = {} /\ Under("wait") = {}
  BY DEF CallsInit, Init, Recorded, OnQueue, Under, Idle
<1>2. CallsTypeOK
  BY ConstantsAssumption DEF CallsInit, CallsTypeOK, Calls, NoTicket
<1>3. Held /\ OwnQueues /\ KnownStays /\ TicketsInOrder /\ OrderedUnlessRaced
  BY <1>1 DEF CallsInit, Init, Held, OwnQueues, KnownStays, TicketsInOrder, OrderedUnlessRaced
<1> QED
  BY <1>2, <1>3 DEF CallsIInv

\* What the instance and the calls rely on holds, however threads interleave.
THEOREM CallsInvariance == CallsSpec => [](IInv /\ CallsIInv)
<1>1. CallsInit => IInv /\ CallsIInv
  BY InitIInv, CallsStart DEF CallsInit
<1>2. IInv /\ CallsIInv /\ [CallsNext]_<<vars, callVars>> => IInv' /\ CallsIInv'
  BY StepOfInstance, NextPreserves, CallsNextPreserves
<1> QED
  BY <1>1, <1>2, PTL DEF CallsSpec

\* The threads' calls implement VizInstance: all its theorems hold of them.
THEOREM CallsAreRecordings == CallsSpec => IsARecording
<1>1. CallsInit => Init
  BY DEF CallsInit
<1>2. IInv /\ CallsIInv /\ [CallsNext]_<<vars, callVars>> => [Next]_vars
  BY StepOfInstance
<1> QED
  BY <1>1, <1>2, CallsInvariance, PTL DEF CallsSpec, IsARecording, Spec

\* An edge against the order in which the driver took the commands needs two
\* threads in the middle of an enqueue to one queue (the shims of main.cpp).
THEOREM InversionNeedsRace == CallsSpec => []OrderedUnlessRaced
<1>1. CallsIInv => OrderedUnlessRaced
  BY DEF CallsIInv
<1> QED
  BY <1>1, CallsInvariance, PTL

\* clFinish and clWaitForEvents report what they waited for, although the lock
\* is taken only after the wait.
THEOREM CallsReportWhatTheyKnew == CallsSpec => CallsReport
<1> DEFINE Reported == \A t \in Thread :
             FlushFinished(t) \/ FlushWaited(t) => call[t].known \subseteq MDefined'
<1>1. IInv /\ CallsIInv => Reported
  <2> SUFFICES ASSUME IInv, CallsIInv, NEW t \in Thread
               PROVE  FlushFinished(t) \/ FlushWaited(t) => call[t].known \subseteq MDefined'
    OBVIOUS
  <2>1. ASSUME FlushFinished(t) PROVE call[t].known \subseteq MDefined'
    <3> DEFINE q == MQueueMap[call[t].queue]
    <3>1. t \in Under("finish") /\ q # NoQueue /\ Flush(MLeaves[q])
      BY <2>1 DEF FlushFinished, Finish, Under
    <3>2. q \in VizQueue /\ MLeaves[q] \in SUBSET Recorded
      BY <3>1, CallFields, Places DEF CallsIInv, IInv, Wellformed
    <3>3. OnQueue(q) \subseteq MDefined'
      BY <3>1, <3>2, FlushLeaves
    <3> QED
      BY <3>1, <3>3 DEF CallsIInv, KnownStays
  <2>2. ASSUME FlushWaited(t) PROVE call[t].known \subseteq MDefined'
    <3> DEFINE S == {MEventMap[e] : e \in call[t].wait} \ {NoNode}
    <3>1. t \in Under("wait") /\ Flush(S)
      BY <2>2 DEF FlushWaited, WaitForEvents, Under
    <3>2. call[t].wait \in SUBSET Event /\ call[t].known \in SUBSET Node
      BY <3>1, CallFields DEF CallsIInv
    <3>3. S \in SUBSET Recorded
      BY <3>2, Places
    <3>4. call[t].known \subseteq S
      BY <3>1, <3>2, ConstantsAssumption DEF CallsIInv, KnownStays, Node, NoNode
    <3>5. S \subseteq MDefined'
      BY <3>1, <3>3, FlushFacts DEF IInv
    <3> QED
      BY <3>4, <3>5
  <2> QED
    BY <2>1, <2>2
<1>2. IInv /\ CallsIInv /\ [CallsNext]_<<vars, callVars>> => [Reported]_vars
  BY <1>1
<1> QED
  BY <1>2, CallsInvariance, PTL DEF CallsSpec, CallsReport
=============================================================================

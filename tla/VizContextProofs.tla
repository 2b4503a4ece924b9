-------------------------- MODULE VizContextProofs --------------------------
(***************************************************************************)
(* Proofs about VizContext, for every set of threads, queues and           *)
(* addresses.                                                              *)
(***************************************************************************)
EXTENDS VizContext, FiniteSetTheorems, TLAPS

-----------------------------------------------------------------------------
(***************************************************************************)
(* Counting references, without a sum: the references threads hold are the *)
(* elements of a set, which a step adds to or takes from one at a time.    *)
(***************************************************************************)

Holdings == [Thread -> 0 .. MaxRefs]

\* A thread that holds one reference more adds one.
LEMMA RefsOneMore ==
  ASSUME NEW f \in Holdings, NEW t \in Thread, f[t] < MaxRefs, IsFiniteSet(Refs(f)),
         NEW g, g = [f EXCEPT ![t] = @ + 1]
  PROVE  g \in Holdings /\ IsFiniteSet(Refs(g)) /\ Cardinality(Refs(g)) = Cardinality(Refs(f)) + 1
<1> USE RefsAssumption
<1> DEFINE new == <<t, f[t] + 1>>
<1>1. g \in Holdings /\ \A u \in Thread : g[u] = IF u = t THEN f[t] + 1 ELSE f[u]
  BY DEF Holdings
<1>2. new \notin Refs(f)
  BY DEF Refs, Holdings
<1>3. Refs(g) = Refs(f) \cup {new}
  <2>1. ASSUME NEW r \in Thread \X (1 .. MaxRefs)
        PROVE  r[2] <= g[r[1]] <=> (r[2] <= f[r[1]] \/ r = new)
    <3>1. PICK u \in Thread, i \in 1 .. MaxRefs : r = <<u, i>>
      OBVIOUS
    <3>2. i <= g[u] <=> (i <= f[u] \/ (u = t /\ i = f[t] + 1))
      BY <1>1 DEF Holdings
    <3> QED
      BY <3>1, <3>2
  <2>2. new \in Thread \X (1 .. MaxRefs)
    BY DEF Holdings
  <2> QED
    BY <2>1, <2>2 DEF Refs
<1> HIDE DEF new
<1>4. /\ IsFiniteSet(Refs(f) \cup {new})
      /\ Cardinality(Refs(f) \cup {new}) = Cardinality(Refs(f)) + 1
  BY <1>2, FS_AddElement
<1> QED
  BY <1>1, <1>3, <1>4

\* A thread that holds one reference less takes one away.
LEMMA RefsOneLess ==
  ASSUME NEW f \in Holdings, NEW t \in Thread, f[t] > 0, IsFiniteSet(Refs(f)),
         NEW g, g = [f EXCEPT ![t] = @ - 1]
  PROVE  g \in Holdings /\ IsFiniteSet(Refs(g)) /\ Cardinality(Refs(g)) = Cardinality(Refs(f)) - 1
<1> USE RefsAssumption
<1> DEFINE old == <<t, f[t]>>
<1>1. g \in Holdings /\ \A u \in Thread : g[u] = IF u = t THEN f[t] - 1 ELSE f[u]
  BY DEF Holdings
<1>2. old \in Refs(f)
  BY DEF Refs, Holdings
<1>3. Refs(g) = Refs(f) \ {old}
  <2>1. ASSUME NEW r \in Thread \X (1 .. MaxRefs)
        PROVE  r[2] <= g[r[1]] <=> (r[2] <= f[r[1]] /\ r # old)
    <3>1. PICK u \in Thread, i \in 1 .. MaxRefs : r = <<u, i>>
      OBVIOUS
    <3>2. i <= g[u] <=> (i <= f[u] /\ ~(u = t /\ i = f[t]))
      BY <1>1 DEF Holdings
    <3> QED
      BY <3>1, <3>2
  <2> QED
    BY <2>1 DEF Refs
<1> HIDE DEF old
<1>4. /\ IsFiniteSet(Refs(f) \ {old})
      /\ Cardinality(Refs(f) \ {old}) = Cardinality(Refs(f)) - 1
  BY <1>2, FS_RemoveElement
<1> QED
  BY <1>1, <1>3, <1>4

\* No thread holds more than there are, and there are none if none holds any.
LEMMA RefsBound ==
  ASSUME NEW f \in Holdings, IsFiniteSet(Refs(f))
  PROVE  /\ Cardinality(Refs(f)) \in Nat
         /\ \A t \in Thread : f[t] <= Cardinality(Refs(f))
         /\ Cardinality(Refs(f)) = 0 <=> \A t \in Thread : f[t] = 0
<1> USE RefsAssumption
<1>1. Cardinality(Refs(f)) \in Nat
  BY FS_CardinalityType
<1>2. ASSUME NEW t \in Thread
      PROVE  f[t] <= Cardinality(Refs(f))
  <2> DEFINE k == f[t]
  <2> DEFINE nth == [i \in 1 .. k |-> <<t, i>>]
  <2>1. k \in 0 .. MaxRefs
    BY DEF Holdings
  <2>2. \A i \in 1 .. k : <<t, i>> \in Refs(f)
    BY <2>1 DEF Refs
  <2>3. nth \in Injection(1 .. k, Refs(f))
    <3>1. nth \in [1 .. k -> Refs(f)]
      BY <2>2
    <3>2. \A i, j \in 1 .. k : nth[i] = nth[j] => i = j
      OBVIOUS
    <3> QED
      BY <3>1, <3>2 DEF Injection, IsInjective
  <2>4. Cardinality(1 .. k) <= Cardinality(Refs(f))
    BY <2>3, FS_Injection
  <2>5. Cardinality(1 .. k) = k
    BY <2>1, FS_Interval
  <2> QED
    BY <2>4, <2>5
<1>3. ASSUME \A t \in Thread : f[t] = 0
      PROVE  Cardinality(Refs(f)) = 0
  <2>1. Refs(f) = {}
    BY <1>3 DEF Refs
  <2> QED
    BY <2>1, FS_EmptySet
<1> QED
  BY <1>1, <1>2, <1>3 DEF Holdings

-----------------------------------------------------------------------------
(***************************************************************************)
(* The steps of calls, and what tells them apart.                          *)
(***************************************************************************)

ReleaseSteps == {"load", "read", "destroy", "delete"}

\* The steps of calls are the same in every state.
LEMMA CallsConstant ==
  /\ Calls' = Calls
  /\ \A h : ReleaseCalls(h)' = ReleaseCalls(h) /\ ClosingCalls(h)' = ClosingCalls(h)
  /\ \A h, i : Deleting(h)' = Deleting(h) /\ Destroying(h, i)' = Destroying(h, i)
BY DEF Calls, ReleaseCalls, ClosingCalls, Idle, Loading, Reading, Destroying, Deleting,
       Querying, Recording, Flushing

\* The steps of a release name their handle.
LEMMA ReleaseCallFacts ==
  ASSUME NEW h, NEW c \in ReleaseCalls(h)
  PROVE  c.dot = h /\ c.step \in ReleaseSteps /\ c # Idle
<1>1. c.dot = h /\ c.step \in ReleaseSteps
  BY DEF ReleaseCalls, ClosingCalls, Loading, Reading, Destroying, Deleting, ReleaseSteps
<1>2. Idle.step \notin ReleaseSteps
  BY DEF Idle, ReleaseSteps
<1> QED
  BY <1>1, <1>2

LEMMA ReleaseCallsTyped == \A h \in DotGraph : ReleaseCalls(h) \cup {Idle} \subseteq Calls
<1> SUFFICES ASSUME NEW h \in DotGraph PROVE ReleaseCalls(h) \cup {Idle} \subseteq Calls
  OBVIOUS
<1>1. \A j \in Instance : Destroying(h, j) \in Calls
  BY DEF Calls
<1> QED
  BY <1>1 DEF Calls, ReleaseCalls, ClosingCalls

LEMMA CallFacts ==
  ASSUME NEW h \in DotGraph, NEW i \in Instance
  PROVE  /\ Idle \in Calls
         /\ {Loading(h), Reading(h), Destroying(h, i), Deleting(h)} \subseteq ReleaseCalls(h)
         /\ {Reading(h), Destroying(h, i), Deleting(h)} \subseteq ClosingCalls(h)
         /\ ReleaseCalls(h) \subseteq Calls
         /\ Loading(h) \notin ClosingCalls(h) /\ Deleting(h) \notin {Loading(h), Reading(h), Destroying(h, i)}
         /\ \A j : Destroying(h, j) \notin {Loading(h), Reading(h), Deleting(h)}
         /\ \A j : Destroying(h, j) = Destroying(h, i) => j = i
<1>1. /\ Idle \in Calls /\ ReleaseCalls(h) \subseteq Calls
      /\ {Loading(h), Reading(h), Destroying(h, i), Deleting(h)} \subseteq ReleaseCalls(h)
      /\ {Reading(h), Destroying(h, i), Deleting(h)} \subseteq ClosingCalls(h)
  BY ReleaseCallsTyped DEF ReleaseCalls, ClosingCalls
<1>2. /\ Loading(h).step = "load" /\ Reading(h).step = "read" /\ Deleting(h).step = "delete"
      /\ \A j : Destroying(h, j).step = "destroy" /\ Destroying(h, j).instance = j
  BY DEF Loading, Reading, Deleting, Destroying
<1>3. Loading(h) \notin ClosingCalls(h)
  BY <1>2 DEF ClosingCalls
<1> QED
  BY <1>1, <1>2, <1>3

LEMMA CommandCallFacts ==
  ASSUME NEW cq \in CLQueue
  PROVE  /\ {Idle, Querying(cq), Recording(cq), Flushing(cq)} \subseteq Calls
         /\ \A h : {Idle, Querying(cq), Recording(cq), Flushing(cq)} \cap ReleaseCalls(h) = {}
<1>1. {Idle, Querying(cq), Recording(cq), Flushing(cq)} \subseteq Calls
  BY DEF Calls
<1>2. \A c \in {Idle, Querying(cq), Recording(cq), Flushing(cq)} : c.step \notin ReleaseSteps
  BY DEF Idle, Querying, Recording, Flushing, ReleaseSteps
<1> QED
  BY <1>1, <1>2, ReleaseCallFacts

\* A thread goes to another step.
LEMMA GotoFacts ==
  ASSUME TypeOK, NEW t \in Thread, NEW c \in Calls, Goto(t, c)
  PROVE  /\ call' \in [Thread -> Calls]
         /\ call'[t] = c /\ \A u \in Thread : u # t => call'[u] = call[u]
  BY DEF TypeOK, Goto

\* The release thread t takes a step of is one of handle h only.
LEMMA ReleaseStep ==
  ASSUME TypeOK, NEW t \in Thread, NEW h \in DotGraph,
         NEW c \in ReleaseCalls(h) \cup {Idle}, Goto(t, c),
         call[t] \in ReleaseCalls(h) \cup {Idle}
  PROVE  /\ call' \in [Thread -> Calls]
         /\ call'[t] = c /\ \A u \in Thread : u # t => call'[u] = call[u]
         /\ \A u \in Thread, g \in DotGraph :
              g # h /\ (Releases(u, g) \/ Releases(u, g)') => call'[u] = call[u]
<1>1. c \in Calls
  BY ReleaseCallsTyped
<1>2. /\ call' \in [Thread -> Calls]
      /\ call'[t] = c /\ \A u \in Thread : u # t => call'[u] = call[u]
  BY <1>1, GotoFacts
<1>3. ASSUME NEW g \in DotGraph, g # h
      PROVE  call[t] \notin ReleaseCalls(g) /\ call'[t] \notin ReleaseCalls(g)
  BY <1>2, <1>3, ReleaseCallFacts
<1> QED
  BY <1>2, <1>3, CallsConstant DEF Releases

-----------------------------------------------------------------------------
(***************************************************************************)
(* Types.                                                                  *)
(***************************************************************************)

LEMMA HeldTyped ==
  ASSUME TypeOK, NEW h \in DotGraph
  PROVE  HeldOf(h) \in Holdings /\ \A t \in Thread : HeldOf(h)[t] = owned[t][h]
  BY DEF TypeOK, HeldOf, Holdings

\* The references to h become `new', those to other handles are as before.
LEMMA HoldingsOf ==
  ASSUME TypeOK, NEW h \in DotGraph, NEW new \in Holdings,
         owned' = [v \in Thread |-> [owned[v] EXCEPT ![h] = new[v]]]
  PROVE  /\ owned' \in [Thread -> [DotGraph -> 0 .. MaxRefs]]
         /\ HeldOf(h)' = new
         /\ \A g \in DotGraph : g # h => HeldOf(g)' = HeldOf(g)
<1>1. ASSUME NEW v \in Thread
      PROVE  /\ owned'[v] \in [DotGraph -> 0 .. MaxRefs] /\ owned'[v][h] = new[v]
             /\ \A g \in DotGraph : g # h => owned'[v][g] = owned[v][g]
  <2>1. owned[v] \in [DotGraph -> 0 .. MaxRefs] /\ new[v] \in 0 .. MaxRefs
    BY DEF TypeOK, Holdings
  <2>2. owned'[v] = [owned[v] EXCEPT ![h] = new[v]]
    OBVIOUS
  <2> QED
    BY <2>1, <2>2
<1>2. owned' \in [Thread -> [DotGraph -> 0 .. MaxRefs]]
  BY <1>1
<1>3. HeldOf(h)' = new
  BY <1>1 DEF HeldOf, Holdings
<1> QED
  BY <1>1, <1>2, <1>3 DEF HeldOf

\* An update of what thread t holds, in that form.
LEMMA UpdateForm ==
  ASSUME TypeOK, NEW h \in DotGraph, NEW t \in Thread, NEW n
  PROVE  [owned EXCEPT ![t][h] = n] =
           [v \in Thread |-> [owned[v] EXCEPT ![h] = [HeldOf(h) EXCEPT ![t] = n][v]]]
<1>1. ASSUME NEW v \in Thread
      PROVE  [owned EXCEPT ![t][h] = n][v] =
               [owned[v] EXCEPT ![h] = [HeldOf(h) EXCEPT ![t] = n][v]]
  <2>1. owned[v] = [owned[v] EXCEPT ![h] = owned[v][h]]
    BY DEF TypeOK
  <2>2. [HeldOf(h) EXCEPT ![t] = n][v] = IF v = t THEN n ELSE owned[v][h]
    BY DEF HeldOf
  <2>3. [owned EXCEPT ![t][h] = n][v] = IF v = t THEN [owned[t] EXCEPT ![h] = n] ELSE owned[v]
    BY DEF TypeOK
  <2> QED
    BY <2>1, <2>2, <2>3
<1>2. DOMAIN [owned EXCEPT ![t][h] = n] = Thread
  BY DEF TypeOK
<1>3. [owned EXCEPT ![t][h] = n] = [v \in Thread |-> [owned EXCEPT ![t][h] = n][v]]
  BY <1>2
<1> QED
  BY <1>1, <1>3

\* One reference more or less is within the bound.
LEMMA OwnedTyped ==
  ASSUME TypeOK, NEW t \in Thread, NEW h \in DotGraph, NEW n \in 0 .. MaxRefs,
         owned' = [owned EXCEPT ![t][h] = n]
  PROVE  owned' \in [Thread -> [DotGraph -> 0 .. MaxRefs]]
<1>1. [owned[t] EXCEPT ![h] = n] \in [DotGraph -> 0 .. MaxRefs]
  BY DEF TypeOK
<1>2. owned' = [owned EXCEPT ![t] = [owned[t] EXCEPT ![h] = n]]
  BY DEF TypeOK
<1> QED
  BY <1>1, <1>2 DEF TypeOK

LEMMA HandOverTyped ==
  ASSUME TypeOK, NEW t \in Thread, NEW u \in Thread, NEW h \in DotGraph, HandOver(t, u, h)
  PROVE  owned' \in [Thread -> [DotGraph -> 0 .. MaxRefs]]
<1> USE RefsAssumption
<1> DEFINE m == [owned[t] EXCEPT ![h] = @ - 1]
<1> DEFINE n == [owned[u] EXCEPT ![h] = @ + 1]
<1>1. t # u /\ owned[t][h] \in 1 .. MaxRefs /\ owned[u][h] \in 0 .. MaxRefs - 1
  BY DEF HandOver, TypeOK
<1>2. m \in [DotGraph -> 0 .. MaxRefs] /\ n \in [DotGraph -> 0 .. MaxRefs]
  BY <1>1 DEF TypeOK
<1>3. owned' = [owned EXCEPT ![t] = m, ![u] = n]
  BY <1>1 DEF HandOver, TypeOK
<1> QED
  BY <1>2, <1>3 DEF TypeOK

\* A step keeps the types.
LEMMA TypePreserved == TypeOK /\ [Next]_vars => TypeOK'
<1> SUFFICES ASSUME TypeOK, [Next]_vars PROVE TypeOK'
  OBVIOUS
<1> USE RefsAssumption, CallsConstant
<1>1. ASSUME NEW t \in Thread, NEW i \in Instance, NEW R \in SUBSET CLQueue,
             CreateVizInstance(i, R)
      PROVE  /\ MInstances' \in SUBSET Instance
             /\ instance' \in [Instance -> {"free", "live"}]
             /\ MQueueMap' \in [Instance -> SUBSET CLQueue]
             /\ captured' \in [Instance -> SUBSET CLQueue]
  BY <1>1 DEF CreateVizInstance, TypeOK
<1>2. ASSUME NEW t \in Thread, Begin(t)
      PROVE  TypeOK'
  <2>1. ASSUME NEW h \in DotGraph, NEW i \in Instance, NEW Q \in SUBSET queues,
               CreateDotGraph(t, h, i, Q)
        PROVE  TypeOK'
    <3>1. Q \in SUBSET CLQueue
      BY DEF TypeOK
    <3>2. /\ MInstances' \in SUBSET Instance
          /\ instance' \in [Instance -> {"free", "live"}]
          /\ MQueueMap' \in [Instance -> SUBSET CLQueue]
          /\ captured' \in [Instance -> SUBSET CLQueue]
      BY <1>1, <2>1, <3>1 DEF CreateDotGraph
    <3>3. owned' \in [Thread -> [DotGraph -> 0 .. MaxRefs]]
      <4>1. owned[t][h] + 1 \in 0 .. MaxRefs
        BY <2>1 DEF CreateDotGraph, TypeOK
      <4>2. owned' = [owned EXCEPT ![t][h] = owned[t][h] + 1]
        BY <2>1 DEF CreateDotGraph
      <4> QED
        BY <4>1, <4>2, OwnedTyped
    <3>4. /\ object' \in [DotGraph -> {"free", "live"}]
          /\ MRefCount' \in [DotGraph -> 0 .. MaxRefs]
          /\ MInstance' \in [DotGraph -> Instance \cup {NoInstance}]
          /\ \A g \in DotGraph : object'[g] = "live" => MInstance'[g] \in Instance
          /\ listed' \in [DotGraph -> SUBSET CLQueue]
          /\ destroyed' \in SUBSET DotGraph
          /\ UNCHANGED <<queues, call, seen, process, raced>>
      BY <2>1, <3>1 DEF CreateDotGraph, TypeOK
    <3> QED
      BY <3>2, <3>3, <3>4 DEF TypeOK
  <2>2. ASSUME NEW i \in Instance, NEW Q \in SUBSET queues, NEW R \in SUBSET Q,
               CreateDotGraphFails(t, i, R)
        PROVE  TypeOK'
    <3>1. R \in SUBSET CLQueue
      BY DEF TypeOK
    <3>2. /\ MInstances' \in SUBSET Instance
          /\ instance' \in [Instance -> {"free", "live"}]
          /\ MQueueMap' \in [Instance -> SUBSET CLQueue]
          /\ captured' \in [Instance -> SUBSET CLQueue]
      BY <1>1, <2>2, <3>1 DEF CreateDotGraphFails
    <3> QED
      BY <2>2, <3>2 DEF CreateDotGraphFails, handleVars, appVars, historyVars, TypeOK
  <2>3. ASSUME NEW h \in DotGraph, Retain(t, h)
        PROVE  TypeOK'
    <3>1. owned' \in [Thread -> [DotGraph -> 0 .. MaxRefs]]
      <4>1. owned[t][h] + 1 \in 0 .. MaxRefs
        BY <2>3 DEF Retain
      <4>2. owned' = [owned EXCEPT ![t][h] = owned[t][h] + 1]
        BY <2>3 DEF Retain
      <4> QED
        BY <4>1, <4>2, OwnedTyped
    <3>2. MRefCount' \in [DotGraph -> 0 .. MaxRefs] /\ process' \in {"running", "aborted"}
      BY <2>3 DEF Retain, MayAbort, TypeOK
    <3> QED
      BY <2>3, <3>1, <3>2 DEF Retain, instanceVars, historyVars, TypeOK
  <2>4. ASSUME NEW h \in DotGraph, Release(t, h)
        PROVE  TypeOK'
    <3>1. owned' \in [Thread -> [DotGraph -> 0 .. MaxRefs]]
      <4>1. owned[t][h] - 1 \in 0 .. MaxRefs
        BY <2>4 DEF Release, TypeOK
      <4>2. owned' = [owned EXCEPT ![t][h] = owned[t][h] - 1]
        BY <2>4 DEF Release
      <4> QED
        BY <4>1, <4>2, OwnedTyped
    <3>2. MRefCount' \in [DotGraph -> 0 .. MaxRefs] /\ process' \in {"running", "aborted"}
      BY <2>4 DEF Release, Decremented, MayAbort, TypeOK
    <3>3. call' \in [Thread -> Calls]
      <4>1. Loading(h) \in Calls
        <5>1. Loading(h) \in ReleaseCalls(h) /\ ReleaseCalls(h) \subseteq Calls
          BY ReleaseCallsTyped DEF ReleaseCalls
        <5> QED
          BY <5>1
      <4> QED
        BY <2>4, <4>1, GotoFacts DEF Release
    <3> QED
      BY <2>4, <3>1, <3>2, <3>3 DEF Release, instanceVars, historyVars, TypeOK
  <2>5. ASSUME NEW h \in DotGraph, NEW u \in Thread, HandOver(t, u, h)
        PROVE  TypeOK'
    <3>1. owned' \in [Thread -> [DotGraph -> 0 .. MaxRefs]]
      BY <2>5, HandOverTyped
    <3> QED
      BY <2>5, <3>1 DEF HandOver, instanceVars, handleVars, historyVars, TypeOK
  <2>6. ASSUME NEW cq \in CLQueue, CreateQueue(t, cq)
        PROVE  TypeOK'
    BY <2>6 DEF CreateQueue, handleVars, historyVars, TypeOK
  <2>7. ASSUME NEW cq \in CLQueue, Enqueue(t, cq)
        PROVE  TypeOK'
    <3>1. call' \in [Thread -> Calls] /\ seen' \in [Thread -> SUBSET Instance]
      BY <2>7, CommandCallFacts, GotoFacts DEF Enqueue, TypeOK
    <3> QED
      BY <2>7, <3>1 DEF Enqueue, instanceVars, handleVars, appVars, historyVars, TypeOK
  <2> QED
    BY <1>2, <2>1, <2>2, <2>3, <2>4, <2>5, <2>6, <2>7 DEF Begin
<1>3. ASSUME NEW t \in Thread, Continue(t)
      PROVE  TypeOK'
  <2>1. ASSUME NEW h \in DotGraph, NEW c \in ReleaseCalls(h) \cup {Idle}, Goto(t, c)
        PROVE  call' \in [Thread -> Calls]
    <3>1. c \in Calls
      BY ReleaseCallsTyped
    <3> QED
      BY <2>1, <3>1, GotoFacts
  <2>2. ASSUME NEW h \in DotGraph, Load(t, h) \/ ReadInstance(t, h)
        PROVE  TypeOK'
    <3>1. \E c \in ReleaseCalls(h) \cup {Idle} : Goto(t, c)
      <4>1. CASE Load(t, h)
        BY <4>1 DEF Load, ReleaseCalls, ClosingCalls
      <4>2. CASE ReadInstance(t, h)
        BY <4>2 DEF ReadInstance, ReleaseCalls, ClosingCalls
      <4> QED
        BY <2>2, <4>1, <4>2
    <3>2. /\ UNCHANGED <<instanceVars, handleVars, appVars, seen, historyVars>>
          /\ process' \in {"running", "aborted"}
      BY <2>2 DEF Load, ReadInstance, MayAbort
    <3> QED
      BY <2>1, <3>1, <3>2 DEF instanceVars, handleVars, appVars, historyVars, TypeOK
  <2>3. ASSUME NEW h \in DotGraph, NEW i \in Instance, DestroyVizInstance(t, h, i)
        PROVE  TypeOK'
    <3>1. call' \in [Thread -> Calls]
      BY <2>1, <2>3, CallFacts DEF DestroyVizInstance
    <3>2. /\ MInstances' \in SUBSET Instance
          /\ instance' \in [Instance -> {"free", "live"}]
          /\ MQueueMap' \in [Instance -> SUBSET CLQueue]
          /\ captured' \in [Instance -> SUBSET CLQueue]
          /\ process' \in {"running", "aborted"}
          /\ destroyed' \in SUBSET DotGraph /\ raced' \in BOOLEAN
      BY <2>3 DEF DestroyVizInstance, MayAbort, TypeOK
    <3> QED
      BY <2>3, <3>1, <3>2 DEF DestroyVizInstance, handleVars, appVars, TypeOK
  <2>4. ASSUME NEW h \in DotGraph, DeleteThis(t, h)
        PROVE  TypeOK'
    <3>1. call' \in [Thread -> Calls]
      BY <2>1, <2>4 DEF DeleteThis
    <3>2. /\ object' \in [DotGraph -> {"free", "live"}]
          /\ MRefCount' \in [DotGraph -> 0 .. MaxRefs]
          /\ MInstance' \in [DotGraph -> Instance \cup {NoInstance}]
          /\ \A g \in DotGraph : object'[g] = "live" => MInstance'[g] \in Instance
          /\ listed' \in [DotGraph -> SUBSET CLQueue]
          /\ process' \in {"running", "aborted"}
      BY <2>4 DEF DeleteThis, MayAbort, TypeOK
    <3> QED
      BY <2>4, <3>1, <3>2 DEF DeleteThis, instanceVars, historyVars, TypeOK
  <2>5. ASSUME NEW cq \in CLQueue, Verbose(t, cq) \/ FlushQueue(t, cq)
        PROVE  TypeOK'
    <3>1. call' \in [Thread -> Calls]
      BY <2>5, CommandCallFacts, GotoFacts DEF Verbose, FlushQueue
    <3>2. process' \in {"running", "aborted"} /\ seen' \in [Thread -> SUBSET Instance]
      BY <2>5 DEF Verbose, FlushQueue, MayAbort, TypeOK
    <3> QED
      BY <2>5, <3>1, <3>2 DEF Verbose, FlushQueue, instanceVars, handleVars, appVars,
                              historyVars, TypeOK
  <2>6. ASSUME NEW cq \in CLQueue, NEW b \in BOOLEAN, Record(t, cq, b)
        PROVE  TypeOK'
    <3>1. call' \in [Thread -> Calls] /\ captured' \in [Instance -> SUBSET CLQueue]
      BY <2>6, CommandCallFacts, GotoFacts DEF Record, TypeOK
    <3> QED
      BY <2>6, <3>1 DEF Record, handleVars, appVars, historyVars, TypeOK
  <2> QED
    BY <1>3, <2>2, <2>3, <2>4, <2>5, <2>6 DEF Continue
<1>4. CASE Deinit
  BY <1>4 DEF Deinit, handleVars, appVars, historyVars, TypeOK
<1>5. CASE UNCHANGED vars
  BY <1>5 DEF vars, instanceVars, handleVars, appVars, historyVars, TypeOK
<1> QED
  BY <1>2, <1>3, <1>4, <1>5 DEF Next

-----------------------------------------------------------------------------
(***************************************************************************)
(* The list.                                                               *)
(***************************************************************************)

\* A step keeps the list exact, whatever instance it deletes.
LEMMA ListPreserved == TypeOK /\ ListIsExact /\ [Next]_vars => ListIsExact'
<1> SUFFICES ASSUME TypeOK, ListIsExact, [Next]_vars PROVE ListIsExact'
  OBVIOUS
<1>1. ASSUME UNCHANGED <<MInstances, instance>>, process' = "ended" => process = "ended"
      PROVE  ListIsExact'
  BY <1>1 DEF ListIsExact
<1>2. ASSUME NEW t \in Thread, Begin(t)
      PROVE  ListIsExact'
  <2>1. ASSUME NEW i \in Instance, NEW R, CreateVizInstance(i, R), process' = "running"
        PROVE  ListIsExact'
    BY <2>1 DEF CreateVizInstance, TypeOK, ListIsExact
  <2>2. ASSUME NEW h \in DotGraph, NEW i \in Instance, NEW Q, CreateDotGraph(t, h, i, Q)
        PROVE  ListIsExact'
    BY <2>1, <2>2 DEF CreateDotGraph, At
  <2>3. ASSUME NEW i \in Instance, NEW R, CreateDotGraphFails(t, i, R)
        PROVE  ListIsExact'
    BY <2>1, <2>3 DEF CreateDotGraphFails, At
  <2>4. ASSUME NEW h \in DotGraph, Retain(t, h) \/ Release(t, h)
        PROVE  ListIsExact'
    BY <1>1, <2>4 DEF Retain, Release, MayAbort, instanceVars
  <2>5. ASSUME NEW h \in DotGraph, NEW u \in Thread, HandOver(t, u, h)
        PROVE  ListIsExact'
    BY <1>1, <2>5 DEF HandOver, instanceVars
  <2>6. ASSUME NEW cq \in CLQueue, CreateQueue(t, cq) \/ Enqueue(t, cq)
        PROVE  ListIsExact'
    BY <1>1, <2>6 DEF CreateQueue, Enqueue, instanceVars
  <2> QED
    BY <1>2, <2>2, <2>3, <2>4, <2>5, <2>6 DEF Begin
<1>3. ASSUME NEW t \in Thread, Continue(t)
      PROVE  ListIsExact'
  <2>1. ASSUME NEW h \in DotGraph, NEW i \in Instance, DestroyVizInstance(t, h, i)
        PROVE  ListIsExact'
    <3>1. process' # "ended"
      BY <2>1 DEF DestroyVizInstance, MayAbort
    <3> QED
      BY <2>1, <3>1 DEF DestroyVizInstance, TypeOK, ListIsExact
  <2>2. ASSUME NEW h \in DotGraph, Load(t, h) \/ ReadInstance(t, h) \/ DeleteThis(t, h)
        PROVE  ListIsExact'
    BY <1>1, <2>2 DEF Load, ReadInstance, DeleteThis, MayAbort, instanceVars
  <2>3. ASSUME NEW cq \in CLQueue, NEW b \in BOOLEAN,
               Verbose(t, cq) \/ FlushQueue(t, cq) \/ Record(t, cq, b)
        PROVE  ListIsExact'
    BY <1>1, <2>3 DEF Verbose, FlushQueue, Record, MayAbort, instanceVars
  <2>4. ASSUME NEW cq \in CLQueue, Verbose(t, cq) \/ FlushQueue(t, cq)
        PROVE  ListIsExact'
    BY <2>3, <2>4
  <2> QED
    BY <1>3, <2>1, <2>2, <2>3, <2>4 DEF Continue
<1>4. CASE Deinit
  BY <1>4 DEF Deinit, TypeOK, ListIsExact
<1>5. CASE UNCHANGED vars
  BY <1>1, <1>5 DEF vars, instanceVars
<1> QED
  BY <1>2, <1>3, <1>4, <1>5 DEF Next

-----------------------------------------------------------------------------
(***************************************************************************)
(* A handle a step is not about.                                           *)
(***************************************************************************)

\* Nothing of handle g changes, and its instance at most gets a new queue.
Untouched(g) ==
  /\ object'[g] = object[g] /\ MRefCount'[g] = MRefCount[g] /\ MInstance'[g] = MInstance[g]
  /\ HeldOf(g)' = HeldOf(g) /\ listed'[g] = listed[g]
  /\ g \in destroyed' <=> g \in destroyed
  /\ process' # "ended" => process # "ended"
  /\ process' # "ended" /\ Open(g) /\ instance[MInstance[g]] = "live" =>
       /\ instance'[MInstance[g]] = "live"
       /\ MQueueMap[MInstance[g]] \subseteq MQueueMap'[MInstance[g]]
  /\ \A u \in Thread : Releases(u, g) \/ Releases(u, g)' => call'[u] = call[u]

LEMMA UntouchedCalls ==
  ASSUME NEW g \in DotGraph, Untouched(g)
  PROVE  /\ \A u \in Thread : /\ Releases(u, g)' <=> Releases(u, g)
                              /\ Closing(u, g)' <=> Closing(u, g)
                              /\ call'[u] = Deleting(g) <=> call[u] = Deleting(g)
         /\ \A u \in Thread, i \in Instance :
              call'[u] = Destroying(g, i) <=> call[u] = Destroying(g, i)
         /\ Open(g)' <=> Open(g)
         /\ Owned(g)' <=> Owned(g)
<1>1. \A u \in Thread : call'[u] = call[u] \/ (~Releases(u, g) /\ ~Releases(u, g)')
  BY DEF Untouched
<1>2. /\ Deleting(g) \in ReleaseCalls(g) /\ ClosingCalls(g) \subseteq ReleaseCalls(g)
      /\ \A i \in Instance : Destroying(g, i) \in ReleaseCalls(g)
  BY DEF ReleaseCalls, ClosingCalls
<1>3. /\ \A u \in Thread : /\ Releases(u, g)' <=> Releases(u, g)
                           /\ Closing(u, g)' <=> Closing(u, g)
                           /\ call'[u] = Deleting(g) <=> call[u] = Deleting(g)
      /\ \A u \in Thread, i \in Instance :
           call'[u] = Destroying(g, i) <=> call[u] = Destroying(g, i)
  BY <1>1, <1>2, CallsConstant DEF Releases, Closing
<1>4. Open(g)' <=> Open(g)
  BY <1>3, CallsConstant DEF Untouched, Open
<1>5. Owned(g)' <=> Owned(g)
  <2>1. \A u \in Thread : HeldOf(g)[u] = owned[u][g] /\ HeldOf(g)'[u] = owned'[u][g]
    BY DEF HeldOf
  <2> QED
    BY <2>1 DEF Untouched, Owned
<1> QED
  BY <1>3, <1>4, <1>5

LEMMA UntouchedSound ==
  ASSUME NEW g \in DotGraph, HandleSound(g), Untouched(g)
  PROVE  HandleSound(g)'
<1>1. CountIsExact(g)'
  BY DEF HandleSound, CountIsExact, Untouched, Refs
<1>2. UsedIsLive(g)' /\ ClosedWhenUnowned(g)' /\ CloserUnderWay(g)' /\ NotYetDestroyed(g)'
  BY UntouchedCalls DEF HandleSound, UsedIsLive, ClosedWhenUnowned, CloserUnderWay,
                        NotYetDestroyed, Untouched
<1>3. LastDeletes(g)'
  BY UntouchedCalls, CallsConstant DEF HandleSound, LastDeletes
<1>4. InstanceKept(g)'
  <2>1. process' # "ended" /\ Open(g)' =>
          instance'[MInstance'[g]] = "live" /\ listed'[g] \subseteq MQueueMap'[MInstance'[g]]
    BY UntouchedCalls DEF HandleSound, InstanceKept, Untouched
  <2>2. \A u \in Thread, i \in Instance : call'[u] = Destroying(g, i) => i = MInstance'[g]
    BY UntouchedCalls DEF HandleSound, InstanceKept, Untouched
  <2> QED
    BY <2>1, <2>2, CallsConstant DEF InstanceKept
<1> QED
  BY <1>1, <1>2, <1>3, <1>4 DEF HandleSound

\* What is sound of all handles, and stays so where a step is about none.
Sound == InstancesApart /\ \A h \in DotGraph : HandleSound(h)

LEMMA UntouchedAll ==
  ASSUME Sound, \A g \in DotGraph : Untouched(g)
  PROVE  Sound'
<1>1. InstancesApart'
  BY UntouchedCalls DEF Sound, InstancesApart, Untouched
<1> QED
  BY <1>1, UntouchedSound DEF Sound

\* The same where a step is about h, and gives it no other instance.
LEMMA UntouchedOthers ==
  ASSUME Sound, NEW h \in DotGraph, \A g \in DotGraph \ {h} : Untouched(g),
         HandleSound(h)', Open(h)' => Open(h) /\ MInstance'[h] = MInstance[h]
  PROVE  Sound'
<1>1. InstancesApart'
  BY UntouchedCalls DEF Sound, InstancesApart, Untouched
<1> QED
  BY <1>1, UntouchedSound DEF Sound

\* What the parts say of a handle that is held, and of one being closed.
LEMMA HeldFacts ==
  ASSUME NEW h \in DotGraph, HandleSound(h), Owned(h)
  PROVE  Open(h) /\ object[h] = "live" /\ \A t \in Thread : ~Closing(t, h)
<1>1. object[h] = "live" /\ \A t \in Thread : ~Closing(t, h)
  BY DEF HandleSound, UsedIsLive, ClosedWhenUnowned
<1>2. Deleting(h) \in ClosingCalls(h)
  BY DEF ClosingCalls
<1> QED
  BY <1>1, <1>2 DEF Open, Closing

LEMMA ClosingFacts ==
  ASSUME NEW h \in DotGraph, HandleSound(h), NEW t \in Thread, Closing(t, h)
  PROVE  /\ ~Owned(h) /\ object[h] = "live" /\ Releases(t, h)
         /\ call[t] # Deleting(h) => Open(h)
<1>1. Releases(t, h)
  BY DEF Releases, Closing, ReleaseCalls
<1>2. ~Owned(h) /\ object[h] = "live"
  BY <1>1 DEF HandleSound, UsedIsLive, ClosedWhenUnowned
<1>3. ASSUME call[t] # Deleting(h)
      PROVE  Open(h)
  BY <1>1, <1>2, <1>3 DEF HandleSound, LastDeletes, Open
<1> QED
  BY <1>1, <1>2, <1>3

\* The count tells whether a reference is held, and bounds what one thread holds.
LEMMA CountFacts ==
  ASSUME TypeOK, NEW h \in DotGraph, CountIsExact(h), object[h] = "live"
  PROVE  /\ MRefCount[h] = 0 <=> ~Owned(h)
         /\ \A t \in Thread : owned[t][h] <= MRefCount[h]
<1>1. /\ HeldOf(h) \in Holdings /\ \A t \in Thread : HeldOf(h)[t] = owned[t][h]
      /\ IsFiniteSet(Refs(HeldOf(h))) /\ MRefCount[h] = Cardinality(Refs(HeldOf(h)))
  BY HeldTyped DEF CountIsExact
<1>2. /\ \A t \in Thread : HeldOf(h)[t] <= MRefCount[h]
      /\ MRefCount[h] = 0 <=> \A t \in Thread : HeldOf(h)[t] = 0
  BY <1>1, RefsBound
<1>3. \A t \in Thread : owned[t][h] \in Nat
  BY DEF TypeOK
<1> QED
  BY <1>1, <1>2, <1>3 DEF Owned

-----------------------------------------------------------------------------
(***************************************************************************)
(* The steps of the owners of a handle.                                    *)
(***************************************************************************)

\* The references to handle h change, which somebody holds before and which t
\* releases or somebody holds after.
LEMMA HoldingsSound ==
  ASSUME TypeOK, Sound, process = "running", NEW t \in Thread, NEW h \in DotGraph, Owned(h),
         UNCHANGED <<instanceVars, object, MInstance, listed, historyVars>>,
         process' # "ended",
         \A g \in DotGraph : g # h => HeldOf(g)' = HeldOf(g) /\ MRefCount'[g] = MRefCount[g],
         IsFiniteSet(Refs(HeldOf(h)')), MRefCount'[h] = Cardinality(Refs(HeldOf(h)')),
         \/ call[t] = Idle /\ Goto(t, Loading(h))
         \/ Owned(h)' /\ UNCHANGED call
  PROVE  Sound'
<1>1. /\ HandleSound(h) /\ Open(h) /\ object[h] = "live"
      /\ \A u \in Thread : ~Closing(u, h)
  BY HeldFacts DEF Sound
<1>2. /\ \A u \in Thread : call'[u] = call[u] \/ (call[u] = Idle /\ call'[u] = Loading(h))
      /\ \A u \in Thread, g \in DotGraph :
           g # h /\ (Releases(u, g) \/ Releases(u, g)') => call'[u] = call[u]
      /\ Owned(h)' \/ call'[t] = Loading(h)
  <2>1. CASE call[t] = Idle /\ Goto(t, Loading(h))
    <3>1. Loading(h) \in ReleaseCalls(h)
      BY DEF ReleaseCalls
    <3> QED
      BY <2>1, <3>1, ReleaseStep
  <2>2. CASE Owned(h)' /\ UNCHANGED call
    BY <2>2, CallsConstant DEF Releases
  <2> QED
    BY <2>1, <2>2
<1>3. \A g \in DotGraph \ {h} : Untouched(g)
  BY <1>2 DEF Untouched, instanceVars, historyVars
<1>4. /\ \A u \in Thread : ~Closing(u, h)'
      /\ \A u \in Thread : call'[u] # Deleting(h)
      /\ \A u \in Thread, i \in Instance : call'[u] # Destroying(h, i)
  <2>1. Loading(h) \notin ClosingCalls(h)
    BY DEF ClosingCalls, Loading, Reading, Destroying, Deleting
  <2>2. \A u \in Thread : ~Closing(u, h)'
    BY <1>1, <1>2, <2>1, CallsConstant DEF Closing
  <2>3. Deleting(h) \in ClosingCalls(h) /\ \A i \in Instance : Destroying(h, i) \in ClosingCalls(h)
    BY DEF ClosingCalls
  <2> QED
    BY <2>2, <2>3, CallsConstant DEF Closing
<1>5. CountIsExact(h)'
  BY DEF CountIsExact, Refs
<1>6. UsedIsLive(h)' /\ ClosedWhenUnowned(h)' /\ LastDeletes(h)'
  BY <1>1, <1>4, CallsConstant DEF UsedIsLive, ClosedWhenUnowned, LastDeletes
<1>7. CloserUnderWay(h)'
  <2>1. Loading(h) \in ReleaseCalls(h)
    BY DEF ReleaseCalls
  <2> QED
    BY <1>2, <2>1, CallsConstant DEF CloserUnderWay, Releases
<1>8. Open(h)'
  BY <1>1, <1>4, CallsConstant DEF Open
<1>9. InstanceKept(h)' /\ NotYetDestroyed(h)'
  <2>1. /\ instance[MInstance[h]] = "live" /\ listed[h] \subseteq MQueueMap[MInstance[h]]
        /\ h \notin destroyed
    BY <1>1 DEF HandleSound, InstanceKept, NotYetDestroyed
  <2> QED
    BY <1>4, <2>1, CallsConstant DEF InstanceKept, NotYetDestroyed, instanceVars, historyVars
<1>10. HandleSound(h)'
  BY <1>5, <1>6, <1>7, <1>9 DEF HandleSound
<1> QED
  BY <1>1, <1>3, <1>10, UntouchedOthers

\* The references to h become `new', of a count that fits.
LEMMA HeldAfter ==
  ASSUME TypeOK, NEW h \in DotGraph, NEW t \in Thread, NEW n, NEW new \in Holdings,
         new = [HeldOf(h) EXCEPT ![t] = n], owned' = [owned EXCEPT ![t][h] = n]
  PROVE  /\ HeldOf(h)' = new
         /\ \A g \in DotGraph : g # h => HeldOf(g)' = HeldOf(g)
<1>1. owned' = [v \in Thread |-> [owned[v] EXCEPT ![h] = new[v]]]
  <2>1. \A m : [owned EXCEPT ![t][h] = m] =
          [v \in Thread |-> [owned[v] EXCEPT ![h] = [HeldOf(h) EXCEPT ![t] = m][v]]]
    BY UpdateForm
  <2>2. owned' = [v \in Thread |-> [owned[v] EXCEPT ![h] = [HeldOf(h) EXCEPT ![t] = n][v]]]
    BY <2>1, Zenon
  <2> QED
    BY <2>2, Zenon
<1> QED
  BY <1>1, HoldingsOf

LEMMA RetainSound ==
  ASSUME TypeOK, Sound, NEW t \in Thread, NEW h \in DotGraph, Retain(t, h)
  PROVE  Sound'
<1>1. /\ process = "running" /\ owned[t][h] > 0 /\ owned[t][h] < MaxRefs /\ Owned(h)
      /\ owned' = [owned EXCEPT ![t][h] = owned[t][h] + 1]
      /\ UNCHANGED <<instanceVars, object, MInstance, listed, call, historyVars>>
      /\ process' # "ended"
  BY RefsAssumption DEF Retain, At, Owned, MayAbort, TypeOK
<1>2. object[h] = "live" /\ CountIsExact(h)
  BY <1>1, HeldFacts DEF Sound, HandleSound
<1>3. MRefCount' = [MRefCount EXCEPT ![h] = @ + 1]
  BY <1>2 DEF Retain
<1> DEFINE new == [HeldOf(h) EXCEPT ![t] = owned[t][h] + 1]
<1>4. /\ HeldOf(h) \in Holdings /\ HeldOf(h)[t] = owned[t][h]
      /\ IsFiniteSet(Refs(HeldOf(h))) /\ MRefCount[h] = Cardinality(Refs(HeldOf(h)))
  BY <1>2, HeldTyped DEF CountIsExact
<1>5. /\ new \in Holdings /\ IsFiniteSet(Refs(new)) /\ new[t] = owned[t][h] + 1
      /\ Cardinality(Refs(new)) = Cardinality(Refs(HeldOf(h))) + 1
  <2>1. new[t] = owned[t][h] + 1
    BY DEF HeldOf
  <2> QED
    BY <1>1, <1>4, <2>1, RefsOneMore
<1>6. HeldOf(h)' = new /\ \A g \in DotGraph : g # h => HeldOf(g)' = HeldOf(g)
  <2>1. new = [HeldOf(h) EXCEPT ![t] = owned[t][h] + 1]
    OBVIOUS
  <2> HIDE DEF new
  <2> QED
    BY <1>1, <1>5, <2>1, HeldAfter
<1> HIDE DEF new
<1>7. MRefCount'[h] = Cardinality(Refs(HeldOf(h)'))
  BY <1>3, <1>4, <1>5, <1>6 DEF TypeOK
<1>8. Owned(h)' /\ \A g \in DotGraph : g # h => MRefCount'[g] = MRefCount[g]
  <2>1. HeldOf(h)'[t] = owned'[t][h] /\ owned[t][h] \in Nat
    BY DEF HeldOf, TypeOK
  <2> QED
    BY <1>3, <1>5, <1>6, <2>1 DEF Owned, TypeOK
<1> QED
  BY <1>1, <1>5, <1>6, <1>7, <1>8, HoldingsSound

LEMMA ReleaseSound ==
  ASSUME TypeOK, Sound, NEW t \in Thread, NEW h \in DotGraph, Release(t, h)
  PROVE  Sound'
<1>1. /\ process = "running" /\ call[t] = Idle /\ owned[t][h] > 0 /\ Owned(h)
      /\ owned' = [owned EXCEPT ![t][h] = owned[t][h] - 1]
      /\ Goto(t, Loading(h))
      /\ UNCHANGED <<instanceVars, object, MInstance, listed, historyVars>>
      /\ process' # "ended"
  BY DEF Release, At, Owned, MayAbort
<1>2. object[h] = "live" /\ CountIsExact(h)
  BY <1>1, HeldFacts DEF Sound, HandleSound
<1>3. MRefCount[h] \in Nat \ {0} /\ MRefCount' = [MRefCount EXCEPT ![h] = MRefCount[h] - 1]
  <2>1. MRefCount[h] \in Nat /\ MRefCount[h] # 0
    BY <1>1, <1>2, CountFacts, RefsAssumption DEF TypeOK
  <2>2. MRefCount' = [MRefCount EXCEPT ![h] = Decremented(MRefCount[h])]
    BY <1>2 DEF Release
  <2> QED
    BY <2>1, <2>2 DEF Decremented
<1> DEFINE new == [HeldOf(h) EXCEPT ![t] = owned[t][h] - 1]
<1>4. /\ HeldOf(h) \in Holdings /\ HeldOf(h)[t] = owned[t][h]
      /\ IsFiniteSet(Refs(HeldOf(h))) /\ MRefCount[h] = Cardinality(Refs(HeldOf(h)))
  BY <1>2, HeldTyped DEF CountIsExact
<1>5. /\ new \in Holdings /\ IsFiniteSet(Refs(new))
      /\ Cardinality(Refs(new)) = Cardinality(Refs(HeldOf(h))) - 1
  BY <1>1, <1>4, RefsOneLess
<1>6. HeldOf(h)' = new /\ \A g \in DotGraph : g # h => HeldOf(g)' = HeldOf(g)
  <2>1. new = [HeldOf(h) EXCEPT ![t] = owned[t][h] - 1]
    OBVIOUS
  <2> HIDE DEF new
  <2> QED
    BY <1>1, <1>5, <2>1, HeldAfter
<1> HIDE DEF new
<1>7. /\ MRefCount'[h] = Cardinality(Refs(HeldOf(h)'))
      /\ \A g \in DotGraph : g # h => MRefCount'[g] = MRefCount[g]
  BY <1>3, <1>4, <1>5, <1>6 DEF TypeOK
<1> QED
  BY <1>1, <1>5, <1>6, <1>7, HoldingsSound

LEMMA HandOverSound ==
  ASSUME TypeOK, Sound, NEW t \in Thread, NEW u \in Thread, NEW h \in DotGraph,
         HandOver(t, u, h)
  PROVE  Sound'
<1>1. /\ process = "running" /\ t # u /\ owned[t][h] > 0 /\ owned[u][h] < MaxRefs /\ Owned(h)
      /\ owned' = [owned EXCEPT ![t][h] = @ - 1, ![u][h] = @ + 1]
      /\ UNCHANGED <<instanceVars, object, MRefCount, MInstance, listed, call, historyVars>>
      /\ process' # "ended"
  BY DEF HandOver, At, handleVars, Owned
<1>2. object[h] = "live" /\ CountIsExact(h)
  BY <1>1, HeldFacts DEF Sound, HandleSound
<1>3. owned[t][h] \in 0 .. MaxRefs /\ owned[u][h] \in 0 .. MaxRefs
  BY DEF TypeOK
<1> DEFINE less == [HeldOf(h) EXCEPT ![t] = @ - 1]
<1> DEFINE new == [less EXCEPT ![u] = @ + 1]
<1>4. /\ HeldOf(h) \in Holdings /\ \A v \in Thread : HeldOf(h)[v] = owned[v][h]
      /\ IsFiniteSet(Refs(HeldOf(h))) /\ MRefCount[h] = Cardinality(Refs(HeldOf(h)))
  BY <1>2, HeldTyped DEF CountIsExact
<1>5. /\ less \in Holdings /\ IsFiniteSet(Refs(less)) /\ less[u] = owned[u][h]
      /\ Cardinality(Refs(less)) = Cardinality(Refs(HeldOf(h))) - 1
  <2>1. less[u] = owned[u][h]
    BY <1>1, <1>4 DEF Holdings
  <2> HIDE DEF less
  <2> QED
    BY <1>1, <1>4, <2>1, RefsOneLess DEF less
<1>6. /\ new \in Holdings /\ IsFiniteSet(Refs(new)) /\ new[u] = owned[u][h] + 1
      /\ Cardinality(Refs(new)) = Cardinality(Refs(less)) + 1
  <2>1. new[u] = owned[u][h] + 1
    BY <1>5 DEF Holdings
  <2> HIDE DEF new, less
  <2> QED
    BY <1>1, <1>5, <2>1, RefsOneMore DEF new
<1>7. owned' = [v \in Thread |-> [owned[v] EXCEPT ![h] = new[v]]]
  <2>1. \A v \in Thread : new[v] = IF v = u THEN owned[u][h] + 1
                                    ELSE IF v = t THEN owned[t][h] - 1 ELSE owned[v][h]
    BY <1>1, <1>4, <1>5 DEF Holdings
  <2>2. ASSUME NEW v \in Thread
        PROVE  owned'[v] = [owned[v] EXCEPT ![h] = new[v]]
    <3>1. owned[v] = [owned[v] EXCEPT ![h] = owned[v][h]]
      BY DEF TypeOK
    <3>2. owned'[v] = IF v = u THEN [owned[u] EXCEPT ![h] = owned[u][h] + 1]
                      ELSE IF v = t THEN [owned[t] EXCEPT ![h] = owned[t][h] - 1]
                      ELSE owned[v]
      BY <1>1 DEF TypeOK
    <3> HIDE DEF new
    <3> QED
      BY <2>1, <3>1, <3>2
  <2>3. owned' = [v \in Thread |-> owned'[v]]
    BY <1>1 DEF TypeOK
  <2> HIDE DEF new
  <2> QED
    BY <2>2, <2>3
<1>8. HeldOf(h)' = new /\ \A g \in DotGraph : g # h => HeldOf(g)' = HeldOf(g)
  <2> HIDE DEF new
  <2> QED
    BY <1>6, <1>7, HoldingsOf
<1> HIDE DEF less, new
<1>9. MRefCount'[h] = Cardinality(Refs(HeldOf(h)'))
  <2>1. Cardinality(Refs(HeldOf(h))) \in Nat
    BY <1>4, RefsBound
  <2> QED
    BY <1>1, <1>4, <1>5, <1>6, <1>8, <2>1
<1>10. Owned(h)'
  <2>1. HeldOf(h)'[u] = owned'[u][h]
    BY DEF HeldOf
  <2> QED
    BY <1>3, <1>6, <1>8, <2>1 DEF Owned
<1> QED
  BY <1>1, <1>6, <1>8, <1>9, <1>10, HoldingsSound

-----------------------------------------------------------------------------
(***************************************************************************)
(* The steps of a release after the count went down.                       *)
(***************************************************************************)

\* A look at the handle: the release goes on if nobody holds a reference, and
\* ends if somebody does.
LEMMA LookSound ==
  ASSUME TypeOK, Sound, process = "running", NEW t \in Thread, NEW h \in DotGraph,
         UNCHANGED <<instanceVars, handleVars, appVars, historyVars>>, process' # "ended",
         call[t] \in {Loading(h), Reading(h)},
         NEW c \in {Idle, Reading(h), Destroying(h, MInstance[h])}, Goto(t, c),
         MInstance[h] \in Instance,
         c = Idle <=> Owned(h)
  PROVE  Sound'
<1>1. /\ {Loading(h), Reading(h), Destroying(h, MInstance[h]), Deleting(h)} \subseteq ReleaseCalls(h)
      /\ Deleting(h) \notin {Loading(h), Reading(h), Destroying(h, MInstance[h]), Idle}
      /\ {Reading(h), Destroying(h, MInstance[h])} \subseteq ClosingCalls(h)
      /\ Idle \notin ReleaseCalls(h) /\ ClosingCalls(h) \subseteq ReleaseCalls(h)
      /\ \A j \in Instance : Destroying(h, j) \in ReleaseCalls(h)
      /\ \A j : Destroying(h, j) # Reading(h)
      /\ \A j : Destroying(h, j) = Destroying(h, MInstance[h]) => j = MInstance[h]
  <2>1. Idle \notin ReleaseCalls(h) /\ ClosingCalls(h) \subseteq ReleaseCalls(h)
    BY ReleaseCallFacts DEF ReleaseCalls
  <2>2. \A j \in Instance : Destroying(h, j) \in ReleaseCalls(h)
    BY DEF ReleaseCalls, ClosingCalls
  <2> QED
    BY <2>1, <2>2, CallFacts
<1>2. HandleSound(h)
  BY DEF Sound
<1>3. /\ call'[t] = c /\ \A u \in Thread : u # t => call'[u] = call[u]
      /\ \A u \in Thread, g \in DotGraph :
           g # h /\ (Releases(u, g) \/ Releases(u, g)') => call'[u] = call[u]
  BY <1>1, ReleaseStep
<1>4. HeldOf(h)' = HeldOf(h) /\ (Owned(h)' <=> Owned(h))
  BY DEF HeldOf, Owned, appVars
<1>5. \A g \in DotGraph \ {h} : Untouched(g)
  BY <1>3 DEF Untouched, instanceVars, handleVars, appVars, historyVars, HeldOf
<1>6. Releases(t, h) /\ object[h] = "live" /\ \A u \in Thread : call[u] # Deleting(h)
  BY <1>1, <1>2 DEF Releases, HandleSound, UsedIsLive, LastDeletes
<1>7. \A u \in Thread : call'[u] # Deleting(h)
  BY <1>1, <1>3, <1>6
<1>8. Open(h)' /\ Open(h)
  BY <1>6, <1>7, CallsConstant DEF Open, handleVars
<1>9. CountIsExact(h)'
  BY <1>2, <1>4 DEF HandleSound, CountIsExact, Refs, handleVars
<1>10. UsedIsLive(h)' /\ LastDeletes(h)'
  BY <1>6, <1>7, CallsConstant DEF UsedIsLive, LastDeletes, handleVars
<1>11. ClosedWhenUnowned(h)'
  <2>1. ASSUME NEW u \in Thread, Closing(u, h)'
        PROVE  ~Owned(h)
    <3>1. CASE u = t
      BY <1>1, <1>3, <2>1, <3>1, CallsConstant DEF Closing
    <3>2. CASE u # t
      BY <1>2, <1>3, <2>1, <3>2, CallsConstant DEF Closing, HandleSound, ClosedWhenUnowned
    <3> QED
      BY <3>1, <3>2
  <2> QED
    BY <1>4, <2>1 DEF ClosedWhenUnowned
<1>12. CloserUnderWay(h)'
  BY <1>1, <1>3, <1>4, CallsConstant DEF CloserUnderWay, Releases
<1>13. InstanceKept(h)'
  <2>1. ASSUME NEW u \in Thread, NEW i \in Instance, call'[u] = Destroying(h, i)
        PROVE  i = MInstance[h]
    <3>1. CASE u = t
      BY <1>1, <1>3, <2>1, <3>1
    <3>2. CASE u # t
      BY <1>2, <1>3, <2>1, <3>2 DEF HandleSound, InstanceKept
    <3> QED
      BY <3>1, <3>2
  <2>2. instance[MInstance[h]] = "live" /\ listed[h] \subseteq MQueueMap[MInstance[h]]
    BY <1>2, <1>8 DEF HandleSound, InstanceKept
  <2> QED
    BY <2>1, <2>2, CallsConstant DEF InstanceKept, instanceVars, handleVars, appVars
<1>14. NotYetDestroyed(h)'
  BY <1>2, <1>8 DEF HandleSound, NotYetDestroyed, historyVars
<1>15. HandleSound(h)'
  BY <1>9, <1>10, <1>11, <1>12, <1>13, <1>14 DEF HandleSound
<1> QED
  BY <1>5, <1>8, <1>15, UntouchedOthers DEF handleVars

LEMMA LoadSound ==
  ASSUME TypeOK, Sound, NEW t \in Thread, NEW h \in DotGraph, Load(t, h)
  PROVE  Sound'
<1>1. /\ process = "running" /\ call[t] = Loading(h)
      /\ UNCHANGED <<instanceVars, handleVars, appVars, historyVars>> /\ process' # "ended"
  BY DEF Load, At, MayAbort
<1>2. HandleSound(h) /\ object[h] = "live"
  <2>1. Releases(t, h)
    BY <1>1 DEF Releases, ReleaseCalls
  <2> QED
    BY <2>1 DEF Sound, HandleSound, UsedIsLive
<1>3. MRefCount[h] = 0 <=> ~Owned(h)
  BY <1>2, CountFacts DEF HandleSound
<1>4. Reading(h) # Idle
  BY DEF Reading, Idle
<1>5. \/ Goto(t, Reading(h)) /\ ~Owned(h)
      \/ Goto(t, Idle) /\ Owned(h)
  BY <1>2, <1>3 DEF Load
<1>6. MInstance[h] \in Instance
  BY <1>2 DEF TypeOK
<1> QED
  BY <1>1, <1>4, <1>5, <1>6, LookSound

LEMMA ReadSound ==
  ASSUME TypeOK, Sound, NEW t \in Thread, NEW h \in DotGraph, ReadInstance(t, h)
  PROVE  Sound'
<1>1. /\ process = "running" /\ call[t] = Reading(h)
      /\ UNCHANGED <<instanceVars, handleVars, appVars, historyVars>> /\ process' # "ended"
  BY DEF ReadInstance, At, MayAbort
<1>2. HandleSound(h) /\ object[h] = "live" /\ ~Owned(h)
  <2>1. Closing(t, h)
    BY <1>1 DEF Closing, ClosingCalls
  <2> QED
    BY <2>1, ClosingFacts DEF Sound
<1>3. MInstance[h] \in Instance /\ Goto(t, Destroying(h, MInstance[h]))
  BY <1>2 DEF ReadInstance, TypeOK
<1>4. Destroying(h, MInstance[h]) # Idle
  BY DEF Destroying, Idle
<1> QED
  BY <1>1, <1>2, <1>3, <1>4, LookSound

\* The instance destroyed is that of h, no other open handle has it, and no
\* other release of h is under way.
LEMMA DestroySound ==
  ASSUME TypeOK, Sound, NEW t \in Thread, NEW h \in DotGraph, NEW i \in Instance,
         DestroyVizInstance(t, h, i), ~raced'
  PROVE  Sound'
<1>1. /\ process = "running" /\ call[t] = Destroying(h, i)
      /\ instance' = [instance EXCEPT ![i] = "free"]
      /\ MQueueMap' = [MQueueMap EXCEPT ![i] = {}]
      /\ Goto(t, Deleting(h)) /\ process' # "ended"
      /\ destroyed' = destroyed \cup {h}
      /\ \A u \in Thread \ {t} : call[u] \notin ReleaseCalls(h)
      /\ UNCHANGED <<handleVars, appVars>>
  BY DEF DestroyVizInstance, At, MayAbort
<1>2. /\ {Destroying(h, i), Deleting(h)} \subseteq ReleaseCalls(h)
      /\ {Destroying(h, i), Deleting(h)} \subseteq ClosingCalls(h)
      /\ Destroying(h, i) # Deleting(h) /\ \A j : Destroying(h, j) # Deleting(h)
  BY CallFacts
<1>3. /\ HandleSound(h) /\ ~Owned(h) /\ object[h] = "live" /\ Open(h) /\ i = MInstance[h]
  <2>1. HandleSound(h) /\ Closing(t, h)
    BY <1>1, <1>2 DEF Closing, Sound
  <2>2. i = MInstance[h]
    BY <1>1, <2>1 DEF HandleSound, InstanceKept
  <2> QED
    BY <1>1, <1>2, <2>1, <2>2, ClosingFacts
<1>4. /\ call'[t] = Deleting(h) /\ \A u \in Thread : u # t => call'[u] = call[u]
      /\ \A u \in Thread, g \in DotGraph :
           g # h /\ (Releases(u, g) \/ Releases(u, g)') => call'[u] = call[u]
  BY <1>1, <1>2, ReleaseStep
<1>5. HeldOf(h)' = HeldOf(h) /\ (Owned(h)' <=> Owned(h))
  BY <1>1 DEF HeldOf, Owned, appVars
<1>6. ASSUME NEW g \in DotGraph \ {h}
      PROVE  Untouched(g)
  <2>1. Open(g) => MInstance[g] # i /\ MInstance[g] \in Instance
    BY <1>3 DEF Sound, InstancesApart, Open, TypeOK
  <2>2. Open(g) => /\ instance'[MInstance[g]] = instance[MInstance[g]]
                   /\ MQueueMap'[MInstance[g]] = MQueueMap[MInstance[g]]
    BY <1>1, <2>1 DEF TypeOK
  <2>3. HeldOf(g)' = HeldOf(g)
    BY <1>1 DEF HeldOf, appVars
  <2> QED
    BY <1>1, <1>4, <2>2, <2>3 DEF Untouched, handleVars, appVars
<1>7. ~Open(h)'
  BY <1>4, CallsConstant DEF Open
<1>8. CountIsExact(h)'
  BY <1>1, <1>3, <1>5 DEF HandleSound, CountIsExact, Refs, handleVars
<1>9. UsedIsLive(h)' /\ ClosedWhenUnowned(h)' /\ NotYetDestroyed(h)'
  BY <1>1, <1>3, <1>5, <1>7 DEF UsedIsLive, ClosedWhenUnowned, NotYetDestroyed, handleVars
<1>10. LastDeletes(h)'
  BY <1>1, <1>2, <1>4, CallsConstant DEF LastDeletes, Releases
<1>11. CloserUnderWay(h)'
  BY <1>2, <1>4, CallsConstant DEF CloserUnderWay, Releases
<1>12. InstanceKept(h)'
  <2>1. \A u \in Thread, j \in Instance : call'[u] # Destroying(h, j)
    <3>1. \A j \in Instance : Destroying(h, j) \in ReleaseCalls(h)
      BY DEF ReleaseCalls, ClosingCalls
    <3> QED
      BY <1>1, <1>2, <1>4, <3>1
  <2> QED
    BY <1>7, <2>1, CallsConstant DEF InstanceKept
<1>13. HandleSound(h)'
  BY <1>8, <1>9, <1>10, <1>11, <1>12 DEF HandleSound
<1> QED
  BY <1>6, <1>7, <1>13, UntouchedOthers

\* The address is free again when nobody holds it or is about to use it.
LEMMA DeleteSound ==
  ASSUME TypeOK, Sound, NEW t \in Thread, NEW h \in DotGraph, DeleteThis(t, h)
  PROVE  Sound'
<1>1. /\ process = "running" /\ call[t] = Deleting(h) /\ process' # "ended"
      /\ object' = [object EXCEPT ![h] = "free"]
      /\ MRefCount' = [MRefCount EXCEPT ![h] = 0]
      /\ MInstance' = [MInstance EXCEPT ![h] = NoInstance]
      /\ listed' = [listed EXCEPT ![h] = {}]
      /\ Goto(t, Idle)
      /\ UNCHANGED <<instanceVars, owned, historyVars>>
  BY DEF DeleteThis, At, MayAbort
<1>2. Deleting(h) \in ReleaseCalls(h) /\ Deleting(h) \in ClosingCalls(h)
  BY DEF ReleaseCalls, ClosingCalls
<1>3. /\ HandleSound(h) /\ ~Owned(h)
      /\ \A u \in Thread : u # t => call[u] \notin ReleaseCalls(h)
  <2>1. HandleSound(h) /\ Closing(t, h)
    BY <1>1, <1>2 DEF Closing, Sound
  <2> QED
    BY <1>1, <2>1, ClosingFacts DEF HandleSound, LastDeletes, Releases
<1>4. /\ call'[t] = Idle /\ \A u \in Thread : u # t => call'[u] = call[u]
      /\ \A u \in Thread, g \in DotGraph :
           g # h /\ (Releases(u, g) \/ Releases(u, g)') => call'[u] = call[u]
  BY <1>1, <1>2, ReleaseStep
<1>5. object'[h] = "free" /\ ~Owned(h)'
  BY <1>1, <1>3 DEF Owned, TypeOK
<1>6. \A u \in Thread : ~Releases(u, h)' /\ ~Closing(u, h)'
  <2>1. \A u \in Thread : call'[u] \notin ReleaseCalls(h)
    BY <1>3, <1>4, ReleaseCallFacts
  <2> QED
    BY <2>1, CallsConstant DEF Releases, Closing, ReleaseCalls
<1>7. ASSUME NEW g \in DotGraph \ {h}
      PROVE  Untouched(g)
  <2>1. /\ object'[g] = object[g] /\ MRefCount'[g] = MRefCount[g]
        /\ MInstance'[g] = MInstance[g] /\ listed'[g] = listed[g]
    BY <1>1 DEF TypeOK
  <2>2. HeldOf(g)' = HeldOf(g)
    BY <1>1 DEF HeldOf
  <2> QED
    BY <1>1, <1>4, <2>1, <2>2 DEF Untouched, instanceVars, historyVars
<1>8. ~Open(h)'
  BY <1>5 DEF Open
<1>9. /\ CountIsExact(h)' /\ UsedIsLive(h)' /\ ClosedWhenUnowned(h)' /\ LastDeletes(h)'
      /\ CloserUnderWay(h)' /\ NotYetDestroyed(h)'
  BY <1>5, <1>6, <1>8 DEF CountIsExact, UsedIsLive, ClosedWhenUnowned, LastDeletes,
                          CloserUnderWay, NotYetDestroyed
<1>10. InstanceKept(h)'
  <2>1. \A i \in Instance : Destroying(h, i) \in ReleaseCalls(h)
    BY DEF ReleaseCalls, ClosingCalls
  <2> QED
    BY <1>6, <1>8, <2>1, CallsConstant DEF InstanceKept, Releases
<1>11. HandleSound(h)'
  BY <1>9, <1>10 DEF HandleSound
<1> QED
  BY <1>7, <1>8, <1>11, UntouchedOthers

-----------------------------------------------------------------------------
(***************************************************************************)
(* A new handle, and the steps that are about none.                        *)
(***************************************************************************)

\* The instance of an open handle is not at an address given to a new one.
LEMMA CreatedApart ==
  ASSUME TypeOK, Sound, process = "running", NEW i \in Instance, NEW R,
         CreateVizInstance(i, R), NEW g \in DotGraph, Open(g)
  PROVE  /\ MInstance[g] # i /\ MInstance[g] \in Instance
         /\ instance'[MInstance[g]] = instance[MInstance[g]]
         /\ MQueueMap'[MInstance[g]] = MQueueMap[MInstance[g]]
<1>1. MInstance[g] \in Instance /\ instance[MInstance[g]] = "live"
  BY DEF Sound, HandleSound, InstanceKept, Open, TypeOK
<1> QED
  BY <1>1 DEF CreateVizInstance, TypeOK

\* The new handle is held once, and its address was not in use.
LEMMA CreateSound ==
  ASSUME TypeOK, Sound, NEW t \in Thread, NEW h \in DotGraph, NEW i \in Instance, NEW Q,
         CreateDotGraph(t, h, i, Q)
  PROVE  Sound'
<1> USE RefsAssumption
<1>1. /\ process = "running" /\ process' = "running" /\ object[h] = "free"
      /\ CreateVizInstance(i, Q)
      /\ object' = [object EXCEPT ![h] = "live"]
      /\ MRefCount' = [MRefCount EXCEPT ![h] = 1]
      /\ MInstance' = [MInstance EXCEPT ![h] = i]
      /\ owned' = [owned EXCEPT ![t][h] = owned[t][h] + 1]
      /\ listed' = [listed EXCEPT ![h] = Q]
      /\ destroyed' = destroyed \ {h}
      /\ UNCHANGED call
  BY DEF CreateDotGraph, At
<1>2. ~Owned(h) /\ \A u \in Thread : ~Releases(u, h)
  BY <1>1 DEF Sound, HandleSound, UsedIsLive
<1>3. \A u \in Thread : owned[u][h] = 0
  BY <1>2 DEF Owned, TypeOK
<1> DEFINE new == [HeldOf(h) EXCEPT ![t] = owned[t][h] + 1]
<1>4. /\ HeldOf(h) \in Holdings /\ HeldOf(h)[t] = owned[t][h]
      /\ IsFiniteSet(Refs(HeldOf(h))) /\ Cardinality(Refs(HeldOf(h))) = 0
  <2>1. \A u \in Thread : HeldOf(h)[u] = 0
    BY <1>3 DEF HeldOf
  <2>2. Refs(HeldOf(h)) = {}
    BY <2>1 DEF Refs
  <2> QED
    BY <2>2, HeldTyped, FS_EmptySet
<1>5. new \in Holdings /\ IsFiniteSet(Refs(new)) /\ Cardinality(Refs(new)) = 1 /\ new[t] = 1
  <2>1. new[t] = 1
    BY <1>3 DEF HeldOf
  <2> QED
    BY <1>3, <1>4, <2>1, RefsOneMore
<1>6. HeldOf(h)' = new /\ \A g \in DotGraph : g # h => HeldOf(g)' = HeldOf(g)
  <2>1. new = [HeldOf(h) EXCEPT ![t] = owned[t][h] + 1]
    OBVIOUS
  <2> HIDE DEF new
  <2> QED
    BY <1>1, <1>5, <2>1, HeldAfter
<1> HIDE DEF new
<1>7. Owned(h)'
  <2>1. HeldOf(h)'[t] = owned'[t][h]
    BY DEF HeldOf
  <2> QED
    BY <1>5, <1>6, <2>1 DEF Owned
<1>8. ASSUME NEW g \in DotGraph \ {h}
      PROVE  Untouched(g)
  <2>1. /\ object'[g] = object[g] /\ MRefCount'[g] = MRefCount[g]
        /\ MInstance'[g] = MInstance[g] /\ listed'[g] = listed[g]
        /\ g \in destroyed' <=> g \in destroyed
    BY <1>1 DEF TypeOK
  <2>2. Open(g) => /\ instance'[MInstance[g]] = instance[MInstance[g]]
                   /\ MQueueMap'[MInstance[g]] = MQueueMap[MInstance[g]]
    BY <1>1, CreatedApart
  <2> QED
    BY <1>1, <1>6, <2>1, <2>2 DEF Untouched
<1>9. /\ \A u \in Thread : ~Releases(u, h)' /\ ~Closing(u, h)'
      /\ \A u \in Thread : call'[u] # Deleting(h)
      /\ \A u \in Thread, j \in Instance : call'[u] # Destroying(h, j)
  <2>1. /\ ClosingCalls(h) \subseteq ReleaseCalls(h) /\ Deleting(h) \in ReleaseCalls(h)
        /\ \A j \in Instance : Destroying(h, j) \in ReleaseCalls(h)
    BY DEF ReleaseCalls, ClosingCalls
  <2> QED
    BY <1>1, <1>2, <2>1, CallsConstant DEF Releases, Closing
<1>10. /\ object'[h] = "live" /\ MRefCount'[h] = 1 /\ MInstance'[h] = i /\ listed'[h] = Q
       /\ h \notin destroyed' /\ instance'[i] = "live" /\ MQueueMap'[i] = Q
  BY <1>1 DEF TypeOK, CreateVizInstance
<1>11. HandleSound(h)'
  <2>1. CountIsExact(h)'
    BY <1>5, <1>6, <1>10 DEF CountIsExact, Refs
  <2>2. /\ UsedIsLive(h)' /\ ClosedWhenUnowned(h)' /\ LastDeletes(h)' /\ CloserUnderWay(h)'
        /\ NotYetDestroyed(h)'
    BY <1>7, <1>9, <1>10, CallsConstant
       DEF UsedIsLive, ClosedWhenUnowned, LastDeletes, CloserUnderWay, NotYetDestroyed
  <2>3. InstanceKept(h)'
    BY <1>9, <1>10, CallsConstant DEF InstanceKept
  <2> QED
    BY <2>1, <2>2, <2>3 DEF HandleSound
<1>12. InstancesApart'
  <2> SUFFICES ASSUME NEW f \in DotGraph, NEW g \in DotGraph, Open(f)', Open(g)',
                      MInstance'[f] = MInstance'[g]
               PROVE  f = g
    BY DEF InstancesApart
  <2>1. ASSUME NEW d \in DotGraph \ {h}, Open(d)'
        PROVE  Open(d) /\ MInstance'[d] = MInstance[d] /\ MInstance[d] # i
    <3>1. Open(d) /\ MInstance'[d] = MInstance[d]
      BY <1>8, <2>1, UntouchedCalls DEF Untouched
    <3> QED
      BY <1>1, <3>1, CreatedApart
  <2> QED
    BY <1>10, <2>1 DEF Sound, InstancesApart
<1> QED
  BY <1>8, <1>11, <1>12, UntouchedSound DEF Sound

\* A step that is about queues and commands, the end of the layer, and a
\* creation that fails, touch no handle.
LEMMA QuietSound ==
  ASSUME Sound, UNCHANGED <<handleVars, owned, listed, historyVars>>,
         process' # "ended" => process # "ended",
         \A g \in DotGraph : process' # "ended" /\ Open(g) /\ instance[MInstance[g]] = "live" =>
           /\ instance'[MInstance[g]] = "live"
           /\ MQueueMap[MInstance[g]] \subseteq MQueueMap'[MInstance[g]],
         \A u \in Thread : call'[u] = call[u] \/
           \A g \in DotGraph : call[u] \notin ReleaseCalls(g) /\ call'[u] \notin ReleaseCalls(g)
  PROVE  Sound'
<1>1. ASSUME NEW g \in DotGraph PROVE Untouched(g)
  <2>1. HeldOf(g)' = HeldOf(g)
    BY DEF HeldOf
  <2> QED
    BY <2>1, CallsConstant DEF Untouched, Releases, handleVars, historyVars
<1> QED
  BY <1>1, UntouchedAll

LEMMA CommandSound ==
  ASSUME TypeOK, Sound, NEW t \in Thread, NEW cq \in CLQueue, NEW b \in BOOLEAN,
         \/ CreateQueue(t, cq) \/ Enqueue(t, cq) \/ Verbose(t, cq)
         \/ Record(t, cq, b) \/ FlushQueue(t, cq)
  PROVE  Sound'
<1>1. ASSUME NEW c \in {Idle, Querying(cq), Recording(cq), Flushing(cq)}, Goto(t, c),
             call[t] \in {Idle, Querying(cq), Recording(cq), Flushing(cq)}
      PROVE  \A u \in Thread : call'[u] = call[u] \/
               \A g \in DotGraph : call[u] \notin ReleaseCalls(g) /\ call'[u] \notin ReleaseCalls(g)
  BY <1>1, CommandCallFacts, GotoFacts
<1>2. CASE CreateQueue(t, cq)
  <2>1. \A g \in DotGraph : object[g] = "live" =>
          MQueueMap[MInstance[g]] \subseteq MQueueMap'[MInstance[g]]
    BY <1>2 DEF CreateQueue, TypeOK
  <2> QED
    BY <1>2, <2>1, QuietSound DEF CreateQueue, Open
<1>3. CASE Enqueue(t, cq) \/ Verbose(t, cq) \/ FlushQueue(t, cq)
  <2>1. /\ UNCHANGED <<handleVars, owned, listed, historyVars, instance, MQueueMap>>
        /\ process' # "ended" => process # "ended"
    BY <1>3 DEF Enqueue, Verbose, FlushQueue, At, appVars, instanceVars
  <2>2. \A u \in Thread : call'[u] = call[u] \/
          \A g \in DotGraph : call[u] \notin ReleaseCalls(g) /\ call'[u] \notin ReleaseCalls(g)
    BY <1>1, <1>3 DEF Enqueue, Verbose, FlushQueue, At
  <2> QED
    BY <2>1, <2>2, QuietSound
<1>4. CASE Record(t, cq, b)
  <2>1. /\ UNCHANGED <<handleVars, owned, listed, historyVars, instance, MQueueMap>>
        /\ process' # "ended" => process # "ended"
    BY <1>4 DEF Record, At, appVars
  <2>2. \A u \in Thread : call'[u] = call[u] \/
          \A g \in DotGraph : call[u] \notin ReleaseCalls(g) /\ call'[u] \notin ReleaseCalls(g)
    BY <1>1, <1>4 DEF Record, At
  <2> QED
    BY <2>1, <2>2, QuietSound
<1> QED
  BY <1>2, <1>3, <1>4

LEMMA FailedCreateSound ==
  ASSUME TypeOK, Sound, NEW t \in Thread, NEW i \in Instance, NEW R,
         CreateDotGraphFails(t, i, R)
  PROVE  Sound'
<1>1. /\ process = "running" /\ process' = process /\ CreateVizInstance(i, R)
      /\ UNCHANGED <<handleVars, owned, listed, historyVars, call>>
  BY DEF CreateDotGraphFails, At, appVars
<1>2. \A g \in DotGraph : Open(g) =>
        /\ instance'[MInstance[g]] = instance[MInstance[g]]
        /\ MQueueMap'[MInstance[g]] = MQueueMap[MInstance[g]]
  BY <1>1, CreatedApart
<1> QED
  BY <1>1, <1>2, QuietSound

-----------------------------------------------------------------------------
(***************************************************************************)
(* The inductive invariant, and what follows from it.                      *)
(***************************************************************************)

LEMMA InitSound == Init => TypeOK /\ ListIsExact /\ Sound
<1> SUFFICES ASSUME Init PROVE TypeOK /\ ListIsExact /\ Sound
  OBVIOUS
<1> USE RefsAssumption
<1>1. TypeOK /\ ListIsExact
  <2>1. Idle \in Calls
    BY DEF Calls
  <2>2. /\ MInstances \in SUBSET Instance /\ instance \in [Instance -> {"free", "live"}]
        /\ MQueueMap \in [Instance -> SUBSET CLQueue]
        /\ captured \in [Instance -> SUBSET CLQueue]
        /\ object \in [DotGraph -> {"free", "live"}]
        /\ MRefCount \in [DotGraph -> 0 .. MaxRefs]
        /\ MInstance \in [DotGraph -> Instance \cup {NoInstance}]
        /\ \A h \in DotGraph : object[h] = "live" => MInstance[h] \in Instance
    BY DEF Init
  <2>3. owned \in [Thread -> [DotGraph -> 0 .. MaxRefs]]
    <3>1. [h \in DotGraph |-> 0] \in [DotGraph -> 0 .. MaxRefs]
      OBVIOUS
    <3> QED
      BY <3>1 DEF Init
  <2>4. /\ listed \in [DotGraph -> SUBSET CLQueue] /\ queues \in SUBSET CLQueue
        /\ call \in [Thread -> Calls] /\ seen \in [Thread -> SUBSET Instance]
        /\ process \in {"running", "ended", "aborted"} /\ destroyed \in SUBSET DotGraph
    BY <2>1 DEF Init
  <2>5. raced \in BOOLEAN
    BY DEF Init
  <2>6. ListIsExact
    BY DEF Init, ListIsExact
  <2> QED
    BY <2>2, <2>3, <2>4, <2>5, <2>6 DEF TypeOK
<1>2. InstancesApart
  BY DEF Init, InstancesApart, Open
<1>3. ASSUME NEW h \in DotGraph PROVE HandleSound(h)
  <2>1. /\ object[h] = "free" /\ ~Owned(h)
        /\ \A t \in Thread : call[t] = Idle
    BY DEF Init, Owned
  <2>2. \A t \in Thread : ~Releases(t, h)
    BY <2>1, ReleaseCallFacts DEF Releases
  <2>3. /\ ClosingCalls(h) \subseteq ReleaseCalls(h) /\ Deleting(h) \in ReleaseCalls(h)
        /\ \A i \in Instance : Destroying(h, i) \in ReleaseCalls(h)
    BY DEF ReleaseCalls, ClosingCalls
  <2> QED
    BY <2>1, <2>2, <2>3 DEF HandleSound, CountIsExact, UsedIsLive, ClosedWhenUnowned,
       LastDeletes, CloserUnderWay, InstanceKept, NotYetDestroyed, Open, Releases, Closing
<1> QED
  BY <1>1, <1>2, <1>3 DEF Sound

\* As long as nothing raced, every step keeps the handles sound.
LEMMA SoundPreserved == TypeOK /\ Sound /\ ~raced' /\ [Next]_vars => Sound'
<1> SUFFICES ASSUME TypeOK, Sound, ~raced', [Next]_vars PROVE Sound'
  OBVIOUS
<1>1. ASSUME NEW t \in Thread, Begin(t)
      PROVE  Sound'
  <2>1. ASSUME NEW h \in DotGraph, NEW i \in Instance, NEW Q, CreateDotGraph(t, h, i, Q)
        PROVE  Sound'
    BY <2>1, CreateSound
  <2>2. ASSUME NEW i \in Instance, NEW R, CreateDotGraphFails(t, i, R)
        PROVE  Sound'
    BY <2>2, FailedCreateSound
  <2>3. ASSUME NEW h \in DotGraph, Retain(t, h) \/ Release(t, h)
        PROVE  Sound'
    BY <2>3, RetainSound, ReleaseSound
  <2>4. ASSUME NEW h \in DotGraph, NEW u \in Thread, HandOver(t, u, h)
        PROVE  Sound'
    BY <2>4, HandOverSound
  <2>5. ASSUME NEW cq \in CLQueue, CreateQueue(t, cq) \/ Enqueue(t, cq)
        PROVE  Sound'
    BY <2>5, CommandSound
  <2> QED
    BY <1>1, <2>1, <2>2, <2>3, <2>4, <2>5 DEF Begin
<1>2. ASSUME NEW t \in Thread, Continue(t)
      PROVE  Sound'
  <2>1. ASSUME NEW h \in DotGraph, Load(t, h) \/ ReadInstance(t, h) \/ DeleteThis(t, h)
        PROVE  Sound'
    BY <2>1, LoadSound, ReadSound, DeleteSound
  <2>2. ASSUME NEW h \in DotGraph, NEW i \in Instance, DestroyVizInstance(t, h, i)
        PROVE  Sound'
    BY <2>2, DestroySound
  <2>3. ASSUME NEW cq \in CLQueue, Verbose(t, cq) \/ FlushQueue(t, cq)
        PROVE  Sound'
    BY <2>3, CommandSound
  <2>4. ASSUME NEW cq \in CLQueue, NEW b \in BOOLEAN, Record(t, cq, b)
        PROVE  Sound'
    BY <2>4, CommandSound
  <2> QED
    BY <1>2, <2>1, <2>2, <2>3, <2>4 DEF Continue
<1>3. CASE Deinit
  BY <1>3, QuietSound DEF Deinit, appVars
<1>4. CASE UNCHANGED vars
  BY <1>4, QuietSound DEF vars, instanceVars, appVars
<1> QED
  BY <1>1, <1>2, <1>3, <1>4 DEF Next

\* Only the destruction of an instance may race, and a race is remembered.
LEMMA RacedStep ==
  ASSUME [Next]_vars
  PROVE  \/ raced' = raced
         \/ \E t \in Thread, h \in DotGraph, i \in Instance :
              /\ call[t] = Destroying(h, i)
              /\ raced' = (raced \/ \E u \in Thread \ {t} : call[u] \in ReleaseCalls(h))
<1>1. ASSUME NEW t \in Thread, Begin(t)
      PROVE  raced' = raced
  <2>1. ASSUME NEW h \in DotGraph, NEW i \in Instance, NEW Q, CreateDotGraph(t, h, i, Q)
        PROVE  raced' = raced
    BY <2>1 DEF CreateDotGraph
  <2>2. ASSUME NEW i \in Instance, NEW R, CreateDotGraphFails(t, i, R)
        PROVE  raced' = raced
    BY <2>2 DEF CreateDotGraphFails, historyVars
  <2>3. ASSUME NEW h \in DotGraph, Retain(t, h) \/ Release(t, h)
        PROVE  raced' = raced
    BY <2>3 DEF Retain, Release, historyVars
  <2>4. ASSUME NEW h \in DotGraph, NEW u \in Thread, HandOver(t, u, h)
        PROVE  raced' = raced
    BY <2>4 DEF HandOver, historyVars
  <2>5. ASSUME NEW cq \in CLQueue, CreateQueue(t, cq) \/ Enqueue(t, cq)
        PROVE  raced' = raced
    BY <2>5 DEF CreateQueue, Enqueue, historyVars
  <2> QED
    BY <1>1, <2>1, <2>2, <2>3, <2>4, <2>5 DEF Begin
<1>2. ASSUME NEW t \in Thread, Continue(t),
             ~\E h \in DotGraph, i \in Instance : DestroyVizInstance(t, h, i)
      PROVE  raced' = raced
  <2>1. ASSUME NEW h \in DotGraph, Load(t, h) \/ ReadInstance(t, h) \/ DeleteThis(t, h)
        PROVE  raced' = raced
    BY <2>1 DEF Load, ReadInstance, DeleteThis, historyVars
  <2>2. ASSUME NEW cq \in CLQueue, Verbose(t, cq) \/ FlushQueue(t, cq)
        PROVE  raced' = raced
    BY <2>2 DEF Verbose, FlushQueue, historyVars
  <2>3. ASSUME NEW cq \in CLQueue, NEW b \in BOOLEAN, Record(t, cq, b)
        PROVE  raced' = raced
    BY <2>3 DEF Record, historyVars
  <2> QED
    BY <1>2, <2>1, <2>2, <2>3 DEF Continue
<1>3. ASSUME NEW t \in Thread, NEW h \in DotGraph, NEW i \in Instance,
             DestroyVizInstance(t, h, i)
      PROVE  /\ call[t] = Destroying(h, i)
             /\ raced' = (raced \/ \E u \in Thread \ {t} : call[u] \in ReleaseCalls(h))
  BY <1>3 DEF DestroyVizInstance, At
<1>4. CASE Deinit \/ UNCHANGED vars
  BY <1>4 DEF Deinit, vars, historyVars
<1>5. Next \/ UNCHANGED vars
  OBVIOUS
<1>6. (\E t \in Thread : Begin(t) \/ Continue(t)) \/ Deinit \/ UNCHANGED vars
  BY <1>5 DEF Next
<1> QED
  BY <1>1, <1>2, <1>3, <1>4, <1>6

LEMMA RacedStays == raced /\ [Next]_vars => raced'
BY RacedStep

\* The inductive invariant holds in every reachable state, whatever threads
\* hold and release references and whatever addresses are used again: up to
\* the first release that closes a handle under another, the count is exact,
\* what is held or being released is alive, open handles have live instances
\* of their own, and an object nobody holds has a release on its way.
THEOREM Invariance == Spec => []ContextIInv
<1>1. Init => ContextIInv
  BY InitSound DEF ContextIInv, Sound
<1>2. ContextIInv /\ [Next]_vars => ContextIInv'
  BY TypePreserved, ListPreserved, SoundPreserved, RacedStays DEF ContextIInv, Sound
<1> QED
  BY <1>1, <1>2, PTL DEF Spec

\* The list is exact in every reachable state, also when a release that comes
\* too late deletes the instance of another handle: deleting an instance and
\* taking it off the list are one critical section, and so are listing it and
\* its creation, even if that creation then fails.
THEOREM ListStaysExact == Spec => []ListIsExact
<1>1. ContextIInv => ListIsExact
  BY DEF ContextIInv
<1> QED
  BY <1>1, Invariance, PTL

\* A handle that is held is open, with an instance that is live and listed.
LEMMA OwnedIsKept ==
  ASSUME ContextIInv, ~raced, process # "ended", NEW h \in DotGraph, Owned(h)
  PROVE  /\ object[h] = "live" /\ MInstance[h] \in Instance
         /\ instance[MInstance[h]] = "live" /\ MInstance[h] \in MInstances
         /\ listed[h] \subseteq MQueueMap[MInstance[h]]
<1>1. HandleSound(h) /\ Open(h) /\ object[h] = "live"
  BY HeldFacts DEF ContextIInv
<1>2. MInstance[h] \in Instance
  BY <1>1 DEF ContextIInv, TypeOK
<1>3. instance[MInstance[h]] = "live" /\ listed[h] \subseteq MQueueMap[MInstance[h]]
  BY <1>1 DEF HandleSound, InstanceKept
<1> QED
  BY <1>1, <1>2, <1>3 DEF ContextIInv, ListIsExact

\* Whoever holds a reference holds a live object with a live instance,
\* although the decrement of a count and the look at it are two steps, until a
\* release closes a handle while another release of it is under way.
THEOREM OwnersAreSafe == Spec => []OwnersSafe
<1>1. ContextIInv => OwnersSafe
  BY OwnedIsKept DEF OwnersSafe
<1> QED
  BY <1>1, Invariance, PTL

\* While a reference is held, what is recorded on a queue the handle was
\* created with goes to its instance, up to the first race.
THEOREM OwnersAreRecorded == Spec => OwnersCapture
<1> DEFINE Capture == \A t \in Thread, cq \in CLQueue, blocking \in BOOLEAN :
      Record(t, cq, blocking) /\ ~raced =>
        \A h \in DotGraph : Owned(h) /\ cq \in listed[h] => cq \in captured'[MInstance[h]]
<1>1. ContextIInv => Capture
  <2> SUFFICES ASSUME ContextIInv, NEW t \in Thread, NEW cq \in CLQueue,
                      NEW blocking \in BOOLEAN, Record(t, cq, blocking), ~raced,
                      NEW h \in DotGraph, Owned(h), cq \in listed[h]
               PROVE  cq \in captured'[MInstance[h]]
    OBVIOUS
  <2>1. /\ MInstance[h] \in Instance /\ MInstance[h] \in MInstances
        /\ listed[h] \subseteq MQueueMap[MInstance[h]]
    BY OwnedIsKept DEF Record, At
  <2> QED
    BY <2>1 DEF Record
<1> QED
  BY <1>1, Invariance, PTL DEF OwnersCapture

\* A live object that nobody holds has a release on its way that will close
\* it: no release leaves that to another which has already looked.
THEOREM ClosersCome == Spec => [](~raced => \A h \in DotGraph : CloserUnderWay(h))
<1>1. ContextIInv => (~raced => \A h \in DotGraph : CloserUnderWay(h))
  BY DEF ContextIInv, HandleSound
<1> QED
  BY <1>1, Invariance, PTL

\* A single thread destroys the instance of a handle once: it takes two
\* threads between the decrement and the look at the count to do it twice.
Alone == \A t, u \in Thread : t = u

THEOREM AloneDestroysOnce == ASSUME Alone PROVE Spec => DestroyedOnce
<1> DEFINE Once == \A t \in Thread, h \in DotGraph, i \in Instance :
                     DestroyVizInstance(t, h, i) => h \notin destroyed
<1>1. Init => ~raced
  BY DEF Init
<1>2. ~raced /\ [Next]_vars => ~raced'
  BY RacedStep DEF Alone
<1>3. ContextIInv /\ ~raced => Once
  <2> SUFFICES ASSUME ContextIInv, ~raced, NEW t \in Thread, NEW h \in DotGraph,
                      NEW i \in Instance, DestroyVizInstance(t, h, i)
               PROVE  h \notin destroyed
    OBVIOUS
  <2>1. HandleSound(h) /\ call[t] = Destroying(h, i)
    BY DEF ContextIInv, DestroyVizInstance, At
  <2>2. Closing(t, h) /\ call[t] # Deleting(h)
    BY <2>1, CallFacts DEF Closing
  <2>3. Open(h)
    BY <2>1, <2>2, ClosingFacts
  <2> QED
    BY <2>1, <2>3 DEF HandleSound, NotYetDestroyed
<1>4. Spec => []~raced
  BY <1>1, <1>2, PTL DEF Spec
<1> QED
  BY <1>3, <1>4, Invariance, PTL DEF DestroyedOnce
=============================================================================

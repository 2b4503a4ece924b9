----------------------------- MODULE DagProofs -----------------------------
(***************************************************************************)
(* Facts about the closed sets of Dag, for every graph.  They are what the *)
(* proofs about the recording and about its traversal rest on.             *)
(***************************************************************************)
EXTENDS Dag, TLAPS

\* A traversal arrives at the nodes it starts from.
LEMMA ReachHasStart ==
  ASSUME NEW pred, NEW S, S \subseteq DOMAIN pred
  PROVE  S \subseteq Reach(S, pred)
  BY DEF Reach

\* What a traversal arrives at is within every closed set that includes its
\* start.
LEMMA ReachLeast ==
  ASSUME NEW pred, NEW S, NEW C \in SUBSET DOMAIN pred,
         S \subseteq C, Closed(C, pred)
  PROVE  Reach(S, pred) \subseteq C
  BY DEF Reach

\* What a traversal arrives at is closed.
LEMMA ReachClosed ==
  ASSUME NEW N, NEW pred \in [N -> SUBSET N], NEW S
  PROVE  Reach(S, pred) \in SUBSET N /\ Closed(Reach(S, pred), pred)
<1>1. DOMAIN pred = N
  OBVIOUS
<1>2. Reach(S, pred) \in SUBSET N
  BY <1>1 DEF Reach
<1>3. ASSUME NEW n \in Reach(S, pred), NEW m \in pred[n]
      PROVE  m \in Reach(S, pred)
  <2>1. n \in N /\ m \in N
    BY <1>2, <1>3
  <2>2. SUFFICES ASSUME NEW C \in SUBSET N, S \subseteq C, Closed(C, pred)
                 PROVE  m \in C
    BY <1>1, <2>1 DEF Reach
  <2>3. n \in C
    BY <1>1, <1>3, <2>2 DEF Reach
  <2> QED
    BY <1>3, <2>2, <2>3 DEF Closed
<1> QED
  BY <1>2, <1>3 DEF Closed

\* P is what is missing of S and its ancestors in the closed set D.
Completes(P, S, D, pred, N) ==
  /\ P \in SUBSET N
  /\ P \cap D = {}
  /\ S \subseteq D \cup P
  /\ Closed(D \cup P, pred)
  /\ \A n \in P : pred[n] \ D \subseteq P
  /\ \A C \in SUBSET N : S \subseteq C /\ Closed(C, pred) => P \subseteq C

\* What flush prints.  If the defined nodes D are closed, then a traversal
\* that starts at S and stops at D adds only nodes that are not in D, and D
\* with the nodes added is closed again and includes S.
LEMMA UndefinedReach ==
  ASSUME NEW N, NEW pred \in [N -> SUBSET N],
         NEW D \in SUBSET N, Closed(D, pred), NEW S \in SUBSET N
  PROVE  Completes(Reach(S \ D, Without(pred, D)), S, D, pred, N)
<1> DEFINE P == Reach(S \ D, Without(pred, D))
<1> DEFINE rest == [n \in N |-> pred[n] \ D]
<1>1. rest \in [N -> SUBSET N] /\ DOMAIN rest = N
  OBVIOUS
<1>2. P = Reach(S \ D, rest)
  BY DEF Without
<1>3. P \in SUBSET N /\ Closed(P, rest)
  BY <1>1, <1>2, ReachClosed
<1>4. \A n \in P : pred[n] \ D \subseteq P
  BY <1>3 DEF Closed
<1>5. P \subseteq N \ D
  <2>1. S \ D \subseteq N \ D /\ N \ D \in SUBSET N
    OBVIOUS
  <2>2. Closed(N \ D, rest)
    BY DEF Closed
  <2> QED
    BY <1>1, <1>2, <2>1, <2>2, ReachLeast
<1>6. S \ D \subseteq P
  BY <1>1, <1>2, ReachHasStart
<1>7. Closed(D \cup P, pred)
  BY <1>4 DEF Closed
<1>8. ASSUME NEW C \in SUBSET N, S \subseteq C, Closed(C, pred)
      PROVE  P \subseteq C
  <2>1. Closed(C, rest)
    BY <1>8 DEF Closed
  <2> QED
    BY <1>1, <1>2, <1>8, <2>1, ReachLeast
<1> HIDE DEF P
<1> QED
  BY <1>3, <1>4, <1>5, <1>6, <1>7, <1>8 DEF P, Completes

\* The ancestors of a node include its predecessors, are closed, and are in
\* every closed set that includes its predecessors.
LEMMA AncestorsFacts ==
  ASSUME NEW N, NEW pred \in [N -> SUBSET N], NEW n \in N
  PROVE  /\ Ancestors(n, pred) \in SUBSET N
         /\ pred[n] \subseteq Ancestors(n, pred)
         /\ Closed(Ancestors(n, pred), pred)
         /\ \A C \in SUBSET N :
              pred[n] \subseteq C /\ Closed(C, pred) => Ancestors(n, pred) \subseteq C
<1>1. DOMAIN pred = N
  OBVIOUS
<1>2. pred[n] \subseteq DOMAIN pred
  BY <1>1
<1>3. pred[n] \subseteq Ancestors(n, pred)
  BY <1>2, ReachHasStart DEF Ancestors
<1>4. Ancestors(n, pred) \in SUBSET N /\ Closed(Ancestors(n, pred), pred)
  BY ReachClosed DEF Ancestors
<1>5. \A C \in SUBSET N :
        pred[n] \subseteq C /\ Closed(C, pred) => Ancestors(n, pred) \subseteq C
  BY <1>1, ReachLeast DEF Ancestors
<1> QED
  BY <1>3, <1>4, <1>5

-----------------------------------------------------------------------------
(***************************************************************************)
(* A node joins the graph.                                                 *)
(***************************************************************************)

\* The nodes S with all they are ordered after.
WithAncestors(S, pred) == S \cup UNION {Ancestors(n, pred) : n \in S}

\* That is the least closed set that includes S.
LEMMA WithAncestorsFacts ==
  ASSUME NEW N, NEW pred \in [N -> SUBSET N], NEW S \in SUBSET N
  PROVE  /\ WithAncestors(S, pred) \in SUBSET N
         /\ S \subseteq WithAncestors(S, pred)
         /\ Closed(WithAncestors(S, pred), pred)
         /\ \A C \in SUBSET N :
              S \subseteq C /\ Closed(C, pred) => WithAncestors(S, pred) \subseteq C
<1> DEFINE W == S \cup UNION {Ancestors(n, pred) : n \in S}
<1>1. \A n \in S :
        /\ Ancestors(n, pred) \in SUBSET N
        /\ pred[n] \subseteq Ancestors(n, pred)
        /\ Closed(Ancestors(n, pred), pred)
        /\ \A C \in SUBSET N :
             pred[n] \subseteq C /\ Closed(C, pred) => Ancestors(n, pred) \subseteq C
  BY AncestorsFacts
<1>2. W \in SUBSET N /\ S \subseteq W
  BY <1>1
<1>3. ASSUME NEW m \in W PROVE pred[m] \subseteq W
  <2>1. CASE m \in S
    BY <1>1, <2>1
  <2>2. ASSUME NEW n \in S, m \in Ancestors(n, pred)
        PROVE  pred[m] \subseteq W
    BY <1>1, <2>2 DEF Closed
  <2> QED
    BY <1>3, <2>1, <2>2
<1>4. ASSUME NEW C \in SUBSET N, S \subseteq C, Closed(C, pred)
      PROVE  W \subseteq C
  BY <1>1, <1>4 DEF Closed
<1>5. WithAncestors(S, pred) = W
  BY DEF WithAncestors
<1>6. Closed(W, pred)
  BY <1>3 DEF Closed
<1> QED
  BY <1>2, <1>4, <1>5, <1>6

\* Edges of a new node k leave the ancestors of the other nodes as they were.
LEMMA OldNodesKeep ==
  ASSUME NEW N, NEW pred \in [N -> SUBSET N], NEW k \in N,
         \A n \in N : k \notin pred[n], NEW grown \in [N -> SUBSET N],
         \A n \in N : n # k => grown[n] = pred[n], NEW n \in N, n # k
  PROVE  Ancestors(n, grown) = Ancestors(n, pred)
<1>1. /\ Ancestors(n, grown) \in SUBSET N
      /\ pred[n] \subseteq Ancestors(n, grown)
      /\ Closed(Ancestors(n, grown), grown)
      /\ \A C \in SUBSET N :
           pred[n] \subseteq C /\ Closed(C, grown) => Ancestors(n, grown) \subseteq C
  <2>1. grown[n] = pred[n]
    OBVIOUS
  <2> QED
    BY <2>1, AncestorsFacts
<1>2. /\ Ancestors(n, pred) \in SUBSET N
      /\ pred[n] \subseteq Ancestors(n, pred)
      /\ Closed(Ancestors(n, pred), pred)
      /\ \A C \in SUBSET N :
           pred[n] \subseteq C /\ Closed(C, pred) => Ancestors(n, pred) \subseteq C
  BY AncestorsFacts
<1>3. N \ {k} \in SUBSET N /\ pred[n] \subseteq N \ {k} /\ Closed(N \ {k}, pred)
  BY DEF Closed
<1>4. Ancestors(n, pred) \subseteq N \ {k}
  BY <1>2, <1>3
<1>5. Closed(Ancestors(n, pred), grown)
  BY <1>2, <1>4 DEF Closed
<1>6. Ancestors(n, grown) \subseteq N \ {k}
  <2>1. Closed(N \ {k}, grown)
    BY DEF Closed
  <2> QED
    BY <1>1, <1>3, <2>1
<1>7. Closed(Ancestors(n, grown), pred)
  BY <1>1, <1>6 DEF Closed
<1> QED
  BY <1>1, <1>2, <1>5, <1>7

\* If the edges of a new node k stand for edges from all of D, then k is
\* ordered after exactly D and all that is ordered after.
LEMMA NewNodeFollows ==
  ASSUME NEW N, NEW pred \in [N -> SUBSET N], NEW k \in N, pred[k] = {},
         \A n \in N : k \notin pred[n],
         NEW grown \in [N -> SUBSET N], k \notin grown[k],
         \A n \in N : n # k => grown[n] = pred[n],
         NEW D \in SUBSET N, grown[k] \subseteq D,
         \A C \in SUBSET N : grown[k] \subseteq C /\ Closed(C, pred) => D \subseteq C
  PROVE  Ancestors(k, grown) = WithAncestors(D, pred)
<1> DEFINE P == grown[k]
<1>1. P \in SUBSET N
  OBVIOUS
<1>2. \A C \in SUBSET N : Closed(C, grown) => Closed(C, pred)
  BY DEF Closed
<1>3. \A C \in SUBSET N : k \notin C /\ Closed(C, pred) => Closed(C, grown)
  BY DEF Closed
<1>4. N \ {k} \in SUBSET N /\ P \subseteq N \ {k} /\ Closed(N \ {k}, pred)
  BY DEF Closed
<1>5. /\ Ancestors(k, grown) \in SUBSET N
      /\ P \subseteq Ancestors(k, grown)
      /\ Closed(Ancestors(k, grown), grown)
      /\ \A C \in SUBSET N :
           P \subseteq C /\ Closed(C, grown) => Ancestors(k, grown) \subseteq C
  BY AncestorsFacts
<1>6. /\ WithAncestors(D, pred) \in SUBSET N
      /\ D \subseteq WithAncestors(D, pred)
      /\ Closed(WithAncestors(D, pred), pred)
      /\ \A C \in SUBSET N :
           D \subseteq C /\ Closed(C, pred) => WithAncestors(D, pred) \subseteq C
  BY WithAncestorsFacts
<1>7. WithAncestors(D, pred) \subseteq Ancestors(k, grown)
  BY <1>2, <1>5, <1>6
<1>8. D \subseteq N \ {k}
  BY <1>4
<1>9. k \notin WithAncestors(D, pred)
  BY <1>4, <1>6, <1>8
<1>10. Ancestors(k, grown) \subseteq WithAncestors(D, pred)
  BY <1>3, <1>5, <1>6, <1>9
<1> QED
  BY <1>7, <1>10
=============================================================================

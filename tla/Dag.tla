-------------------------------- MODULE Dag --------------------------------
(***************************************************************************)
(* Reachability in the graph of recorded commands.  A graph is a function  *)
(* from nodes to the set of their predecessors, as VizNode::MPreds is.     *)
(*                                                                         *)
(* Reachability is written without recursion, as the least closed set, so  *)
(* that the modules that use it can be proved about: what a loop over      *)
(* predecessors collects is exactly that set.                              *)
(***************************************************************************)

(***************************************************************************)
(* A set of nodes is closed when it holds the predecessors of its members. *)
(***************************************************************************)
Closed(C, pred) == \A n \in C : pred[n] \subseteq C

(***************************************************************************)
(* The nodes a traversal that starts at S and follows pred arrives at:     *)
(* the members of every closed set that includes S.                        *)
(***************************************************************************)
Reach(S, pred) ==
  {n \in DOMAIN pred :
     \A C \in SUBSET DOMAIN pred : S \subseteq C /\ Closed(C, pred) => n \in C}

(***************************************************************************)
(* The graph as a traversal sees it that does not enter D.                 *)
(***************************************************************************)
Without(pred, D) == [n \in DOMAIN pred |-> pred[n] \ D]

(***************************************************************************)
(* The nodes that n is ordered after, by one edge or by a path of edges.   *)
(***************************************************************************)
Ancestors(n, pred) == Reach(pred[n], pred)
=============================================================================

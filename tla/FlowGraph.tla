----------------------------- MODULE FlowGraph -----------------------------
(***************************************************************************)
(* A flow file as its validation sees it, a graph of node references, and  *)
(* what it takes for the graph to be runnable, stated without walking it.  *)
(* Validate holds the walk of validate.c against Sound; Loader uses Sound  *)
(* as the contract of the validation it ends with.                         *)
(***************************************************************************)
EXTENDS Integers, Sequences, FiniteSets

CONSTANT Ref       \* node references a file may use

ASSUME RefAssumption == IsFiniteSet(Ref)

(* Whether flow.id is set, the entry links, the references that are        *)
(* declared (ensure_node, load.c), their links, and which of them have a   *)
(* file or an exec.                                                        *)
ModelType ==
  [id     : BOOLEAN,
   entry  : Seq(Ref),
   nodes  : SUBSET Ref,
   links  : [Ref -> Seq(Ref)],
   work   : SUBSET Ref]

Elements(s) == {s[k] : k \in DOMAIN s}

Void(m, n) == n \notin m.work /\ m.links[n] = <<>>

(* What a walk has to cover: the least set that has the entry links and is *)
(* closed under the links of declared nodes.                               *)
Closed(m, S) == \A n \in S \cap m.nodes : Elements(m.links[n]) \subseteq S
Reachable(m) ==
  {n \in Ref : \A S \in SUBSET Ref :
                 Elements(m.entry) \subseteq S /\ Closed(m, S) => n \in S}

(* A numbering in which every link of a node of S goes to a smaller number *)
(* exists exactly when no cycle can be followed inside S.                  *)
Ranks(m, rank, S) ==
  \A n \in S : \A p \in Elements(m.links[n]) : rank[p] < rank[n]
Acyclic(m, S) == \E rank \in [Ref -> 1..Cardinality(Ref)] : Ranks(m, rank, S)

(* The file is complete, all it reaches is declared and no cycle is        *)
(* reached.                                                                *)
Sound(m) ==
  /\ m.id /\ m.entry # <<>>
  /\ \A n \in m.nodes : ~ Void(m, n)
  /\ Reachable(m) \subseteq m.nodes
  /\ Acyclic(m, Reachable(m))
=============================================================================

---------------------------- MODULE FlowBranches ----------------------------
(***************************************************************************)
(* What a flow means, by recursion on the flow files alone (README.md,     *)
(* "Execution Semantics"): the sequence of its terminal branches, each     *)
(* given by the trail of nodes whose commands it went through.  There are  *)
(* no descriptors, lists, limits or offsets here; BranchRuntime is held    *)
(* against these definitions at the end of its runs.                       *)
(***************************************************************************)
EXTENDS BranchRuntime, SequencesExt

Trail == Seq(Node \cup {Root})

(* What a branch becomes at each target in turn, when W[n][trail] is what  *)
(* it becomes at node n; and what each of several branches becomes there.  *)
Visit(W, targets, trail) == FlattenSeq([k \in DOMAIN targets |-> W[targets[k]][trail]])

VisitEach(W, targets, trails) ==
  FlattenSeq([k \in DOMAIN trails |-> Visit(W, targets, trails[k])])

(* A command reads the branch it is given, except after an expansion, where*)
(* the code hands it the descriptor at its end.                            *)
Ran(p, n, trails) ==
  [k \in DOMAIN trails |-> Append(IF p.file[n] = NoFile THEN trails[k] ELSE <<>>, n)]

Applied(p, n, trails) == IF p.exec[n] THEN Ran(p, n, trails) ELSE trails

Forwarded(W, p, n, trails) ==
  IF p.links[n] = <<>> THEN trails ELSE VisitEach(W, p.links[n], trails)

(* The terminal branches one branch becomes when it enters node n: expand  *)
(* file, apply exec to each result, open every link for each of these.     *)
Becomes(W, p, n, trail) ==
  LET expanded == IF p.file[n] = NoFile THEN <<trail>>
                                        ELSE Visit(W, p.entry[p.file[n]], trail)
  IN  Forwarded(W, p, n, Applied(p, n, expanded))

Walk(p) == LET W[n \in Node] == [trail \in Trail |-> Becomes(W, p, n, trail)] IN W

Start == IF cfg.fd_in = NoFd THEN <<>> ELSE <<Root>>

Branches == Visit(Walk(prog), prog.entry[Main], Start)

(* No flow file includes itself, through however many others: then Walk is *)
(* defined for every node.                                                 *)
Nested(p) ==
  \E depth \in [Node -> 1..Cardinality(Node)] :
    \A n \in Node :
      /\ \A k \in DOMAIN p.links[n] : depth[p.links[n][k]] < depth[n]
      /\ p.file[n] # NoFile =>
           \A k \in DOMAIN p.entry[p.file[n]] : depth[p.entry[p.file[n]][k]] < depth[n]

(* A successful run writes the branches the flow files describe, all of    *)
(* them and in their order.                                                *)
OutputIsFlowBranches == result = "ok" => flushed = Branches

(* Without failures of the environment, a run fails exactly when the flow  *)
(* has more terminal branches than KC_FLOW_MAX_BRANCHES: no intermediate   *)
(* list overflows first, and none hides the overflow.                      *)
FailsExactlyAtLimit ==
  result # "none" => (result = "ok" <=> Len(Branches) <= MaxBranches)
============================================================================

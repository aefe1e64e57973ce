------------------------------ MODULE Validate ------------------------------
(***************************************************************************)
(* kc_flow_validate_model and kc_flow_validate_node_walk (validate.c): the *)
(* checks a loaded file has to pass, and the depth-first walk that finds   *)
(* unknown links and cycles among the nodes that can be reached.  The C    *)
(* recursion is the sequence `walk` of activations.                        *)
(***************************************************************************)
EXTENDS FlowGraph

CONSTANT Models    \* files to validate

ASSUME ModelsAssumption == Models \subseteq ModelType

VARIABLES
  model,
  verdict,   \* "none" while validation runs, then "ok" or what it reported
  e,         \* the loop over entry links
  seen,      \* seen[] and stack[], as the sets of marked nodes
  onstack,
  walk,      \* activations of validate_node_walk: the node and its loop
  clock,     \* history: how many activations have returned,
  finished   \* history: and at which count each node's did

vars == <<model, verdict, e, seen, onstack, walk, clock, finished>>

Verdicts == {"none", "ok", "no id", "no link", "void node", "unknown link", "cycle"}

Frame == [node : Ref, i : Nat \ {0}]

Init ==
  /\ model \in Models
  /\ verdict = "none"
  /\ e = 0
  /\ seen = {} /\ onstack = {}
  /\ walk = <<>>
  /\ clock = 0
  /\ finished = [n \in Ref |-> 0]

(* Operators marked "mistake" are what a plausible slip would make of the  *)
(* definition that follows them; nothing in the specification uses them.   *)

Report(v) ==
  /\ verdict' = v
  /\ UNCHANGED <<model, e, seen, onstack, walk, clock, finished>>

----------------------------------------------------------------------------
(* The checks before the walk; e = 0 until they have passed.               *)

Preliminary == verdict = "none" /\ e = 0

MissingId   == Preliminary /\ ~ model.id /\ Report("no id")
MissingLink == Preliminary /\ model.id /\ model.entry = <<>> /\ Report("no link")
VoidNode ==
  /\ Preliminary /\ model.id /\ model.entry # <<>>
  /\ \E n \in model.nodes : Void(model, n)
  /\ Report("void node")

StartWalk ==
  /\ Preliminary /\ model.id /\ model.entry # <<>>
  /\ \A n \in model.nodes : ~ Void(model, n)
  /\ e' = 1
  /\ UNCHANGED <<model, verdict, seen, onstack, walk, clock, finished>>

----------------------------------------------------------------------------
(* The walk.  `Next link` is the reference find_node looks up now: an entry*)
(* link when no activation is pending, else a link of the innermost one.   *)

Walking == verdict = "none" /\ e > 0
Inner   == walk[Len(walk)]

(* mistake: the last link of a list is left out *)
PendingButLast ==
  IF walk = <<>> THEN e < Len(model.entry)
                 ELSE Inner.i < Len(model.links[Inner.node])

Pending ==
  IF walk = <<>> THEN e \in DOMAIN model.entry
                 ELSE Inner.i \in DOMAIN model.links[Inner.node]
Link == IF walk = <<>> THEN model.entry[e] ELSE model.links[Inner.node][Inner.i]

Unknown ==
  /\ Walking /\ Pending
  /\ Link \notin model.nodes
  /\ Report("unknown link")

Cycle ==
  /\ Walking /\ Pending
  /\ Link \in model.nodes /\ Link \in onstack
  /\ Report("cycle")

(* mistake: a nested loop does not move on *)
AdvanceEntryOnly(w) ==
  /\ e' = IF w = <<>> THEN e + 1 ELSE e
  /\ walk' = w

(* Back in the loop that asked for the link: it takes the next one.        *)
Advance(w) ==
  IF w = <<>> THEN e' = e + 1 /\ walk' = w
              ELSE e' = e /\ walk' = [w EXCEPT ![Len(w)].i = @ + 1]

AlreadySeen ==
  /\ Walking /\ Pending
  /\ Link \in model.nodes /\ Link \notin onstack /\ Link \in seen
  /\ Advance(walk)
  /\ UNCHANGED <<model, verdict, seen, onstack, clock, finished>>

(* mistake: a link is followed although find_node returned NULL *)
DescendUnchecked ==
  /\ Walking /\ Pending
  /\ Link \notin onstack /\ Link \notin seen
  /\ seen' = seen \cup {Link}
  /\ onstack' = onstack \cup {Link}
  /\ walk' = Append(walk, [node |-> Link, i |-> 1])
  /\ UNCHANGED <<model, verdict, e, clock, finished>>

Descend ==
  /\ Walking /\ Pending
  /\ Link \in model.nodes /\ Link \notin onstack /\ Link \notin seen
  /\ seen' = seen \cup {Link}
  /\ onstack' = onstack \cup {Link}
  /\ walk' = Append(walk, [node |-> Link, i |-> 1])
  /\ UNCHANGED <<model, verdict, e, clock, finished>>

(* mistake: stack[index] is not cleared *)
ReturnMarked ==
  /\ Walking /\ walk # <<>> /\ ~ Pending
  /\ Advance(SubSeq(walk, 1, Len(walk) - 1))
  /\ clock' = clock + 1
  /\ finished' = [finished EXCEPT ![Inner.node] = clock']
  /\ UNCHANGED <<model, verdict, seen, onstack>>

Return ==
  /\ Walking /\ walk # <<>> /\ ~ Pending
  /\ onstack' = onstack \ {Inner.node}
  /\ Advance(SubSeq(walk, 1, Len(walk) - 1))
  /\ clock' = clock + 1
  /\ finished' = [finished EXCEPT ![Inner.node] = clock']
  /\ UNCHANGED <<model, verdict, seen>>

Accept ==
  /\ Walking /\ walk = <<>> /\ ~ Pending
  /\ Report("ok")

Done == verdict # "none" /\ UNCHANGED vars

Next ==
  \/ MissingId \/ MissingLink \/ VoidNode \/ StartWalk
  \/ Unknown \/ Cycle \/ AlreadySeen \/ Descend \/ Return \/ Accept \/ Done

Spec     == Init /\ [][Next]_vars
FairSpec == Spec /\ WF_vars(Next)

----------------------------------------------------------------------------
(* Properties                                                              *)

(* The type of every variable.                                             *)
TypeOK ==
  /\ model \in Models
  /\ verdict \in Verdicts
  /\ e \in Nat
  /\ seen \subseteq model.nodes
  /\ onstack \subseteq seen
  /\ walk \in Seq(Frame)
  /\ clock \in Nat
  /\ finished \in [Ref -> Nat]

(* A verdict is right about the graph: "ok" exactly when the file is       *)
(* complete, all it reaches is declared and no cycle is reached; otherwise *)
(* the fault that is reported is there.                                    *)
VerdictIsRight ==
  /\ verdict = "ok" <=> verdict # "none" /\ Sound(model)
  /\ verdict = "no id" => ~ model.id
  /\ verdict = "no link" => model.entry = <<>>
  /\ verdict = "void node" => \E n \in model.nodes : Void(model, n)
  /\ verdict = "unknown link" => ~ (Reachable(model) \subseteq model.nodes)
  /\ verdict = "cycle" => ~ Acyclic(model, Reachable(model) \cap model.nodes)

(* What the engine needs of a file it runs (its recursion follows links    *)
(* without looking): the nodes validation accepted are closed under links, *)
(* all declared, and the order in which their walks returned decreases     *)
(* along every link, so that no chain of links is longer than the file.    *)
AcceptedIsRunnable ==
  verdict = "ok" =>
    /\ Elements(model.entry) \subseteq seen
    /\ Closed(model, seen)
    /\ Ranks(model, finished, seen)
    /\ \A n \in seen : finished[n] <= clock

(* The recursion is no deeper than the file has nodes, however often links *)
(* repeat: the activations are of different nodes, the ones marked in      *)
(* stack[], and each was reached over a link of the one before.  So a link *)
(* to a marked node closes a cycle, and nothing else is reported as one.   *)
WalkIsPath ==
  /\ \A k, l \in DOMAIN walk : walk[k].node = walk[l].node => k = l
  /\ onstack = {walk[k].node : k \in DOMAIN walk}
  /\ walk # <<>> => e \in DOMAIN model.entry /\ walk[1].node = model.entry[e]
  /\ \A k \in DOMAIN walk :
       k > 1 => /\ walk[k - 1].i \in DOMAIN model.links[walk[k - 1].node]
                /\ walk[k].node = model.links[walk[k - 1].node][walk[k - 1].i]

(* Validation ends: also on graphs with cycles and shared nodes.           *)
Termination == <>(verdict # "none")
=============================================================================

--------------------------- MODULE SupervisedRun ---------------------------
(***************************************************************************)
(* BranchRuntime implements Supervision: the supervisor's view, computed   *)
(* from the call stack.  A frame between the call of run_node and its      *)
(* node.started ("enter") is not visible yet; a frame that unwinds shows   *)
(* only as the failure that follows.                                       *)
(***************************************************************************)
EXTENDS BranchRuntime

(* The nodes of the frames above run_model.                                *)
NodesOf(s) == [k \in 1..Len(s) - 1 |-> s[k + 1].node]

(* Only the innermost frame can be at "enter": its callers are past it.    *)
StartedIn(s) ==
  IF s = <<>> THEN <<>>
  ELSE IF s[Len(s)].stage = "enter" THEN NodesOf(SubSeq(s, 1, Len(s) - 1))
  ELSE NodesOf(s)

PhaseIn(s, outcome) ==
  IF s = <<>> THEN outcome
  ELSE CASE s[Len(s)].stage = "err"   -> "failing"
         [] s[Len(s)].stage = "flush" -> "writing"
         [] OTHER                     -> "running"

Started == StartedIn(stack)
Phase   == PhaseIn(stack, result)

Seen == INSTANCE Supervision WITH open <- Started, phase <- Phase, written <- flushed

(* What main, run_model and run_node emit and write, on every path, is what*)
(* the abstract specification lets a supervisor expect.                    *)
ImplementsSupervision == Seen!Spec

(* Nothing is started, and nothing written to --fd-out, once a node failed;*)
(* only the failures of its callers and of the run are still reported.     *)
FailStop == Seen!FailStop

(* The status events nest like the calls do: at every point the nodes that *)
(* were started and not finished are the ones being run, outermost first;  *)
(* a node whose params failed is never started.                            *)
EventsFollowCalls == Seen!EventsTellOpen

(* run.finished is the last event, and by then every node is finished.     *)
FinishedIsLast ==
  result # "none" =>
    Seen!OpenNodes = <<>> /\ log[Len(log)] = Event("run.finished", Root, result)
============================================================================

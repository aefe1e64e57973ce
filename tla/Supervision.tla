---------------------------- MODULE Supervision ----------------------------
(***************************************************************************)
(* A run as the program that started it sees it: the status events and the *)
(* branches written to --fd-out.  There are no descriptors, lists, limits  *)
(* or stages here, only what a supervisor may rely on: nodes open and close*)
(* like brackets, along entries and links of the flow files, the output    *)
(* comes after the last of them, and a failure is final.                   *)
(* SupervisedRun says how BranchRuntime implements this.                   *)
(***************************************************************************)
EXTENDS Integers, Sequences

CONSTANTS
  Node,      \* node records
  Main,      \* the file given to --run
  NoFile,    \* "node has no file field"
  Root       \* the subject of the events of the run itself

VARIABLES
  prog,      \* the flow files
  open,      \* the nodes that are started and not finished, outermost first
  phase,     \* how far the run is, or how it ended
  log,       \* the events, in order
  written    \* the branches written to --fd-out

vars == <<prog, open, phase, log, written>>

Event(name, n, status) == [event |-> name, node |-> n, status |-> status]

Occurs(n, list) == \E k \in DOMAIN list : list[k] = n

(* Where a node can be entered from: the run, a link, or the file of the   *)
(* node that is being expanded.                                            *)
MayStart(n) ==
  IF open = <<>>
    THEN Occurs(n, prog.entry[Main])
    ELSE LET m == open[Len(open)] IN
           \/ Occurs(n, prog.links[m])
           \/ prog.file[m] # NoFile /\ Occurs(n, prog.entry[prog.file[m]])

Init ==
  /\ open = <<>>
  /\ phase = "running"
  /\ log = <<Event("run.started", Root, "none")>>
  /\ written = <<>>

Start(n) ==
  /\ phase = "running" /\ MayStart(n)
  /\ open' = Append(open, n)
  /\ log' = Append(log, Event("node.started", n, "none"))
  /\ UNCHANGED <<prog, phase, written>>

(* The innermost node finishes: well while the run does, and with an error *)
(* once something in it failed.                                            *)
Finish(status) ==
  /\ open # <<>>
  /\ phase = IF status = "ok" THEN "running" ELSE "failing"
  /\ open' = SubSeq(open, 1, Len(open) - 1)
  /\ log' = Append(log, Event("node.finished", open[Len(open)], status))
  /\ UNCHANGED <<prog, phase, written>>

Break ==
  /\ phase \in {"running", "writing"}
  /\ phase' = "failing"
  /\ UNCHANGED <<prog, open, log, written>>

BeginWriting ==
  /\ phase = "running" /\ open = <<>>
  /\ phase' = "writing"
  /\ UNCHANGED <<prog, open, log, written>>

Write ==
  /\ phase = "writing"
  /\ Len(written') = Len(written) + 1
  /\ SubSeq(written', 1, Len(written)) = written
  /\ UNCHANGED <<prog, open, phase, log>>

(* A run may also fail before or between its entries.                      *)
End(status) ==
  /\ open = <<>>
  /\ phase \in IF status = "ok" THEN {"writing"} ELSE {"running", "failing"}
  /\ phase' = status
  /\ log' = Append(log, Event("run.finished", Root, status))
  /\ UNCHANGED <<prog, open, written>>

Next ==
  \/ \E n \in Node : Start(n)
  \/ \E status \in {"ok", "error"} : Finish(status) \/ End(status)
  \/ Break \/ BeginWriting \/ Write

Spec == Init /\ [][Next]_vars

(* A failed node decides the run: all that is reported after it is failure,*)
(* of the nodes around it and then of the run, and no branch is written.   *)
FailStop ==
  \A a \in DOMAIN log :
    log[a].event = "node.finished" /\ log[a].status = "error" =>
      /\ written = <<>>
      /\ \A b \in a..Len(log) : log[b].status = "error"

(* node.started opens, node.finished closes: what one event makes of the   *)
(* nodes that were open.  A node that finishes and is not the innermost    *)
(* leaves the run itself open, which no later event closes.                *)
Following(nodes, e) ==
  CASE e.event = "node.started" -> Append(nodes, e.node)
    [] e.event = "node.finished" ->
         IF nodes # <<>> /\ nodes[Len(nodes)] = e.node
           THEN SubSeq(nodes, 1, Len(nodes) - 1) ELSE Append(nodes, Root)
    [] OTHER -> nodes

OpenAfter(events) ==
  LET after[k \in 0..Len(events)] == IF k = 0 THEN <<>> ELSE Following(after[k - 1], events[k])
  IN  after[Len(events)]

OpenNodes == OpenAfter(log)

(* The events alone tell which nodes are open, at every point.             *)
EventsTellOpen == OpenNodes = open

(* run.finished is the last event, and by then every node is finished.     *)
FinishedIsLast ==
  phase \in {"ok", "error"} =>
    OpenNodes = <<>> /\ log[Len(log)] = Event("run.finished", Root, phase)
============================================================================

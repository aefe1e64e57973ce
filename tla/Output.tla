------------------------------- MODULE Output -------------------------------
(***************************************************************************)
(* The bytes of a run: its status events on --fd-status and, when all nodes*)
(* are done, its branches on --fd-out, in parts as small as read and write *)
(* make them.  A write may fail at any byte: an event is then given up and *)
(* the run goes on, a branch fails the run.                                *)
(*                                                                         *)
(* Which events there are is BranchRuntime's; here they are data.  A call  *)
(* interrupted by a signal is repeated, which is no step.                  *)
(***************************************************************************)
EXTENDS StatusLine

CONSTANTS
  BufferSize,  \* size of buffer[] in kc_flow_copy_artifact_fd
  Byte,
  Sink,        \* what descriptors can be connected to
  NoFd,        \* no such option
  Absent,      \* a branch without a descriptor
  Runs         \* possible runs: their events before run.finished, whether a
               \* node failed, their branches, and the names in run.finished

Ended(r, status) ==
  RunEvent("run.finished", r.id, r.path, <<status>>, IF status = "ok" THEN <<>> ELSE r.message)

ASSUME OutputAssumption ==
  /\ BufferSize \in Nat \ {0} /\ NoFd \notin Sink /\ Absent \notin Seq(Byte)
  /\ \A r \in Runs :
       /\ r.branches \in Seq(Seq(Byte) \cup {Absent}) /\ r.fails \in BOOLEAN
       /\ Len(r.events) \in Nat /\ DOMAIN r.events = 1..Len(r.events)
       /\ \A e \in DOMAIN r.events : Line(r.events[e]) \in Seq(Byte) \cup {Dropped}
       /\ \A status \in {"ok", "error"} : Line(Ended(r, status)) \in Seq(Byte) \cup {Dropped}

VARIABLES
  run,               \* the run, one of Runs
  outTo, statusTo,   \* where --fd-out and --fd-status lead; maybe to one place
  streams,           \* what has arrived there
  stage,             \* what the run is doing
  k, pos,            \* the event or branch it is at; the offset of the branch
  buffer, sent,      \* locals of write_all: data, and how much is written
  rc,                \* result of kc_flow_run_model
  before,            \* history: what --fd-out had before the current branch
  failed             \* history: the events whose write failed

vars == <<run, outTo, statusTo, streams, stage, k, pos, buffer, sent, rc, before, failed>>
fixed == <<run, outTo, statusTo>>

Init ==
  /\ run \in Runs /\ outTo \in Sink \cup {NoFd} /\ statusTo \in Sink \cup {NoFd}
  /\ streams = [s \in Sink |-> <<>>]
  /\ stage = "nodes" /\ k = 1 /\ pos = 0 /\ buffer = <<>> /\ sent = 0 /\ rc = "ok"
  /\ before = <<>> /\ failed = {}

----------------------------------------------------------------------------
(* kc_flow_platform_write_all, called by whoever fills the buffer          *)

Writing == buffer # <<>>
Target  == IF stage = "flush" THEN outTo ELSE statusTo

(* mistake: a short write is taken for the whole *)
WriteOnce ==
  /\ Writing
  /\ \E n \in 1..Len(buffer) :
       streams' = [streams EXCEPT ![Target] = @ \o SubSeq(buffer, 1, n)]
  /\ buffer' = <<>> /\ sent' = 0
  /\ UNCHANGED <<fixed, stage, k, pos, rc, before, failed>>

Write ==
  /\ Writing
  /\ \E n \in 1..Len(buffer) - sent :
       /\ streams' = [streams EXCEPT ![Target] = @ \o SubSeq(buffer, sent + 1, sent + n)]
       /\ IF sent + n = Len(buffer)
            THEN buffer' = <<>> /\ sent' = 0
            ELSE sent' = sent + n /\ UNCHANGED buffer
  /\ UNCHANGED <<fixed, stage, k, pos, rc, before, failed>>

(* mistake: an event whose write failed is written once more *)
EventRetried ==
  /\ Writing /\ stage # "flush"
  /\ sent' = 0 /\ failed' = failed \cup {k - 1}
  /\ UNCHANGED <<fixed, streams, stage, k, pos, buffer, rc, before>>

(* The result of an emit is ignored by all its callers.                    *)
EventFails ==
  /\ Writing /\ stage # "flush"
  /\ buffer' = <<>> /\ sent' = 0 /\ failed' = failed \cup {k - 1}
  /\ UNCHANGED <<fixed, streams, stage, k, pos, rc, before>>

(* SIGPIPE, when nobody reads.                                             *)
Killed ==
  /\ Writing
  /\ stage' = "killed" /\ buffer' = <<>> /\ sent' = 0
  /\ UNCHANGED <<fixed, streams, k, pos, rc, before, failed>>

----------------------------------------------------------------------------
(* main and the nodes                                                      *)

(* mistake: a missing --fd-status is not told from a descriptor *)
EmitAnyway(event) ==
  /\ buffer' = IF Line(event) = Dropped THEN <<>> ELSE Line(event)
  /\ k' = k + 1
  /\ UNCHANGED <<fixed, streams, pos, sent, before, failed>>

Emit(event) ==
  /\ buffer' = IF statusTo = NoFd \/ Line(event) = Dropped THEN <<>> ELSE Line(event)
  /\ k' = k + 1
  /\ UNCHANGED <<fixed, streams, pos, sent, before, failed>>

NodeReports ==
  /\ stage = "nodes" /\ ~ Writing /\ k \in DOMAIN run.events
  /\ Emit(run.events[k])
  /\ UNCHANGED <<stage, rc>>

(* run_model, past its entries: outputs are flushed if there is --fd-out.  *)
NodesDone ==
  /\ stage = "nodes" /\ ~ Writing /\ k > Len(run.events)
  /\ stage' = IF run.fails \/ outTo = NoFd THEN "end" ELSE "flush"
  /\ rc' = IF run.fails THEN "error" ELSE "ok"
  /\ k' = IF stage' = "flush" THEN 1 ELSE k
  /\ before' = IF stage' = "flush" THEN streams[outTo] ELSE before
  /\ UNCHANGED <<fixed, streams, pos, buffer, sent, failed>>

RunEnds ==
  /\ stage = "end"
  /\ stage' = "over"
  /\ Emit(Ended(run, rc))
  /\ UNCHANGED rc

----------------------------------------------------------------------------
(* kc_flow_flush_outputs and kc_flow_copy_artifact_fd                      *)

Flushing == stage = "flush" /\ ~ Writing /\ k \in DOMAIN run.branches

SkipAbsent ==
  /\ Flushing /\ run.branches[k] = Absent
  /\ k' = k + 1
  /\ UNCHANGED <<fixed, streams, stage, pos, buffer, sent, rc, before, failed>>

Unread == Len(run.branches[k]) - pos

Read ==
  /\ Flushing /\ run.branches[k] # Absent
  /\ \E n \in 1..BufferSize :
       /\ n <= Unread
       /\ buffer' = SubSeq(run.branches[k], pos + 1, pos + n)
       /\ pos' = pos + n
  /\ UNCHANGED <<fixed, streams, stage, k, sent, rc, before, failed>>

(* mistake: a read of less than the buffer is taken for the last *)
ShortReadEnds ==
  /\ Flushing /\ run.branches[k] # Absent /\ (Unread = 0 \/ pos % BufferSize # 0)
  /\ k' = k + 1 /\ pos' = 0 /\ before' = streams[outTo]
  /\ UNCHANGED <<fixed, streams, stage, buffer, sent, rc, failed>>

EndOfBranch ==
  /\ Flushing /\ run.branches[k] # Absent /\ Unread = 0
  /\ k' = k + 1 /\ pos' = 0 /\ before' = streams[outTo]
  /\ UNCHANGED <<fixed, streams, stage, buffer, sent, rc, failed>>

(* mistake: the other branches are copied and the run succeeds *)
FlushGoesOn ==
  /\ Writing /\ stage = "flush"
  /\ k' = k + 1 /\ pos' = 0 /\ before' = streams[outTo]
  /\ buffer' = <<>> /\ sent' = 0
  /\ UNCHANGED <<fixed, streams, stage, rc, failed>>

(* A rewind, a read or a write fails.                                      *)
FlushFails ==
  /\ stage = "flush" /\ k \in DOMAIN run.branches /\ run.branches[k] # Absent
  /\ stage' = "end" /\ rc' = "error" /\ k' = Len(run.events) + 1
  /\ buffer' = <<>> /\ sent' = 0
  /\ UNCHANGED <<fixed, streams, pos, before, failed>>

Flushed ==
  /\ stage = "flush" /\ ~ Writing /\ k > Len(run.branches)
  /\ stage' = "end" /\ k' = Len(run.events) + 1
  /\ UNCHANGED <<fixed, streams, pos, buffer, sent, rc, before, failed>>

Over ==
  \/ stage = "over" /\ ~ Writing /\ UNCHANGED vars
  \/ stage = "killed" /\ UNCHANGED vars

Next ==
  \/ NodeReports \/ NodesDone \/ RunEnds
  \/ Write \/ EventFails \/ Killed
  \/ SkipAbsent \/ Read \/ EndOfBranch \/ FlushFails \/ Flushed
  \/ Over

Spec == Init /\ [][Next]_vars

----------------------------------------------------------------------------
TypeOK ==
  /\ run \in Runs /\ outTo \in Sink \cup {NoFd} /\ statusTo \in Sink \cup {NoFd}
  /\ streams \in [Sink -> Seq(Byte)] /\ before \in Seq(Byte)
  /\ stage \in {"nodes", "flush", "end", "over", "killed"}
  /\ k \in Nat \ {0} /\ pos \in Nat
  /\ buffer \in Seq(Byte) /\ sent \in 0..Len(buffer) /\ rc \in {"ok", "error"}
  /\ Writing => Target \in Sink /\ sent < Len(buffer)

(* While a branch is copied, --fd-out has received, after what was there   *)
(* when it began, exactly the bytes of the branch up to the offset that the*)
(* reads have reached less what waits in the buffer, however short reads   *)
(* and writes are.                                                         *)
CopyIsExact ==
  (stage = "flush" /\ k \in DOMAIN run.branches) =>
    IF run.branches[k] = Absent
      THEN ~ Writing /\ streams[outTo] = before
      ELSE LET copied == pos - (Len(buffer) - sent) IN
             /\ copied \in 0..Len(run.branches[k])
             /\ streams[outTo] = before \o SubSeq(run.branches[k], 1, copied)

(* The copy goes on to the next branch only when --fd-out has all of this  *)
(* one, each byte once.                                                    *)
BranchIsWhole ==
  [][stage = "flush" /\ stage' = "flush" /\ k' # k =>
       streams' = [streams EXCEPT ![outTo] =
         before \o (IF run.branches[k] = Absent THEN <<>> ELSE run.branches[k])]]_vars
=============================================================================

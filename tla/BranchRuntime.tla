--------------------------- MODULE BranchRuntime ---------------------------
(***************************************************************************)
(* The branch engine of kc-flow: kc_flow_run_model (runtime.c) and the     *)
(* mutually recursive kc_flow_run_node, _run_node_file, _run_child_flow,   *)
(* _run_node_execs and _run_node_links (node.c).                           *)
(*                                                                         *)
(* One process, one thread: the state is the C call stack and the          *)
(* descriptor table.  A frame stands for one activation of run_node with   *)
(* the loop it is in (the activations of the four static functions it      *)
(* calls have no state of their own beyond i, j and the list `next`); the  *)
(* bottom frame, whose node is Root, is run_model's.  A step is the code   *)
(* between two calls that can fail or be observed from outside.            *)
(***************************************************************************)
EXTENDS DescriptorTable, Sequences, FiniteSets

CONSTANTS
  Node,           \* node records, one per (flow file, node ref)
  Flow,           \* flow files
  Main,           \* the file given to --run
  Owner,          \* the file each node is declared in
  NoFile,         \* "node has no file field"
  Root,           \* the frame of run_model, no node
  Programs,       \* sets of flow files a run may meet
  MaxBranches,    \* KC_FLOW_MAX_BRANCHES
  Cfgs,           \* the circumstances a run may start in
  Faults          \* environment failures the run may meet

ProgramType ==
  [entry : [Flow -> Seq(Node)],             \* flow.link of each file
   links : [Node -> Seq(Node)],             \* node.<ref>.link
   file  : [Node -> Flow \cup {NoFile}],    \* node.<ref>.file
   exec  : [Node -> BOOLEAN]]               \* node.<ref>.exec is set

(* What kc_flow_validate_model (validate.c, modelled in Validate) leaves:  *)
(* every file has entry links, all links stay in their file, no node is    *)
(* void and no chain of links comes back.  Only nodes a run can reach are  *)
(* represented, so each of these holds of every node.                      *)
ValidProgram(p) ==
  /\ \A g \in Flow : /\ p.entry[g] # <<>>
                    /\ \A k \in DOMAIN p.entry[g] : Owner[p.entry[g][k]] = g
  /\ \A n \in Node : /\ \A k \in DOMAIN p.links[n] : Owner[p.links[n][k]] = Owner[n]
                    /\ (p.file[n] # NoFile \/ p.exec[n] \/ p.links[n] # <<>>)
  /\ \E rank \in [Node -> 1..Cardinality(Node)] :
       \A n \in Node : \A k \in DOMAIN p.links[n] : rank[p.links[n][k]] < rank[n]

(* fd_in: --fd-in or NoFd; seekable: whether that is a regular file;       *)
(* foreign: the descriptors the process was started with.  main does not   *)
(* look whether --fd-in is one of them.                                    *)
CfgType == [fd_in : Fds \cup {NoFd}, seekable : BOOLEAN, foreign : SUBSET Fds]

FaultKinds == {"params", "child", "exec", "flush"}

ASSUME RuntimeAssumption ==
  /\ Main \in Flow /\ NoFile \notin Flow /\ Root \notin Node
  /\ Owner \in [Node -> Flow]
  /\ \A p \in Programs : p \in ProgramType /\ ValidProgram(p)
  /\ MaxBranches \in Nat \ {0}
  /\ Cfgs \subseteq CfgType
  /\ Faults \subseteq FaultKinds

VARIABLES
  prog,     \* the flow files, fixed during a run
  cfg,      \* fixed during a run
  fdt,      \* descriptor table of the process
  files,    \* open files: what was written to them and where the offset is
  stack,    \* the call stack, run_model at 1
  result,   \* what run_model returned, "none" while it runs
  log,      \* status events, in the order they are emitted
  flushed   \* what was copied to fd_out, one entry per branch output

vars == <<prog, cfg, fdt, files, stack, result, log, flushed>>

----------------------------------------------------------------------------
(* Branch lists (kc_flow_fd_list) are sequences of descriptors.            *)

OwnFds == Fds \ cfg.foreign
FdList == Seq(OwnFds \cup {NoFd})
Held(list) == {list[k] : k \in DOMAIN list}

(* Operators marked "mistake" are what a plausible slip would make of the  *)
(* definition that follows them; nothing in the specification uses them.   *)

(* mistakes: the limit is off by one *)
FitsBelow(dst, src) == Len(dst) + Len(src) < MaxBranches
FitsAbove(dst, src) == Len(dst) + Len(src) <= MaxBranches + 1

(* kc_flow_fd_list_append moves as many as fit, then fails. *)
Fits(dst, src) == Len(dst) + Len(src) <= MaxBranches
Moved(dst, src) ==
  IF Fits(dst, src) THEN dst \o src
                    ELSE dst \o SubSeq(src, 1, MaxBranches - Len(dst))

Stages == {"enter", "file", "exec", "links", "entries", "flush", "ok", "err"}

Frame ==
  [node   : Node \cup {Root},
   stage  : Stages,
   arg    : OwnFds \cup {NoFd},    \* input_fd, the caller's branch_fd
   active : FdList,
   next   : FdList,                \* next, produced; Root: outputs
   i      : Nat \ {0},             \* loop over active; Root: over outputs
   j      : Nat]                   \* loop over links or entry links

FrameOf(n, fd) ==
  [node |-> n, stage |-> "enter", arg |-> fd, active |-> <<>>,
   next |-> <<>>, i |-> 1, j |-> 1]

Top == stack[Len(stack)]
Callers == SubSeq(stack, 1, Len(stack) - 1)
SetTop(frame) == stack' = [stack EXCEPT ![Len(stack)] = frame]

At(stage) == stack # <<>> /\ Top.stage = stage
Unwinding == At("err")

(* The nodes the loop over j calls run_node on. *)
Targets(frame) ==
  CASE frame.stage = "entries" -> prog.entry[Main]
    [] frame.stage = "file"    -> prog.entry[prog.file[frame.node]]
    [] OTHER                   -> prog.links[frame.node]

(* The descriptor each of those calls gets a duplicate of. *)
Source(frame) ==
  IF frame.node = Root THEN cfg.fd_in ELSE frame.active[frame.i]

(* mistake: exec is not applied *)
AfterFileForward(n) == "links"

(* A stage is skipped when its field is absent from the node. *)
AfterFile(n)  == IF prog.exec[n] THEN "exec" ELSE "links"

(* mistake: the file field is not looked at *)
FirstStageFile(n) == "file"

FirstStage(n) == IF prog.file[n] # NoFile THEN "file" ELSE AfterFile(n)

(* Entering a stage restarts its loops; 0 means the child is not loaded.   *)
Enter(frame, stage, list) ==
  [frame EXCEPT !.stage = stage, !.active = list, !.next = <<>>,
                !.i = 1, !.j = IF stage = "file" THEN 0 ELSE 1]

(* mistake: the loop returns without freeing its list *)
FailKeepsNext(s, extra) ==
  /\ stack' = [s EXCEPT ![Len(s)].stage = "err"]
  /\ fdt' = Release(fdt, extra)

(* A call failed in the top frame of s, after `extra` was released.  Every *)
(* loop of node.c frees `next` before it returns; run_model keeps its      *)
(* outputs until its own exit.                                             *)
Fail(s, extra) ==
  LET here == s[Len(s)]
      isRoot == here.node = Root
  IN  /\ stack' = [s EXCEPT ![Len(s)] =
                     [here EXCEPT !.stage = "err",
                                  !.next  = IF isRoot THEN @ ELSE <<>>]]
      /\ fdt' = Release(fdt, extra \cup IF isRoot THEN {} ELSE Held(here.next))

Event(name, n, status) == [event |-> name, node |-> n, status |-> status]

----------------------------------------------------------------------------
(* A run starts after main has loaded the file and written run.started.    *)
(* The descriptors of cfg.foreign are open; each names a file of its own.  *)

Init ==
  /\ prog \in Programs
  /\ cfg \in Cfgs
  /\ fdt = [f \in Fds |-> IF f \in cfg.foreign THEN f ELSE Closed]
  /\ files = [o \in Fds |->
                [trail |-> IF o = cfg.fd_in THEN <<Root>> ELSE <<>>,
                 atEnd |-> FALSE]]
  /\ stack = <<[FrameOf(Root, NoFd) EXCEPT !.stage = "entries"]>>
  /\ result = "none"
  /\ log = <<Event("run.started", Root, "none")>>
  /\ flushed = <<>>

----------------------------------------------------------------------------
(* The three loops that call run_node: over entry links (run_model, and    *)
(* run_child_flow for each active branch) and over active x links          *)
(* (run_node_links).                                                       *)

Calling ==
  /\ At("entries") \/ ((At("file") \/ At("links")) /\ Top.i \in DOMAIN Top.active)
  /\ Top.j \in DOMAIN Targets(Top)

(* mistake: a duplicate is not rewound *)
SeekNot(fd, end) == files

(* The offset of the file fd names moves to its end or back to its start.  *)
Seek(fd, end) ==
  [o \in Fds |-> IF fd \in OpenFds(fdt) /\ fdt[fd] = o
                   THEN [files[o] EXCEPT !.atEnd = end] ELSE files[o]]

(* lseek works on what Top duplicates: artifacts are regular files.        *)
Seekable == Top.node = Root => cfg.seekable

(* mistake: run_node is given the source itself, not a duplicate *)
CallBranchNoDup ==
  /\ Calling
  /\ stack' = Append(stack, FrameOf(Targets(Top)[Top.j], Source(Top)))
  /\ UNCHANGED <<prog, cfg, fdt, files, result, log, flushed>>

(* branch_dup_input, then run_node with the duplicate.  The rewind moves   *)
(* the offset the source descriptor shares with its duplicate.             *)
CallBranch ==
  /\ Calling
  /\ LET src == Source(Top)
         call(fd) == stack' = Append(stack, FrameOf(Targets(Top)[Top.j], fd))
     IN  \/ /\ src = NoFd
            /\ call(NoFd)
            /\ UNCHANGED <<fdt, files>>
         \/ /\ src \in OpenFds(fdt) /\ Seekable
            /\ \E f \in Fds : /\ IsNextFd(fdt, f)
                              /\ fdt' = Dup(fdt, src, f)
                              /\ call(f)
            /\ files' = Seek(src, FALSE)
  /\ UNCHANGED <<prog, cfg, result, log, flushed>>

(* mistake: an exhausted table is not noticed *)
DupFailsClosed ==
  /\ Calling /\ Top.node # Root
  /\ Source(Top) # NoFd
  /\ Source(Top) \notin OpenFds(fdt)
  /\ Fail(stack, {})
  /\ UNCHANGED <<prog, cfg, files, result, log, flushed>>

(* dup found no free number, in a loop of node.c.                          *)
DupFails ==
  /\ Calling /\ Top.node # Root
  /\ Source(Top) # NoFd
  /\ Full(fdt) \/ Source(Top) \notin OpenFds(fdt)
  /\ Fail(stack, {})
  /\ UNCHANGED <<prog, cfg, files, result, log, flushed>>

(* The same in run_model, which returns at once and leaves its outputs     *)
(* open; when it is the rewind that fails the duplicate stays open too.    *)
EntryDupFails ==
  /\ Calling /\ Top.node = Root
  /\ Source(Top) # NoFd
  /\ \/ /\ Full(fdt) \/ Source(Top) \notin OpenFds(fdt)
        /\ fdt' = fdt
     \/ /\ Source(Top) \in OpenFds(fdt) /\ ~ Seekable
        /\ \E f \in Fds : IsNextFd(fdt, f) /\ fdt' = Dup(fdt, Source(Top), f)
  /\ stack' = <<>>
  /\ result' = "error"
  /\ log' = Append(log, Event("run.finished", Root, "error"))
  /\ UNCHANGED <<prog, cfg, files, flushed>>

(* mistake: active[i] is not released after its last target *)
BranchNotReleased ==
  /\ At("file") \/ (At("links") /\ prog.links[Top.node] # <<>>)
  /\ Top.i \in DOMAIN Top.active
  /\ Top.j > Len(Targets(Top))
  /\ SetTop([Top EXCEPT !.i = @ + 1, !.j = IF Top.stage = "file" THEN 0 ELSE 1])
  /\ UNCHANGED <<prog, cfg, fdt, files, result, log, flushed>>

(* Every target was called for active[i]: release it, take the next one.   *)
BranchConsumed ==
  /\ At("file") \/ (At("links") /\ prog.links[Top.node] # <<>>)
  /\ Top.i \in DOMAIN Top.active
  /\ Top.j > Len(Targets(Top))
  /\ fdt' = Release(fdt, {Top.active[Top.i]})
  /\ SetTop([Top EXCEPT !.i = @ + 1, !.j = IF Top.stage = "file" THEN 0 ELSE 1])
  /\ UNCHANGED <<prog, cfg, files, result, log, flushed>>

----------------------------------------------------------------------------
(* run_node                                                                *)

EnterNode ==
  /\ At("enter")
  /\ SetTop(Enter(Top, FirstStage(Top.node), <<Top.arg>>))
  /\ log' = Append(log, Event("node.started", Top.node, "none"))
  /\ UNCHANGED <<prog, cfg, fdt, files, result, flushed>>

(* collect_node_params failed: no event, the caller releases branch_fd.    *)
ParamsFail ==
  /\ "params" \in Faults
  /\ At("enter")
  /\ Fail(Callers, {Top.arg})
  /\ UNCHANGED <<prog, cfg, files, result, log, flushed>>

LoadChild ==
  /\ At("file") /\ Top.i \in DOMAIN Top.active /\ Top.j = 0
  /\ SetTop([Top EXCEPT !.j = 1])
  /\ UNCHANGED <<prog, cfg, fdt, files, result, log, flushed>>

(* The file is missing, does not parse or is not valid, memory ran out, or *)
(* the node's parameters do not fit the child's scope.                     *)
ChildFails ==
  /\ "child" \in Faults
  /\ At("file") /\ Top.i \in DOMAIN Top.active /\ Top.j = 0
  /\ Fail(stack, {})
  /\ UNCHANGED <<prog, cfg, files, result, log, flushed>>

(* run_node_file moves next into the emptied active: this always fits.     *)
FileDone ==
  /\ At("file") /\ Top.i > Len(Top.active)
  /\ SetTop(Enter(Top, AfterFile(Top.node), Top.next))
  /\ UNCHANGED <<prog, cfg, fdt, files, result, log, flushed>>

(* What a command reads on KC_FLOW_FD_IN: from the offset to the end.      *)
Reads(fd) ==
  IF fd \in OpenFds(fdt) /\ ~ files[fdt[fd]].atEnd
    THEN files[fdt[fd]].trail ELSE <<>>

(* A command is modelled as one that copies its input and adds a mark of   *)
(* its node; it leaves both offsets at the end.                            *)
ExecBranch ==
  /\ At("exec") /\ Top.i \in DOMAIN Top.active
  /\ LET in == Top.active[Top.i] IN
       \E f \in Fds, o \in Fds :
         /\ IsNextFd(fdt, f) /\ IsNewFile(fdt, o)
         /\ fdt' = Release(Created(fdt, f, o), {in})
         /\ files' = [Seek(in, TRUE) EXCEPT
                        ![o] = [trail |-> Append(Reads(in), Top.node),
                                atEnd |-> TRUE]]
         /\ SetTop([Top EXCEPT !.next = Append(@, f), !.i = @ + 1])
  /\ UNCHANGED <<prog, cfg, result, log, flushed>>

(* No artifact could be created, or the command failed: its artifact is    *)
(* released again.                                                         *)
ExecFails ==
  /\ "exec" \in Faults \/ Full(fdt)
  /\ At("exec") /\ Top.i \in DOMAIN Top.active
  /\ Fail(stack, {})
  /\ UNCHANGED <<prog, cfg, files, result, log, flushed>>

ExecDone ==
  /\ At("exec") /\ Top.i > Len(Top.active)
  /\ SetTop(Enter(Top, "links", Top.next))
  /\ UNCHANGED <<prog, cfg, fdt, files, result, log, flushed>>

(* The end of run_node_links: the branches of this node go to the caller's *)
(* list, active itself when the node has no links and `produced` otherwise.*)
Delivering ==
  /\ At("links")
  /\ prog.links[Top.node] = <<>> \/ Top.i > Len(Top.active)

Terminal  == prog.links[Top.node] = <<>>
Delivered == IF Terminal THEN Top.active ELSE Top.next
Outputs   == stack[Len(stack) - 1].next

HandOver(frame) ==
  stack' = [stack EXCEPT ![Len(stack) - 1].next = Moved(@, Delivered),
                         ![Len(stack)] = frame]

Deliver ==
  /\ Delivering /\ Fits(Outputs, Delivered)
  /\ HandOver([Top EXCEPT !.stage = "ok", !.active = <<>>, !.next = <<>>])
  /\ UNCHANGED <<prog, cfg, fdt, files, result, log, flushed>>

(* The caller's list keeps the ones that fitted.  produced is freed here,  *)
(* active when run_node returns: both still name those same descriptors.   *)
DeliverOverflows ==
  /\ Delivering /\ ~ Fits(Outputs, Delivered)
  /\ HandOver([Top EXCEPT !.stage = "err", !.next = <<>>,
                           !.active = IF Terminal THEN @ ELSE <<>>])
  /\ fdt' = IF Terminal THEN fdt ELSE Release(fdt, Held(Top.next))
  /\ UNCHANGED <<prog, cfg, files, result, log, flushed>>

(* mistake: the event is only written on failure *)
FinishOkSilent ==
  /\ At("ok")
  /\ stack' = [Callers EXCEPT ![Len(Callers)].j = @ + 1]
  /\ UNCHANGED <<prog, cfg, fdt, files, result, log, flushed>>

FinishOk ==
  /\ At("ok")
  /\ stack' = [Callers EXCEPT ![Len(Callers)].j = @ + 1]
  /\ log' = Append(log, Event("node.finished", Top.node, "ok"))
  /\ UNCHANGED <<prog, cfg, fdt, files, result, flushed>>

(* mistake: the caller's loop goes on after a failed call *)
FinishErrIgnored ==
  /\ Unwinding /\ Top.node # Root
  /\ stack' = [Callers EXCEPT ![Len(Callers)].j = @ + 1]
  /\ fdt' = Release(fdt, Held(Top.active) \cup {Top.arg})
  /\ log' = Append(log, Event("node.finished", Top.node, "error"))
  /\ UNCHANGED <<prog, cfg, files, result, flushed>>

(* fd_list_free(&active) with whatever the list still names, then the      *)
(* caller's release of branch_fd and of its own list.                      *)
FinishErr ==
  /\ Unwinding /\ Top.node # Root
  /\ Fail(Callers, Held(Top.active) \cup {Top.arg})
  /\ log' = Append(log, Event("node.finished", Top.node, "error"))
  /\ UNCHANGED <<prog, cfg, files, result, flushed>>

(* The file's own parameters and the --set ones do not fit one scope: the  *)
(* run ends before its first entry.                                        *)
RunParamsFail ==
  /\ "params" \in Faults
  /\ At("entries") /\ Top.j = 1
  /\ stack' = <<>>
  /\ result' = "error"
  /\ log' = Append(log, Event("run.finished", Root, "error"))
  /\ UNCHANGED <<prog, cfg, fdt, files, flushed>>

----------------------------------------------------------------------------
(* The end of run_model.  --fd-out is always set: 1 by default.            *)

EntriesDone ==
  /\ At("entries") /\ Top.j > Len(Targets(Top))
  /\ SetTop([Top EXCEPT !.stage = "flush"])
  /\ UNCHANGED <<prog, cfg, fdt, files, result, log, flushed>>

FlushBranch ==
  /\ At("flush") /\ Top.i \in DOMAIN Top.next
  /\ LET fd == Top.next[Top.i] IN
       /\ fd = NoFd \/ fd \in OpenFds(fdt)
       /\ flushed' = IF fd = NoFd THEN flushed
                                   ELSE Append(flushed, files[fdt[fd]].trail)
       /\ files' = Seek(fd, TRUE)
  /\ SetTop([Top EXCEPT !.i = @ + 1])
  /\ UNCHANGED <<prog, cfg, fdt, result, log>>

FlushFails ==
  /\ At("flush") /\ Top.i \in DOMAIN Top.next
  /\ Top.next[Top.i] # NoFd
  /\ "flush" \in Faults \/ Top.next[Top.i] \notin OpenFds(fdt)
  /\ Fail(stack, {})
  /\ UNCHANGED <<prog, cfg, files, result, log, flushed>>

RunEnds ==
  /\ \/ At("flush") /\ Top.i > Len(Top.next)
     \/ Unwinding /\ Top.node = Root
  /\ fdt' = Release(fdt, Held(Top.next))
  /\ stack' = <<>>
  /\ result' = IF Top.stage = "flush" THEN "ok" ELSE "error"
  /\ log' = Append(log, Event("run.finished", Root, result'))
  /\ UNCHANGED <<prog, cfg, files, flushed>>

Exited == stack = <<>> /\ UNCHANGED vars

Next ==
  \/ CallBranch \/ DupFails \/ EntryDupFails \/ BranchConsumed
  \/ RunParamsFail \/ EnterNode \/ ParamsFail \/ LoadChild \/ ChildFails \/ FileDone
  \/ ExecBranch \/ ExecFails \/ ExecDone
  \/ Deliver \/ DeliverOverflows \/ FinishOk \/ FinishErr
  \/ EntriesDone \/ FlushBranch \/ FlushFails \/ RunEnds \/ Exited

Spec == Init /\ [][Next]_vars

(* The process keeps running: every command it waits for returns, and the  *)
(* scheduler does not starve it.                                           *)
FairSpec == Spec /\ WF_vars(Next)

----------------------------------------------------------------------------
(* Properties                                                              *)

OpenFile == [trail : Seq(Node \cup {Root}), atEnd : BOOLEAN]

EventType ==
  [event  : {"run.started", "node.started", "node.finished", "run.finished"},
   node   : Node \cup {Root},
   status : {"none", "ok", "error"}]

(* Every variable has its type; every list of every frame holds            *)
(* descriptors the runtime opened itself, or "no descriptor".              *)
TypeOK ==
  /\ prog \in ProgramType
  /\ cfg \in Cfgs
  /\ fdt \in [Fds -> Fds \cup {Closed}]
  /\ files \in [Fds -> OpenFile]
  /\ stack \in Seq(Frame)
  /\ result \in {"none", "ok", "error"}
  /\ log \in Seq(EventType)
  /\ flushed \in Seq(Seq(Node \cup {Root}))

(* The C stack is a chain of pending calls: run_model below, above it one  *)
(* run_node per frame, each for the very node the loop of its caller is at,*)
(* and only in a stage of run_node that makes calls.                       *)
FrameShape(frame) ==
  /\ frame.node = Root => frame.stage \in {"entries", "flush", "err"}
  /\ frame.node # Root => frame.stage \notin {"entries", "flush"}
  /\ frame.stage = "file" => prog.file[frame.node] # NoFile

Calls(caller, callee) ==
  /\ caller.stage \in {"entries", "file", "links"}
  /\ caller.j \in DOMAIN Targets(caller)
  /\ callee.node = Targets(caller)[caller.j]

CallChain(s) ==
  \A k \in 1..Len(s) :
    /\ FrameShape(s[k])
    /\ s[k].node = Root <=> k = 1
    /\ k > 1 => Calls(s[k - 1], s[k])

StackIsCallChain == CallChain(stack)

(* The descriptors kc-flow was started with -- stdio, --fd-in, --fd-out -- *)
(* are still open on the same files at every point of the run.  The error  *)
(* paths close numbers that were already released, so this is not implied  *)
(* by releasing only what was opened.                                      *)
NoForeignClose == \A f \in cfg.foreign : fdt[f] = f

(* The branches a frame still has to pass on, as descriptors: what its loop*)
(* has not consumed yet and what it has produced so far.                   *)
Live(frame) ==
  IF frame.stage = "enter"
    THEN <<frame.arg>>
    ELSE SubSeq(frame.active, frame.i, Len(frame.active)) \o frame.next

FdAt(pos) == Live(stack[pos[1]])[pos[2]]
Positions == {pos \in (1..Len(stack)) \X (1..MaxBranches * 2) :
                pos[2] \in DOMAIN Live(stack[pos[1]]) /\ FdAt(pos) # NoFd}

(* A kc_flow_fd_list is an array of KC_FLOW_MAX_BRANCHES entries, and none *)
(* ever holds more.  run_node appends without a way to fail here where the *)
(* code has one (fd_list_add at node.c:134 and 275, fd_list_append at 142  *)
(* and 185): these bounds are why that way is never taken.                 *)
ListsFit ==
  \A k \in DOMAIN stack :
    Len(stack[k].active) <= MaxBranches /\ Len(stack[k].next) <= MaxBranches

(* Until something fails, every descriptor the runtime has open stands for *)
(* exactly one branch of exactly one list, and every branch that has a     *)
(* descriptor has it open: nothing leaks and nothing is released twice     *)
(* while branches move between active, next, produced and outputs.         *)
EachBranchOwnedOnce ==
  stack # <<>> /\ ~ Unwinding =>
    /\ {FdAt(pos) : pos \in Positions} = OpenFds(fdt) \ cfg.foreign
    /\ \A p, q \in Positions : FdAt(p) = FdAt(q) => p = q

(* While a failure unwinds the C stack, lists with entries that were       *)
(* released long ago are freed again.  That never takes a descriptor from a*)
(* caller: what a caller's loop has not consumed yet stays open.           *)
UnwindSparesCallers ==
  Unwinding =>
    \A k \in 1..Len(stack) - 1 :
      \A p \in stack[k].i..Len(stack[k].active) :
        stack[k].active[p] \in OpenFds(fdt) \cup {NoFd}

(* A run that succeeds has closed every artifact and every duplicate, and  *)
(* so has a run that fails unless the entry branches have an input to      *)
(* duplicate (run_model's early return keeps its outputs open).            *)
ExitReleasesAll ==
  result = "ok" \/ (result = "error" /\ cfg.fd_in = NoFd) => OpenFds(fdt) = cfg.foreign

(* Branches stay independent (README.md:16): two branches collected in one *)
(* list never share an open file, hence never an offset or their content,  *)
(* although every duplicate on the way shares both with its source.        *)
BranchesIndependent ==
  stack # <<>> /\ ~ Unwinding =>
    \A k \in DOMAIN stack : \A p, q \in DOMAIN stack[k].next :
      /\ stack[k].next[p] # NoFd
      /\ fdt[stack[k].next[p]] = fdt[stack[k].next[q]] => p = q

(* The run ends, whatever fails, when no flow file includes itself.        *)
Termination == <>(result # "none")

(* README.md:60-61: when a node has both file and exec, the exec is applied*)
(* to every branch the expansion produced.  The command should then find   *)
(* the branch's content on its input descriptor.                           *)
ExecReadsItsBranch ==
  At("exec") /\ Top.i \in DOMAIN Top.active =>
    LET in == Top.active[Top.i] IN
      in # NoFd => Reads(in) = files[fdt[in]].trail

(* artifact.c:64 and runtime.c:26: what is released is owned, so a release *)
(* finds an open descriptor.                                               *)
ReleasesOnlyOpen ==
  Unwinding /\ Top.node # Root =>
    (Held(Top.active) \cup {Top.arg}) \ {NoFd} \subseteq OpenFds(fdt)

(* README.md:67: "Cycles are invalid and fail validation." Then no node is *)
(* entered again while it is still being run.                              *)
NoReentry ==
  \A k, l \in DOMAIN stack : stack[k].node = stack[l].node => k = l
============================================================================

------------------------- MODULE BranchRuntimeProof -------------------------
(***************************************************************************)
(* The branch engine, for every flow, every limit, every descriptor table  *)
(* and every failure: type correctness, the shape of its call stack, that  *)
(* it leaves the descriptors it was started with alone; that what it shows *)
(* a supervisor is what Supervision allows; who owns a descriptor; that a  *)
(* run that succeeds writes what the flow files describe, and when one     *)
(* fails.                                                                  *)
(* The first three are inductive only together: what a list may hold       *)
(* (TypeOK) rests on dup and mkstemp never handing out a foreign number,   *)
(* which holds because those stay open (NoForeignClose), which in turn     *)
(* rests on the lists; and a frame has a caller to fail into because of    *)
(* the shape of the stack.                                                 *)
(***************************************************************************)
EXTENDS FlowBranches, SupervisedRun, SequenceFacts, TLAPS

IInv == TypeOK /\ StackIsCallChain /\ NoForeignClose

(* NoFd and Closed are no descriptor numbers.                              *)
LEMMA NegativeIsNoFd == -1 \notin Fds /\ Fds \subseteq Nat
BY FdsAssumption

(* Fields of a frame, for provers that would rather not open the record.   *)
LEMMA FrameFields ==
  ASSUME NEW f \in Frame
  PROVE  /\ f.node \in Node \cup {Root}
         /\ f.stage \in Stages
         /\ f.arg \in OwnFds \cup {NoFd}
         /\ f.active \in FdList
         /\ f.next \in FdList
         /\ f.i \in Nat \ {0}
         /\ f.j \in Nat
BY DEF Frame

(* The stack without its top frame.                                        *)
LEMMA TopFacts ==
  ASSUME stack \in Seq(Frame), stack # <<>>
  PROVE  /\ Len(stack) \in Nat \ {0}
         /\ Top \in Frame
         /\ Callers \in Seq(Frame)
         /\ Len(Callers) = Len(stack) - 1
         /\ \A k \in 1..Len(stack) - 1 : Callers[k] = stack[k]
<1>1. Len(stack) \in Nat \ {0}
  BY EmptySeq
<1>2. Top \in Frame
  BY <1>1, ElementOfSeq DEF Top
<1>3. Len(stack) - 1 \in 0..Len(stack)
  BY <1>1
<1>4. QED
  BY <1>1, <1>2, <1>3, PrefixFacts DEF Callers

(* What a list holds are own descriptors.                                  *)
LEMMA HeldIsOwn ==
  ASSUME NEW list \in FdList
  PROVE  Held(list) \subseteq OwnFds \cup {NoFd}
BY LenProperties DEF Held, FdList

(* A chain of calls stays one when one of its frames changes in the same   *)
(* node; below the top it also has to stay at the same call.               *)
LEMMA ChainUpdate ==
  ASSUME NEW s \in Seq(Frame), CallChain(s), NEW u \in 1..Len(s),
         NEW fr \in Frame, fr.node = s[u].node, FrameShape(fr),
         u < Len(s) => fr.stage = s[u].stage /\ fr.j = s[u].j
  PROVE  /\ [s EXCEPT ![u] = fr] \in Seq(Frame)
         /\ Len([s EXCEPT ![u] = fr]) = Len(s)
         /\ CallChain([s EXCEPT ![u] = fr])
<1> DEFINE t == [s EXCEPT ![u] = fr]
<1>1. Len(s) \in Nat /\ u \in Nat
  BY LenProperties
<1>2. /\ t \in Seq(Frame)
      /\ Len(t) = Len(s)
      /\ \A k \in 1..Len(s) : t[k] = IF k = u THEN fr ELSE s[k]
  BY <1>1, ExceptSeq
<1> HIDE DEF t
<1>3. ASSUME NEW k \in 1..Len(t)
      PROVE  /\ FrameShape(t[k])
             /\ t[k].node = Root <=> k = 1
             /\ k > 1 => Calls(t[k - 1], t[k])
  <2>1. k \in Nat /\ k \in 1..Len(s)
    BY <1>2
  <2>2. t[k].node = s[k].node
    BY <1>2, <2>1
  <2>3. FrameShape(t[k])
    BY <1>2, <2>1 DEF CallChain
  <2>4. t[k].node = Root <=> k = 1
    BY <2>1, <2>2 DEF CallChain
  <2>5. ASSUME k > 1
        PROVE  Calls(t[k - 1], t[k])
    <3>1. Calls(s[k - 1], s[k])
      BY <2>1, <2>5 DEF CallChain
    <3>2. k - 1 \in 1..Len(s) /\ k - 1 < Len(s)
      BY <1>1, <2>1, <2>5
    <3>3. /\ t[k - 1].node = s[k - 1].node
          /\ t[k - 1].stage = s[k - 1].stage
          /\ t[k - 1].j = s[k - 1].j
      BY <1>2, <3>2
    <3>4. Targets(t[k - 1]) = Targets(s[k - 1])
      BY <3>3 DEF Targets
    <3>5. QED
      BY <2>2, <3>1, <3>3, <3>4 DEF Calls
  <2>6. QED
    BY <2>3, <2>4, <2>5
<1>4. CallChain(t)
  BY <1>3 DEF CallChain
<1>5. QED
  BY <1>2, <1>4 DEF t

LEMMA ChainTop ==
  ASSUME NEW s \in Seq(Frame), s # <<>>, CallChain(s),
         NEW fr \in Frame, fr.node = s[Len(s)].node, FrameShape(fr)
  PROVE  /\ [s EXCEPT ![Len(s)] = fr] \in Seq(Frame)
         /\ CallChain([s EXCEPT ![Len(s)] = fr])
<1>1. Len(s) \in 1..Len(s) /\ ~ (Len(s) < Len(s))
  BY EmptySeq
<1>2. QED
  BY <1>1, ChainUpdate

(* A chain of calls stays one when its top frame returns.                  *)
LEMMA ChainPop ==
  ASSUME stack \in Seq(Frame), stack # <<>>, CallChain(stack)
  PROVE  CallChain(Callers)
<1>1. /\ Len(stack) \in Nat \ {0}
      /\ Len(Callers) = Len(stack) - 1
      /\ \A k \in 1..Len(stack) - 1 : Callers[k] = stack[k]
  BY TopFacts
<1>2. \A k \in 1..Len(Callers) :
        /\ k \in 1..Len(stack)
        /\ Callers[k] = stack[k]
        /\ k > 1 => Callers[k - 1] = stack[k - 1]
  BY <1>1
<1>3. QED
  BY <1>2 DEF CallChain

(* A node's frame has its caller below it; run_model's is alone.           *)
LEMMA NodeHasCaller ==
  ASSUME IInv, stack # <<>>, Top.node # Root
  PROVE  Len(stack) > 1 /\ Callers # <<>>
<1>1. stack \in Seq(Frame) /\ CallChain(stack)
  BY DEF IInv, TypeOK, StackIsCallChain
<1>2. Len(stack) \in Nat \ {0} /\ Len(Callers) = Len(stack) - 1 /\ Callers \in Seq(Frame)
  BY <1>1, TopFacts
<1>3. Len(stack) # 1
  BY <1>1, <1>2 DEF CallChain, Top
<1>4. Len(stack) > 1
  BY <1>2, <1>3
<1>5. QED
  BY <1>2, <1>4, EmptySeq
----------------------------------------------------------------------------
(* Primed forms: prog and cfg never change, so nothing that is defined by  *)
(* them does.                                                              *)

LEMMA SameConfig ==
  ASSUME UNCHANGED <<prog, cfg>>
  PROVE  /\ Frame' = Frame
         /\ OwnFds' = OwnFds
         /\ ProgramType' = ProgramType
         /\ \A fr : FrameShape(fr)' <=> FrameShape(fr)
         /\ CallChain(stack') => StackIsCallChain'
<1>1. Frame' = Frame /\ OwnFds' = OwnFds
  BY DEF Frame, FdList, OwnFds
<1>2. ProgramType' = ProgramType
  BY DEF ProgramType
<1>3. \A fr : FrameShape(fr)' <=> FrameShape(fr)
  BY DEF FrameShape
<1>4. CallChain(stack') => StackIsCallChain'
  BY DEF StackIsCallChain, CallChain, FrameShape, Calls, Targets
<1>5. QED
  BY <1>1, <1>2, <1>3, <1>4

(* Foreign descriptors are numbers, and none of them is NoFd.              *)
LEMMA ForeignFds ==
  ASSUME TypeOK
  PROVE  cfg.foreign \subseteq Fds /\ cfg.fd_in \in Fds \cup {NoFd}
BY RuntimeAssumption DEF TypeOK, CfgType

(* A descriptor table in which the foreign descriptors are untouched.      *)
Intact(table) ==
  /\ table \in [Fds -> Fds \cup {Closed}]
  /\ \A f \in cfg.foreign : table[f] = f

TableOK == Intact(fdt)

(* Releasing descriptors of the runtime's own keeps the foreign ones.      *)
LEMMA ReleaseKeeps ==
  ASSUME TypeOK, NEW t, Intact(t), NEW S, S \subseteq OwnFds \cup {NoFd}
  PROVE  Intact(Release(t, S))
<1>1. Release(t, S) \in [Fds -> Fds \cup {Closed}]
  BY DEF Intact, Release
<1>2. ASSUME NEW f \in cfg.foreign
      PROVE  Release(t, S)[f] = f
  <2>1. f \in Fds /\ f \notin OwnFds /\ f # NoFd
    BY ForeignFds, NegativeIsNoFd DEF OwnFds, NoFd
  <2>2. f \notin S
    BY <2>1
  <2>3. QED
    BY <2>1, <2>2 DEF Release, Intact
<1>3. QED
  BY <1>1, <1>2 DEF Intact

(* A number that dup or mkstemp returns is the runtime's own, and opening  *)
(* it leaves the foreign descriptors as they are.                          *)
LEMMA OpenKeeps ==
  ASSUME TypeOK, NEW t, Intact(t), NEW f \in Fds, IsNextFd(t, f), NEW o \in Fds
  PROVE  f \in OwnFds /\ Intact([t EXCEPT ![f] = o])
<1>1. t[f] = Closed
  BY DEF IsNextFd, IsLowest, OpenFds
<1>2. f \notin cfg.foreign
  BY <1>1, NegativeIsNoFd DEF Intact, Closed
<1>3. [t EXCEPT ![f] = o] \in [Fds -> Fds \cup {Closed}]
  BY DEF Intact
<1>4. \A g \in cfg.foreign : [t EXCEPT ![f] = o][g] = g
  BY <1>2, ForeignFds DEF Intact
<1>5. QED
  BY <1>2, <1>3, <1>4 DEF Intact, OwnFds

LEMMA DupKeeps ==
  ASSUME TypeOK, TableOK, NEW src \in OpenFds(fdt), NEW f \in Fds, IsNextFd(fdt, f)
  PROVE  f \in OwnFds /\ Intact(Dup(fdt, src, f))
<1>1. fdt[src] \in Fds
  BY DEF OpenFds, TypeOK
<1>2. QED
  BY <1>1, OpenKeeps DEF Dup, TableOK

LEMMA TableNext ==
  ASSUME Intact(fdt'), UNCHANGED cfg
  PROVE  TableOK'
BY DEF Intact, TableOK

StackOK == stack \in Seq(Frame) /\ StackIsCallChain

(* A call that fails keeps the shape of the stack and of the table.        *)
LEMMA FailKeeps ==
  ASSUME TypeOK, TableOK, UNCHANGED <<prog, cfg>>,
         NEW s \in Seq(Frame), s # <<>>, CallChain(s),
         NEW extra, extra \subseteq OwnFds \cup {NoFd},
         Fail(s, extra)
  PROVE  StackOK' /\ TableOK'
<1> DEFINE c  == s[Len(s)]
           fr == [c EXCEPT !.stage = "err",
                           !.next = IF c.node = Root THEN @ ELSE <<>>]
<1>1. c \in Frame /\ FrameShape(c)
  BY EmptySeq, ElementOfSeq DEF CallChain
<1>2. fr \in Frame /\ fr.node = c.node
  BY <1>1, EmptySeq DEF Frame, Stages, FdList
<1>3. FrameShape(fr)
  BY <1>1, <1>2 DEF FrameShape, Frame
<1>4. stack' = [s EXCEPT ![Len(s)] = fr]
  BY DEF Fail
<1>5. Held(c.next) \subseteq OwnFds \cup {NoFd}
  BY <1>1, HeldIsOwn, FrameFields
<1> HIDE DEF c, fr
<1>6. stack' \in Seq(Frame) /\ CallChain(stack')
  BY <1>2, <1>3, <1>4, ChainTop DEF c
<1>7. StackOK'
  BY <1>6, SameConfig DEF StackOK
<1>8. TableOK'
  <2>1. \E S : S \subseteq OwnFds \cup {NoFd} /\ fdt' = Release(fdt, S)
    BY <1>5 DEF Fail, c
  <2>2. QED
    BY <2>1, ReleaseKeeps, TableNext DEF TableOK
<1>9. QED
  BY <1>7, <1>8

(* The top frame moves on, the table stays.                                *)
LEMMA SetTopKeeps ==
  ASSUME IInv, stack # <<>>, UNCHANGED <<prog, cfg>>,
         NEW fr \in Frame, fr.node = Top.node, FrameShape(fr), SetTop(fr)
  PROVE  StackOK'
<1>1. stack' \in Seq(Frame) /\ CallChain(stack')
  BY ChainTop DEF IInv, TypeOK, StackIsCallChain, Top, SetTop
<1>2. QED
  BY <1>1, SameConfig DEF StackOK
----------------------------------------------------------------------------
(* One lemma per action.                                                   *)

(* The parts of the invariant a step can disturb.                          *)
DataOK ==
  /\ files \in [Fds -> OpenFile]
  /\ result \in {"none", "ok", "error"}
  /\ log \in Seq(EventType)
  /\ flushed \in Seq(Seq(Node \cup {Root}))

LEMMA Parts ==
  ASSUME IInv, UNCHANGED <<prog, cfg>>, StackOK', TableOK', DataOK'
  PROVE  IInv'
BY SameConfig
   DEF IInv, TypeOK, StackOK, TableOK, DataOK, OpenFile, EventType, Intact, NoForeignClose

LEMMA NowParts ==
  ASSUME IInv
  PROVE  /\ TypeOK /\ StackOK /\ TableOK /\ DataOK
         /\ stack \in Seq(Frame) /\ CallChain(stack)
BY DEF IInv, TypeOK, StackOK, TableOK, DataOK, StackIsCallChain, Intact, NoForeignClose

LEMMA SameTable ==
  ASSUME IInv, UNCHANGED <<cfg, fdt>>
  PROVE  TableOK'
BY NowParts DEF TableOK, Intact

LEMMA SameData ==
  ASSUME IInv, UNCHANGED <<files, result, log, flushed>>
  PROVE  DataOK'
BY NowParts DEF DataOK, OpenFile, EventType

(* The frame on top when it is at a given stage.                           *)
LEMMA AtTop ==
  ASSUME IInv, NEW stage, At(stage)
  PROVE  /\ stack # <<>> /\ Top \in Frame /\ Top.stage = stage
         /\ FrameShape(Top)
<1>1. stack # <<>> /\ Top.stage = stage
  BY DEF At
<1>2. Top \in Frame /\ Len(stack) \in 1..Len(stack)
  BY <1>1, NowParts, TopFacts
<1>3. QED
  BY <1>1, <1>2, NowParts DEF CallChain, Top

(* An event that is logged is one.                                         *)
LEMMA LogKeeps ==
  ASSUME IInv, NEW name \in {"run.started", "node.started", "node.finished", "run.finished"},
         NEW n \in Node \cup {Root}, NEW status \in {"none", "ok", "error"}
  PROVE  Append(log, Event(name, n, status)) \in Seq(EventType)
<1>1. Event(name, n, status) \in EventType
  BY DEF Event, EventType
<1>2. QED
  BY <1>1, NowParts, AppendProperties DEF DataOK

(* Moving an offset keeps the files.                                       *)
LEMMA SeekKeeps ==
  ASSUME IInv, NEW fd, NEW end \in BOOLEAN
  PROVE  Seek(fd, end) \in [Fds -> OpenFile]
BY NowParts DEF DataOK, Seek, OpenFile

(* ParamsFail and FinishErr fail in the caller of a node.                  *)
LEMMA FailInCaller ==
  ASSUME IInv, UNCHANGED <<prog, cfg>>, stack # <<>>, Top.node # Root,
         NEW extra, extra \subseteq OwnFds \cup {NoFd}, Fail(Callers, extra)
  PROVE  StackOK' /\ TableOK'
<1>1. Callers \in Seq(Frame) /\ Callers # <<>> /\ CallChain(Callers)
  BY NowParts, TopFacts, ChainPop, NodeHasCaller
<1>2. QED
  BY <1>1, NowParts, FailKeeps

LEMMA FailInTop ==
  ASSUME IInv, UNCHANGED <<prog, cfg>>, stack # <<>>, Fail(stack, {})
  PROVE  StackOK' /\ TableOK'
BY NowParts, FailKeeps

(* Entering a stage of run_node keeps the frame a frame of its node.       *)
LEMMA EnterFrame ==
  ASSUME NEW f \in Frame, NEW list \in FdList,
         NEW stage \in {"file", "exec", "links"}
  PROVE  /\ Enter(f, stage, list) \in Frame
         /\ Enter(f, stage, list).node = f.node
         /\ Enter(f, stage, list).stage = stage
<1>1. <<>> \in FdList /\ stage \in Stages
  BY EmptySeq DEF FdList, Stages
<1>2. (IF stage = "file" THEN 0 ELSE 1) \in Nat /\ 1 \in Nat \ {0}
  OBVIOUS
<1>3. QED
  BY <1>1, <1>2 DEF Enter, Frame

LEMMA EnterNodeKeeps ==
  ASSUME IInv, EnterNode
  PROVE  IInv'
<1>1. /\ stack # <<>> /\ Top \in Frame /\ Top.stage = "enter" /\ FrameShape(Top)
      /\ UNCHANGED <<prog, cfg, fdt, files, result, flushed>>
  BY AtTop DEF EnterNode
<1> DEFINE fr == Enter(Top, FirstStage(Top.node), <<Top.arg>>)
<1>2. Top.node \in Node
  BY <1>1, FrameFields DEF FrameShape
<1>3. FirstStage(Top.node) \in {"file", "exec", "links"}
  BY DEF FirstStage, AfterFile
<1>4. <<Top.arg>> \in FdList /\ <<>> \in FdList
  BY <1>1, FrameFields DEF FdList
<1>5. fr \in Frame /\ fr.node = Top.node /\ fr.stage = FirstStage(Top.node)
  BY <1>1, <1>3, <1>4, EnterFrame
<1>6. FrameShape(fr)
  BY <1>2, <1>3, <1>5, RuntimeAssumption DEF FrameShape, FirstStage, AfterFile
<1>7. StackOK'
  BY <1>1, <1>5, <1>6, SetTopKeeps DEF EnterNode
<1>8. DataOK'
  <2>1. log' \in Seq(EventType)
    BY <1>2, LogKeeps DEF EnterNode
  <2>2. QED
    BY <1>1, <2>1, NowParts DEF DataOK, OpenFile, EventType
<1>9. QED
  BY <1>1, <1>7, <1>8, SameTable, Parts

LEMMA ParamsFailKeeps ==
  ASSUME IInv, ParamsFail
  PROVE  IInv'
<1>1. /\ stack # <<>> /\ Top \in Frame /\ Top.stage = "enter" /\ FrameShape(Top)
      /\ UNCHANGED <<prog, cfg, files, result, log, flushed>>
  BY AtTop DEF ParamsFail
<1>2. Top.node # Root
  BY <1>1 DEF FrameShape
<1>3. {Top.arg} \subseteq OwnFds \cup {NoFd}
  BY <1>1, FrameFields
<1>4. StackOK' /\ TableOK'
  BY <1>1, <1>2, <1>3, FailInCaller DEF ParamsFail
<1>5. QED
  BY <1>1, <1>4, SameData, Parts

LEMMA FinishErrKeeps ==
  ASSUME IInv, FinishErr
  PROVE  IInv'
<1>1. /\ stack # <<>> /\ Top \in Frame /\ Top.node # Root
      /\ UNCHANGED <<prog, cfg, files, result, flushed>>
  BY AtTop DEF FinishErr, Unwinding
<1>2. Held(Top.active) \cup {Top.arg} \subseteq OwnFds \cup {NoFd}
  BY <1>1, FrameFields, HeldIsOwn
<1>3. StackOK' /\ TableOK'
  BY <1>1, <1>2, FailInCaller DEF FinishErr
<1>4. DataOK'
  <2>1. log' \in Seq(EventType)
    BY <1>1, FrameFields, LogKeeps DEF FinishErr
  <2>2. QED
    BY <1>1, <2>1, NowParts DEF DataOK, OpenFile, EventType
<1>5. QED
  BY <1>1, <1>3, <1>4, Parts
(* A frame whose loop indices move stays what it was.                      *)
LEMMA LoopFrame ==
  ASSUME NEW f \in Frame, NEW i \in Nat \ {0}, NEW j \in Nat
  PROVE  /\ [f EXCEPT !.i = i, !.j = j] \in Frame
         /\ [f EXCEPT !.i = i, !.j = j].node = f.node
         /\ [f EXCEPT !.i = i, !.j = j].stage = f.stage
BY DEF Frame

LEMMA SameShape ==
  ASSUME NEW f, NEW g, g.node = f.node, g.stage = f.stage, FrameShape(f)
  PROVE  FrameShape(g)
BY DEF FrameShape

(* Actions that only move the loops of the top frame.                      *)
LEMMA LoopKeeps ==
  ASSUME IInv, stack # <<>>, UNCHANGED <<prog, cfg>>,
         NEW i \in Nat \ {0}, NEW j \in Nat,
         stack' = [stack EXCEPT ![Len(stack)] = [Top EXCEPT !.i = i, !.j = j]]
  PROVE  StackOK'
<1>1. Top \in Frame /\ Len(stack) \in 1..Len(stack)
  BY NowParts, TopFacts
<1>2. FrameShape(Top)
  BY <1>1, NowParts DEF CallChain, Top
<1> DEFINE fr == [Top EXCEPT !.i = i, !.j = j]
<1>3. fr \in Frame /\ fr.node = Top.node /\ fr.stage = Top.stage
  BY <1>1, LoopFrame
<1>4. FrameShape(fr)
  BY <1>2, <1>3, SameShape
<1>5. SetTop(fr)
  BY DEF SetTop
<1>6. QED
  BY <1>3, <1>4, <1>5, SetTopKeeps

LEMMA LoadChildKeeps ==
  ASSUME IInv, LoadChild
  PROVE  IInv'
<1>1. /\ stack # <<>> /\ Top \in Frame
      /\ UNCHANGED <<prog, cfg, fdt, files, result, log, flushed>>
  BY AtTop DEF LoadChild
<1>2. [Top EXCEPT !.j = 1] = [Top EXCEPT !.i = Top.i, !.j = 1]
  BY <1>1 DEF Frame
<1>3. Top.i \in Nat \ {0} /\ 1 \in Nat
  BY <1>1, FrameFields
<1>4. StackOK'
  BY <1>1, <1>2, <1>3, LoopKeeps DEF LoadChild, SetTop
<1>5. QED
  BY <1>1, <1>4, SameTable, SameData, Parts

LEMMA BranchConsumedKeeps ==
  ASSUME IInv, BranchConsumed
  PROVE  IInv'
<1>1. /\ stack # <<>> /\ Top \in Frame
      /\ Top.i \in DOMAIN Top.active
      /\ UNCHANGED <<prog, cfg, files, result, log, flushed>>
  BY AtTop DEF BranchConsumed
<1>2. Top.i + 1 \in Nat \ {0} /\ (IF Top.stage = "file" THEN 0 ELSE 1) \in Nat
  BY <1>1, FrameFields
<1>3. StackOK'
  BY <1>1, <1>2, LoopKeeps DEF BranchConsumed, SetTop
<1>4. {Top.active[Top.i]} \subseteq OwnFds \cup {NoFd}
  BY <1>1, FrameFields, HeldIsOwn DEF Held
<1>5. Intact(fdt')
  BY <1>4, NowParts, ReleaseKeeps DEF BranchConsumed, TableOK
<1>6. QED
  BY <1>1, <1>3, <1>5, TableNext, SameData, Parts

LEMMA FileDoneKeeps ==
  ASSUME IInv, FileDone
  PROVE  IInv'
<1>1. /\ stack # <<>> /\ Top \in Frame /\ Top.stage = "file" /\ FrameShape(Top)
      /\ UNCHANGED <<prog, cfg, fdt, files, result, log, flushed>>
  BY AtTop DEF FileDone
<1> DEFINE fr == Enter(Top, AfterFile(Top.node), Top.next)
<1>2. Top.node # Root /\ Top.next \in FdList
  BY <1>1, FrameFields DEF FrameShape
<1>3. AfterFile(Top.node) \in {"exec", "links"}
  BY DEF AfterFile
<1>4. fr \in Frame /\ fr.node = Top.node /\ fr.stage = AfterFile(Top.node)
  BY <1>1, <1>2, <1>3, EnterFrame
<1>5. FrameShape(fr)
  BY <1>2, <1>3, <1>4 DEF FrameShape
<1>6. StackOK'
  BY <1>1, <1>4, <1>5, SetTopKeeps DEF FileDone
<1>7. QED
  BY <1>1, <1>6, SameTable, SameData, Parts

LEMMA ExecDoneKeeps ==
  ASSUME IInv, ExecDone
  PROVE  IInv'
<1>1. /\ stack # <<>> /\ Top \in Frame /\ Top.stage = "exec" /\ FrameShape(Top)
      /\ UNCHANGED <<prog, cfg, fdt, files, result, log, flushed>>
  BY AtTop DEF ExecDone
<1> DEFINE fr == Enter(Top, "links", Top.next)
<1>2. Top.node # Root /\ Top.next \in FdList
  BY <1>1, FrameFields DEF FrameShape
<1>3. fr \in Frame /\ fr.node = Top.node /\ fr.stage = "links"
  BY <1>1, <1>2, EnterFrame
<1>4. FrameShape(fr)
  BY <1>2, <1>3 DEF FrameShape
<1>5. StackOK'
  BY <1>1, <1>3, <1>4, SetTopKeeps DEF ExecDone
<1>6. QED
  BY <1>1, <1>5, SameTable, SameData, Parts

LEMMA EntriesDoneKeeps ==
  ASSUME IInv, EntriesDone
  PROVE  IInv'
<1>1. /\ stack # <<>> /\ Top \in Frame /\ Top.stage = "entries" /\ FrameShape(Top)
      /\ UNCHANGED <<prog, cfg, fdt, files, result, log, flushed>>
  BY AtTop DEF EntriesDone
<1> DEFINE fr == [Top EXCEPT !.stage = "flush"]
<1>2. fr \in Frame /\ fr.node = Top.node /\ fr.stage = "flush"
  BY <1>1 DEF Frame, Stages
<1>3. FrameShape(fr)
  BY <1>1, <1>2 DEF FrameShape
<1>4. StackOK'
  BY <1>1, <1>2, <1>3, SetTopKeeps DEF EntriesDone
<1>5. QED
  BY <1>1, <1>4, SameTable, SameData, Parts

(* The failures that stay in the frame they happen in.                     *)
LEMMA FailuresKeep ==
  ASSUME IInv, DupFails \/ ChildFails \/ ExecFails \/ FlushFails
  PROVE  IInv'
<1>1. /\ stack # <<>> /\ Fail(stack, {})
      /\ UNCHANGED <<prog, cfg, files, result, log, flushed>>
  BY DEF DupFails, ChildFails, ExecFails, FlushFails, Calling, At
<1>2. StackOK' /\ TableOK'
  BY <1>1, FailInTop
<1>3. QED
  BY <1>1, <1>2, SameData, Parts

LEMMA EmptyStackOK ==
  ASSUME stack' = <<>>
  PROVE  StackOK'
<1>1. stack' \in Seq(Frame') /\ Len(stack') = 0
  BY EmptySeq
<1>2. QED
  BY <1>1 DEF StackOK, StackIsCallChain, CallChain

LEMMA EntryDupFailsKeeps ==
  ASSUME IInv, EntryDupFails
  PROVE  IInv'
<1>1. /\ stack' = <<>> /\ result' = "error"
      /\ log' = Append(log, Event("run.finished", Root, "error"))
      /\ UNCHANGED <<prog, cfg, files, flushed>>
  BY DEF EntryDupFails
<1>2. DataOK'
  BY <1>1, LogKeeps, NowParts DEF DataOK, OpenFile, EventType
<1>3. Intact(fdt')
  <2>1. CASE fdt' = fdt
    BY <2>1, NowParts DEF TableOK
  <2>2. CASE /\ Source(Top) \in OpenFds(fdt)
             /\ \E f \in Fds : IsNextFd(fdt, f) /\ fdt' = Dup(fdt, Source(Top), f)
    <3>1. PICK f \in Fds : IsNextFd(fdt, f) /\ fdt' = Dup(fdt, Source(Top), f)
      BY <2>2
    <3>2. QED
      BY <2>2, <3>1, NowParts, DupKeeps
  <2>3. QED
    BY <2>1, <2>2 DEF EntryDupFails
<1>4. QED
  BY <1>1, <1>2, <1>3, EmptyStackOK, TableNext, Parts

LEMMA RunParamsFailKeeps ==
  ASSUME IInv, RunParamsFail
  PROVE  IInv'
<1>1. /\ stack' = <<>> /\ result' = "error"
      /\ log' = Append(log, Event("run.finished", Root, "error"))
      /\ UNCHANGED <<prog, cfg, fdt, files, flushed>>
  BY DEF RunParamsFail
<1>2. DataOK'
  BY <1>1, LogKeeps, NowParts DEF DataOK, OpenFile, EventType
<1>3. Intact(fdt')
  BY <1>1, NowParts DEF TableOK
<1>4. QED
  BY <1>1, <1>2, <1>3, EmptyStackOK, TableNext, Parts

LEMMA RunEndsKeeps ==
  ASSUME IInv, RunEnds
  PROVE  IInv'
<1>1. /\ stack # <<>> /\ stack' = <<>>
      /\ fdt' = Release(fdt, Held(Top.next))
      /\ result' \in {"ok", "error"}
      /\ log' = Append(log, Event("run.finished", Root, result'))
      /\ UNCHANGED <<prog, cfg, files, flushed>>
  BY DEF RunEnds, At, Unwinding
<1>2. DataOK'
  BY <1>1, LogKeeps, NowParts DEF DataOK, OpenFile, EventType
<1>3. Held(Top.next) \subseteq OwnFds \cup {NoFd}
  BY <1>1, NowParts, TopFacts, FrameFields, HeldIsOwn
<1>4. Intact(fdt')
  BY <1>1, <1>3, NowParts, ReleaseKeeps DEF TableOK
<1>5. QED
  BY <1>1, <1>2, <1>4, EmptyStackOK, TableNext, Parts

LEMMA FlushBranchKeeps ==
  ASSUME IInv, FlushBranch
  PROVE  IInv'
<1>1. /\ stack # <<>> /\ Top \in Frame
      /\ UNCHANGED <<prog, cfg, fdt, result, log>>
  BY AtTop DEF FlushBranch
<1> DEFINE fd == Top.next[Top.i]
<1>2. StackOK'
  <2>1. [Top EXCEPT !.i = @ + 1] = [Top EXCEPT !.i = Top.i + 1, !.j = Top.j]
    BY <1>1 DEF Frame
  <2>2. Top.i + 1 \in Nat \ {0} /\ Top.j \in Nat
    BY <1>1, FrameFields
  <2>3. QED
    BY <1>1, <2>1, <2>2, LoopKeeps DEF FlushBranch, SetTop
<1>3. files' \in [Fds -> OpenFile]
  BY SeekKeeps DEF FlushBranch
<1>4. flushed' \in Seq(Seq(Node \cup {Root}))
  <2>1. CASE fd = NoFd
    BY <2>1, NowParts DEF FlushBranch, DataOK
  <2>2. CASE fd # NoFd
    <3>1. fd \in OpenFds(fdt)
      BY <2>2 DEF FlushBranch
    <3>2. fdt[fd] \in Fds
      BY <3>1, NowParts DEF OpenFds, TypeOK
    <3>3. files[fdt[fd]].trail \in Seq(Node \cup {Root})
      BY <3>2, NowParts DEF DataOK, OpenFile
    <3>4. flushed' = Append(flushed, files[fdt[fd]].trail)
      BY <2>2 DEF FlushBranch
    <3>5. QED
      BY <3>3, <3>4, NowParts, AppendProperties DEF DataOK
  <2>3. QED
    BY <2>1, <2>2
<1>5. DataOK'
  BY <1>1, <1>3, <1>4, NowParts DEF DataOK, OpenFile, EventType
<1>6. QED
  BY <1>1, <1>2, <1>5, SameTable, Parts

(* A return to the caller, whose frame becomes fr.                         *)
LEMMA ReturnKeeps ==
  ASSUME IInv, stack # <<>>, Top.node # Root, UNCHANGED <<prog, cfg>>,
         NEW fr \in Frame, fr.node = Callers[Len(Callers)].node, FrameShape(fr),
         stack' = [Callers EXCEPT ![Len(Callers)] = fr]
  PROVE  StackOK'
<1>1. Callers \in Seq(Frame) /\ Callers # <<>> /\ CallChain(Callers)
  BY NowParts, TopFacts, ChainPop, NodeHasCaller
<1>2. stack' \in Seq(Frame) /\ CallChain(stack')
  BY <1>1, ChainTop
<1>3. QED
  BY <1>2, SameConfig DEF StackOK

(* The caller's frame of a node.                                           *)
LEMMA CallerFacts ==
  ASSUME IInv, stack # <<>>, Top.node # Root
  PROVE  /\ Callers # <<>> /\ Len(Callers) \in 1..Len(Callers)
         /\ Len(Callers) = Len(stack) - 1
         /\ Callers[Len(Callers)] = stack[Len(stack) - 1]
         /\ Callers[Len(Callers)] \in Frame
         /\ FrameShape(Callers[Len(Callers)])
<1>1. Callers \in Seq(Frame) /\ Callers # <<>> /\ CallChain(Callers)
  BY NowParts, TopFacts, ChainPop, NodeHasCaller
<1>2. Len(Callers) \in 1..Len(Callers)
  BY <1>1, EmptySeq
<1>3. Len(Callers) = Len(stack) - 1 /\ Callers[Len(Callers)] = stack[Len(stack) - 1]
  BY <1>2, NowParts, TopFacts
<1>4. QED
  BY <1>1, <1>2, <1>3, ElementOfSeq DEF CallChain

LEMMA FinishOkKeeps ==
  ASSUME IInv, FinishOk
  PROVE  IInv'
<1>1. /\ stack # <<>> /\ Top \in Frame /\ Top.stage = "ok" /\ FrameShape(Top)
      /\ UNCHANGED <<prog, cfg, fdt, files, result, flushed>>
  BY AtTop DEF FinishOk
<1>2. Top.node # Root
  BY <1>1 DEF FrameShape
<1> DEFINE c  == Callers[Len(Callers)]
           fr == [c EXCEPT !.j = @ + 1]
<1>3. c \in Frame /\ FrameShape(c)
  BY <1>1, <1>2, CallerFacts
<1>4. fr \in Frame /\ fr.node = c.node /\ fr.stage = c.stage
  BY <1>3 DEF Frame
<1>5. FrameShape(fr)
  BY <1>3, <1>4, SameShape
<1>6. stack' = [Callers EXCEPT ![Len(Callers)] = fr]
  BY DEF FinishOk
<1>7. StackOK'
  <2> HIDE DEF fr
  <2>1. QED
    BY <1>1, <1>2, <1>4, <1>5, <1>6, ReturnKeeps
<1>8. DataOK'
  <2>1. log' \in Seq(EventType)
    BY <1>1, FrameFields, LogKeeps DEF FinishOk
  <2>2. QED
    BY <1>1, <2>1, NowParts DEF DataOK, OpenFile, EventType
<1>9. QED
  BY <1>1, <1>7, <1>8, SameTable, Parts
(* fd_list_append yields a list, whether or not everything fitted.         *)
LEMMA MovedIsList ==
  ASSUME NEW dst \in FdList, NEW src \in FdList
  PROVE  Moved(dst, src) \in FdList
<1> DEFINE S == OwnFds \cup {NoFd}
           n == MaxBranches - Len(dst)
<1>1. dst \in Seq(S) /\ src \in Seq(S) /\ Len(dst) \in Nat /\ Len(src) \in Nat
  BY LenProperties DEF FdList
<1>2. n \in Int
  BY <1>1, RuntimeAssumption
<1>3. CASE Fits(dst, src)
  BY <1>1, <1>3, ConcatProperties DEF Moved, FdList
<1>4. CASE ~ Fits(dst, src)
  <2>1. n < Len(src)
    BY <1>1, <1>4, RuntimeAssumption DEF Fits
  <2>2. \A k \in 1..n : src[k] \in S
    BY <1>1, <1>2, <2>1, ElementOfSeq
  <2> HIDE DEF n, S
  <2>3. SubSeq(src, 1, n) \in Seq(S)
    BY <1>2, <2>2, SubSeqProperties
  <2>4. dst \o SubSeq(src, 1, n) \in Seq(S)
    BY <1>1, <2>3, ConcatProperties
  <2>5. QED
    BY <1>4, <2>4 DEF Moved, FdList, n, S
<1>5. QED
  BY <1>3, <1>4

(* The branches of a node go to its caller's list.                         *)
LEMMA HandOverKeeps ==
  ASSUME IInv, stack # <<>>, Top.node # Root, UNCHANGED <<prog, cfg>>,
         NEW fr \in Frame, fr.node = Top.node, FrameShape(fr), HandOver(fr)
  PROVE  StackOK'
<1> DEFINE n == Len(stack)
           c == stack[n - 1]
           d == [c EXCEPT !.next = Moved(@, Delivered)]
           s == [stack EXCEPT ![n - 1] = d]
<1>1. n \in Nat /\ n > 1 /\ n - 1 \in 1..n /\ n - 1 < n /\ n \in 1..n
  BY NowParts, NodeHasCaller, LenProperties
<1>2. c \in Frame /\ FrameShape(c)
  BY CallerFacts
<1>3. Delivered \in FdList
  BY NowParts, TopFacts, FrameFields DEF Delivered
<1>4. Moved(c.next, Delivered) \in FdList
  BY <1>2, <1>3, FrameFields, MovedIsList
<1>5. d \in Frame /\ d.node = c.node /\ d.stage = c.stage /\ d.j = c.j
  BY <1>2, <1>4 DEF Frame
<1>6. FrameShape(d)
  BY <1>2, <1>5, SameShape
<1>7. stack' = [s EXCEPT ![n] = fr]
  BY <1>1 DEF HandOver
<1> HIDE DEF d
<1>8. s \in Seq(Frame) /\ Len(s) = n /\ CallChain(s)
  BY <1>1, <1>5, <1>6, NowParts, ChainUpdate
<1>9. s # <<>> /\ s[n].node = fr.node
  <2>1. s[n] = stack[n]
    BY <1>1, NowParts, LenProperties
  <2>2. s # <<>>
    <3> HIDE DEF s
    <3>1. QED
      BY <1>1, <1>8, EmptySeq
  <2>3. fr.node = stack[n].node
    BY DEF Top
  <2> HIDE DEF s
  <2>4. QED
    BY <2>1, <2>2, <2>3
<1> HIDE DEF s
<1>10. stack' \in Seq(Frame) /\ CallChain(stack')
  BY <1>7, <1>8, <1>9, ChainTop
<1>11. QED
  BY <1>10, SameConfig DEF StackOK

LEMMA DeliverKeeps ==
  ASSUME IInv, Deliver
  PROVE  IInv'
<1>1. /\ stack # <<>> /\ Top \in Frame /\ Top.stage = "links" /\ FrameShape(Top)
      /\ UNCHANGED <<prog, cfg, fdt, files, result, log, flushed>>
  BY AtTop DEF Deliver, Delivering
<1>2. Top.node # Root
  BY <1>1 DEF FrameShape
<1> DEFINE fr == [Top EXCEPT !.stage = "ok", !.active = <<>>, !.next = <<>>]
<1>3. <<>> \in FdList /\ "ok" \in Stages
  BY EmptySeq DEF FdList, Stages
<1>4. fr \in Frame /\ fr.node = Top.node /\ fr.stage = "ok"
  BY <1>1, <1>3 DEF Frame
<1>5. FrameShape(fr)
  BY <1>2, <1>4 DEF FrameShape
<1>6. HandOver(fr)
  BY DEF Deliver
<1> HIDE DEF fr
<1>7. StackOK'
  BY <1>1, <1>2, <1>4, <1>5, <1>6, HandOverKeeps
<1>8. QED
  BY <1>1, <1>7, SameTable, SameData, Parts

LEMMA DeliverOverflowsKeeps ==
  ASSUME IInv, DeliverOverflows
  PROVE  IInv'
<1>1. /\ stack # <<>> /\ Top \in Frame /\ Top.stage = "links" /\ FrameShape(Top)
      /\ UNCHANGED <<prog, cfg, files, result, log, flushed>>
  BY AtTop DEF DeliverOverflows, Delivering
<1>2. Top.node # Root
  BY <1>1 DEF FrameShape
<1> DEFINE fr == [Top EXCEPT !.stage = "err", !.next = <<>>,
                             !.active = IF Terminal THEN @ ELSE <<>>]
<1>3. <<>> \in FdList /\ "err" \in Stages
  BY EmptySeq DEF FdList, Stages
<1>4. fr \in Frame /\ fr.node = Top.node /\ fr.stage = "err"
  BY <1>1, <1>3 DEF Frame
<1>5. FrameShape(fr)
  BY <1>2, <1>4 DEF FrameShape
<1>6. HandOver(fr)
  BY DEF DeliverOverflows
<1> HIDE DEF fr
<1>7. StackOK'
  BY <1>1, <1>2, <1>4, <1>5, <1>6, HandOverKeeps
<1>8. Intact(fdt')
  <2>1. Held(Top.next) \subseteq OwnFds \cup {NoFd}
    BY <1>1, FrameFields, HeldIsOwn
  <2>2. QED
    BY <2>1, NowParts, ReleaseKeeps DEF DeliverOverflows, TableOK
<1>9. QED
  BY <1>1, <1>7, <1>8, TableNext, SameData, Parts
(* A chain of calls stays one when its top frame calls run_node.           *)
LEMMA ChainPush ==
  ASSUME NEW s \in Seq(Frame), s # <<>>, CallChain(s),
         NEW fr \in Frame, FrameShape(fr), fr.node # Root, Calls(s[Len(s)], fr)
  PROVE  Append(s, fr) \in Seq(Frame) /\ CallChain(Append(s, fr))
<1> DEFINE t == Append(s, fr)
<1>1. Len(s) \in Nat \ {0}
  BY EmptySeq
<1>2. /\ t \in Seq(Frame)
      /\ Len(t) = Len(s) + 1
      /\ \A k \in 1..Len(s) : t[k] = s[k]
      /\ t[Len(s) + 1] = fr
  BY AppendProperties
<1> HIDE DEF t
<1>3. ASSUME NEW k \in 1..Len(t)
      PROVE  /\ FrameShape(t[k])
             /\ t[k].node = Root <=> k = 1
             /\ k > 1 => Calls(t[k - 1], t[k])
  <2>1. CASE k \in 1..Len(s)
    <3>1. t[k] = s[k] /\ (k > 1 => t[k - 1] = s[k - 1])
      BY <1>1, <1>2, <2>1
    <3>2. QED
      BY <2>1, <3>1 DEF CallChain
  <2>2. CASE k = Len(s) + 1
    <3>1. t[k] = fr /\ k # 1 /\ t[k - 1] = s[Len(s)]
      BY <1>1, <1>2, <2>2
    <3>2. QED
      BY <3>1
  <2>3. QED
    BY <1>1, <1>2, <2>1, <2>2
<1>4. QED
  BY <1>2, <1>3 DEF t, CallChain

(* What a calling loop goes over are nodes.                                *)
LEMMA TargetIsNode ==
  ASSUME IInv, Calling
  PROVE  /\ stack # <<>> /\ Top \in Frame
         /\ Top.stage \in {"entries", "file", "links"}
         /\ Top.j \in DOMAIN Targets(Top)
         /\ Targets(Top)[Top.j] \in Node
<1>1. /\ stack # <<>> /\ Top \in Frame /\ FrameShape(Top)
      /\ Top.stage \in {"entries", "file", "links"}
      /\ Top.j \in DOMAIN Targets(Top)
  BY AtTop DEF Calling
<1>2. prog \in ProgramType
  BY NowParts DEF TypeOK
<1>3. Targets(Top) \in Seq(Node)
  <2>1. CASE Top.stage = "entries"
    BY <1>2, <2>1, RuntimeAssumption DEF Targets, ProgramType
  <2>2. CASE Top.stage = "file"
    <3>1. Top.node \in Node /\ prog.file[Top.node] \in Flow
      BY <1>1, <1>2, <2>2, FrameFields DEF FrameShape, ProgramType
    <3>2. QED
      BY <1>2, <2>2, <3>1 DEF Targets, ProgramType
  <2>3. CASE Top.stage = "links"
    <3>1. Top.node \in Node
      BY <1>1, <2>3, FrameFields DEF FrameShape
    <3>2. QED
      BY <1>2, <2>3, <3>1 DEF Targets, ProgramType
  <2>4. QED
    BY <1>1, <2>1, <2>2, <2>3
<1>4. QED
  BY <1>1, <1>3, LenProperties, ElementOfSeq

LEMMA CallBranchKeeps ==
  ASSUME IInv, CallBranch
  PROVE  IInv'
<1>1. /\ stack # <<>> /\ Top \in Frame
      /\ Top.stage \in {"entries", "file", "links"}
      /\ Top.j \in DOMAIN Targets(Top)
      /\ Targets(Top)[Top.j] \in Node
      /\ UNCHANGED <<prog, cfg, result, log, flushed>>
  BY TargetIsNode DEF CallBranch
<1> DEFINE n == Targets(Top)[Top.j]
<1>2. ASSUME NEW fd \in OwnFds \cup {NoFd}, stack' = Append(stack, FrameOf(n, fd))
      PROVE  StackOK'
  <2> DEFINE fr == FrameOf(n, fd)
  <2>1. <<>> \in FdList
    BY EmptySeq DEF FdList
  <2>2. fr \in Frame /\ fr.node = n /\ fr.stage = "enter"
    BY <1>1, <2>1 DEF FrameOf, Frame, Stages
  <2>3. fr.node # Root /\ FrameShape(fr)
    BY <1>1, <2>2, RuntimeAssumption DEF FrameShape
  <2>4. Calls(stack[Len(stack)], fr)
    BY <1>1, <2>2 DEF Calls, Top
  <2> HIDE DEF fr
  <2>5. stack' \in Seq(Frame) /\ CallChain(stack')
    BY <1>1, <1>2, <2>2, <2>3, <2>4, NowParts, ChainPush DEF fr
  <2>6. QED
    BY <1>1, <2>5, SameConfig DEF StackOK
<1>3. CASE stack' = Append(stack, FrameOf(n, NoFd)) /\ UNCHANGED <<fdt, files>>
  BY <1>1, <1>2, <1>3, SameTable, SameData, Parts
<1>4. CASE /\ Source(Top) \in OpenFds(fdt)
           /\ \E f \in Fds : /\ IsNextFd(fdt, f)
                             /\ fdt' = Dup(fdt, Source(Top), f)
                             /\ stack' = Append(stack, FrameOf(n, f))
           /\ files' = Seek(Source(Top), FALSE)
  <2>1. PICK f \in Fds : /\ IsNextFd(fdt, f)
                         /\ fdt' = Dup(fdt, Source(Top), f)
                         /\ stack' = Append(stack, FrameOf(n, f))
    BY <1>4
  <2>2. f \in OwnFds /\ Intact(fdt')
    BY <1>4, <2>1, NowParts, DupKeeps
  <2>3. StackOK'
    BY <1>2, <2>1, <2>2
  <2>4. files' \in [Fds -> OpenFile]
    BY <1>4, SeekKeeps
  <2>5. DataOK'
    BY <1>1, <2>4, NowParts DEF DataOK, OpenFile, EventType
  <2>6. QED
    BY <1>1, <2>2, <2>3, <2>5, TableNext, Parts
<1>5. QED
  BY <1>3, <1>4 DEF CallBranch

LEMMA ReadsIsTrail ==
  ASSUME IInv, NEW fd
  PROVE  Reads(fd) \in Seq(Node \cup {Root})
<1>1. ASSUME fd \in OpenFds(fdt)
      PROVE  files[fdt[fd]].trail \in Seq(Node \cup {Root})
  <2>1. fdt[fd] \in Fds
    BY <1>1, NowParts DEF OpenFds, TypeOK
  <2>2. QED
    BY <2>1, NowParts DEF DataOK, OpenFile
<1>2. QED
  BY <1>1, EmptySeq DEF Reads

LEMMA ExecBranchKeeps ==
  ASSUME IInv, ExecBranch
  PROVE  IInv'
<1>1. /\ stack # <<>> /\ Top \in Frame /\ Top.stage = "exec" /\ FrameShape(Top)
      /\ Top.i \in DOMAIN Top.active
      /\ UNCHANGED <<prog, cfg, result, log, flushed>>
  BY AtTop DEF ExecBranch
<1> DEFINE in == Top.active[Top.i]
<1>2. PICK f \in Fds, o \in Fds :
         /\ IsNextFd(fdt, f)
         /\ fdt' = Release(Created(fdt, f, o), {in})
         /\ files' = [Seek(in, TRUE) EXCEPT
                        ![o] = [trail |-> Append(Reads(in), Top.node),
                                atEnd |-> TRUE]]
         /\ SetTop([Top EXCEPT !.next = Append(@, f), !.i = @ + 1])
  BY DEF ExecBranch
<1>3. f \in OwnFds /\ Intact(Created(fdt, f, o))
  BY <1>2, NowParts, OpenKeeps DEF Created, TableOK
<1>4. {in} \subseteq OwnFds \cup {NoFd}
  BY <1>1, FrameFields, HeldIsOwn DEF Held
<1>5. Intact(fdt')
  BY <1>2, <1>3, <1>4, NowParts, ReleaseKeeps
<1>6. files' \in [Fds -> OpenFile]
  <2>1. Append(Reads(in), Top.node) \in Seq(Node \cup {Root})
    BY <1>1, FrameFields, ReadsIsTrail, AppendProperties
  <2>2. [trail |-> Append(Reads(in), Top.node), atEnd |-> TRUE] \in OpenFile
    BY <2>1 DEF OpenFile
  <2>3. Seek(in, TRUE) \in [Fds -> OpenFile]
    BY SeekKeeps
  <2>4. QED
    BY <1>2, <2>2, <2>3
<1>7. StackOK'
  <2> DEFINE fr == [Top EXCEPT !.next = Append(@, f), !.i = @ + 1]
  <2>1. Append(Top.next, f) \in FdList
    BY <1>1, <1>3, FrameFields, AppendProperties DEF FdList
  <2>2. Top.i + 1 \in Nat \ {0}
    BY <1>1, FrameFields
  <2>3. fr \in Frame /\ fr.node = Top.node /\ fr.stage = Top.stage
    BY <1>1, <2>1, <2>2 DEF Frame
  <2>4. FrameShape(fr)
    BY <1>1, <2>3, SameShape
  <2>5. QED
    BY <1>1, <1>2, <2>3, <2>4, SetTopKeeps
<1>8. DataOK'
  BY <1>1, <1>6, NowParts DEF DataOK, OpenFile, EventType
<1>9. QED
  BY <1>1, <1>5, <1>7, <1>8, TableNext, Parts
----------------------------------------------------------------------------
(* The invariant holds of every run.                                       *)

LEMMA InitHolds == Init => IInv
<1> SUFFICES ASSUME Init PROVE IInv
  OBVIOUS
<1> DEFINE fr == [FrameOf(Root, NoFd) EXCEPT !.stage = "entries"]
<1>1. prog \in ProgramType /\ cfg \in Cfgs /\ cfg.foreign \subseteq Fds
  BY RuntimeAssumption DEF Init, CfgType
<1>2. Intact(fdt)
  BY <1>1 DEF Init, Intact
<1>3. files \in [Fds -> OpenFile]
  <2>1. <<Root>> \in Seq(Node \cup {Root}) /\ <<>> \in Seq(Node \cup {Root})
    BY EmptySeq
  <2>2. QED
    BY <2>1 DEF Init, OpenFile
<1>4. fr \in Frame /\ fr.node = Root /\ fr.stage = "entries"
  <2>1. <<>> \in FdList
    BY EmptySeq DEF FdList
  <2>2. QED
    BY <2>1 DEF FrameOf, Frame, Stages
<1>5. FrameShape(fr)
  BY <1>4 DEF FrameShape
<1>6. stack = <<fr>>
  BY DEF Init
<1> HIDE DEF fr
<1>7. stack \in Seq(Frame) /\ Len(stack) = 1 /\ stack[1] = fr
  BY <1>4, <1>6
<1>8. StackIsCallChain
  BY <1>4, <1>5, <1>7 DEF StackIsCallChain, CallChain
<1>9. log \in Seq(EventType)
  <2>1. Event("run.started", Root, "none") \in EventType
    BY DEF Event, EventType
  <2>2. QED
    BY <2>1 DEF Init
<1>10. flushed \in Seq(Seq(Node \cup {Root})) /\ result = "none"
  BY EmptySeq DEF Init
<1>11. QED
  BY <1>1, <1>2, <1>3, <1>7, <1>8, <1>9, <1>10
     DEF IInv, TypeOK, NoForeignClose, Intact

LEMMA StutterKeeps ==
  ASSUME IInv, UNCHANGED vars
  PROVE  IInv'
<1>1. UNCHANGED <<prog, cfg, fdt, files, stack, result, log, flushed>>
  BY DEF vars
<1>2. StackOK'
  BY <1>1, NowParts, SameConfig DEF StackOK
<1>3. QED
  BY <1>1, <1>2, SameTable, SameData, Parts

LEMMA NextKeeps == IInv /\ [Next]_vars => IInv'
<1> SUFFICES ASSUME IInv, [Next]_vars PROVE IInv'
  OBVIOUS
<1>1. CASE CallBranch
  BY <1>1, CallBranchKeeps
<1>2. CASE DupFails \/ ChildFails \/ ExecFails \/ FlushFails
  BY <1>2, FailuresKeep
<1>3. CASE EntryDupFails
  BY <1>3, EntryDupFailsKeeps
<1>4. CASE BranchConsumed
  BY <1>4, BranchConsumedKeeps
<1>5. CASE EnterNode
  BY <1>5, EnterNodeKeeps
<1>6. CASE ParamsFail
  BY <1>6, ParamsFailKeeps
<1>7. CASE LoadChild
  BY <1>7, LoadChildKeeps
<1>8. CASE FileDone
  BY <1>8, FileDoneKeeps
<1>9. CASE ExecBranch
  BY <1>9, ExecBranchKeeps
<1>10. CASE ExecDone
  BY <1>10, ExecDoneKeeps
<1>11. CASE Deliver
  BY <1>11, DeliverKeeps
<1>12. CASE DeliverOverflows
  BY <1>12, DeliverOverflowsKeeps
<1>13. CASE FinishOk
  BY <1>13, FinishOkKeeps
<1>14. CASE FinishErr
  BY <1>14, FinishErrKeeps
<1>15. CASE EntriesDone
  BY <1>15, EntriesDoneKeeps
<1>16. CASE FlushBranch
  BY <1>16, FlushBranchKeeps
<1>17. CASE RunEnds
  BY <1>17, RunEndsKeeps
<1>18. CASE Exited \/ UNCHANGED vars
  BY <1>18, StutterKeeps DEF Exited
<1>19. CASE RunParamsFail
  BY <1>19, RunParamsFailKeeps
<1>20. QED
  BY <1>1, <1>2, <1>3, <1>4, <1>5, <1>6, <1>7, <1>8, <1>9, <1>10, <1>11,
     <1>12, <1>13, <1>14, <1>15, <1>16, <1>17, <1>18, <1>19 DEF Next

LEMMA Invariance == Spec => []IInv
<1>1. Init => IInv
  BY InitHolds
<1>2. IInv /\ [Next]_vars => IInv'
  BY NextKeeps
<1>3. QED
  BY <1>1, <1>2, PTL DEF Spec

(* Every variable of the engine has its type in every run: in particular   *)
(* no list of any frame ever holds a descriptor that kc-flow did not open  *)
(* itself, on the error paths of node.c and runtime.c included.            *)
THEOREM TypeCorrect == Spec => []TypeOK
<1>1. IInv => TypeOK
  BY DEF IInv
<1>2. QED
  BY <1>1, Invariance, PTL

(* The recursion of node.c and runtime.c: frames are pending calls of      *)
(* run_node, each for the node its caller's loop stands at.                *)
THEOREM CallsNest == Spec => []StackIsCallChain
<1>1. IInv => StackIsCallChain
  BY DEF IInv
<1>2. QED
  BY <1>1, Invariance, PTL

(* kc_flow_release_fd never closes a descriptor the process was started    *)
(* with, and dup and mkstemp never reuse its number: stdio, --fd-in and    *)
(* --fd-out still name the same files whatever fails, although the error   *)
(* paths close numbers they have closed before.                            *)
THEOREM ForeignDescriptorsSurvive == Spec => []NoForeignClose
<1>1. IInv => NoForeignClose
  BY DEF IInv
<1>2. QED
  BY <1>1, Invariance, PTL
----------------------------------------------------------------------------
(* The engine implements Supervision: each of its steps is a step of the   *)
(* supervisor's view or leaves it as it is.  What the proof rests on is the*)
(* shape of the call stack (StackIsCallChain): a frame on top has returned *)
(* into a caller that is in the middle of a call, so a node's events close *)
(* in reverse order and a caller cannot already be failing.                *)

(* What the view is, for a stack that is not empty.                        *)
LEMMA View ==
  ASSUME NEW s, s # <<>>, NEW r
  PROVE  /\ s[Len(s)].stage # "enter" => StartedIn(s) = NodesOf(s)
         /\ s[Len(s)].stage = "enter" => StartedIn(s) = NodesOf(SubSeq(s, 1, Len(s) - 1))
         /\ s[Len(s)].stage = "err" => PhaseIn(s, r) = "failing"
         /\ s[Len(s)].stage = "flush" => PhaseIn(s, r) = "writing"
         /\ s[Len(s)].stage \notin {"err", "flush"} => PhaseIn(s, r) = "running"
BY DEF StartedIn, PhaseIn

LEMMA EmptyView ==
  ASSUME NEW r
  PROVE  StartedIn(<<>>) = <<>> /\ PhaseIn(<<>>, r) = r
BY DEF StartedIn, PhaseIn

(* Frames of the same nodes show the same.                                 *)
LEMMA SameNodes ==
  ASSUME NEW s, NEW t, Len(s) \in Nat, Len(t) = Len(s),
         \A k \in 1..Len(s) : t[k].node = s[k].node
  PROVE  NodesOf(t) = NodesOf(s)
<1>1. \A k \in 1..Len(s) - 1 : k + 1 \in 1..Len(s)
  OBVIOUS
<1>2. \A k \in 1..Len(s) - 1 : t[k + 1].node = s[k + 1].node
  BY <1>1
<1>3. QED
  BY <1>2 DEF NodesOf

(* A frame of its own on top shows one more node.                          *)
LEMMA TopNode ==
  ASSUME IInv, stack # <<>>, Top.node # Root
  PROVE  /\ NodesOf(stack) = Append(NodesOf(Callers), Top.node)
         /\ NodesOf(stack) # <<>>
         /\ NodesOf(stack)[Len(NodesOf(stack))] = Top.node
         /\ SubSeq(NodesOf(stack), 1, Len(NodesOf(stack)) - 1) = NodesOf(Callers)
<1> DEFINE n == Len(stack)
<1>1. n \in Nat /\ n > 1 /\ Len(Callers) = n - 1
      /\ \A k \in 1..n - 1 : Callers[k] = stack[k]
  BY NowParts, TopFacts, NodeHasCaller
<1>2. NodesOf(Callers) = [k \in 1..n - 2 |-> stack[k + 1].node]
  <2>1. \A k \in 1..n - 2 : k + 1 \in 1..n - 1
    BY <1>1
  <2>2. \A k \in 1..n - 2 : Callers[k + 1].node = stack[k + 1].node
    BY <1>1, <2>1
  <2>3. Len(Callers) - 1 = n - 2
    BY <1>1
  <2>4. QED
    BY <2>2, <2>3 DEF NodesOf
<1>3. NodesOf(stack) = [k \in 1..n - 1 |-> stack[k + 1].node]
  BY DEF NodesOf
<1>4. stack[n - 1 + 1].node = Top.node
  BY <1>1 DEF Top
<1> HIDE DEF n
<1>5. Len(NodesOf(stack)) = n - 1 /\ Len(NodesOf(Callers)) = n - 2
  BY <1>1, <1>2, <1>3
<1>6. NodesOf(stack)[n - 1] = Top.node
  BY <1>1, <1>3, <1>4
<1>7. Append(NodesOf(Callers), Top.node) = NodesOf(stack)
  BY <1>1, <1>2, <1>3, <1>4, <1>5
<1>8. SubSeq(NodesOf(stack), 1, n - 1 - 1) = NodesOf(Callers)
  BY <1>1, <1>2, <1>3, <1>5
<1>9. NodesOf(stack) # <<>>
  BY <1>1, <1>5
<1>10. QED
  BY <1>5, <1>6, <1>7, <1>8, <1>9

(* run_model alone shows no node.                                          *)
LEMMA RootAlone ==
  ASSUME IInv, stack # <<>>, Top.node = Root
  PROVE  Len(stack) = 1 /\ NodesOf(stack) = <<>>
<1>1. Len(stack) \in Nat \ {0} /\ Len(stack) \in 1..Len(stack)
  BY NowParts, TopFacts
<1>2. Len(stack) = 1
  BY <1>1, NowParts DEF CallChain, Top
<1>3. NodesOf(stack) = <<>>
  BY <1>2 DEF NodesOf
<1>4. QED
  BY <1>2, <1>3

(* A caller is in the middle of the call.                                  *)
LEMMA CallerStage ==
  ASSUME IInv, stack # <<>>, Top.node # Root
  PROVE  /\ stack[Len(stack) - 1].stage \in {"entries", "file", "links"}
         /\ Calls(stack[Len(stack) - 1], Top)
<1>1. Len(stack) \in Nat /\ Len(stack) > 1 /\ Len(stack) \in 1..Len(stack)
  BY NowParts, TopFacts, NodeHasCaller
<1>2. Calls(stack[Len(stack) - 1], Top)
  BY <1>1, NowParts DEF CallChain, Top
<1>3. QED
  BY <1>2 DEF Calls

(* What a node's caller shows: nothing when it is run_model, its own node  *)
(* last otherwise.                                                         *)
LEMMA CallerIsRoot ==
  ASSUME IInv, stack # <<>>, Top.node # Root, stack[Len(stack) - 1].node = Root
  PROVE  NodesOf(Callers) = <<>>
<1>1. /\ Len(stack) \in Nat /\ Len(stack) > 1
      /\ Len(Callers) = Len(stack) - 1
  BY NowParts, TopFacts, NodeHasCaller
<1>2. Len(stack) - 1 \in 1..Len(stack)
  BY <1>1
<1>3. Len(Callers) = 1
  BY <1>1, <1>2, NowParts DEF CallChain
<1>4. QED
  BY <1>3 DEF NodesOf

LEMMA CallerIsNode ==
  ASSUME IInv, stack # <<>>, Top.node # Root, stack[Len(stack) - 1].node # Root
  PROVE  /\ NodesOf(Callers) # <<>>
         /\ NodesOf(Callers)[Len(NodesOf(Callers))] = stack[Len(stack) - 1].node
<1>1. /\ Len(stack) \in Nat /\ Len(stack) > 1
      /\ Len(Callers) = Len(stack) - 1
      /\ \A k \in 1..Len(stack) - 1 : Callers[k] = stack[k]
  BY NowParts, TopFacts, NodeHasCaller
<1>2. Len(stack) - 1 \in 1..Len(stack)
  BY <1>1
<1>3. Len(stack) - 1 # 1
  BY <1>2, NowParts DEF CallChain
<1>4. NodesOf(Callers) = [k \in 1..Len(stack) - 2 |-> Callers[k + 1].node]
  BY <1>1 DEF NodesOf
<1>5. Len(NodesOf(Callers)) = Len(stack) - 2 /\ Len(stack) - 2 \in 1..Len(stack) - 2
  BY <1>1, <1>3, <1>4
<1>6. NodesOf(Callers)[Len(stack) - 2] = Callers[Len(stack) - 1].node
  BY <1>1, <1>4, <1>5
<1>7. QED
  BY <1>1, <1>2, <1>5, <1>6

(* The top frame of s becomes fr, of the same node.                        *)
LEMMA TopBecomes ==
  ASSUME NEW s \in Seq(Frame), s # <<>>, NEW fr, fr.node = s[Len(s)].node,
         stack' = [s EXCEPT ![Len(s)] = fr]
  PROVE  /\ stack' # <<>>
         /\ stack'[Len(stack')] = fr
         /\ NodesOf(stack') = NodesOf(s)
<1>1. Len(s) \in Nat /\ Len(s) \in 1..Len(s)
  BY EmptySeq
<1>2. /\ Len(stack') = Len(s) /\ stack' \in Seq(Frame \cup {fr})
      /\ \A k \in 1..Len(s) : stack'[k] = IF k = Len(s) THEN fr ELSE s[k]
  <2>1. s \in Seq(Frame \cup {fr})
    BY <1>1, LenProperties, SeqDef
  <2>2. QED
    BY <1>1, <2>1, ExceptSeq
<1>3. stack' # <<>>
  BY <1>1, <1>2, EmptySeq
<1>4. \A k \in 1..Len(s) : stack'[k].node = s[k].node
  BY <1>2
<1>5. NodesOf(stack') = NodesOf(s)
  BY <1>1, <1>2, <1>4, SameNodes
<1>6. QED
  BY <1>1, <1>2, <1>3, <1>5

(* The call that failed shows as a failure, and as nothing else.           *)
LEMMA FailShows ==
  ASSUME NEW s \in Seq(Frame), s # <<>>, NEW extra, Fail(s, extra)
  PROVE  Started' = NodesOf(s) /\ Phase' = "failing"
<1> DEFINE c  == s[Len(s)]
           fr == [c EXCEPT !.stage = "err",
                           !.next = IF c.node = Root THEN @ ELSE <<>>]
<1>1. c \in Frame
  BY EmptySeq, ElementOfSeq
<1>2. fr \in Frame /\ fr.node = c.node /\ fr.stage = "err"
  BY <1>1, EmptySeq DEF Frame, Stages, FdList
<1>3. stack' = [s EXCEPT ![Len(s)] = fr]
  BY DEF Fail
<1> HIDE DEF fr
<1>4. stack' # <<>> /\ stack'[Len(stack')].stage = "err" /\ NodesOf(stack') = NodesOf(s)
  BY <1>2, <1>3, TopBecomes
<1>5. QED
  BY <1>4, View DEF Started, Phase
----------------------------------------------------------------------------
(* One lemma per kind of step.                                             *)

(* Failures inside the frame they happen in.                               *)
LEMMA FailuresBreak ==
  ASSUME IInv, DupFails \/ ChildFails \/ ExecFails \/ FlushFails
  PROVE  Seen!Break
<1>1. /\ stack # <<>> /\ Fail(stack, {})
      /\ Top.stage \in {"entries", "file", "links", "exec", "flush"}
      /\ UNCHANGED <<prog, log, flushed>>
  BY DEF DupFails, ChildFails, ExecFails, FlushFails, Calling, At
<1>2. Started' = NodesOf(stack) /\ Phase' = "failing"
  BY <1>1, NowParts, FailShows
<1>3. Started = NodesOf(stack) /\ Phase \in {"running", "writing"}
  BY <1>1, View DEF Started, Phase, Top
<1>4. QED
  BY <1>1, <1>2, <1>3 DEF Seen!Break

LEMMA AfterFileStage ==
  ASSUME NEW n
  PROVE  AfterFile(n) \in {"exec", "links"}
BY DEF AfterFile

(* The top frame moves on within run_node: nobody sees it.                 *)
LEMMA QuietMove ==
  ASSUME IInv, stack # <<>>, Top.stage \in {"file", "exec", "links"},
         UNCHANGED <<prog, log, flushed>>,
         NEW fr, SetTop(fr), fr.node = Top.node, fr.stage \in {"file", "exec", "links"}
  PROVE  UNCHANGED Seen!vars
<1>1. stack' # <<>> /\ stack'[Len(stack')] = fr /\ NodesOf(stack') = NodesOf(stack)
  BY NowParts, TopBecomes DEF SetTop, Top
<1>2. Started' = Started /\ Phase' = Phase
  BY <1>1, View DEF Started, Phase, Top
<1>3. QED
  BY <1>2 DEF Seen!vars

LEMMA MovesStutter ==
  ASSUME IInv, BranchConsumed \/ LoadChild \/ FileDone \/ ExecBranch \/ ExecDone
  PROVE  UNCHANGED Seen!vars
<1>1. /\ stack # <<>> /\ Top \in Frame
      /\ Top.stage \in {"file", "exec", "links"}
      /\ UNCHANGED <<prog, log, flushed>>
  BY AtTop DEF BranchConsumed, LoadChild, FileDone, ExecBranch, ExecDone
<1>2. CASE BranchConsumed
  <2> DEFINE fr == [Top EXCEPT !.i = @ + 1, !.j = IF Top.stage = "file" THEN 0 ELSE 1]
  <2>1. SetTop(fr) /\ fr.node = Top.node /\ fr.stage = Top.stage
    BY <1>1, <1>2 DEF BranchConsumed, Frame
  <2> HIDE DEF fr
  <2>2. QED
    BY <1>1, <2>1, QuietMove
<1>3. CASE LoadChild
  <2> DEFINE fr == [Top EXCEPT !.j = 1]
  <2>1. SetTop(fr) /\ fr.node = Top.node /\ fr.stage = Top.stage
    BY <1>1, <1>3 DEF LoadChild, Frame
  <2> HIDE DEF fr
  <2>2. QED
    BY <1>1, <2>1, QuietMove
<1>4. CASE FileDone
  <2> DEFINE fr == Enter(Top, AfterFile(Top.node), Top.next)
  <2>1. SetTop(fr)
    BY <1>4 DEF FileDone
  <2>2. fr.node = Top.node /\ fr.stage = AfterFile(Top.node)
    BY <1>1 DEF Enter, Frame
  <2> HIDE DEF fr
  <2>3. QED
    BY <1>1, <2>1, <2>2, AfterFileStage, QuietMove
<1>5. CASE ExecBranch
  <2>1. PICK f \in Fds : SetTop([Top EXCEPT !.next = Append(@, f), !.i = @ + 1])
    BY <1>5 DEF ExecBranch
  <2> DEFINE fr == [Top EXCEPT !.next = Append(@, f), !.i = @ + 1]
  <2>2. fr.node = Top.node /\ fr.stage = Top.stage
    BY <1>1 DEF Frame
  <2>3. SetTop(fr)
    BY <2>1
  <2> HIDE DEF fr
  <2>4. QED
    BY <1>1, <2>2, <2>3, QuietMove
<1>6. CASE ExecDone
  <2> DEFINE fr == Enter(Top, "links", Top.next)
  <2>1. SetTop(fr)
    BY <1>6 DEF ExecDone
  <2>2. fr.node = Top.node /\ fr.stage = "links"
    BY <1>1 DEF Enter, Frame
  <2> HIDE DEF fr
  <2>3. QED
    BY <1>1, <2>1, <2>2, QuietMove
<1>7. QED
  BY <1>2, <1>3, <1>4, <1>5, <1>6

(* run_node is called: nothing is seen of it before its node.started.      *)
LEMMA CallStutters ==
  ASSUME IInv, CallBranch
  PROVE  UNCHANGED Seen!vars
<1>1. /\ stack # <<>> /\ Top \in Frame
      /\ Top.stage \in {"entries", "file", "links"}
      /\ UNCHANGED <<prog, log, flushed>>
  BY TargetIsNode DEF CallBranch
<1>2. PICK fd : stack' = Append(stack, FrameOf(Targets(Top)[Top.j], fd))
  BY DEF CallBranch
<1> DEFINE fr == FrameOf(Targets(Top)[Top.j], fd)
<1>3. fr.stage = "enter"
  BY DEF FrameOf
<1> HIDE DEF fr
<1>4. /\ stack' # <<>>
      /\ stack'[Len(stack')] = fr
      /\ SubSeq(stack', 1, Len(stack') - 1) = stack
  <2>1. stack' = Append(stack, fr) /\ stack \in Seq(Frame \cup {fr})
    BY <1>2, NowParts, SeqMonotonic DEF fr
  <2>2. QED
    BY <2>1, AppendUndone
<1>5. Started' = Started /\ Phase' = Phase
  BY <1>1, <1>3, <1>4, View DEF Started, Phase, Top
<1>6. QED
  BY <1>1, <1>5 DEF Seen!vars

(* node.started is written for the node its caller's loop is at.           *)
LEMMA EnterStarts ==
  ASSUME IInv, EnterNode
  PROVE  \E n \in Node : Seen!Start(n)
<1>1. /\ stack # <<>> /\ Top \in Frame /\ Top.stage = "enter" /\ FrameShape(Top)
      /\ log' = Append(log, Event("node.started", Top.node, "none"))
      /\ UNCHANGED <<prog, flushed>>
  BY AtTop DEF EnterNode
<1>2. Top.node \in Node /\ Top.node # Root
  BY <1>1, FrameFields DEF FrameShape
<1>3. Started = NodesOf(Callers) /\ Phase = "running"
  BY <1>1, View DEF Started, Phase, Top, Callers
<1>4. Started' = NodesOf(stack) /\ Phase' = "running"
  <2> DEFINE fr == Enter(Top, FirstStage(Top.node), <<Top.arg>>)
  <2>1. FirstStage(Top.node) \in {"file", "exec", "links"}
    BY DEF FirstStage, AfterFile
  <2>2. fr.node = Top.node /\ fr.stage \in {"file", "exec", "links"}
    BY <1>1, <2>1 DEF Enter, Frame
  <2>3. SetTop(fr)
    BY DEF EnterNode
  <2> HIDE DEF fr
  <2>4. stack' # <<>> /\ stack'[Len(stack')] = fr /\ NodesOf(stack') = NodesOf(stack)
    BY <1>1, <2>2, <2>3, NowParts, TopBecomes DEF SetTop, Top
  <2>5. QED
    BY <2>2, <2>4, View DEF Started, Phase
<1>5. Started' = Append(Started, Top.node)
  BY <1>1, <1>2, <1>3, <1>4, TopNode
<1>6. Seen!MayStart(Top.node)
  <2> DEFINE c == stack[Len(stack) - 1]
  <2>1. /\ c.stage \in {"entries", "file", "links"} /\ FrameShape(c)
        /\ c.j \in DOMAIN Targets(c) /\ Top.node = Targets(c)[c.j]
    BY <1>1, <1>2, CallerStage, CallerFacts DEF Calls
  <2>2. Seen!Occurs(Top.node, Targets(c))
    BY <2>1 DEF Seen!Occurs
  <2>3. CASE c.node = Root
    <3>1. Started = <<>> /\ c.stage = "entries"
      BY <1>1, <1>2, <1>3, <2>1, <2>3, CallerIsRoot DEF FrameShape
    <3>2. QED
      BY <2>2, <3>1 DEF Seen!MayStart, Targets
  <2>4. CASE c.node # Root
    <3>1. Started # <<>> /\ Started[Len(Started)] = c.node
      BY <1>1, <1>2, <1>3, <2>4, CallerIsNode
    <3>2. c.stage \in {"file", "links"} /\ (c.stage = "file" => prog.file[c.node] # NoFile)
      BY <2>1, <2>4 DEF FrameShape
    <3>3. QED
      BY <2>2, <3>1, <3>2 DEF Seen!MayStart, Targets
  <2>5. QED
    BY <2>3, <2>4
<1>7. QED
  BY <1>1, <1>2, <1>3, <1>4, <1>5, <1>6 DEF Seen!Start, Seen!Event, Event

(* What is handed over changes a list of the caller, which shows the same. *)
LEMMA HandOverShows ==
  ASSUME IInv, IInv', stack # <<>>, Top.node # Root,
         NEW fr \in Frame, fr.node = Top.node, HandOver(fr)
  PROVE  /\ stack' # <<>>
         /\ stack'[Len(stack')].stage = fr.stage
         /\ NodesOf(stack') = NodesOf(stack)
<1> DEFINE n == Len(stack)
           c == stack[n - 1]
           s == [stack EXCEPT ![n - 1] = [c EXCEPT !.next = Moved(@, Delivered)]]
<1>1. n \in Nat /\ n > 1 /\ n - 1 \in 1..n /\ n \in 1..n
  BY NowParts, NodeHasCaller, LenProperties
<1>2. c \in Frame /\ Delivered \in FdList
  BY NowParts, TopFacts, CallerFacts, FrameFields DEF Delivered
<1>3. [c EXCEPT !.next = Moved(@, Delivered)] \in Frame
      /\ [c EXCEPT !.next = Moved(@, Delivered)].node = c.node
  <2>1. Moved(c.next, Delivered) \in FdList
    BY <1>2, FrameFields, MovedIsList
  <2>2. QED
    BY <1>2, <2>1 DEF Frame
<1>4. /\ s \in Seq(Frame) /\ Len(s) = n
      /\ \A k \in 1..n : s[k].node = stack[k].node
  <2>1. stack \in Seq(Frame)
    BY NowParts
  <2>2. QED
    BY <1>1, <1>3, <2>1, ExceptSeq
<1>5. stack' = [s EXCEPT ![Len(s)] = fr]
  BY <1>4 DEF HandOver
<1> HIDE DEF s
<1>6. s # <<>> /\ fr.node = s[Len(s)].node
  BY <1>1, <1>4, EmptySeq DEF Top
<1>7. NodesOf(s) = NodesOf(stack)
  BY <1>1, <1>4, SameNodes
<1>8. QED
  BY <1>4, <1>5, <1>6, <1>7, TopBecomes

LEMMA DeliverStutters ==
  ASSUME IInv, Deliver
  PROVE  UNCHANGED Seen!vars
<1>1. /\ stack # <<>> /\ Top \in Frame /\ Top.stage = "links" /\ FrameShape(Top)
      /\ UNCHANGED <<prog, log, flushed>>
  BY AtTop DEF Deliver, Delivering
<1> DEFINE fr == [Top EXCEPT !.stage = "ok", !.active = <<>>, !.next = <<>>]
<1>2. fr \in Frame /\ fr.node = Top.node /\ fr.stage = "ok"
  BY <1>1, EmptySeq DEF Frame, FdList, Stages
<1>3. HandOver(fr) /\ Top.node # Root
  BY <1>1 DEF Deliver, FrameShape
<1> HIDE DEF fr
<1>4. /\ stack' # <<>> /\ stack'[Len(stack')].stage = "ok"
      /\ NodesOf(stack') = NodesOf(stack)
  BY <1>1, <1>2, <1>3, DeliverKeeps, HandOverShows
<1>5. Started' = Started /\ Phase' = Phase
  BY <1>1, <1>4, View DEF Started, Phase, Top
<1>6. QED
  BY <1>1, <1>5 DEF Seen!vars

LEMMA OverflowBreaks ==
  ASSUME IInv, DeliverOverflows
  PROVE  Seen!Break
<1>1. /\ stack # <<>> /\ Top \in Frame /\ Top.stage = "links" /\ FrameShape(Top)
      /\ UNCHANGED <<prog, log, flushed>>
  BY AtTop DEF DeliverOverflows, Delivering
<1> DEFINE fr == [Top EXCEPT !.stage = "err", !.next = <<>>,
                             !.active = IF Terminal THEN @ ELSE <<>>]
<1>2. fr \in Frame /\ fr.node = Top.node /\ fr.stage = "err"
  BY <1>1, EmptySeq DEF Frame, FdList, Stages
<1>3. HandOver(fr) /\ Top.node # Root
  BY <1>1 DEF DeliverOverflows, FrameShape
<1> HIDE DEF fr
<1>4. /\ stack' # <<>> /\ stack'[Len(stack')].stage = "err"
      /\ NodesOf(stack') = NodesOf(stack)
  BY <1>1, <1>2, <1>3, DeliverOverflowsKeeps, HandOverShows
<1>5. Started' = Started /\ Phase = "running" /\ Phase' = "failing"
  BY <1>1, <1>4, View DEF Started, Phase, Top
<1>6. QED
  BY <1>1, <1>5 DEF Seen!Break

(* The parameters of a node that was never started.                        *)
LEMMA ParamsBreak ==
  ASSUME IInv, ParamsFail
  PROVE  Seen!Break
<1>1. /\ stack # <<>> /\ Top.stage = "enter" /\ FrameShape(Top)
      /\ Fail(Callers, {Top.arg})
      /\ UNCHANGED <<prog, log, flushed>>
  BY AtTop DEF ParamsFail
<1>2. Top.node # Root
  BY <1>1 DEF FrameShape
<1>3. Started' = NodesOf(Callers) /\ Phase' = "failing"
  BY <1>1, <1>2, NowParts, TopFacts, NodeHasCaller, FailShows
<1>4. Started = NodesOf(Callers) /\ Phase = "running"
  BY <1>1, View DEF Started, Phase, Top, Callers
<1>5. QED
  BY <1>1, <1>3, <1>4 DEF Seen!Break

LEMMA FinishOkFinishes ==
  ASSUME IInv, FinishOk
  PROVE  Seen!Finish("ok")
<1>1. /\ stack # <<>> /\ Top.stage = "ok" /\ FrameShape(Top)
      /\ stack' = [Callers EXCEPT ![Len(Callers)].j = @ + 1]
      /\ log' = Append(log, Event("node.finished", Top.node, "ok"))
      /\ UNCHANGED <<prog, flushed>>
  BY AtTop DEF FinishOk
<1>2. Top.node # Root
  BY <1>1 DEF FrameShape
<1> DEFINE c  == Callers[Len(Callers)]
           fr == [c EXCEPT !.j = @ + 1]
<1>3. c \in Frame /\ c.stage \in {"entries", "file", "links"} /\ Callers # <<>>
  BY <1>1, <1>2, CallerFacts, CallerStage
<1>4. fr.node = c.node /\ fr.stage = c.stage
  BY <1>3 DEF Frame
<1>5. stack' = [Callers EXCEPT ![Len(Callers)] = fr]
  BY <1>1
<1> HIDE DEF fr
<1>6. stack' # <<>> /\ stack'[Len(stack')] = fr /\ NodesOf(stack') = NodesOf(Callers)
  BY <1>1, <1>3, <1>4, <1>5, NowParts, TopFacts, TopBecomes
<1>7. Started' = NodesOf(Callers) /\ Phase' = "running"
  BY <1>3, <1>4, <1>6, View DEF Started, Phase
<1>8. Started = NodesOf(stack) /\ Phase = "running"
  BY <1>1, View DEF Started, Phase, Top
<1>9. QED
  BY <1>1, <1>2, <1>7, <1>8, TopNode DEF Seen!Finish, Seen!Event, Event

LEMMA FinishErrFinishes ==
  ASSUME IInv, FinishErr
  PROVE  Seen!Finish("error")
<1>1. /\ stack # <<>> /\ Top.stage = "err" /\ Top.node # Root
      /\ Fail(Callers, Held(Top.active) \cup {Top.arg})
      /\ log' = Append(log, Event("node.finished", Top.node, "error"))
      /\ UNCHANGED <<prog, flushed>>
  BY AtTop DEF FinishErr, Unwinding
<1>2. Started' = NodesOf(Callers) /\ Phase' = "failing"
  BY <1>1, NowParts, TopFacts, NodeHasCaller, FailShows
<1>3. Started = NodesOf(stack) /\ Phase = "failing"
  BY <1>1, View DEF Started, Phase, Top
<1>4. QED
  BY <1>1, <1>2, <1>3, TopNode DEF Seen!Finish, Seen!Event, Event

LEMMA EntriesDoneBegins ==
  ASSUME IInv, EntriesDone
  PROVE  Seen!BeginWriting
<1>1. /\ stack # <<>> /\ Top \in Frame /\ Top.stage = "entries" /\ FrameShape(Top)
      /\ SetTop([Top EXCEPT !.stage = "flush"])
      /\ UNCHANGED <<prog, log, flushed>>
  BY AtTop DEF EntriesDone
<1> DEFINE fr == [Top EXCEPT !.stage = "flush"]
<1>2. fr.node = Top.node /\ fr.stage = "flush" /\ Top.node = Root
  BY <1>1 DEF Frame, FrameShape
<1> HIDE DEF fr
<1>3. stack' # <<>> /\ stack'[Len(stack')] = fr /\ NodesOf(stack') = NodesOf(stack)
  BY <1>1, <1>2, NowParts, TopBecomes DEF SetTop, Top, fr
<1>4. Started' = NodesOf(stack) /\ Phase' = "writing"
  BY <1>2, <1>3, View DEF Started, Phase
<1>5. Started = NodesOf(stack) /\ Phase = "running" /\ NodesOf(stack) = <<>>
  BY <1>1, <1>2, View, RootAlone DEF Started, Phase, Top
<1>6. QED
  BY <1>1, <1>4, <1>5 DEF Seen!BeginWriting

(* A branch is written, or has no descriptor to write from.                *)
LEMMA FlushWrites ==
  ASSUME IInv, FlushBranch
  PROVE  Seen!Write \/ UNCHANGED Seen!vars
<1>1. /\ stack # <<>> /\ Top \in Frame /\ Top.stage = "flush"
      /\ SetTop([Top EXCEPT !.i = @ + 1])
      /\ UNCHANGED <<prog, log>>
  BY AtTop DEF FlushBranch
<1> DEFINE fr == [Top EXCEPT !.i = @ + 1]
<1>2. fr.node = Top.node /\ fr.stage = "flush"
  BY <1>1 DEF Frame
<1> HIDE DEF fr
<1>3. stack' # <<>> /\ stack'[Len(stack')] = fr /\ NodesOf(stack') = NodesOf(stack)
  BY <1>1, <1>2, NowParts, TopBecomes DEF SetTop, Top, fr
<1>4. Started' = Started /\ Phase = "writing" /\ Phase' = Phase
  BY <1>1, <1>2, <1>3, View DEF Started, Phase, Top
<1>5. CASE flushed' = flushed
  BY <1>1, <1>4, <1>5 DEF Seen!vars
<1>6. CASE flushed' # flushed
  <2>1. PICK t : flushed' = Append(flushed, t)
    BY <1>6 DEF FlushBranch
  <2>2. flushed \in Seq(Seq(Node \cup {Root}) \cup {t})
    BY NowParts, SeqMonotonic DEF DataOK
  <2>3. /\ Len(flushed') = Len(flushed) + 1 /\ Len(flushed) \in Nat
        /\ SubSeq(flushed', 1, Len(flushed') - 1) = flushed
    BY <2>1, <2>2, AppendProperties, AppendUndone, LenProperties
  <2>4. QED
    BY <1>1, <1>4, <2>3 DEF Seen!Write
<1>7. QED
  BY <1>5, <1>6

(* run_model returns, at its end or early.                                 *)
LEMMA RunReturns ==
  ASSUME IInv, RunParamsFail \/ EntryDupFails \/ RunEnds
  PROVE  \E status \in {"ok", "error"} : Seen!End(status)
<1>1. /\ stack # <<>> /\ Top.node = Root /\ stack' = <<>>
      /\ log' = Append(log, Event("run.finished", Root, result'))
      /\ \/ Top.stage = "entries" /\ result' = "error"
         \/ Top.stage = "flush" /\ result' = "ok"
         \/ Top.stage = "err" /\ result' = "error"
      /\ UNCHANGED <<prog, flushed>>
  <2>1. CASE RunParamsFail
    BY <2>1, AtTop DEF RunParamsFail, FrameShape
  <2>2. CASE EntryDupFails
    BY <2>2, AtTop, TargetIsNode DEF EntryDupFails, Calling, FrameShape
  <2>3. CASE RunEnds
    BY <2>3, AtTop DEF RunEnds, Unwinding, FrameShape
  <2>4. QED
    BY <2>1, <2>2, <2>3
<1>2. Started' = <<>> /\ Phase' = result'
  BY <1>1, EmptyView DEF Started, Phase
<1>3. Started = <<>>
  BY <1>1, View, RootAlone DEF Started, Top
<1>4. Phase = CASE Top.stage = "err" -> "failing"
                [] Top.stage = "flush" -> "writing"
                [] OTHER -> "running"
  BY <1>1, View DEF Phase, Top
<1>5. QED
  BY <1>1, <1>2, <1>3, <1>4 DEF Seen!End, Seen!Event, Event
----------------------------------------------------------------------------

LEMMA InitShows == Init => Seen!Init
<1> SUFFICES ASSUME Init PROVE Seen!Init
  OBVIOUS
<1>1. /\ stack # <<>> /\ stack[Len(stack)].stage = "entries" /\ Len(stack) = 1
      /\ log = <<Event("run.started", Root, "none")>> /\ flushed = <<>>
  BY DEF Init, FrameOf
<1>2. NodesOf(stack) = <<>>
  BY <1>1 DEF NodesOf
<1>3. QED
  BY <1>1, <1>2, View DEF Started, Phase, Seen!Init, Seen!Event, Event

LEMMA StepShows == IInv /\ [Next]_vars => [Seen!Next]_(Seen!vars)
<1> SUFFICES ASSUME IInv, [Next]_vars PROVE [Seen!Next]_(Seen!vars)
  OBVIOUS
<1>1. CASE DupFails \/ ChildFails \/ ExecFails \/ FlushFails
  BY <1>1, FailuresBreak DEF Seen!Next
<1>2. CASE BranchConsumed \/ LoadChild \/ FileDone \/ ExecBranch \/ ExecDone
  BY <1>2, MovesStutter
<1>3. CASE CallBranch
  BY <1>3, CallStutters
<1>4. CASE EnterNode
  BY <1>4, EnterStarts DEF Seen!Next
<1>5. CASE Deliver
  BY <1>5, DeliverStutters
<1>6. CASE DeliverOverflows
  BY <1>6, OverflowBreaks DEF Seen!Next
<1>7. CASE ParamsFail
  BY <1>7, ParamsBreak DEF Seen!Next
<1>8. CASE FinishOk
  BY <1>8, FinishOkFinishes DEF Seen!Next
<1>9. CASE FinishErr
  BY <1>9, FinishErrFinishes DEF Seen!Next
<1>10. CASE EntriesDone
  BY <1>10, EntriesDoneBegins DEF Seen!Next
<1>11. CASE FlushBranch
  BY <1>11, FlushWrites DEF Seen!Next
<1>12. CASE RunParamsFail \/ EntryDupFails \/ RunEnds
  BY <1>12, RunReturns DEF Seen!Next
<1>13. CASE Exited \/ UNCHANGED vars
  BY <1>13 DEF Exited, vars, Seen!vars, Started, Phase
<1>14. QED
  BY <1>1, <1>2, <1>3, <1>4, <1>5, <1>6, <1>7, <1>8, <1>9, <1>10, <1>11, <1>12,
     <1>13 DEF Next

(* The events and the output of every run, whatever fails in it, are such  *)
(* as Supervision lets them be.                                            *)
THEOREM Implements == Spec => ImplementsSupervision
<1>1. Init => Seen!Init
  BY InitShows
<1>2. IInv /\ [Next]_vars => [Seen!Next]_(Seen!vars)
  BY StepShows
<1>3. QED
  BY <1>1, <1>2, Invariance, PTL DEF Spec, ImplementsSupervision, Seen!Spec

Shown == INSTANCE SupervisionProof WITH open <- Started, phase <- Phase, written <- flushed

(* The two instances say the same.                                         *)
LEMMA SpecShown == Spec => Shown!Spec
<1>1. Seen!Init => Shown!Init
  BY DEF Seen!Init, Shown!Init, Seen!Event, Shown!Event
<1>2. [Seen!Next]_(Seen!vars) => [Shown!Next]_(Shown!vars)
  BY DEF Seen!Next, Shown!Next, Seen!vars, Shown!vars, Seen!Event, Shown!Event,
     Seen!Start, Shown!Start, Seen!MayStart, Shown!MayStart, Seen!Occurs, Shown!Occurs,
     Seen!Finish, Shown!Finish, Seen!Break, Shown!Break,
     Seen!BeginWriting, Shown!BeginWriting, Seen!Write, Shown!Write, Seen!End, Shown!End
<1>3. QED
  BY <1>1, <1>2, Implements, PTL DEF ImplementsSupervision, Seen!Spec, Shown!Spec

(* After a node has failed nothing is started, nothing finishes well and   *)
(* nothing is written to --fd-out: what Supervision promises of itself     *)
(* (FailureIsFinal) carries over to the engine.                            *)
THEOREM FailuresStopTheRun == Spec => []FailStop
<1>1. Shown!Spec => []Shown!FailStop
  BY Shown!FailureIsFinal
<1>2. Shown!FailStop => FailStop
  BY DEF Shown!FailStop, FailStop, Seen!FailStop
<1>3. QED
  BY <1>1, <1>2, SpecShown, PTL

(* The events tell which activations of run_node there are, past their     *)
(* node.started: BracketIsInTheLog carries over to the engine.             *)
THEOREM EventsTellCalls == Spec => []EventsFollowCalls
<1>1. Shown!Spec => []Shown!EventsTellOpen
  BY Shown!BracketIsInTheLog
<1>2. Shown!EventsTellOpen => EventsFollowCalls
  BY DEF Shown!EventsTellOpen, EventsFollowCalls, Seen!EventsTellOpen,
     Shown!OpenNodes, Seen!OpenNodes, Shown!OpenAfter, Seen!OpenAfter,
     Shown!Following, Seen!Following
<1>3. QED
  BY <1>1, <1>2, SpecShown, PTL

----------------------------------------------------------------------------
(* Who owns a descriptor: while a run goes well each open descriptor is    *)
(* one entry of one list; while it fails, lists with stale entries are     *)
(* freed without taking one from a caller; and at its end all are closed.  *)
(*                                                                         *)
(* Running is the invariant of the first, Failing of the second, and each  *)
(* step of a failure leads from one to the other or keeps Failing.  Both   *)
(* say that a frame can only ever release (Reach) what the frames below it *)
(* do not rely on: what it was given was opened after what they hold, and  *)
(* they still hold it.                                                     *)

(* The descriptors of a list.                                              *)
Names(list) == Held(list) \ {NoFd}

Distinct(list) ==
  \A p, q \in DOMAIN list : list[p] = list[q] /\ list[p] # NoFd => p = q

(* What the loop of a frame has not consumed yet, what it still has to pass*)
(* on, and what it may release when it fails: stale entries included, but  *)
(* nothing once it has returned well.                                      *)
Rest(frame)      == SubSeq(frame.active, frame.i, Len(frame.active))
Pending(frame)   == Names(Rest(frame))
LiveNames(frame) == Names(Live(frame))
Reach(frame) ==
  IF frame.stage = "ok" THEN {}
  ELSE Names(frame.active) \cup Names(frame.next) \cup ({frame.arg} \ {NoFd})

LiveOf(s) == UNION {LiveNames(s[k]) : k \in DOMAIN s}

(* No descriptor is live twice, and no frame reaches what is live below it.*)
Apart(s) ==
  /\ \A k \in DOMAIN s : Distinct(Live(s[k]))
  /\ \A k \in DOMAIN s : \A l \in 1..k - 1 : Reach(s[k]) \cap LiveNames(s[l]) = {}

(* What the callers of a failing call rely on.  The list its caller        *)
(* collects in is not among it: the call may have handed over some of what *)
(* it releases.                                                            *)
KeptOf(c) ==
  IF c = <<>> THEN {}
  ELSE LiveOf(SubSeq(c, 1, Len(c) - 1)) \cup Pending(c[Len(c)])

(* The branches that a command has written: those a frame has collected,   *)
(* and those it goes over after file or exec.                              *)
GoesOverMade(frame) ==
  \/ frame.stage = "exec" /\ prog.file[frame.node] # NoFile
  \/ frame.stage = "links" /\ (prog.file[frame.node] # NoFile \/ prog.exec[frame.node])

Made(frame) == Names(frame.next) \cup IF GoesOverMade(frame) THEN Pending(frame) ELSE {}
MadeOf(s)   == UNION {Made(s[k]) : k \in DOMAIN s}

(* No two descriptors of S name the same open file.                        *)
OwnFiles(table, S) == \A f, g \in S : table[f] = table[g] => f = g

(* What is true of a frame at each stage.  In exec one branch is collected *)
(* for each that is consumed, so `next` never outgrows `active`.           *)
FrameOK(frame) ==
  /\ Len(frame.active) <= MaxBranches /\ Len(frame.next) <= MaxBranches
  /\ frame.stage = "exec" => Len(frame.next) < frame.i
  /\ frame.stage \in {"enter", "ok"} => frame.active = <<>> /\ frame.next = <<>>
  /\ frame.stage = "err" /\ frame.node # Root => frame.next = <<>>
  /\ frame.stage = "links" /\ prog.links[frame.node] = <<>> => frame.i = 1 /\ frame.next = <<>>
  /\ frame.node = Root => frame.active = <<>> /\ frame.arg = NoFd
  /\ NoFd \notin Held(frame.next)
  /\ GoesOverMade(frame) => NoFd \notin Held(frame.active)

FramesOK == \A k \in DOMAIN stack : FrameOK(stack[k])

Own(table) == OpenFds(table) \ cfg.foreign

(* Until something fails.  run_model may end before its first entry only   *)
(* because it has collected nothing by then.                               *)
Running ==
  /\ Apart(stack)
  /\ LiveOf(stack) = Own(fdt)
  /\ OwnFiles(fdt, MadeOf(stack))
  /\ Len(stack) = 1 /\ Top.stage = "entries" /\ Top.j = 1 => Top.next = <<>>

(* While a failure unwinds.                                                *)
Failing ==
  /\ Apart(Callers)
  /\ Reach(Top) \cap KeptOf(Callers) = {}
  /\ KeptOf(Callers) \subseteq OpenFds(fdt)
  /\ Own(fdt) \subseteq LiveOf(Callers) \cup Reach(Top)

Over == result = "ok" \/ cfg.fd_in = NoFd => Own(fdt) = {}

OInv ==
  /\ IInv
  /\ prog \in Programs
  /\ FramesOK
  /\ stack # <<>> => result = "none" /\ IF Top.stage = "err" THEN Failing ELSE Running
  /\ stack = <<>> => Over
----------------------------------------------------------------------------
(* Lists                                                                   *)

LEMMA CatLists ==
  ASSUME NEW a \in FdList, NEW b \in FdList
  PROVE  /\ Held(a \o b) = Held(a) \cup Held(b)
         /\ Names(a \o b) = Names(a) \cup Names(b)
         /\ Distinct(a \o b) <=>
              Distinct(a) /\ Distinct(b) /\ Names(a) \cap Names(b) = {}
<1> DEFINE c == a \o b
<1>1. /\ Len(a) \in Nat /\ Len(b) \in Nat
      /\ DOMAIN a = 1..Len(a) /\ DOMAIN b = 1..Len(b)
  BY LenProperties DEF FdList
<1>2. /\ c \in FdList /\ Len(c) = Len(a) + Len(b)
      /\ \A k \in 1..Len(a) + Len(b) :
           c[k] = IF k <= Len(a) THEN a[k] ELSE b[k - Len(a)]
  BY ConcatProperties DEF FdList
<1>3. DOMAIN c = 1..Len(a) + Len(b)
  BY <1>2, LenProperties DEF FdList
<1> HIDE DEF c
<1>4. \A k \in DOMAIN a : k \in DOMAIN c /\ c[k] = a[k]
  BY <1>1, <1>2, <1>3
<1>5. \A k \in DOMAIN b : k + Len(a) \in DOMAIN c /\ c[k + Len(a)] = b[k]
  BY <1>1, <1>2, <1>3
<1>6. \A k \in DOMAIN c : \/ k \in DOMAIN a /\ c[k] = a[k]
                          \/ k - Len(a) \in DOMAIN b /\ c[k] = b[k - Len(a)]
  BY <1>1, <1>2, <1>3
<1>7. Held(c) = Held(a) \cup Held(b)
  BY <1>4, <1>5, <1>6 DEF Held
<1>8. ASSUME Distinct(c)
      PROVE  Distinct(a) /\ Distinct(b) /\ Names(a) \cap Names(b) = {}
  <2>1. Distinct(a)
    BY <1>4, <1>8 DEF Distinct
  <2>2. Distinct(b)
    <3>1. ASSUME NEW p \in DOMAIN b, NEW q \in DOMAIN b, b[p] = b[q], b[p] # NoFd
          PROVE  p = q
      <4>1. p + Len(a) = q + Len(a)
        BY <1>5, <1>8, <3>1 DEF Distinct
      <4>2. QED
        BY <1>1, <4>1
    <3>2. QED
      BY <3>1 DEF Distinct
  <2>3. ASSUME NEW p \in DOMAIN a, NEW q \in DOMAIN b, a[p] = b[q], a[p] # NoFd
        PROVE  FALSE
    <3>1. p = q + Len(a)
      BY <1>4, <1>5, <1>8, <2>3 DEF Distinct
    <3>2. QED
      BY <1>1, <3>1
  <2>4. QED
    BY <2>1, <2>2, <2>3 DEF Names, Held
<1>9. ASSUME Distinct(a), Distinct(b), Names(a) \cap Names(b) = {}
      PROVE  Distinct(c)
  <2>1. ASSUME NEW p \in DOMAIN c, NEW q \in DOMAIN c, c[p] = c[q], c[p] # NoFd
        PROVE  p = q
    <3>1. CASE p \in DOMAIN a /\ c[p] = a[p] /\ q \in DOMAIN a /\ c[q] = a[q]
      BY <1>9, <2>1, <3>1 DEF Distinct
    <3>2. CASE p - Len(a) \in DOMAIN b /\ c[p] = b[p - Len(a)]
               /\ q - Len(a) \in DOMAIN b /\ c[q] = b[q - Len(a)]
      <4>1. p - Len(a) = q - Len(a)
        BY <1>9, <2>1, <3>2 DEF Distinct
      <4>2. QED
        BY <1>1, <1>3, <4>1
    <3>3. \A k \in DOMAIN a, l \in DOMAIN b : a[k] = b[l] => a[k] = NoFd
      BY <1>9 DEF Names, Held
    <3>4. QED
      BY <1>6, <2>1, <3>1, <3>2, <3>3
  <2>2. QED
    BY <2>1 DEF Distinct
<1>10. QED
  BY <1>7, <1>8, <1>9 DEF Names, c

LEMMA EmptyList ==
  /\ <<>> \in FdList /\ Len(<<>>) = 0
  /\ Held(<<>>) = {} /\ Names(<<>>) = {} /\ Distinct(<<>>)
<1>1. <<>> \in FdList /\ Len(<<>>) = 0 /\ DOMAIN <<>> = {}
  BY EmptySeq DEF FdList
<1>2. QED
  BY <1>1 DEF Held, Names, Distinct

LEMMA OneEntry ==
  ASSUME NEW f \in OwnFds \cup {NoFd}
  PROVE  /\ <<f>> \in FdList /\ Len(<<f>>) = 1 /\ <<f>>[1] = f
         /\ Held(<<f>>) = {f} /\ Names(<<f>>) = {f} \ {NoFd} /\ Distinct(<<f>>)
<1>1. <<f>> \in FdList /\ Len(<<f>>) = 1 /\ DOMAIN <<f>> = {1} /\ <<f>>[1] = f
  BY DEF FdList
<1>2. QED
  BY <1>1 DEF Held, Names, Distinct

(* The first n entries of a list.                                          *)
LEMMA ListPart ==
  ASSUME NEW a \in FdList, NEW n \in 0..Len(a)
  PROVE  /\ SubSeq(a, 1, n) \in FdList /\ Len(SubSeq(a, 1, n)) = n
         /\ Held(SubSeq(a, 1, n)) \subseteq Held(a)
         /\ Names(SubSeq(a, 1, n)) \subseteq Names(a)
         /\ Distinct(a) => Distinct(SubSeq(a, 1, n))
<1> DEFINE c == SubSeq(a, 1, n)
<1>1. /\ c \in FdList /\ Len(c) = n
      /\ \A k \in 1..n : c[k] = a[k]
  BY PrefixFacts DEF FdList
<1>2. DOMAIN a = 1..Len(a) /\ DOMAIN c = 1..n /\ Len(a) \in Nat
  BY <1>1, LenProperties DEF FdList
<1> HIDE DEF c
<1>3. \A k \in DOMAIN c : k \in DOMAIN a /\ c[k] = a[k]
  BY <1>1, <1>2
<1>4. Held(c) \subseteq Held(a) /\ (Distinct(a) => Distinct(c))
  BY <1>3 DEF Held, Distinct
<1>5. QED
  BY <1>1, <1>4 DEF c, Names

(* The entries of a list from the i-th on.                                 *)
LEMMA ListRest ==
  ASSUME NEW a \in FdList, NEW i \in Nat \ {0}
  PROVE  /\ SubSeq(a, i, Len(a)) \in FdList
         /\ Len(SubSeq(a, i, Len(a))) <= Len(a)
         /\ Held(SubSeq(a, i, Len(a))) = {a[k] : k \in i..Len(a)}
         /\ Names(SubSeq(a, i, Len(a))) \subseteq Names(a)
         /\ i = 1 => SubSeq(a, i, Len(a)) = a
         /\ i > Len(a) => SubSeq(a, i, Len(a)) = <<>>
         /\ i \in DOMAIN a =>
              SubSeq(a, i, Len(a)) = <<a[i]>> \o SubSeq(a, i + 1, Len(a))
<1> DEFINE c == SubSeq(a, i, Len(a))
           S == OwnFds \cup {NoFd}
<1>1. Len(a) \in Nat /\ DOMAIN a = 1..Len(a) /\ a \in Seq(S)
      /\ \A k \in 1..Len(a) : a[k] \in S
  BY LenProperties, ElementOfSeq DEF FdList
<1>2. \A k \in i..Len(a) : k \in 1..Len(a) /\ a[k] \in S
  BY <1>1
<1>3. /\ c \in Seq(S)
      /\ Len(c) = IF i <= Len(a) THEN Len(a) - i + 1 ELSE 0
      /\ \A k \in 1..Len(a) - i + 1 : c[k] = a[i + k - 1]
  BY <1>1, <1>2, SubSeqProperties
<1>4. DOMAIN c = 1..Len(c) /\ Len(c) \in Nat /\ Len(c) <= Len(a)
  BY <1>1, <1>3, LenProperties
<1>5. \A k \in DOMAIN c : i + k - 1 \in i..Len(a) /\ c[k] = a[i + k - 1]
  BY <1>1, <1>3, <1>4
<1>6. \A k \in i..Len(a) : k - i + 1 \in DOMAIN c /\ c[k - i + 1] = a[k]
  BY <1>1, <1>3, <1>4
<1> HIDE DEF c
<1>7. Held(c) = {a[k] : k \in i..Len(a)}
  BY <1>5, <1>6 DEF Held
<1>8. Names(c) \subseteq Names(a)
  BY <1>1, <1>2, <1>7 DEF Names, Held
<1>9. i = 1 => c = a
  BY <1>1, SubSeqFull DEF c
<1>10. i > Len(a) => c = <<>>
  BY <1>1, SubSeqEmpty DEF c
<1>11. ASSUME i \in DOMAIN a
       PROVE  c = <<a[i]>> \o SubSeq(a, i + 1, Len(a))
  <2>1. i \in 1..Len(a) /\ Len(a) \in i..Len(a)
    BY <1>1, <1>11
  <2>2. QED
    BY <1>1, <2>1, SubSeqRecursiveFirst DEF c
<1>12. QED
  BY <1>3, <1>4, <1>7, <1>8, <1>9, <1>10, <1>11 DEF c, FdList

(* One entry more.                                                         *)
LEMMA ListAppend ==
  ASSUME NEW a \in FdList, NEW f \in OwnFds \cup {NoFd}
  PROVE  /\ Append(a, f) = a \o <<f>>
         /\ Append(a, f) \in FdList /\ Len(Append(a, f)) = Len(a) + 1
         /\ Held(Append(a, f)) = Held(a) \cup {f}
<1>1. Append(a, f) \in FdList /\ Len(Append(a, f)) = Len(a) + 1 /\ Len(a) \in Nat
      /\ \A k \in 1..Len(a) : Append(a, f)[k] = a[k]
      /\ Append(a, f)[Len(a) + 1] = f
  BY AppendProperties, LenProperties DEF FdList
<1>2. DOMAIN a = 1..Len(a) /\ DOMAIN Append(a, f) = 1..Len(a) + 1
  BY <1>1, LenProperties DEF FdList
<1> DEFINE c == Append(a, f)
<1> HIDE DEF c
<1>3. \A k \in 1..Len(a) + 1 : k \in 1..Len(a) \/ k = Len(a) + 1
  BY <1>1
<1>4. Held(c) = Held(a) \cup {f}
  <2>1. Held(c) \subseteq Held(a) \cup {f}
    BY <1>1, <1>2, <1>3 DEF Held, c
  <2>2. Held(a) \subseteq Held(c)
    BY <1>1, <1>2 DEF Held, c
  <2>3. f \in Held(c)
    BY <1>1, <1>2 DEF Held, c
  <2>4. QED
    BY <2>1, <2>2, <2>3
<1>5. Append(a, f) = a \o <<f>>
  OBVIOUS
<1>6. QED
  BY <1>1, <1>4, <1>5 DEF c
----------------------------------------------------------------------------
(* Frames and stacks                                                       *)

LEMMA FrameLists ==
  ASSUME NEW fr \in Frame
  PROVE  /\ Rest(fr) \in FdList /\ Live(fr) \in FdList
         /\ Pending(fr) \subseteq Names(fr.active)
         /\ fr.stage # "enter" =>
              /\ Live(fr) = Rest(fr) \o fr.next
              /\ LiveNames(fr) = Pending(fr) \cup Names(fr.next)
              /\ Distinct(Live(fr)) <=>
                   /\ Distinct(Rest(fr)) /\ Distinct(fr.next)
                   /\ Pending(fr) \cap Names(fr.next) = {}
         /\ fr.stage = "enter" =>
              Live(fr) = <<fr.arg>> /\ LiveNames(fr) = {fr.arg} \ {NoFd} /\ Distinct(Live(fr))
<1>1. /\ fr.active \in FdList /\ fr.next \in FdList /\ fr.i \in Nat \ {0}
      /\ fr.arg \in OwnFds \cup {NoFd}
  BY FrameFields
<1>2. Rest(fr) \in FdList /\ Pending(fr) \subseteq Names(fr.active)
  BY <1>1, ListRest DEF Rest, Pending
<1>3. CASE fr.stage # "enter"
  <2>1. Live(fr) = Rest(fr) \o fr.next
    BY <1>3 DEF Live, Rest
  <2>2. Live(fr) \in FdList
    BY <1>1, <1>2, <2>1, ConcatProperties DEF FdList
  <2>3. QED
    BY <1>1, <1>2, <1>3, <2>1, <2>2, CatLists DEF LiveNames, Pending
<1>4. CASE fr.stage = "enter"
  <2>1. Live(fr) = <<fr.arg>>
    BY <1>4 DEF Live
  <2>2. QED
    BY <1>1, <1>2, <1>4, <2>1, OneEntry DEF LiveNames
<1>5. QED
  BY <1>3, <1>4

(* A frame at the start of its loop, with nothing collected.               *)
LEMMA AtStart ==
  ASSUME NEW fr \in Frame, fr.stage # "enter", fr.i = 1, fr.next = <<>>
  PROVE  /\ LiveNames(fr) = Names(fr.active) /\ Pending(fr) = Names(fr.active)
         /\ Distinct(Live(fr)) <=> Distinct(fr.active)
<1>1. fr.active \in FdList /\ fr.i \in Nat \ {0}
  BY FrameFields
<1>2. SubSeq(fr.active, fr.i, Len(fr.active)) = fr.active
  BY <1>1, ListRest
<1>3. Rest(fr) = fr.active
  BY <1>2 DEF Rest
<1>4. Pending(fr) = Names(fr.active)
  BY <1>3 DEF Pending
<1>5. Names(fr.next) = {} /\ Distinct(fr.next)
  BY EmptyList
<1>6. LiveNames(fr) = Pending(fr) \cup Names(fr.next)
  BY FrameLists
<1>7. Distinct(Live(fr)) <=> /\ Distinct(Rest(fr)) /\ Distinct(fr.next)
                             /\ Pending(fr) \cap Names(fr.next) = {}
  BY FrameLists
<1>8. QED
  BY <1>3, <1>4, <1>5, <1>6, <1>7

(* A frame whose loop is over.                                             *)
LEMMA AtEnd ==
  ASSUME NEW fr \in Frame, fr.stage # "enter", fr.i > Len(fr.active)
  PROVE  /\ LiveNames(fr) = Names(fr.next) /\ Pending(fr) = {}
         /\ Distinct(Live(fr)) <=> Distinct(fr.next)
<1>1. fr.active \in FdList /\ fr.i \in Nat \ {0}
  BY FrameFields
<1>2. SubSeq(fr.active, fr.i, Len(fr.active)) = <<>>
  BY <1>1, ListRest
<1>3. Rest(fr) = <<>>
  BY <1>2 DEF Rest
<1>4. Pending(fr) = {} /\ Distinct(Rest(fr))
  BY <1>3, EmptyList DEF Pending
<1>5. LiveNames(fr) = Pending(fr) \cup Names(fr.next)
  BY FrameLists
<1>6. Distinct(Live(fr)) <=> /\ Distinct(Rest(fr)) /\ Distinct(fr.next)
                             /\ Pending(fr) \cap Names(fr.next) = {}
  BY FrameLists
<1>7. QED
  BY <1>4, <1>5, <1>6

(* What is live in a frame it may release.                                 *)
LEMMA LiveIsReached ==
  ASSUME NEW fr \in Frame, FrameOK(fr)
  PROVE  LiveNames(fr) \subseteq Reach(fr)
<1>1. CASE fr.stage = "ok"
  <2>1. fr.active = <<>> /\ fr.next = <<>>
    BY <1>1 DEF FrameOK
  <2>2. LiveNames(fr) = {}
    BY <1>1, <2>1, FrameLists, EmptyList
  <2>3. QED
    BY <2>2
<1>2. CASE fr.stage # "ok"
  BY <1>2, FrameLists DEF Reach
<1>3. QED
  BY <1>1, <1>2

FramesOKIn(s) == \A k \in DOMAIN s : FrameOK(s[k])

(* A stack with one frame more.                                            *)
LEMMA OneFrameMore ==
  ASSUME NEW c \in Seq(Frame), NEW fr \in Frame
  PROVE  LET s == Append(c, fr) IN
         /\ s \in Seq(Frame) /\ s # <<>> /\ Len(s) = Len(c) + 1
         /\ s[Len(s)] = fr /\ SubSeq(s, 1, Len(s) - 1) = c
         /\ FramesOKIn(s) <=> FramesOKIn(c) /\ FrameOK(fr)
         /\ Apart(s) <=> Apart(c) /\ Distinct(Live(fr)) /\ Reach(fr) \cap LiveOf(c) = {}
         /\ LiveOf(s) = LiveOf(c) \cup LiveNames(fr)
         /\ MadeOf(s) = MadeOf(c) \cup Made(fr)
         /\ KeptOf(s) = LiveOf(c) \cup Pending(fr)
<1> DEFINE s == Append(c, fr)
<1>1. /\ s \in Seq(Frame) /\ s # <<>>
      /\ Len(c) \in Nat /\ Len(s) = Len(c) + 1
      /\ \A k \in 1..Len(c) : s[k] = c[k]
      /\ s[Len(c) + 1] = fr
      /\ SubSeq(s, 1, Len(s) - 1) = c
  BY AppendProperties, LenProperties, AppendUndone
<1>2. DOMAIN c = 1..Len(c) /\ DOMAIN s = 1..Len(c) + 1
  BY <1>1, LenProperties
<1> HIDE DEF s
<1>3. /\ \A k \in DOMAIN c : k \in DOMAIN s /\ s[k] = c[k]
      /\ Len(c) + 1 \in DOMAIN s
      /\ \A k \in DOMAIN s : k \in DOMAIN c \/ k = Len(c) + 1
  BY <1>1, <1>2
<1>4. FramesOKIn(s) <=> FramesOKIn(c) /\ FrameOK(fr)
  BY <1>1, <1>3 DEF FramesOKIn
<1>5. LiveOf(s) = LiveOf(c) \cup LiveNames(fr)
  BY <1>1, <1>3 DEF LiveOf
<1>6. MadeOf(s) = MadeOf(c) \cup Made(fr)
  BY <1>1, <1>3 DEF MadeOf
<1>7. ASSUME Apart(s)
      PROVE  Apart(c) /\ Distinct(Live(fr)) /\ Reach(fr) \cap LiveOf(c) = {}
  <2>1. Distinct(Live(fr)) /\ \A k \in DOMAIN c : Distinct(Live(c[k]))
    BY <1>1, <1>3, <1>7 DEF Apart
  <2>2. ASSUME NEW k \in DOMAIN c, NEW l \in 1..k - 1
        PROVE  Reach(c[k]) \cap LiveNames(c[l]) = {}
    <3>1. k \in DOMAIN s /\ s[k] = c[k] /\ s[l] = c[l]
      BY <1>1, <1>2, <1>3
    <3>2. QED
      BY <1>7, <3>1 DEF Apart
  <2>3. ASSUME NEW l \in DOMAIN c
        PROVE  Reach(fr) \cap LiveNames(c[l]) = {}
    <3>1. l \in 1..(Len(c) + 1) - 1
      BY <1>1, <1>2
    <3>2. QED
      BY <1>1, <1>3, <1>7, <3>1 DEF Apart
  <2>4. Reach(fr) \cap LiveOf(c) = {}
    BY <2>3 DEF LiveOf
  <2>5. QED
    BY <2>1, <2>2, <2>4 DEF Apart
<1>8. ASSUME Apart(c), Distinct(Live(fr)), Reach(fr) \cap LiveOf(c) = {}
      PROVE  Apart(s)
  <2>1. \A k \in DOMAIN s : Distinct(Live(s[k]))
    BY <1>1, <1>3, <1>8 DEF Apart
  <2>2. ASSUME NEW k \in DOMAIN s, NEW l \in 1..k - 1
        PROVE  Reach(s[k]) \cap LiveNames(s[l]) = {}
    <3>1. l \in DOMAIN c /\ s[l] = c[l]
      BY <1>1, <1>2
    <3>2. CASE k \in DOMAIN c
      BY <1>3, <1>8, <3>1, <3>2 DEF Apart
    <3>3. CASE k = Len(c) + 1
      BY <1>1, <1>8, <3>1, <3>3 DEF LiveOf
    <3>4. QED
      BY <1>3, <3>2, <3>3
  <2>3. QED
    BY <2>1, <2>2 DEF Apart
<1>9. KeptOf(s) = LiveOf(c) \cup Pending(fr)
  BY <1>1 DEF KeptOf
<1>10. QED
  BY <1>1, <1>4, <1>5, <1>6, <1>7, <1>8, <1>9 DEF s

(* A stack is the frames below the top one, and that.                      *)
LEMMA SplitTop ==
  ASSUME NEW s \in Seq(Frame), s # <<>>
  PROVE  LET c == SubSeq(s, 1, Len(s) - 1) IN
         /\ c \in Seq(Frame) /\ s[Len(s)] \in Frame
         /\ s = Append(c, s[Len(s)])
         /\ Len(c) = Len(s) - 1
         /\ \A fr \in Frame : [s EXCEPT ![Len(s)] = fr] = Append(c, fr)
<1> DEFINE n == Len(s)
           c == SubSeq(s, 1, n - 1)
<1>1. n \in Nat \ {0} /\ n - 1 \in 0..n /\ n \in 1..n
  BY EmptySeq
<1>2. s[n] \in Frame
  BY <1>1, ElementOfSeq
<1>3. /\ c \in Seq(Frame) /\ Len(c) = n - 1
      /\ \A k \in 1..n - 1 : c[k] = s[k]
  BY <1>1, PrefixFacts
<1> HIDE DEF c, n
<1>4. ASSUME NEW t \in Seq(Frame), Len(t) = n, \A k \in 1..n - 1 : t[k] = s[k]
      PROVE  t = Append(c, t[n])
  <2>1. t[n] \in Frame
    BY <1>1, <1>4, ElementOfSeq
  <2>2. /\ Append(c, t[n]) \in Seq(Frame)
        /\ Len(Append(c, t[n])) = n
        /\ \A k \in 1..n - 1 : Append(c, t[n])[k] = c[k]
        /\ Append(c, t[n])[n] = t[n]
    <3>1. n - 1 + 1 = n
      BY <1>1
    <3>2. QED
      BY <1>3, <2>1, <3>1, AppendProperties
  <2>3. \A k \in 1..n : k \in 1..n - 1 \/ k = n
    BY <1>1
  <2>4. \A k \in 1..n : Append(c, t[n])[k] = t[k]
    BY <1>3, <1>4, <2>2, <2>3
  <2>5. QED
    BY <1>4, <2>2, <2>4, SeqEqual
<1>5. s = Append(c, s[n])
  BY <1>4 DEF n
<1>6. ASSUME NEW fr \in Frame
      PROVE  [s EXCEPT ![n] = fr] = Append(c, fr)
  <2> DEFINE t == [s EXCEPT ![n] = fr]
  <2>1. /\ t \in Seq(Frame) /\ Len(t) = n
        /\ \A k \in 1..n : t[k] = IF k = n THEN fr ELSE s[k]
    BY <1>1, ExceptSeq DEF n
  <2> HIDE DEF t
  <2>2. t[n] = fr /\ \A k \in 1..n - 1 : t[k] = s[k]
    BY <1>1, <2>1
  <2>3. t = Append(c, t[n])
    BY <1>4, <2>1, <2>2
  <2>4. QED
    BY <2>2, <2>3 DEF t
<1>7. QED
  BY <1>2, <1>3, <1>5, <1>6 DEF c, n
----------------------------------------------------------------------------
(* The invariant, of a stack with one frame on top of others               *)

(* While all goes well, with the frame fr on top of c.                     *)
RunningWith(c, fr, table) ==
  /\ FramesOKIn(c) /\ FrameOK(fr)
  /\ Apart(c) /\ Distinct(Live(fr)) /\ Reach(fr) \cap LiveOf(c) = {}
  /\ LiveOf(c) \cup LiveNames(fr) = Own(table)
  /\ OwnFiles(table, MadeOf(c) \cup Made(fr))
  /\ c = <<>> /\ fr.stage = "entries" /\ fr.j = 1 => fr.next = <<>>

(* While a failure unwinds the frame fr above c.                           *)
FailingWith(c, fr, table) ==
  /\ FramesOKIn(c) /\ FrameOK(fr)
  /\ Apart(c)
  /\ Reach(fr) \cap KeptOf(c) = {}
  /\ KeptOf(c) \subseteq OpenFds(table)
  /\ Own(table) \subseteq LiveOf(c) \cup Reach(fr)

LEMMA Now ==
  ASSUME OInv, stack # <<>>
  PROVE  /\ IInv /\ stack \in Seq(Frame) /\ result = "none"
         /\ Callers \in Seq(Frame) /\ Top \in Frame
         /\ stack = Append(Callers, Top)
         /\ \A fr \in Frame : SetTop(fr) <=> stack' = Append(Callers, fr)
         /\ Top.stage # "err" => RunningWith(Callers, Top, fdt)
         /\ Top.stage = "err" => FailingWith(Callers, Top, fdt)
<1>1. IInv /\ stack \in Seq(Frame) /\ result = "none"
  BY NowParts DEF OInv
<1>2. /\ Callers \in Seq(Frame) /\ Top \in Frame
      /\ stack = Append(Callers, Top)
      /\ Len(Callers) = Len(stack) - 1
      /\ \A fr \in Frame : [stack EXCEPT ![Len(stack)] = fr] = Append(Callers, fr)
  BY <1>1, SplitTop DEF Callers, Top
<1>3. FramesOKIn(Callers) /\ FrameOK(Top)
  BY <1>1, <1>2, OneFrameMore DEF OInv, FramesOK, FramesOKIn
<1>4. ASSUME Top.stage # "err"
      PROVE  RunningWith(Callers, Top, fdt)
  <2>1. Running
    BY <1>4 DEF OInv
  <2>2. Callers = <<>> => Len(stack) = 1
    BY <1>1, <1>2, EmptySeq
  <2>3. QED
    BY <1>2, <1>3, <2>1, <2>2, OneFrameMore DEF Running, RunningWith
<1>5. ASSUME Top.stage = "err"
      PROVE  FailingWith(Callers, Top, fdt)
  BY <1>3, <1>5 DEF OInv, Failing, FailingWith
<1>6. QED
  BY <1>1, <1>2, <1>4, <1>5 DEF SetTop

(* prog and cfg never change.                                              *)
LEMMA SameFlow ==
  ASSUME UNCHANGED <<prog, cfg>>
  PROVE  /\ \A fr : FrameOK(fr)' <=> FrameOK(fr)
         /\ FramesOKIn(stack') => FramesOK'
         /\ MadeOf(stack)' = MadeOf(stack')
         /\ Own(fdt)' = Own(fdt')
BY DEF FrameOK, GoesOverMade, FramesOK, FramesOKIn, MadeOf, Made, Own

LEMMA NextRunning ==
  ASSUME OInv, stack # <<>>, UNCHANGED <<prog, cfg, result>>, IInv',
         NEW c \in Seq(Frame), NEW fr \in Frame, stack' = Append(c, fr),
         fr.stage # "err", RunningWith(c, fr, fdt')
  PROVE  OInv'
<1>1. /\ stack' # <<>> /\ Top' = fr /\ FramesOKIn(stack')
      /\ Apart(stack') /\ LiveOf(stack') = Own(fdt') /\ OwnFiles(fdt', MadeOf(stack'))
      /\ Len(stack') = Len(c) + 1
  BY OneFrameMore DEF RunningWith, Top
<1>2. Len(stack') = 1 => c = <<>>
  BY <1>1, EmptySeq
<1>3. Running'
  BY <1>1, <1>2, SameFlow DEF Running, RunningWith
<1>4. result' = "none"
  BY Now
<1>5. QED
  BY <1>1, <1>3, <1>4, SameFlow DEF OInv

LEMMA NextFailing ==
  ASSUME OInv, stack # <<>>, UNCHANGED <<prog, cfg, result>>, IInv',
         NEW c \in Seq(Frame), NEW fr \in Frame, stack' = Append(c, fr),
         fr.stage = "err", FailingWith(c, fr, fdt')
  PROVE  OInv'
<1>1. stack' # <<>> /\ Top' = fr /\ Callers' = c /\ FramesOKIn(stack')
  BY OneFrameMore DEF FailingWith, Top, Callers
<1>2. Failing'
  BY <1>1, SameFlow DEF Failing, FailingWith
<1>3. result' = "none"
  BY Now
<1>4. QED
  BY <1>1, <1>2, <1>3, SameFlow DEF OInv

LEMMA NextOver ==
  ASSUME OInv, UNCHANGED <<prog, cfg>>, IInv', stack' = <<>>,
         result' = "ok" \/ cfg.fd_in = NoFd => Own(fdt') = {}
  PROVE  OInv'
<1>1. FramesOK'
  BY DEF FramesOK
<1>2. Over'
  BY SameFlow DEF Over
<1>3. QED
  BY <1>1, <1>2 DEF OInv

(* The frame that calls the one on top, and those below it.                *)
Caller == Callers[Len(Callers)]
Below  == SubSeq(Callers, 1, Len(Callers) - 1)

LEMMA NowCaller ==
  ASSUME OInv, stack # <<>>, Top.node # Root
  PROVE  /\ Callers # <<>> /\ Below \in Seq(Frame) /\ Caller \in Frame
         /\ Callers = Append(Below, Caller)
         /\ \A fr \in Frame : [Callers EXCEPT ![Len(Callers)] = fr] = Append(Below, fr)
         /\ Caller = stack[Len(stack) - 1]
         /\ Caller.stage \in {"entries", "file", "links"}
         /\ FrameShape(Caller) /\ Calls(Caller, Top)
         /\ FramesOKIn(Below) /\ FrameOK(Caller)
         /\ Apart(Below) /\ Distinct(Live(Caller)) /\ Reach(Caller) \cap LiveOf(Below) = {}
         /\ LiveOf(Callers) = LiveOf(Below) \cup LiveNames(Caller)
         /\ MadeOf(Callers) = MadeOf(Below) \cup Made(Caller)
         /\ KeptOf(Callers) = LiveOf(Below) \cup Pending(Caller)
<1>1. /\ IInv /\ Callers \in Seq(Frame) /\ stack \in Seq(Frame)
      /\ FramesOKIn(Callers) /\ Apart(Callers)
  BY Now DEF RunningWith, FailingWith
<1>2. Callers # <<>> /\ Len(stack) > 1
  BY <1>1, NodeHasCaller
<1>3. /\ Below \in Seq(Frame) /\ Caller \in Frame
      /\ Callers = Append(Below, Caller)
      /\ \A fr \in Frame : [Callers EXCEPT ![Len(Callers)] = fr] = Append(Below, fr)
  BY <1>1, <1>2, SplitTop DEF Below, Caller
<1>4. Len(stack) \in Nat /\ Len(Callers) = Len(stack) - 1 /\ Caller = stack[Len(stack) - 1]
  BY <1>1, <1>2, TopFacts DEF Caller
<1>5. Calls(Caller, Top) /\ FrameShape(Caller)
  <2>1. Len(stack) \in 1..Len(stack) /\ Len(stack) - 1 \in 1..Len(stack)
    BY <1>2, <1>4
  <2>2. QED
    BY <1>1, <1>2, <1>4, <2>1, NowParts DEF CallChain, Top
<1>6. QED
  BY <1>1, <1>2, <1>3, <1>4, <1>5, OneFrameMore DEF Calls
----------------------------------------------------------------------------
(* Descriptor tables                                                       *)

LEMMA Released ==
  ASSUME NEW t, NEW S
  PROVE  /\ OpenFds(Release(t, S)) = OpenFds(t) \ S
         /\ Own(Release(t, S)) = Own(t) \ S
         /\ \A f \in Fds \ S : Release(t, S)[f] = t[f]
BY DEF Release, OpenFds, Own

LEMMA Opened ==
  ASSUME IInv, NEW f \in Fds, IsNextFd(fdt, f), NEW o \in Fds
  PROVE  LET t == [fdt EXCEPT ![f] = o] IN
         /\ f \notin OpenFds(fdt) /\ f \in OwnFds
         /\ OpenFds(t) = OpenFds(fdt) \cup {f}
         /\ Own(t) = Own(fdt) \cup {f}
         /\ t[f] = o
         /\ \A g \in OpenFds(fdt) : t[g] = fdt[g]
<1>1. fdt \in [Fds -> Fds \cup {Closed}] /\ Closed \notin Fds
  BY NowParts, NegativeIsNoFd DEF TypeOK, Closed
<1>2. f \notin OpenFds(fdt) /\ f \in OwnFds
  <2>1. f \in OwnFds
    BY NowParts, OpenKeeps DEF TableOK
  <2>2. QED
    BY <2>1 DEF IsNextFd, IsLowest
<1>3. OpenFds([fdt EXCEPT ![f] = o]) = OpenFds(fdt) \cup {f}
  BY <1>1 DEF OpenFds
<1>4. QED
  BY <1>1, <1>2, <1>3 DEF Own, OwnFds, OpenFds

LEMMA FewerFiles ==
  ASSUME NEW t, NEW u, NEW S, NEW T, OwnFiles(t, S), T \subseteq S,
         \A f \in T : u[f] = t[f]
  PROVE  OwnFiles(u, T)
BY DEF OwnFiles

(* What is live is open, and what is made is live.                         *)
LEMMA LiveIsOpen ==
  ASSUME NEW c, NEW fr, NEW t, RunningWith(c, fr, t)
  PROVE  /\ LiveOf(c) \subseteq OpenFds(t) /\ LiveNames(fr) \subseteq OpenFds(t)
BY DEF RunningWith, Own

LEMMA MadeIsLive ==
  ASSUME NEW fr \in Frame, fr.stage # "enter"
  PROVE  Made(fr) \subseteq LiveNames(fr)
BY FrameLists DEF Made

LEMMA MadeAreLive ==
  ASSUME IInv, NEW c \in Seq(Frame), \A k \in DOMAIN c : c[k].stage # "enter"
  PROVE  MadeOf(c) \subseteq LiveOf(c)
<1>1. \A k \in DOMAIN c : Made(c[k]) \subseteq LiveNames(c[k])
  BY LenProperties, ElementOfSeq, MadeIsLive
<1>2. QED
  BY <1>1 DEF MadeOf, LiveOf

(* Callers are in the middle of a call.                                    *)
LEMMA CallersCall ==
  ASSUME OInv, stack # <<>>
  PROVE  /\ \A k \in DOMAIN Callers : Callers[k].stage \in {"entries", "file", "links"}
         /\ MadeOf(Callers) \subseteq LiveOf(Callers)
<1>1. /\ IInv /\ stack \in Seq(Frame) /\ CallChain(stack)
      /\ Len(stack) \in Nat \ {0} /\ Len(Callers) = Len(stack) - 1 /\ Callers \in Seq(Frame)
      /\ \A k \in 1..Len(stack) - 1 : Callers[k] = stack[k]
  BY Now, NowParts, TopFacts
<1>2. DOMAIN Callers = 1..Len(stack) - 1
  BY <1>1, LenProperties
<1>3. ASSUME NEW k \in DOMAIN Callers
      PROVE  Callers[k].stage \in {"entries", "file", "links"}
  <2>1. k + 1 \in 1..Len(stack) /\ k + 1 > 1 /\ (k + 1) - 1 = k
    BY <1>1, <1>2
  <2>2. Calls(stack[k], stack[k + 1])
    BY <1>1, <2>1 DEF CallChain
  <2>3. QED
    BY <1>1, <1>2, <2>2 DEF Calls
<1>4. QED
  BY <1>1, <1>3, MadeAreLive
----------------------------------------------------------------------------
(* Steps that only move the loop of the top frame                          *)

LEMMA QuietStep ==
  ASSUME OInv, IInv', stack # <<>>, Top.stage # "err",
         UNCHANGED <<prog, cfg, fdt, result>>,
         NEW fr \in Frame, SetTop(fr), fr.stage # "err", FrameOK(fr),
         LiveNames(fr) = LiveNames(Top), Distinct(Live(fr)),
         Reach(fr) \subseteq Reach(Top), Made(fr) \subseteq Made(Top),
         Top.node = Root /\ fr.stage = "entries" /\ fr.j = 1 => fr.next = <<>>
  PROVE  OInv'
<1>1. /\ RunningWith(Callers, Top, fdt) /\ Callers \in Seq(Frame)
      /\ stack' = Append(Callers, fr) /\ IInv
  BY Now
<1>2. Callers = <<>> => Top.node = Root
  BY <1>1, NodeHasCaller
<1>3. OwnFiles(fdt', MadeOf(Callers) \cup Made(fr))
  BY <1>1, FewerFiles DEF RunningWith
<1>4. RunningWith(Callers, fr, fdt')
  BY <1>1, <1>2, <1>3 DEF RunningWith
<1>5. QED
  BY <1>1, <1>4, NextRunning

(* A stage that begins with the branches of a list.                        *)
LEMMA EnterFields ==
  ASSUME NEW fr \in Frame, NEW list \in FdList, NEW stage \in {"file", "exec", "links"}
  PROVE  LET e == Enter(fr, stage, list) IN
         /\ e \in Frame /\ e.node = fr.node /\ e.stage = stage /\ e.arg = fr.arg
         /\ e.active = list /\ e.next = <<>> /\ e.i = 1
         /\ e.j = IF stage = "file" THEN 0 ELSE 1
         /\ Rest(e) = list
<1> DEFINE e == Enter(fr, stage, list)
<1>1. /\ e.node = fr.node /\ e.stage = stage /\ e.arg = fr.arg
      /\ e.active = list /\ e.next = <<>> /\ e.i = 1
      /\ e.j = IF stage = "file" THEN 0 ELSE 1
  BY DEF Enter, Frame
<1>2. e \in Frame
  BY EnterFrame
<1> HIDE DEF e
<1>3. 1 \in Nat \ {0}
  OBVIOUS
<1>4. SubSeq(list, 1, Len(list)) = list
  BY <1>3, ListRest
<1>5. QED
  BY <1>1, <1>2, <1>4 DEF Rest, e

LEMMA EnterNodeOwned ==
  ASSUME OInv, IInv', EnterNode
  PROVE  OInv'
<1>1. /\ stack # <<>> /\ Top \in Frame /\ Top.stage = "enter" /\ FrameShape(Top)
      /\ UNCHANGED <<prog, cfg, fdt, files, result, flushed>> /\ IInv
  BY AtTop DEF EnterNode, OInv
<1>2. Top.node \in Node /\ Top.node # Root /\ Top.arg \in OwnFds \cup {NoFd}
  BY <1>1, FrameFields, RuntimeAssumption DEF FrameShape
<1> DEFINE fr == Enter(Top, FirstStage(Top.node), <<Top.arg>>)
<1>3. FirstStage(Top.node) \in {"file", "exec", "links"}
  BY DEF FirstStage, AfterFile
<1>4. /\ <<Top.arg>> \in FdList /\ Names(<<Top.arg>>) = {Top.arg} \ {NoFd}
      /\ Distinct(<<Top.arg>>) /\ Len(<<Top.arg>>) = 1
  BY <1>2, OneEntry
<1>5. /\ fr \in Frame /\ fr.node = Top.node /\ fr.stage = FirstStage(Top.node)
      /\ fr.active = <<Top.arg>> /\ fr.next = <<>> /\ fr.i = 1 /\ fr.arg = Top.arg
  BY <1>1, <1>3, <1>4, EnterFields
<1>6. SetTop(fr)
  BY DEF EnterNode
<1> HIDE DEF fr
<1>7. LiveNames(fr) = {Top.arg} \ {NoFd} /\ Distinct(Live(fr))
  BY <1>3, <1>4, <1>5, AtStart
<1>8. LiveNames(Top) = {Top.arg} \ {NoFd}
  BY <1>1, FrameLists
<1>9. Reach(fr) \subseteq Reach(Top)
  BY <1>1, <1>4, <1>5, EmptyList DEF Reach
<1>10. ~ GoesOverMade(fr) /\ Made(fr) \subseteq Made(Top)
  BY <1>2, <1>3, <1>5, EmptyList DEF GoesOverMade, Made, FirstStage, AfterFile
<1>11. FrameOK(fr)
  BY <1>2, <1>3, <1>4, <1>5, <1>10, EmptyList, RuntimeAssumption DEF FrameOK
<1>12. QED
  BY <1>1, <1>2, <1>3, <1>5, <1>6, <1>7, <1>8, <1>9, <1>10, <1>11, QuietStep

LEMMA LoadChildOwned ==
  ASSUME OInv, IInv', LoadChild
  PROVE  OInv'
<1>1. /\ stack # <<>> /\ Top \in Frame /\ Top.stage = "file" /\ FrameShape(Top)
      /\ UNCHANGED <<prog, cfg, fdt, files, result, log, flushed>> /\ IInv
  BY AtTop DEF LoadChild, OInv
<1> DEFINE fr == [Top EXCEPT !.j = 1]
<1>2. /\ fr \in Frame /\ fr.node = Top.node /\ fr.stage = Top.stage /\ fr.arg = Top.arg
      /\ fr.active = Top.active /\ fr.next = Top.next /\ fr.i = Top.i
  BY <1>1 DEF Frame
<1>3. SetTop(fr)
  BY DEF LoadChild
<1> HIDE DEF fr
<1>4. /\ Live(fr) = Live(Top) /\ LiveNames(fr) = LiveNames(Top)
      /\ Reach(fr) = Reach(Top) /\ Made(fr) = Made(Top)
      /\ FrameOK(fr) <=> FrameOK(Top)
  BY <1>1, <1>2 DEF Live, LiveNames, Reach, Made, GoesOverMade, Pending, Rest, FrameOK
<1>5. RunningWith(Callers, Top, fdt)
  BY <1>1, Now
<1>6. QED
  BY <1>1, <1>2, <1>3, <1>4, <1>5, QuietStep DEF RunningWith

(* The collected branches become the ones to go over.                      *)
LEMMA TurnOwned ==
  ASSUME OInv, IInv', stack # <<>>, Top \in Frame, Top.node # Root,
         Top.stage \in {"file", "exec"}, Top.i > Len(Top.active),
         UNCHANGED <<prog, cfg, fdt, result>>,
         NEW stage \in {"exec", "links"}, SetTop(Enter(Top, stage, Top.next))
  PROVE  OInv'
<1> DEFINE fr == Enter(Top, stage, Top.next)
<1>1. /\ Top.next \in FdList /\ Top.active \in FdList /\ Top.i \in Nat \ {0}
      /\ Len(Top.active) \in Nat
  BY FrameFields, LenProperties DEF FdList
<1>2. /\ fr \in Frame /\ fr.node = Top.node /\ fr.stage = stage
      /\ fr.active = Top.next /\ fr.next = <<>> /\ fr.i = 1 /\ fr.arg = Top.arg
  BY <1>1, EnterFrame DEF Enter, Frame
<1>3. RunningWith(Callers, Top, fdt)
  BY Now
<1> HIDE DEF fr
<1>4. /\ LiveNames(Top) = Names(Top.next)
      /\ Distinct(Live(Top)) => Distinct(Top.next)
  BY AtEnd
<1>5. /\ LiveNames(fr) = Names(Top.next) /\ Pending(fr) = Names(Top.next)
      /\ Distinct(Live(fr)) <=> Distinct(Top.next)
  BY <1>2, AtStart
<1>6. Reach(fr) \subseteq Reach(Top)
  BY <1>2, EmptyList DEF Reach
<1>7. Made(fr) \subseteq Made(Top)
  BY <1>2, <1>5, EmptyList DEF Made
<1>8. FrameOK(fr)
  BY <1>2, <1>3, EmptyList, RuntimeAssumption DEF FrameOK, RunningWith
<1>9. QED
  BY <1>2, <1>3, <1>4, <1>5, <1>6, <1>7, <1>8, QuietStep DEF RunningWith, fr

LEMMA FileDoneOwned ==
  ASSUME OInv, IInv', FileDone
  PROVE  OInv'
<1>1. /\ stack # <<>> /\ Top \in Frame /\ Top.stage = "file" /\ FrameShape(Top)
      /\ Top.i > Len(Top.active)
      /\ UNCHANGED <<prog, cfg, fdt, files, result, log, flushed>> /\ IInv
  BY AtTop DEF FileDone, OInv
<1>2. AfterFile(Top.node) \in {"exec", "links"} /\ Top.node # Root
  BY <1>1 DEF AfterFile, FrameShape
<1>3. QED
  BY <1>1, <1>2, TurnOwned DEF FileDone

LEMMA ExecDoneOwned ==
  ASSUME OInv, IInv', ExecDone
  PROVE  OInv'
<1>1. /\ stack # <<>> /\ Top \in Frame /\ Top.stage = "exec" /\ FrameShape(Top)
      /\ Top.i > Len(Top.active)
      /\ UNCHANGED <<prog, cfg, fdt, files, result, log, flushed>> /\ IInv
  BY AtTop DEF ExecDone, OInv
<1>2. Top.node # Root
  BY <1>1 DEF FrameShape
<1>3. QED
  BY <1>1, <1>2, TurnOwned DEF ExecDone

(* run_model goes from its entries to writing its outputs.                 *)
LEMMA RootMoves ==
  ASSUME OInv, IInv', stack # <<>>, Top \in Frame, Top.stage \in {"entries", "flush"},
         FrameShape(Top), UNCHANGED <<prog, cfg, fdt, result>>,
         NEW fr \in Frame, SetTop(fr), fr.node = Top.node, fr.stage = "flush",
         fr.arg = Top.arg, fr.active = Top.active, fr.next = Top.next
  PROVE  OInv'
<1>1. Top.node = Root /\ RunningWith(Callers, Top, fdt) /\ FrameOK(Top)
  BY Now DEF FrameShape, RunningWith
<1>2. Top.active = <<>> /\ fr.active = <<>> /\ Len(<<>>) = 0
  BY <1>1, EmptyList DEF FrameOK
<1>3. /\ Rest(Top) = <<>> /\ Rest(fr) = <<>>
  BY <1>2, EmptyList, FrameFields, ListRest DEF Rest
<1>4. /\ Live(fr) = Live(Top) /\ LiveNames(fr) = LiveNames(Top)
      /\ Reach(fr) = Reach(Top)
  BY <1>3, FrameLists DEF Reach, LiveNames
<1>5. /\ ~ GoesOverMade(fr) /\ ~ GoesOverMade(Top) /\ Made(fr) = Made(Top)
  BY DEF GoesOverMade, Made
<1>6. FrameOK(fr)
  BY <1>1, <1>5 DEF FrameOK
<1>7. QED
  BY <1>1, <1>4, <1>5, <1>6, QuietStep DEF RunningWith

LEMMA EntriesDoneOwned ==
  ASSUME OInv, IInv', EntriesDone
  PROVE  OInv'
<1>1. /\ stack # <<>> /\ Top \in Frame /\ Top.stage = "entries" /\ FrameShape(Top)
      /\ UNCHANGED <<prog, cfg, fdt, files, result, log, flushed>>
  BY AtTop DEF EntriesDone, OInv
<1> DEFINE fr == [Top EXCEPT !.stage = "flush"]
<1>2. /\ fr \in Frame /\ fr.node = Top.node /\ fr.stage = "flush" /\ fr.arg = Top.arg
      /\ fr.active = Top.active /\ fr.next = Top.next
  BY <1>1 DEF Frame, Stages
<1>3. SetTop(fr)
  BY DEF EntriesDone
<1>4. QED
  BY <1>1, <1>2, <1>3, RootMoves

LEMMA FlushBranchOwned ==
  ASSUME OInv, IInv', FlushBranch
  PROVE  OInv'
<1>1. /\ stack # <<>> /\ Top \in Frame /\ Top.stage = "flush" /\ FrameShape(Top)
      /\ UNCHANGED <<prog, cfg, fdt, result, log>>
  BY AtTop DEF FlushBranch, OInv
<1> DEFINE fr == [Top EXCEPT !.i = @ + 1]
<1>2. Top.i + 1 \in Nat \ {0}
  BY <1>1, FrameFields
<1>3. /\ fr \in Frame /\ fr.node = Top.node /\ fr.stage = "flush" /\ fr.arg = Top.arg
      /\ fr.active = Top.active /\ fr.next = Top.next
  BY <1>1, <1>2 DEF Frame
<1>4. SetTop(fr)
  BY DEF FlushBranch
<1>5. QED
  BY <1>1, <1>3, <1>4, RootMoves
----------------------------------------------------------------------------
(* A call                                                                  *)

LEMMA CallBranchOwned ==
  ASSUME OInv, IInv', CallBranch
  PROVE  OInv'
<1>1. /\ stack # <<>> /\ Top \in Frame /\ IInv
      /\ Top.stage \in {"entries", "file", "links"}
      /\ Targets(Top)[Top.j] \in Node
      /\ UNCHANGED <<prog, cfg, result, log, flushed>>
  BY TargetIsNode DEF CallBranch, OInv
<1> DEFINE n == Targets(Top)[Top.j]
<1>2. /\ RunningWith(Callers, Top, fdt) /\ stack \in Seq(Frame)
      /\ Callers \in Seq(Frame) /\ stack = Append(Callers, Top)
  BY <1>1, Now
<1>3. /\ FramesOKIn(stack) /\ Apart(stack)
      /\ LiveOf(stack) = Own(fdt) /\ OwnFiles(fdt, MadeOf(stack))
  BY <1>1, <1>2, OneFrameMore DEF RunningWith
<1>4. MadeOf(stack) \subseteq LiveOf(stack)
  BY <1>1, <1>2, CallersCall, MadeIsLive, OneFrameMore
<1>5. ASSUME NEW fd \in OwnFds \cup {NoFd}, stack' = Append(stack, FrameOf(n, fd)),
             fd \notin Own(fdt), Own(fdt') = Own(fdt) \cup ({fd} \ {NoFd}),
             \A g \in OpenFds(fdt) : fdt'[g] = fdt[g]
      PROVE  OInv'
  <2> DEFINE fr == FrameOf(n, fd)
  <2>1. /\ fr \in Frame /\ fr.node = n /\ fr.stage = "enter" /\ fr.arg = fd
        /\ fr.active = <<>> /\ fr.next = <<>> /\ fr.i = 1
    BY <1>1, EmptyList DEF FrameOf, Frame, Stages
  <2> HIDE DEF fr
  <2>2. LiveNames(fr) = {fd} \ {NoFd} /\ Distinct(Live(fr)) /\ Reach(fr) = {fd} \ {NoFd}
    BY <2>1, FrameLists, EmptyList DEF Reach
  <2>3. ~ GoesOverMade(fr) /\ Made(fr) = {}
    BY <2>1, EmptyList DEF Made, GoesOverMade
  <2>4. FrameOK(fr)
    BY <1>1, <2>1, <2>3, EmptyList, RuntimeAssumption DEF FrameOK
  <2>5. Reach(fr) \cap LiveOf(stack) = {}
    BY <1>3, <1>5, <2>2
  <2>6. OwnFiles(fdt', MadeOf(stack) \cup Made(fr))
    BY <1>3, <1>4, <1>5, <2>3, FewerFiles DEF Own
  <2>7. RunningWith(stack, fr, fdt')
    BY <1>1, <1>3, <1>5, <2>1, <2>2, <2>4, <2>5, <2>6 DEF RunningWith
  <2>8. QED
    BY <1>1, <1>2, <1>5, <2>1, <2>7, NextRunning DEF fr
<1>6. CASE stack' = Append(stack, FrameOf(n, NoFd)) /\ UNCHANGED <<fdt, files>>
  <2>1. NoFd \notin Own(fdt)
    BY NegativeIsNoFd DEF Own, OpenFds, NoFd
  <2>2. QED
    BY <1>5, <1>6, <2>1
<1>7. CASE /\ Source(Top) \in OpenFds(fdt)
           /\ \E f \in Fds : /\ IsNextFd(fdt, f)
                             /\ fdt' = Dup(fdt, Source(Top), f)
                             /\ stack' = Append(stack, FrameOf(n, f))
  <2>1. PICK f \in Fds : /\ IsNextFd(fdt, f)
                         /\ fdt' = Dup(fdt, Source(Top), f)
                         /\ stack' = Append(stack, FrameOf(n, f))
    BY <1>7
  <2>2. fdt[Source(Top)] \in Fds
    BY <1>1, <1>7, NowParts DEF OpenFds, TypeOK
  <2>3. fdt' = [fdt EXCEPT ![f] = fdt[Source(Top)]]
    BY <2>1 DEF Dup
  <2>4. /\ f \notin OpenFds(fdt) /\ f \in OwnFds
        /\ Own(fdt') = Own(fdt) \cup {f}
        /\ \A g \in OpenFds(fdt) : fdt'[g] = fdt[g]
    <3> DEFINE o == fdt[Source(Top)]
    <3> HIDE DEF o
    <3>1. o \in Fds /\ fdt' = [fdt EXCEPT ![f] = o] /\ IsNextFd(fdt, f)
      BY <2>1, <2>2, <2>3 DEF o
    <3> DEFINE t == [fdt EXCEPT ![f] = o]
    <3>2. /\ f \notin OpenFds(fdt) /\ f \in OwnFds
          /\ Own(t) = Own(fdt) \cup {f}
          /\ \A g \in OpenFds(fdt) : t[g] = fdt[g]
      BY <1>1, <3>1, Opened
    <3>3. fdt' = t
      BY <3>1
    <3> HIDE DEF t
    <3>4. QED
      BY <3>2, <3>3
  <2>5. f # NoFd
    BY NegativeIsNoFd DEF NoFd
  <2>6. QED
    BY <1>5, <2>1, <2>4, <2>5 DEF Own
<1>8. QED
  BY <1>6, <1>7 DEF CallBranch
----------------------------------------------------------------------------
(* A branch is consumed                                                    *)

LEMMA OneConsumed ==
  ASSUME NEW fr \in Frame, NEW gr \in Frame, fr.i \in DOMAIN fr.active,
         gr.active = fr.active, gr.i = fr.i + 1
  PROVE  LET b == fr.active[fr.i] IN
         /\ b \in OwnFds \cup {NoFd} /\ {b} \ {NoFd} \subseteq Names(fr.active)
         /\ Pending(fr) = Pending(gr) \cup ({b} \ {NoFd})
         /\ Distinct(Rest(fr)) => Distinct(Rest(gr)) /\ b \notin Pending(gr)
<1> DEFINE b == fr.active[fr.i]
<1>1. fr.active \in FdList /\ fr.i \in Nat \ {0} /\ fr.i + 1 \in Nat \ {0}
  BY FrameFields
<1>2. b \in OwnFds \cup {NoFd} /\ {b} \ {NoFd} \subseteq Names(fr.active)
  BY <1>1, HeldIsOwn DEF Held, Names
<1>3. Rest(fr) = <<b>> \o Rest(gr) /\ Rest(gr) \in FdList
  <2>1. SubSeq(fr.active, fr.i, Len(fr.active))
          = <<b>> \o SubSeq(fr.active, fr.i + 1, Len(fr.active))
    BY <1>1, ListRest
  <2>2. SubSeq(fr.active, fr.i + 1, Len(fr.active)) \in FdList
    BY <1>1, ListRest
  <2>3. QED
    BY <2>1, <2>2 DEF Rest
<1> HIDE DEF b
<1>4. <<b>> \in FdList /\ Names(<<b>>) = {b} \ {NoFd}
  BY <1>2, OneEntry
<1>5. /\ Names(Rest(fr)) = ({b} \ {NoFd}) \cup Names(Rest(gr))
      /\ Distinct(Rest(fr)) => Distinct(Rest(gr)) /\ ({b} \ {NoFd}) \cap Names(Rest(gr)) = {}
  BY <1>3, <1>4, CatLists
<1>6. QED
  BY <1>2, <1>5 DEF b, Pending, Names

LEMMA BranchConsumedOwned ==
  ASSUME OInv, IInv', BranchConsumed
  PROVE  OInv'
<1>1. /\ stack # <<>> /\ Top \in Frame /\ FrameShape(Top) /\ IInv
      /\ \/ Top.stage = "file"
         \/ Top.stage = "links" /\ prog.links[Top.node] # <<>>
      /\ Top.i \in DOMAIN Top.active
      /\ UNCHANGED <<prog, cfg, files, result, log, flushed>>
  BY AtTop DEF BranchConsumed, OInv, At
<1> DEFINE b  == Top.active[Top.i]
           fr == [Top EXCEPT !.i = @ + 1, !.j = IF Top.stage = "file" THEN 0 ELSE 1]
<1>2. Top.i + 1 \in Nat \ {0}
  BY <1>1, FrameFields
<1>3. /\ fr \in Frame /\ fr.node = Top.node /\ fr.stage = Top.stage /\ fr.arg = Top.arg
      /\ fr.active = Top.active /\ fr.next = Top.next /\ fr.i = Top.i + 1
  BY <1>1, <1>2 DEF Frame
<1>4. SetTop(fr) /\ fdt' = Release(fdt, {b})
  BY DEF BranchConsumed
<1> HIDE DEF fr
<1>5. /\ RunningWith(Callers, Top, fdt) /\ Callers \in Seq(Frame)
      /\ stack' = Append(Callers, fr)
  BY <1>1, <1>3, <1>4, Now
<1>6. /\ {b} \ {NoFd} \subseteq Names(Top.active)
      /\ Pending(Top) = Pending(fr) \cup ({b} \ {NoFd})
      /\ Distinct(Rest(Top)) => Distinct(Rest(fr)) /\ b \notin Pending(fr)
  BY <1>1, <1>3, OneConsumed
<1> HIDE DEF b
<1>7. /\ LiveNames(Top) = Pending(Top) \cup Names(Top.next)
      /\ LiveNames(fr) = Pending(fr) \cup Names(Top.next)
      /\ Distinct(Rest(Top)) /\ Distinct(Top.next) /\ Pending(Top) \cap Names(Top.next) = {}
      /\ Distinct(Live(fr)) <=> Distinct(Rest(fr)) /\ Distinct(Top.next)
                                /\ Pending(fr) \cap Names(Top.next) = {}
  BY <1>1, <1>3, <1>5, FrameLists DEF RunningWith
<1>8. Distinct(Live(fr)) /\ LiveNames(fr) = LiveNames(Top) \ {b}
  BY <1>6, <1>7 DEF Names
<1>9. Reach(fr) = Reach(Top) /\ b \notin LiveOf(Callers)
  <2>1. {b} \ {NoFd} \subseteq Reach(Top)
    BY <1>1, <1>6 DEF Reach
  <2>2. NoFd \notin LiveOf(Callers)
    BY DEF LiveOf, LiveNames, Names
  <2>3. QED
    BY <1>3, <1>5, <2>1, <2>2 DEF Reach, RunningWith
<1>10. FrameOK(fr) /\ Made(fr) \subseteq Made(Top)
  BY <1>1, <1>3, <1>5, <1>6 DEF FrameOK, RunningWith, GoesOverMade, Made
<1>11. OwnFiles(fdt', MadeOf(Callers) \cup Made(fr))
  <2>1. MadeOf(Callers) \subseteq LiveOf(Callers) /\ Made(fr) \subseteq LiveNames(fr)
    BY <1>1, <1>3, CallersCall, MadeIsLive
  <2>2. MadeOf(Callers) \cup Made(fr) \subseteq Fds \ {b}
    BY <1>5, <1>8, <1>9, <2>1, LiveIsOpen DEF OpenFds
  <2>3. QED
    BY <1>4, <1>5, <1>10, <2>2, Released, FewerFiles DEF RunningWith
<1>12. LiveOf(Callers) \cup LiveNames(fr) = Own(fdt')
  BY <1>4, <1>5, <1>8, <1>9, Released DEF RunningWith
<1>13. RunningWith(Callers, fr, fdt')
  BY <1>1, <1>3, <1>5, <1>8, <1>9, <1>10, <1>11, <1>12 DEF RunningWith
<1>14. QED
  BY <1>1, <1>3, <1>5, <1>13, NextRunning

LEMMA ExecBranchOwned ==
  ASSUME OInv, IInv', ExecBranch
  PROVE  OInv'
<1>1. /\ stack # <<>> /\ Top \in Frame /\ Top.stage = "exec" /\ FrameShape(Top) /\ IInv
      /\ Top.i \in DOMAIN Top.active
      /\ UNCHANGED <<prog, cfg, result, log, flushed>>
  BY AtTop DEF ExecBranch, OInv
<1> DEFINE in == Top.active[Top.i]
<1>2. PICK f \in Fds, o \in Fds :
         /\ IsNextFd(fdt, f) /\ IsNewFile(fdt, o)
         /\ fdt' = Release(Created(fdt, f, o), {in})
         /\ SetTop([Top EXCEPT !.next = Append(@, f), !.i = @ + 1])
  BY DEF ExecBranch
<1> DEFINE t  == Created(fdt, f, o)
           fr == [Top EXCEPT !.next = Append(@, f), !.i = @ + 1]
<1>3. /\ f \notin OpenFds(fdt) /\ f \in OwnFds /\ f # NoFd
      /\ Own(t) = Own(fdt) \cup {f} /\ t[f] = o
      /\ \A g \in OpenFds(fdt) : t[g] = fdt[g]
  BY <1>1, <1>2, Opened, NegativeIsNoFd DEF Created, NoFd
<1> HIDE DEF t
<1>4. /\ Top.next \in FdList /\ Append(Top.next, f) = Top.next \o <<f>>
      /\ Append(Top.next, f) \in FdList /\ Len(Append(Top.next, f)) = Len(Top.next) + 1
      /\ Held(Append(Top.next, f)) = Held(Top.next) \cup {f}
  BY <1>1, <1>3, FrameFields, ListAppend
<1>5. Top.i + 1 \in Nat \ {0}
  BY <1>1, FrameFields
<1>6. /\ fr \in Frame /\ fr.node = Top.node /\ fr.stage = "exec" /\ fr.arg = Top.arg
      /\ fr.active = Top.active /\ fr.next = Append(Top.next, f) /\ fr.i = Top.i + 1
  BY <1>1, <1>4, <1>5 DEF Frame
<1>7. SetTop(fr)
  BY <1>2
<1> HIDE DEF fr
<1>8. /\ RunningWith(Callers, Top, fdt) /\ Callers \in Seq(Frame)
      /\ stack' = Append(Callers, fr)
  BY <1>1, <1>6, <1>7, Now
<1>9. /\ {in} \ {NoFd} \subseteq Names(Top.active)
      /\ Pending(Top) = Pending(fr) \cup ({in} \ {NoFd})
      /\ Distinct(Rest(Top)) => Distinct(Rest(fr)) /\ in \notin Pending(fr)
  BY <1>1, <1>6, OneConsumed
<1>10. fdt' = Release(t, {in})
  BY <1>2 DEF t
<1> HIDE DEF in
<1>11. /\ LiveNames(Top) = Pending(Top) \cup Names(Top.next)
       /\ Distinct(Rest(Top)) /\ Distinct(Top.next) /\ Pending(Top) \cap Names(Top.next) = {}
  BY <1>1, <1>8, FrameLists DEF RunningWith
<1>12. f \notin LiveNames(Top) /\ f \notin LiveOf(Callers) /\ in # f
  <2>1. f \notin LiveNames(Top) /\ f \notin LiveOf(Callers)
    BY <1>3, <1>8, LiveIsOpen
  <2>2. {in} \ {NoFd} \subseteq LiveNames(Top)
    BY <1>9, <1>11
  <2>3. QED
    BY <1>3, <2>1, <2>2
<1>13. /\ Names(fr.next) = Names(Top.next) \cup {f}
       /\ Distinct(fr.next)
  <2>1. <<f>> \in FdList /\ Names(<<f>>) = {f} /\ Distinct(<<f>>)
    BY <1>3, OneEntry
  <2>2. Names(Top.next) \cap {f} = {}
    BY <1>11, <1>12
  <2>3. QED
    BY <1>4, <1>6, <1>11, <2>1, <2>2, CatLists
<1>14. /\ LiveNames(fr) = (LiveNames(Top) \cup {f}) \ {in}
       /\ Distinct(Live(fr))
  <2>1. /\ LiveNames(fr) = Pending(fr) \cup Names(fr.next)
        /\ Distinct(Live(fr)) <=> Distinct(Rest(fr)) /\ Distinct(fr.next)
                                  /\ Pending(fr) \cap Names(fr.next) = {}
    BY <1>6, FrameLists
  <2>2. in \notin Names(Top.next)
    BY <1>9, <1>11 DEF Names
  <2>3. QED
    BY <1>9, <1>11, <1>12, <1>13, <2>1, <2>2
<1>15. Reach(fr) = Reach(Top) \cup {f} /\ in \notin LiveOf(Callers)
  <2>1. {in} \ {NoFd} \subseteq Reach(Top)
    BY <1>1, <1>9 DEF Reach
  <2>2. NoFd \notin LiveOf(Callers)
    BY DEF LiveOf, LiveNames, Names
  <2>3. Reach(fr) = Reach(Top) \cup {f}
    BY <1>1, <1>6, <1>13 DEF Reach
  <2>4. QED
    BY <1>8, <2>1, <2>2, <2>3 DEF RunningWith
<1>16. Made(fr) \subseteq Made(Top) \cup {f}
  BY <1>1, <1>6, <1>9, <1>13 DEF GoesOverMade, Made
<1>17. FrameOK(fr)
  <2>1. /\ Len(Top.next) \in Nat /\ Top.i \in Nat /\ Len(Top.active) \in Nat
        /\ Top.i <= Len(Top.active) /\ MaxBranches \in Nat
    BY <1>1, FrameFields, LenProperties, RuntimeAssumption DEF FdList
  <2>2. FrameOK(Top)
    BY <1>8 DEF RunningWith
  <2>3. Len(fr.next) < fr.i /\ Len(fr.next) <= MaxBranches /\ fr.node # Root
    BY <1>1, <1>4, <1>6, <2>1, <2>2 DEF FrameOK, FrameShape
  <2>4. NoFd \notin Held(fr.next)
    BY <1>3, <1>4, <1>6, <2>2 DEF FrameOK
  <2>5. QED
    BY <1>1, <1>6, <2>2, <2>3, <2>4 DEF FrameOK, GoesOverMade
<1>18. OwnFiles(fdt', MadeOf(Callers) \cup Made(fr))
  <2> DEFINE S == MadeOf(Callers) \cup Made(fr)
  <2>1. MadeOf(Callers) \subseteq LiveOf(Callers) /\ Made(fr) \subseteq LiveNames(fr)
    BY <1>1, <1>6, CallersCall, MadeIsLive
  <2>2. LiveOf(Callers) \subseteq OpenFds(fdt) /\ LiveNames(Top) \subseteq OpenFds(fdt)
    BY <1>8, LiveIsOpen
  <2>3. \A g \in S \ {f} : g \in OpenFds(fdt) /\ g # in /\ fdt'[g] = fdt[g]
    <3>1. ASSUME NEW g \in S \ {f} PROVE g \in OpenFds(fdt) /\ g # in
      BY <1>14, <1>15, <2>1, <2>2
    <3>2. QED
      BY <1>3, <1>10, <3>1, Released DEF OpenFds
  <2>4. fdt'[f] = o
    BY <1>3, <1>10, <1>12, Released
  <2>5. \A g \in Fds : fdt[g] # o
    BY <1>2 DEF IsNewFile, IsLowest
  <2>6. S \ {f} \subseteq MadeOf(Callers) \cup Made(Top)
    BY <1>16
  <2>7. OwnFiles(fdt, MadeOf(Callers) \cup Made(Top))
    BY <1>8 DEF RunningWith
  <2> HIDE DEF S
  <2>8. ASSUME NEW g \in S, NEW h \in S, fdt'[g] = fdt'[h]
        PROVE  g = h
    BY <2>3, <2>4, <2>5, <2>6, <2>7, <2>8 DEF OwnFiles, OpenFds
  <2>9. QED
    BY <2>8 DEF OwnFiles, S
<1>19. LiveOf(Callers) \cup LiveNames(fr) = Own(fdt')
  <2>1. Own(fdt') = (Own(fdt) \cup {f}) \ {in}
    BY <1>3, <1>10, Released
  <2>2. QED
    BY <1>8, <1>14, <1>15, <2>1 DEF RunningWith
<1>20. RunningWith(Callers, fr, fdt')
  BY <1>6, <1>8, <1>12, <1>14, <1>15, <1>17, <1>18, <1>19 DEF RunningWith
<1>21. QED
  BY <1>1, <1>6, <1>8, <1>20, NextRunning
----------------------------------------------------------------------------
(* A return                                                                *)

(* The caller of a node that delivers, after it has taken part of what the *)
(* node delivers.                                                          *)
Taken(part) == [Caller EXCEPT !.next = @ \o part]

LEMMA HandOverStack ==
  ASSUME OInv, stack # <<>>, Top.node # Root, NEW part \in FdList,
         Moved(Caller.next, Delivered) = Caller.next \o part,
         NEW fr \in Frame, HandOver(fr)
  PROVE  /\ Taken(part) \in Frame
         /\ stack' = Append(Append(Below, Taken(part)), fr)
<1> DEFINE n == Len(stack)
           d == Taken(part)
           s == [stack EXCEPT ![n - 1] = d]
<1>1. /\ Callers # <<>> /\ Below \in Seq(Frame) /\ Caller \in Frame
      /\ Callers = Append(Below, Caller)
      /\ \A g \in Frame : [Callers EXCEPT ![Len(Callers)] = g] = Append(Below, g)
      /\ Caller = stack[n - 1]
  BY NowCaller
<1>2. d \in Frame
  <2>1. Caller.next \o part \in FdList
    BY <1>1, FrameFields, ConcatProperties DEF FdList
  <2>2. QED
    BY <1>1, <2>1 DEF Taken, Frame
<1>3. /\ IInv /\ stack \in Seq(Frame) /\ Callers \in Seq(Frame)
      /\ Len(Callers) = n - 1 /\ n \in Nat /\ n > 1
      /\ \A k \in 1..n - 1 : Callers[k] = stack[k]
  BY Now, TopFacts, NodeHasCaller
<1>4. stack' = [s EXCEPT ![n] = fr]
  <2>1. n # n - 1 /\ Outputs = Caller.next
    BY <1>1, <1>3 DEF Outputs
  <2>2. [Caller EXCEPT !.next = Moved(@, Delivered)] = d
    BY DEF Taken
  <2>3. QED
    BY <1>1, <2>1, <2>2 DEF HandOver
<1>5. /\ s \in Seq(Frame) /\ Len(s) = n
      /\ \A k \in 1..n : s[k] = IF k = n - 1 THEN d ELSE stack[k]
  BY <1>2, <1>3, ExceptSeq
<1> HIDE DEF s, d
<1>6. s # <<>>
  BY <1>3, <1>5, EmptySeq
<1>7. /\ SubSeq(s, 1, n - 1) \in Seq(Frame)
      /\ [s EXCEPT ![n] = fr] = Append(SubSeq(s, 1, n - 1), fr)
  BY <1>5, <1>6, SplitTop
<1>8. SubSeq(s, 1, n - 1) = [Callers EXCEPT ![n - 1] = d]
  <2> DEFINE a == SubSeq(s, 1, n - 1)
             b == [Callers EXCEPT ![n - 1] = d]
  <2>1. /\ a \in Seq(Frame) /\ Len(a) = n - 1
        /\ \A k \in 1..n - 1 : a[k] = s[k]
    BY <1>3, <1>5, PrefixFacts
  <2>2. /\ b \in Seq(Frame) /\ Len(b) = n - 1
        /\ \A k \in 1..n - 1 : b[k] = IF k = n - 1 THEN d ELSE Callers[k]
    BY <1>2, <1>3, ExceptSeq
  <2> HIDE DEF a, b
  <2>3. \A k \in 1..n - 1 : a[k] = b[k]
    BY <1>3, <1>5, <2>1, <2>2
  <2>4. a = b
    BY <2>1, <2>2, <2>3, SeqEqual
  <2>5. QED
    BY <2>4 DEF a, b
<1>9. [Callers EXCEPT ![n - 1] = d] = Append(Below, d)
  BY <1>1, <1>2, <1>3
<1>10. QED
  BY <1>2, <1>4, <1>7, <1>8, <1>9 DEF d

(* What the caller holds then.                                             *)
LEMMA HandedOver ==
  ASSUME OInv, stack # <<>>, Top.node # Root, Top.stage = "links", NEW part \in FdList,
         Names(part) \subseteq LiveNames(Top), Distinct(part), NoFd \notin Held(part),
         Len(Caller.next) + Len(part) <= MaxBranches
  PROVE  LET c == Append(Below, Taken(part)) IN
         /\ c \in Seq(Frame) /\ Taken(part) \in Frame
         /\ FramesOKIn(c) /\ Apart(c)
         /\ LiveOf(c) = LiveOf(Callers) \cup Names(part)
         /\ KeptOf(c) = KeptOf(Callers)
         /\ MadeOf(c) = MadeOf(Callers) \cup Names(part)
         /\ c # <<>>
<1> DEFINE d == Taken(part)
<1>1. /\ Callers # <<>> /\ Below \in Seq(Frame) /\ Caller \in Frame
      /\ Caller.stage \in {"entries", "file", "links"}
      /\ Calls(Caller, Top)
      /\ FramesOKIn(Below) /\ FrameOK(Caller)
      /\ Apart(Below) /\ Distinct(Live(Caller)) /\ Reach(Caller) \cap LiveOf(Below) = {}
      /\ LiveOf(Callers) = LiveOf(Below) \cup LiveNames(Caller)
      /\ MadeOf(Callers) = MadeOf(Below) \cup Made(Caller)
      /\ KeptOf(Callers) = LiveOf(Below) \cup Pending(Caller)
  BY NowCaller
<1>2. /\ Caller.next \in FdList /\ Caller.next \o part \in FdList
      /\ Len(Caller.next \o part) = Len(Caller.next) + Len(part)
      /\ Names(Caller.next \o part) = Names(Caller.next) \cup Names(part)
      /\ Distinct(Caller.next \o part) <=>
           Distinct(Caller.next) /\ Distinct(part) /\ Names(Caller.next) \cap Names(part) = {}
      /\ Held(Caller.next \o part) = Held(Caller.next) \cup Held(part)
  <2>1. Caller.next \in FdList
    BY <1>1, FrameFields
  <2>2. /\ Caller.next \o part \in FdList
        /\ Len(Caller.next \o part) = Len(Caller.next) + Len(part)
    BY <2>1, ConcatProperties DEF FdList
  <2>3. QED
    BY <2>1, <2>2, CatLists
<1>3. /\ d \in Frame /\ d.node = Caller.node /\ d.stage = Caller.stage /\ d.arg = Caller.arg
      /\ d.active = Caller.active /\ d.next = Caller.next \o part
      /\ d.i = Caller.i /\ d.j = Caller.j
  BY <1>1, <1>2 DEF Taken, Frame
<1> HIDE DEF d
<1>4. Rest(d) = Rest(Caller) /\ Pending(d) = Pending(Caller)
  BY <1>3 DEF Rest, Pending
<1>5. Names(part) \cap LiveOf(Callers) = {}
  <2>1. Top \in Frame /\ FrameOK(Top) /\ Reach(Top) \cap LiveOf(Callers) = {}
    BY Now DEF RunningWith
  <2>2. LiveNames(Top) \subseteq Reach(Top)
    BY <2>1, LiveIsReached
  <2>3. QED
    BY <2>1, <2>2
<1>6. /\ LiveNames(Caller) = Pending(Caller) \cup Names(Caller.next)
      /\ Distinct(Rest(Caller)) /\ Distinct(Caller.next)
      /\ Pending(Caller) \cap Names(Caller.next) = {}
  BY <1>1, FrameLists
<1>7. /\ LiveNames(d) = LiveNames(Caller) \cup Names(part)
      /\ Distinct(Live(d))
  <2>1. /\ LiveNames(d) = Pending(d) \cup Names(d.next)
        /\ Distinct(Live(d)) <=> Distinct(Rest(d)) /\ Distinct(d.next)
                                 /\ Pending(d) \cap Names(d.next) = {}
    BY <1>1, <1>3, FrameLists
  <2>2. Names(Caller.next) \cap Names(part) = {} /\ Pending(Caller) \cap Names(part) = {}
    BY <1>1, <1>5, <1>6
  <2>3. QED
    BY <1>2, <1>3, <1>4, <1>6, <2>1, <2>2
<1>8. Reach(d) \cap LiveOf(Below) = {}
  <2>1. Reach(d) = Reach(Caller) \cup Names(part)
    BY <1>1, <1>2, <1>3 DEF Reach
  <2>2. QED
    BY <1>1, <1>5, <2>1
<1>9. Made(d) = Made(Caller) \cup Names(part)
  BY <1>2, <1>3, <1>4 DEF Made, GoesOverMade
<1>10. FrameOK(d)
  <2>1. NoFd \notin Held(d.next)
    BY <1>1, <1>2, <1>3 DEF FrameOK
  <2>2. d.stage = "links" => prog.links[d.node] # <<>>
    <3>1. d.stage = "links" => Caller.j \in DOMAIN prog.links[Caller.node]
      BY <1>1, <1>3 DEF Calls, Targets
    <3>2. QED
      BY <1>3, <3>1, EmptyList
  <2>3. Len(d.active) <= MaxBranches /\ Len(d.next) <= MaxBranches
    BY <1>1, <1>2, <1>3 DEF FrameOK
  <2>4. QED
    BY <1>1, <1>3, <2>1, <2>2, <2>3 DEF FrameOK, GoesOverMade
<1>11. QED
  BY <1>1, <1>3, <1>4, <1>7, <1>8, <1>9, <1>10, OneFrameMore DEF d

(* What a node delivers is what it has, every branch of it written by a    *)
(* command.                                                                *)
LEMMA DeliveredOwned ==
  ASSUME OInv, Delivering
  PROVE  /\ stack # <<>> /\ Top \in Frame /\ Top.stage = "links" /\ Top.node # Root
         /\ RunningWith(Callers, Top, fdt)
         /\ Delivered \in FdList /\ Names(Delivered) = LiveNames(Top)
         /\ Distinct(Delivered) /\ NoFd \notin Held(Delivered)
         /\ Names(Delivered) \subseteq Made(Top)
         /\ LiveNames(Top) = IF Terminal THEN Names(Top.active) ELSE Names(Top.next)
<1>1. IInv /\ prog \in Programs
  BY DEF OInv
<1>2. stack # <<>> /\ Top \in Frame /\ Top.stage = "links" /\ FrameShape(Top)
  BY <1>1, AtTop DEF Delivering
<1>3. RunningWith(Callers, Top, fdt) /\ FrameOK(Top) /\ Distinct(Live(Top))
  BY <1>2, Now DEF RunningWith
<1>4. Top.node \in Node /\ Top.node # Root /\ Top.active \in FdList /\ Top.next \in FdList
  BY <1>2, FrameFields DEF FrameShape
<1>5. CASE Terminal
  <2>1. Top.i = 1 /\ Top.next = <<>>
    BY <1>2, <1>3, <1>5 DEF FrameOK, Terminal
  <2>2. /\ LiveNames(Top) = Names(Top.active) /\ Pending(Top) = Names(Top.active)
        /\ Distinct(Top.active)
    BY <1>2, <1>3, <2>1, AtStart
  <2>3. prog.file[Top.node] # NoFile \/ prog.exec[Top.node]
    BY <1>1, <1>4, <1>5, RuntimeAssumption DEF ValidProgram, Terminal
  <2>4. GoesOverMade(Top)
    BY <1>2, <2>3 DEF GoesOverMade
  <2>5. NoFd \notin Held(Top.active) /\ Names(Top.active) \subseteq Made(Top)
    BY <1>3, <2>2, <2>4 DEF FrameOK, Made
  <2>6. QED
    BY <1>2, <1>3, <1>4, <1>5, <2>2, <2>5 DEF Delivered
<1>6. CASE ~ Terminal
  <2>1. Top.i > Len(Top.active)
    BY <1>6 DEF Delivering, Terminal
  <2>2. LiveNames(Top) = Names(Top.next) /\ Distinct(Top.next)
    BY <1>2, <1>3, <2>1, AtEnd
  <2>3. NoFd \notin Held(Top.next) /\ Names(Top.next) \subseteq Made(Top)
    BY <1>3 DEF FrameOK, Made
  <2>4. QED
    BY <1>2, <1>3, <1>4, <1>6, <2>2, <2>3 DEF Delivered
<1>7. QED
  BY <1>5, <1>6

LEMMA DeliverOwned ==
  ASSUME OInv, IInv', Deliver
  PROVE  OInv'
<1>1. /\ stack # <<>> /\ Top \in Frame /\ Top.stage = "links" /\ Top.node # Root
      /\ RunningWith(Callers, Top, fdt)
      /\ Delivered \in FdList /\ Names(Delivered) = LiveNames(Top)
      /\ Distinct(Delivered) /\ NoFd \notin Held(Delivered)
      /\ Names(Delivered) \subseteq Made(Top)
      /\ UNCHANGED <<prog, cfg, fdt, files, result, log, flushed>>
  BY DeliveredOwned DEF Deliver
<1> DEFINE fr == [Top EXCEPT !.stage = "ok", !.active = <<>>, !.next = <<>>]
           c  == Append(Below, Taken(Delivered))
<1>2. /\ fr \in Frame /\ fr.node = Top.node /\ fr.stage = "ok"
      /\ fr.active = <<>> /\ fr.next = <<>>
  BY <1>1, EmptyList DEF Frame, Stages
<1>3. HandOver(fr) /\ Fits(Outputs, Delivered)
  BY DEF Deliver
<1> HIDE DEF fr
<1>4. Caller = stack[Len(stack) - 1] /\ Outputs = Caller.next
  BY <1>1, NowCaller DEF Outputs
<1>5. /\ Moved(Caller.next, Delivered) = Caller.next \o Delivered
      /\ Len(Caller.next) + Len(Delivered) <= MaxBranches
  BY <1>3, <1>4 DEF Moved, Fits
<1>6. stack' = Append(c, fr)
  BY <1>1, <1>2, <1>3, <1>5, HandOverStack
<1>7. /\ c \in Seq(Frame) /\ FramesOKIn(c) /\ Apart(c) /\ c # <<>>
      /\ LiveOf(c) = LiveOf(Callers) \cup LiveNames(Top)
      /\ MadeOf(c) \subseteq MadeOf(Callers) \cup Made(Top)
  BY <1>1, <1>5, HandedOver
<1> HIDE DEF c
<1>8. /\ LiveNames(fr) = {} /\ Distinct(Live(fr)) /\ Reach(fr) = {} /\ Made(fr) = {}
      /\ FrameOK(fr)
  <2>1. Rest(fr) = <<>> /\ Pending(fr) = {}
    <3>1. fr.i \in Nat \ {0} /\ fr.i > Len(fr.active)
      BY <1>2, EmptyList, FrameFields
    <3>2. SubSeq(fr.active, fr.i, Len(fr.active)) = <<>>
      BY <1>2, <3>1, EmptyList, ListRest
    <3>3. QED
      BY <3>2, EmptyList DEF Rest, Pending
  <2>2. ~ GoesOverMade(fr)
    BY <1>2 DEF GoesOverMade
  <2>3. QED
    BY <1>1, <1>2, <2>1, <2>2, EmptyList, FrameLists, RuntimeAssumption DEF Reach, Made, FrameOK
<1>9. OwnFiles(fdt', MadeOf(c) \cup Made(fr))
  BY <1>1, <1>7, <1>8, FewerFiles DEF RunningWith
<1>10. RunningWith(c, fr, fdt')
  BY <1>1, <1>7, <1>8, <1>9 DEF RunningWith
<1>11. QED
  BY <1>1, <1>2, <1>6, <1>7, <1>10, NextRunning

LEMMA FinishOkOwned ==
  ASSUME OInv, IInv', FinishOk
  PROVE  OInv'
<1>1. /\ stack # <<>> /\ Top \in Frame /\ Top.stage = "ok" /\ Top.node # Root /\ IInv
      /\ UNCHANGED <<prog, cfg, fdt, files, result, flushed>>
  BY AtTop DEF FinishOk, OInv, FrameShape
<1> DEFINE d == [Caller EXCEPT !.j = @ + 1]
<1>2. /\ Below \in Seq(Frame) /\ Caller \in Frame
      /\ Callers = Append(Below, Caller)
      /\ \A fr \in Frame : [Callers EXCEPT ![Len(Callers)] = fr] = Append(Below, fr)
      /\ Caller.stage \in {"entries", "file", "links"}
      /\ Calls(Caller, Top)
      /\ FramesOKIn(Below) /\ FrameOK(Caller)
      /\ Apart(Below) /\ Distinct(Live(Caller)) /\ Reach(Caller) \cap LiveOf(Below) = {}
      /\ LiveOf(Callers) = LiveOf(Below) \cup LiveNames(Caller)
      /\ MadeOf(Callers) = MadeOf(Below) \cup Made(Caller)
  BY <1>1, NowCaller
<1>3. RunningWith(Callers, Top, fdt)
  BY <1>1, Now
<1>4. /\ d \in Frame /\ d.node = Caller.node /\ d.stage = Caller.stage /\ d.arg = Caller.arg
      /\ d.active = Caller.active /\ d.next = Caller.next /\ d.i = Caller.i
      /\ d.j = Caller.j + 1
  <2>1. Caller.j + 1 \in Nat
    BY <1>2, FrameFields
  <2>2. QED
    BY <1>2, <2>1 DEF Frame
<1>5. stack' = Append(Below, d)
  <2>1. stack' = [Callers EXCEPT ![Len(Callers)] = d]
    BY DEF FinishOk, Caller
  <2> HIDE DEF d
  <2>2. QED
    BY <1>2, <1>4, <2>1
<1> HIDE DEF d
<1>6. /\ Live(d) = Live(Caller) /\ LiveNames(d) = LiveNames(Caller)
      /\ Reach(d) = Reach(Caller) /\ Made(d) = Made(Caller)
      /\ FrameOK(d) <=> FrameOK(Caller)
  BY <1>2, <1>4 DEF Live, LiveNames, Reach, Made, GoesOverMade, Pending, Rest, FrameOK
<1>7. LiveNames(Top) = {}
  BY <1>1, <1>3, EmptyList, FrameLists DEF RunningWith, FrameOK
<1>8. d.stage = "entries" => d.j # 1
  <2>1. ASSUME Caller.stage = "entries"
        PROVE  Caller.j # 0
    <3>1. prog.entry[Main] \in Seq(Node)
      BY <1>1, NowParts, RuntimeAssumption DEF TypeOK, ProgramType
    <3>2. Caller.j \in DOMAIN prog.entry[Main]
      BY <1>2, <2>1 DEF Calls, Targets
    <3>3. QED
      BY <3>1, <3>2, LenProperties
  <2>2. Caller.j \in Nat
    BY <1>2, FrameFields
  <2>3. QED
    BY <1>4, <2>1, <2>2
<1>9. OwnFiles(fdt', MadeOf(Below) \cup Made(d))
  BY <1>1, <1>2, <1>3, <1>6, FewerFiles DEF RunningWith
<1>10. RunningWith(Below, d, fdt')
  BY <1>1, <1>2, <1>3, <1>6, <1>7, <1>8, <1>9 DEF RunningWith
<1>11. QED
  BY <1>1, <1>2, <1>4, <1>5, <1>10, NextRunning
----------------------------------------------------------------------------
(* A failure                                                               *)

LEMMA KeptIsLive ==
  ASSUME NEW c \in Seq(Frame), \A k \in DOMAIN c : c[k].stage # "enter"
  PROVE  KeptOf(c) \subseteq LiveOf(c)
<1>1. CASE c = <<>>
  BY <1>1 DEF KeptOf
<1>2. CASE c # <<>>
  <2> DEFINE b  == SubSeq(c, 1, Len(c) - 1)
             fr == c[Len(c)]
  <2>1. b \in Seq(Frame) /\ fr \in Frame /\ c = Append(b, fr)
    BY <1>2, SplitTop
  <2>2. fr.stage # "enter"
    BY <1>2, EmptySeq, LenProperties
  <2> HIDE DEF b, fr
  <2>3. LiveOf(c) = LiveOf(b) \cup LiveNames(fr) /\ KeptOf(c) = LiveOf(b) \cup Pending(fr)
    BY <2>1, OneFrameMore
  <2>4. Pending(fr) \subseteq LiveNames(fr)
    BY <2>1, <2>2, FrameLists
  <2>5. QED
    BY <2>3, <2>4
<1>3. QED
  BY <1>1, <1>2

LEMMA CallersKept ==
  ASSUME OInv, stack # <<>>
  PROVE  /\ KeptOf(Callers) \subseteq LiveOf(Callers)
         /\ Top.node # Root => KeptOf(Below) \subseteq LiveOf(Below)
<1>1. Callers \in Seq(Frame) /\ \A k \in DOMAIN Callers : Callers[k].stage # "enter"
  BY Now, CallersCall
<1>2. KeptOf(Callers) \subseteq LiveOf(Callers)
  BY <1>1, KeptIsLive
<1>3. ASSUME Top.node # Root
      PROVE  KeptOf(Below) \subseteq LiveOf(Below)
  <2>1. Callers # <<>> /\ Below \in Seq(Frame)
    BY <1>3, NowCaller
  <2>2. /\ Len(Callers) \in Nat \ {0} /\ Len(Callers) - 1 \in 0..Len(Callers)
        /\ DOMAIN Callers = 1..Len(Callers)
    BY <1>1, <2>1, EmptySeq, LenProperties
  <2>3. Len(Below) = Len(Callers) - 1 /\ \A k \in 1..Len(Callers) - 1 : Below[k] = Callers[k]
    BY <1>1, <2>2, PrefixFacts DEF Below
  <2>4. DOMAIN Below = 1..Len(Callers) - 1
    BY <2>1, <2>3, LenProperties
  <2>5. \A k \in DOMAIN Below : Below[k].stage # "enter"
    BY <1>1, <2>2, <2>3, <2>4
  <2>6. QED
    BY <2>1, <2>5, KeptIsLive
<1>4. QED
  BY <1>2, <1>3

(* A call fails in the frame fr above c, after `extra` was released: none  *)
(* of what that closes is relied on below fr.                              *)
LEMMA FailOwned ==
  ASSUME OInv, IInv', stack # <<>>, UNCHANGED <<prog, cfg, result>>,
         NEW c \in Seq(Frame), NEW fr \in Frame, fr.stage # "ok",
         FramesOKIn(c), FrameOK(fr), Apart(c),
         Reach(fr) \cap KeptOf(c) = {}, KeptOf(c) \subseteq OpenFds(fdt),
         NEW extra, extra \cap KeptOf(c) = {},
         Own(fdt) \subseteq LiveOf(c) \cup Reach(fr) \cup extra,
         Fail(Append(c, fr), extra)
  PROVE  OInv'
<1> DEFINE gr == [fr EXCEPT !.stage = "err",
                            !.next  = IF fr.node = Root THEN @ ELSE <<>>]
           S  == extra \cup IF fr.node = Root THEN {} ELSE Held(fr.next)
           s  == Append(c, fr)
<1>1. /\ gr \in Frame /\ gr.node = fr.node /\ gr.stage = "err" /\ gr.arg = fr.arg
      /\ gr.active = fr.active
      /\ gr.next = IF fr.node = Root THEN fr.next ELSE <<>>
  BY EmptyList DEF Frame, Stages
<1>2. s \in Seq(Frame) /\ s # <<>> /\ s[Len(s)] = fr /\ SubSeq(s, 1, Len(s) - 1) = c
  BY OneFrameMore
<1>3. stack' = [s EXCEPT ![Len(s)] = gr] /\ fdt' = Release(fdt, S)
  BY <1>2 DEF Fail
<1> HIDE DEF gr, s, S
<1>4. stack' = Append(c, gr)
  BY <1>1, <1>2, <1>3, SplitTop
<1>5. NoFd \notin KeptOf(c)
  BY DEF KeptOf, LiveOf, LiveNames, Pending, Names
<1>6. Names(fr.next) \subseteq Reach(fr)
  BY DEF Reach
<1>7. S \cap KeptOf(c) = {}
  BY <1>5, <1>6 DEF S, Names
<1>8. KeptOf(c) \subseteq OpenFds(fdt') /\ Own(fdt') = Own(fdt) \ S
  BY <1>3, <1>7, Released
<1>9. Reach(gr) \subseteq Reach(fr) /\ Reach(fr) \subseteq Reach(gr) \cup S
  <2>1. CASE fr.node = Root
    BY <1>1, <2>1 DEF Reach
  <2>2. CASE fr.node # Root
    BY <1>1, <2>2, EmptyList DEF Reach, S, Names
  <2>3. QED
    BY <2>1, <2>2
<1>10. extra \subseteq S
  BY DEF S
<1>11. Own(fdt') \subseteq LiveOf(c) \cup Reach(gr)
  BY <1>8, <1>9, <1>10
<1>12. FrameOK(gr)
  BY <1>1, EmptyList, RuntimeAssumption DEF FrameOK, GoesOverMade
<1>13. FailingWith(c, gr, fdt')
  BY <1>8, <1>9, <1>11, <1>12 DEF FailingWith
<1>14. QED
  BY <1>1, <1>4, <1>13, NextFailing

(* The failures that stay in the frame they happen in.                     *)
LEMMA FailuresOwned ==
  ASSUME OInv, IInv', DupFails \/ ChildFails \/ ExecFails \/ FlushFails
  PROVE  OInv'
<1>1. /\ stack # <<>> /\ Top.stage \notin {"err", "ok"} /\ Fail(stack, {})
      /\ UNCHANGED <<prog, cfg, files, result, log, flushed>>
  BY DEF DupFails, ChildFails, ExecFails, FlushFails, Calling, At
<1>2. /\ RunningWith(Callers, Top, fdt) /\ Callers \in Seq(Frame) /\ Top \in Frame
      /\ stack = Append(Callers, Top)
  BY <1>1, Now
<1>3. KeptOf(Callers) \subseteq LiveOf(Callers)
  BY <1>1, CallersKept
<1>4. LiveOf(Callers) \subseteq OpenFds(fdt) /\ LiveNames(Top) \subseteq Reach(Top)
  BY <1>2, LiveIsOpen, LiveIsReached DEF RunningWith
<1>5. /\ FramesOKIn(Callers) /\ FrameOK(Top) /\ Apart(Callers)
      /\ Reach(Top) \cap KeptOf(Callers) = {}
      /\ KeptOf(Callers) \subseteq OpenFds(fdt)
      /\ Own(fdt) \subseteq LiveOf(Callers) \cup Reach(Top) \cup {}
  BY <1>2, <1>3, <1>4 DEF RunningWith
<1>6. Fail(Append(Callers, Top), {})
  BY <1>1, <1>2
<1>7. QED
  BY <1>1, <1>2, <1>5, <1>6, FailOwned

LEMMA ParamsFailOwned ==
  ASSUME OInv, IInv', ParamsFail
  PROVE  OInv'
<1>1. /\ stack # <<>> /\ Top \in Frame /\ Top.stage = "enter" /\ Top.node # Root
      /\ Fail(Callers, {Top.arg})
      /\ UNCHANGED <<prog, cfg, files, result, log, flushed>>
  BY AtTop DEF ParamsFail, OInv, FrameShape
<1>2. RunningWith(Callers, Top, fdt)
  BY <1>1, Now
<1>3. /\ Below \in Seq(Frame) /\ Caller \in Frame
      /\ Callers = Append(Below, Caller)
      /\ Caller.stage \in {"entries", "file", "links"}
      /\ FramesOKIn(Below) /\ FrameOK(Caller)
      /\ Apart(Below) /\ Reach(Caller) \cap LiveOf(Below) = {}
      /\ LiveOf(Callers) = LiveOf(Below) \cup LiveNames(Caller)
  BY <1>1, NowCaller
<1>4. KeptOf(Below) \subseteq LiveOf(Below) /\ LiveNames(Caller) \subseteq Reach(Caller)
  BY <1>1, <1>3, CallersKept, LiveIsReached
<1>5. LiveNames(Top) = {Top.arg} \ {NoFd} /\ {Top.arg} \ {NoFd} \subseteq Reach(Top)
  BY <1>1, FrameLists DEF Reach
<1>6. NoFd \notin KeptOf(Below)
  BY DEF KeptOf, LiveOf, LiveNames, Pending, Names
<1>7. {Top.arg} \cap KeptOf(Below) = {}
  BY <1>2, <1>3, <1>4, <1>5, <1>6 DEF RunningWith
<1>8. KeptOf(Below) \subseteq OpenFds(fdt)
  BY <1>2, <1>3, <1>4, LiveIsOpen
<1>9. Own(fdt) \subseteq LiveOf(Below) \cup Reach(Caller) \cup {Top.arg}
  BY <1>2, <1>3, <1>4, <1>5 DEF RunningWith
<1>10. Fail(Append(Below, Caller), {Top.arg})
  BY <1>1, <1>3
<1>11. QED
  BY <1>1, <1>3, <1>4, <1>7, <1>8, <1>9, <1>10, FailOwned

(* A failed node returns: what it still names, released long ago or not,   *)
(* is nothing its caller relies on.                                        *)
LEMMA FinishErrOwned ==
  ASSUME OInv, IInv', FinishErr
  PROVE  OInv'
<1> DEFINE extra == Held(Top.active) \cup {Top.arg}
<1>1. /\ stack # <<>> /\ Top \in Frame /\ Top.stage = "err" /\ Top.node # Root
      /\ Fail(Callers, extra)
      /\ UNCHANGED <<prog, cfg, files, result, flushed>>
  BY AtTop DEF FinishErr, Unwinding, OInv
<1>2. FailingWith(Callers, Top, fdt)
  BY <1>1, Now
<1>3. /\ Below \in Seq(Frame) /\ Caller \in Frame
      /\ Callers = Append(Below, Caller)
      /\ Caller.stage \in {"entries", "file", "links"}
      /\ FramesOKIn(Below) /\ FrameOK(Caller)
      /\ Apart(Below) /\ Reach(Caller) \cap LiveOf(Below) = {}
      /\ LiveOf(Callers) = LiveOf(Below) \cup LiveNames(Caller)
      /\ KeptOf(Callers) = LiveOf(Below) \cup Pending(Caller)
  BY <1>1, NowCaller
<1>4. KeptOf(Below) \subseteq LiveOf(Below) /\ LiveNames(Caller) \subseteq Reach(Caller)
  BY <1>1, <1>3, CallersKept, LiveIsReached
<1>5. Reach(Top) = extra \ {NoFd}
  <2>1. Top.next = <<>>
    BY <1>1, <1>2 DEF FailingWith, FrameOK
  <2>2. QED
    BY <1>1, <2>1, EmptyList DEF Reach, Names
<1> HIDE DEF extra
<1>6. NoFd \notin KeptOf(Below)
  BY DEF KeptOf, LiveOf, LiveNames, Pending, Names
<1>7. extra \cap KeptOf(Below) = {}
  BY <1>2, <1>3, <1>4, <1>5, <1>6 DEF FailingWith
<1>8. KeptOf(Below) \subseteq OpenFds(fdt)
  BY <1>2, <1>3, <1>4 DEF FailingWith
<1>9. Own(fdt) \subseteq LiveOf(Below) \cup Reach(Caller) \cup extra
  BY <1>2, <1>3, <1>4, <1>5 DEF FailingWith
<1>10. Fail(Append(Below, Caller), extra) /\ Reach(Caller) \cap KeptOf(Below) = {}
  BY <1>1, <1>3, <1>4
<1>11. QED
  BY <1>1, <1>3, <1>7, <1>8, <1>9, <1>10, FailOwned

(* The caller has taken part of what the node delivers and the node frees  *)
(* all of it: the entries the caller now holds are stale, and it will free *)
(* them again.                                                             *)
LEMMA DeliverOverflowsOwned ==
  ASSUME OInv, IInv', DeliverOverflows
  PROVE  OInv'
<1> DEFINE k    == MaxBranches - Len(Caller.next)
           part == SubSeq(Delivered, 1, k)
           fr   == [Top EXCEPT !.stage = "err", !.next = <<>>,
                               !.active = IF Terminal THEN @ ELSE <<>>]
           c    == Append(Below, Taken(part))
<1>1. /\ stack # <<>> /\ Top \in Frame /\ Top.stage = "links" /\ Top.node # Root
      /\ RunningWith(Callers, Top, fdt)
      /\ Delivered \in FdList /\ Names(Delivered) = LiveNames(Top)
      /\ Distinct(Delivered) /\ NoFd \notin Held(Delivered)
      /\ LiveNames(Top) = IF Terminal THEN Names(Top.active) ELSE Names(Top.next)
      /\ UNCHANGED <<prog, cfg, files, result, log, flushed>>
  BY DeliveredOwned DEF DeliverOverflows
<1>2. /\ Caller = stack[Len(stack) - 1] /\ Outputs = Caller.next
      /\ Caller.next \in FdList /\ Len(Caller.next) <= MaxBranches
  BY <1>1, NowCaller, FrameFields DEF Outputs, FrameOK
<1>3. ~ Fits(Caller.next, Delivered)
  BY <1>2 DEF DeliverOverflows
<1>4. /\ Len(Caller.next) \in Nat /\ Len(Delivered) \in Nat /\ MaxBranches \in Nat
      /\ Len(Caller.next) + Len(Delivered) > MaxBranches
  BY <1>1, <1>2, <1>3, LenProperties, RuntimeAssumption DEF Fits, FdList
<1>5. k \in 0..Len(Delivered) /\ Len(Caller.next) + k <= MaxBranches
  BY <1>2, <1>4
<1> HIDE DEF k
<1>6. /\ part \in FdList /\ Len(part) = k
      /\ Held(part) \subseteq Held(Delivered) /\ Names(part) \subseteq Names(Delivered)
      /\ Distinct(part)
  BY <1>1, <1>5, ListPart
<1>7. Moved(Caller.next, Delivered) = Caller.next \o part
  BY <1>3 DEF Moved, k
<1> HIDE DEF part
<1>8. /\ c \in Seq(Frame) /\ FramesOKIn(c) /\ Apart(c)
      /\ LiveOf(c) = LiveOf(Callers) \cup Names(part)
      /\ KeptOf(c) = KeptOf(Callers)
  BY <1>1, <1>5, <1>6, HandedOver
<1>9. /\ fr \in Frame /\ fr.node = Top.node /\ fr.stage = "err" /\ fr.arg = Top.arg
      /\ fr.next = <<>> /\ fr.active = IF Terminal THEN Top.active ELSE <<>>
  BY <1>1, EmptyList DEF Frame, Stages
<1>10. HandOver(fr)
  BY DEF DeliverOverflows
<1> HIDE DEF fr
<1>11. stack' = Append(c, fr)
  BY <1>1, <1>6, <1>7, <1>9, <1>10, HandOverStack
<1> HIDE DEF c
<1>12. Reach(fr) \subseteq Reach(Top)
  BY <1>1, <1>9, EmptyList DEF Reach
<1>13. FrameOK(fr)
  BY <1>1, <1>9, EmptyList, RuntimeAssumption DEF FrameOK, GoesOverMade, RunningWith
<1>14. KeptOf(Callers) \subseteq LiveOf(Callers) /\ LiveOf(Callers) \subseteq OpenFds(fdt)
  BY <1>1, CallersKept, LiveIsOpen
<1>15. Reach(fr) \cap KeptOf(c) = {}
  BY <1>1, <1>8, <1>12, <1>14 DEF RunningWith
<1>16. /\ KeptOf(c) \subseteq OpenFds(fdt')
       /\ Own(fdt') \subseteq LiveOf(c) \cup Reach(fr)
  <2>1. Own(fdt) = LiveOf(Callers) \cup LiveNames(Top)
    BY <1>1 DEF RunningWith
  <2>2. CASE Terminal
    <3>1. fdt' = fdt /\ LiveNames(Top) \subseteq Reach(fr)
      BY <1>1, <1>9, <2>2 DEF DeliverOverflows, Reach
    <3>2. QED
      BY <1>8, <1>14, <2>1, <3>1
  <2>3. CASE ~ Terminal
    <3>1. fdt' = Release(fdt, Held(Top.next)) /\ LiveNames(Top) = Names(Top.next)
      BY <1>1, <2>3 DEF DeliverOverflows
    <3>2. NoFd \notin LiveOf(Callers) /\ Names(Top.next) \subseteq Reach(Top)
      BY <1>1 DEF LiveOf, LiveNames, Names, Reach
    <3>3. Held(Top.next) \cap KeptOf(Callers) = {}
      BY <1>1, <1>14, <3>2 DEF Names, RunningWith
    <3>4. Own(fdt') = Own(fdt) \ Held(Top.next)
          /\ OpenFds(fdt') = OpenFds(fdt) \ Held(Top.next)
      BY <3>1, Released
    <3>5. QED
      BY <1>8, <1>14, <2>1, <3>1, <3>3, <3>4 DEF Names
  <2>4. QED
    BY <2>2, <2>3
<1>17. FailingWith(c, fr, fdt')
  BY <1>8, <1>13, <1>15, <1>16 DEF FailingWith
<1>18. QED
  BY <1>1, <1>8, <1>9, <1>11, <1>17, NextFailing
----------------------------------------------------------------------------
(* The end of a run                                                        *)

LEMMA EntryDupFailsOwned ==
  ASSUME OInv, IInv', EntryDupFails
  PROVE  OInv'
<1>1. /\ stack' = <<>> /\ result' = "error"
      /\ Top.node = Root /\ Source(Top) # NoFd
      /\ UNCHANGED <<prog, cfg, files, flushed>>
  BY DEF EntryDupFails
<1>2. cfg.fd_in # NoFd
  BY <1>1 DEF Source
<1>3. QED
  BY <1>1, <1>2, NextOver

(* run_model alone is on the stack: what is open is in its own lists.      *)
LEMMA RootOwns ==
  ASSUME OInv, stack # <<>>, Top.node = Root
  PROVE  /\ Top \in Frame /\ Callers = <<>> /\ Top.active = <<>>
         /\ LiveOf(Callers) = {} /\ Rest(Top) = <<>>
         /\ Top.stage \notin {"enter", "err"} =>
              LiveNames(Top) = Names(Top.next) /\ Own(fdt) = Names(Top.next)
         /\ Top.stage = "err" => Own(fdt) \subseteq Names(Top.next)
<1>1. /\ IInv /\ Top \in Frame /\ FrameOK(Top) /\ Callers \in Seq(Frame)
  BY Now DEF RunningWith, FailingWith
<1>2. Len(stack) = 1 /\ Len(Callers) = Len(stack) - 1
  BY <1>1, NowParts, TopFacts, RootAlone
<1>3. Callers = <<>>
  BY <1>1, <1>2, EmptySeq
<1>4. LiveOf(Callers) = {}
  BY <1>3 DEF LiveOf
<1>5. Top.active = <<>> /\ Top.arg = NoFd
  BY <1>1 DEF FrameOK
<1>6. Rest(Top) = <<>>
  <2>1. Top.i \in Nat \ {0} /\ Top.i > Len(Top.active)
    BY <1>1, <1>5, FrameFields, EmptyList
  <2>2. SubSeq(Top.active, Top.i, Len(Top.active)) = <<>>
    BY <1>1, <2>1, FrameFields, ListRest
  <2>3. QED
    BY <2>2 DEF Rest
<1>7. ASSUME Top.stage \notin {"enter", "err"}
      PROVE  LiveNames(Top) = Names(Top.next) /\ Own(fdt) = Names(Top.next)
  <2>1. LiveNames(Top) = Names(Top.next)
    BY <1>1, <1>6, <1>7, FrameLists, EmptyList DEF Pending
  <2>2. QED
    BY <1>4, <1>7, <2>1, Now DEF RunningWith
<1>8. ASSUME Top.stage = "err"
      PROVE  Own(fdt) \subseteq Names(Top.next)
  <2>1. Reach(Top) = Names(Top.next)
    BY <1>5, <1>8, EmptyList DEF Reach
  <2>2. QED
    BY <1>4, <1>8, <2>1, Now DEF FailingWith
<1>9. QED
  BY <1>1, <1>3, <1>4, <1>5, <1>6, <1>7, <1>8

LEMMA RunParamsFailOwned ==
  ASSUME OInv, IInv', RunParamsFail
  PROVE  OInv'
<1>1. /\ stack # <<>> /\ Top.stage = "entries" /\ Top.node = Root /\ Top.j = 1
      /\ stack' = <<>> /\ UNCHANGED <<prog, cfg, fdt, files, flushed>>
  BY AtTop DEF RunParamsFail, OInv, FrameShape
<1>2. Own(fdt) = Names(Top.next) /\ Callers = <<>>
  BY <1>1, RootOwns
<1>3. Top.next = <<>>
  BY <1>1, <1>2, Now DEF RunningWith
<1>4. Own(fdt') = {}
  BY <1>1, <1>2, <1>3, EmptyList
<1>5. QED
  BY <1>1, <1>4, NextOver

LEMMA RunEndsOwned ==
  ASSUME OInv, IInv', RunEnds
  PROVE  OInv'
<1>1. /\ stack # <<>> /\ Top.stage \in {"flush", "err"} /\ Top.node = Root
      /\ stack' = <<>> /\ fdt' = Release(fdt, Held(Top.next))
      /\ UNCHANGED <<prog, cfg, files, flushed>>
  BY AtTop DEF RunEnds, OInv, FrameShape, At, Unwinding
<1>2. Own(fdt) \subseteq Names(Top.next)
  BY <1>1, RootOwns
<1>3. Own(fdt') = Own(fdt) \ Held(Top.next)
  BY <1>1, Released
<1>4. Own(fdt') = {}
  BY <1>2, <1>3 DEF Names
<1>5. QED
  BY <1>1, <1>4, NextOver
----------------------------------------------------------------------------
(* The invariant holds of every run.                                       *)

LEMMA InitOwned == Init => OInv
<1> SUFFICES ASSUME Init PROVE OInv
  OBVIOUS
<1> DEFINE fr == [FrameOf(Root, NoFd) EXCEPT !.stage = "entries"]
<1>1. IInv /\ prog \in Programs /\ result = "none"
  BY InitHolds DEF Init
<1>2. /\ fr \in Frame /\ fr.node = Root /\ fr.stage = "entries" /\ fr.arg = NoFd
      /\ fr.active = <<>> /\ fr.next = <<>> /\ fr.i = 1
  BY EmptyList DEF FrameOf, Frame, Stages
<1>3. stack = <<fr>>
  BY DEF Init
<1> HIDE DEF fr
<1>4. <<>> \in Seq(Frame) /\ stack = Append(<<>>, fr)
  BY <1>2, <1>3, EmptySeq
<1>5. Top = fr /\ stack # <<>> /\ (FramesOKIn(stack) <=> FramesOKIn(<<>>) /\ FrameOK(fr))
      /\ (Apart(stack) <=>
            Apart(<<>>) /\ Distinct(Live(fr)) /\ Reach(fr) \cap LiveOf(<<>>) = {})
      /\ LiveOf(stack) = LiveOf(<<>>) \cup LiveNames(fr)
      /\ MadeOf(stack) = MadeOf(<<>>) \cup Made(fr)
  BY <1>2, <1>4, OneFrameMore DEF Top
<1>6. FramesOKIn(<<>>) /\ Apart(<<>>) /\ LiveOf(<<>>) = {} /\ MadeOf(<<>>) = {}
  BY DEF FramesOKIn, Apart, LiveOf, MadeOf
<1>7. LiveNames(fr) = {} /\ Distinct(Live(fr)) /\ Reach(fr) = {}
  BY <1>2, AtStart, EmptyList DEF Reach
<1>8. ~ GoesOverMade(fr) /\ Made(fr) = {}
  BY <1>2, EmptyList DEF Made, GoesOverMade
<1>9. FrameOK(fr)
  BY <1>2, <1>8, EmptyList, RuntimeAssumption DEF FrameOK
<1>10. Own(fdt) = {}
  BY DEF Init, Own, OpenFds
<1>11. FramesOK /\ Running
  BY <1>2, <1>5, <1>6, <1>7, <1>8, <1>9, <1>10 DEF Running, OwnFiles, FramesOK, FramesOKIn
<1>12. QED
  BY <1>1, <1>2, <1>5, <1>11 DEF OInv

LEMMA StutterOwned ==
  ASSUME OInv, IInv', UNCHANGED vars
  PROVE  OInv'
<1>1. UNCHANGED <<prog, cfg, fdt, files, stack, result, log, flushed>>
  BY DEF vars
<1>2. CASE stack = <<>>
  <2>1. Over'
    BY <1>1, <1>2 DEF OInv, Over, Own
  <2>2. FramesOK'
    BY <1>1, <1>2 DEF FramesOK
  <2>3. QED
    BY <1>1, <1>2, <2>1, <2>2 DEF OInv
<1>3. CASE stack # <<>>
  <2>1. Callers \in Seq(Frame) /\ Top \in Frame /\ stack' = Append(Callers, Top)
    BY <1>1, <1>3, Now
  <2>2. CASE Top.stage = "err"
    BY <1>1, <1>3, <2>1, <2>2, Now, NextFailing
  <2>3. CASE Top.stage # "err"
    BY <1>1, <1>3, <2>1, <2>3, Now, NextRunning
  <2>4. QED
    BY <2>2, <2>3
<1>4. QED
  BY <1>2, <1>3

LEMMA NextOwned == OInv /\ [Next]_vars => OInv'
<1> SUFFICES ASSUME OInv, [Next]_vars PROVE OInv'
  OBVIOUS
<1>1. IInv'
  BY NextKeeps DEF OInv
<1>2. CASE CallBranch
  BY <1>1, <1>2, CallBranchOwned
<1>3. CASE DupFails \/ ChildFails \/ ExecFails \/ FlushFails
  BY <1>1, <1>3, FailuresOwned
<1>4. CASE EntryDupFails
  BY <1>1, <1>4, EntryDupFailsOwned
<1>5. CASE BranchConsumed
  BY <1>1, <1>5, BranchConsumedOwned
<1>6. CASE EnterNode
  BY <1>1, <1>6, EnterNodeOwned
<1>7. CASE ParamsFail
  BY <1>1, <1>7, ParamsFailOwned
<1>8. CASE LoadChild
  BY <1>1, <1>8, LoadChildOwned
<1>9. CASE FileDone
  BY <1>1, <1>9, FileDoneOwned
<1>10. CASE ExecBranch
  BY <1>1, <1>10, ExecBranchOwned
<1>11. CASE ExecDone
  BY <1>1, <1>11, ExecDoneOwned
<1>12. CASE Deliver
  BY <1>1, <1>12, DeliverOwned
<1>13. CASE DeliverOverflows
  BY <1>1, <1>13, DeliverOverflowsOwned
<1>14. CASE FinishOk
  BY <1>1, <1>14, FinishOkOwned
<1>15. CASE FinishErr
  BY <1>1, <1>15, FinishErrOwned
<1>16. CASE EntriesDone
  BY <1>1, <1>16, EntriesDoneOwned
<1>17. CASE FlushBranch
  BY <1>1, <1>17, FlushBranchOwned
<1>18. CASE RunEnds
  BY <1>1, <1>18, RunEndsOwned
<1>19. CASE RunParamsFail
  BY <1>1, <1>19, RunParamsFailOwned
<1>20. CASE Exited \/ UNCHANGED vars
  BY <1>1, <1>20, StutterOwned DEF Exited
<1>21. QED
  BY <1>2, <1>3, <1>4, <1>5, <1>6, <1>7, <1>8, <1>9, <1>10, <1>11, <1>12, <1>13,
     <1>14, <1>15, <1>16, <1>17, <1>18, <1>19, <1>20 DEF Next

LEMMA Owned == Spec => []OInv
<1>1. Init => OInv
  BY InitOwned
<1>2. OInv /\ [Next]_vars => OInv'
  BY NextOwned
<1>3. QED
  BY <1>1, <1>2, PTL DEF Spec
----------------------------------------------------------------------------
(* What it means                                                           *)

LEMMA OwnedOnce == OInv => EachBranchOwnedOnce
<1> SUFFICES ASSUME OInv, stack # <<>>, ~ Unwinding
             PROVE  /\ {FdAt(pos) : pos \in Positions} = Own(fdt)
                    /\ \A p, q \in Positions : FdAt(p) = FdAt(q) => p = q
  BY DEF EachBranchOwnedOnce, Own
<1>1. /\ stack \in Seq(Frame) /\ Running /\ FramesOK
      /\ DOMAIN stack = 1..Len(stack) /\ Len(stack) \in Nat
  BY Now, LenProperties DEF OInv, Unwinding, At
<1>2. ASSUME NEW k \in DOMAIN stack
      PROVE  /\ stack[k] \in Frame /\ FrameOK(stack[k])
             /\ Live(stack[k]) \in FdList
             /\ DOMAIN Live(stack[k]) \subseteq 1..MaxBranches * 2
  <2>1. stack[k] \in Frame /\ FrameOK(stack[k])
    BY <1>1, ElementOfSeq DEF FramesOK
  <2> DEFINE fr == stack[k]
  <2> HIDE DEF fr
  <2>2. fr \in Frame /\ FrameOK(fr) /\ MaxBranches \in Nat \ {0}
    BY <2>1, RuntimeAssumption DEF fr
  <2>3. fr.active \in FdList /\ fr.next \in FdList /\ fr.i \in Nat \ {0}
        /\ Rest(fr) \in FdList /\ Live(fr) \in FdList
    BY <2>2, FrameFields, FrameLists
  <2>4. /\ Len(fr.active) <= MaxBranches /\ Len(fr.next) <= MaxBranches
        /\ Len(Rest(fr)) <= Len(fr.active)
        /\ Len(Rest(fr)) \in Nat /\ Len(fr.next) \in Nat /\ Len(fr.active) \in Nat
    BY <2>2, <2>3, ListRest, LenProperties DEF FrameOK, Rest, FdList
  <2>5. Len(Live(fr)) <= MaxBranches * 2
    <3>1. CASE fr.stage = "enter"
      BY <2>2, <3>1, OneEntry, FrameFields DEF Live
    <3>2. CASE fr.stage # "enter"
      <4>1. Live(fr) = Rest(fr) \o fr.next
        BY <2>2, <3>2, FrameLists
      <4>2. Len(Live(fr)) = Len(Rest(fr)) + Len(fr.next)
        BY <2>3, <4>1, ConcatProperties DEF FdList
      <4>3. QED
        BY <2>2, <2>4, <4>2
    <3>3. QED
      BY <3>1, <3>2
  <2>6. DOMAIN Live(fr) = 1..Len(Live(fr)) /\ Len(Live(fr)) \in Nat
    BY <2>3, LenProperties DEF FdList
  <2>7. QED
    BY <2>2, <2>3, <2>5, <2>6 DEF fr
<1>3. \A pos \in Positions :
         /\ pos = <<pos[1], pos[2]>> /\ pos[1] \in DOMAIN stack
         /\ pos[2] \in DOMAIN Live(stack[pos[1]])
         /\ FdAt(pos) = Live(stack[pos[1]])[pos[2]] /\ FdAt(pos) # NoFd
         /\ FdAt(pos) \in LiveNames(stack[pos[1]])
  BY <1>1 DEF Positions, FdAt, LiveNames, Names, Held
<1>4. \A k \in DOMAIN stack : \A i \in DOMAIN Live(stack[k]) :
         Live(stack[k])[i] # NoFd =>
           <<k, i>> \in Positions /\ FdAt(<<k, i>>) = Live(stack[k])[i]
  BY <1>1, <1>2 DEF Positions, FdAt
<1>5. {FdAt(pos) : pos \in Positions} = LiveOf(stack)
  <2>1. {FdAt(pos) : pos \in Positions} \subseteq LiveOf(stack)
    BY <1>3 DEF LiveOf
  <2>2. ASSUME NEW f \in LiveOf(stack)
        PROVE  \E pos \in Positions : f = FdAt(pos)
    <3>1. PICK k \in DOMAIN stack : f \in LiveNames(stack[k])
      BY DEF LiveOf
    <3>2. PICK i \in DOMAIN Live(stack[k]) : f = Live(stack[k])[i] /\ f # NoFd
      BY <3>1 DEF LiveNames, Names, Held
    <3>3. QED
      BY <1>4, <3>1, <3>2
  <2>3. QED
    BY <2>1, <2>2
<1>6. \A k \in DOMAIN stack : \A l \in 1..k - 1 :
         LiveNames(stack[k]) \cap LiveNames(stack[l]) = {}
  <2>1. ASSUME NEW k \in DOMAIN stack, NEW l \in 1..k - 1
        PROVE  LiveNames(stack[k]) \cap LiveNames(stack[l]) = {}
    <3>1. LiveNames(stack[k]) \subseteq Reach(stack[k])
      BY <1>2, LiveIsReached
    <3>2. Reach(stack[k]) \cap LiveNames(stack[l]) = {}
      BY <1>1 DEF Running, Apart
    <3>3. QED
      BY <3>1, <3>2
  <2>2. QED
    BY <2>1
<1>7. ASSUME NEW p \in Positions, NEW q \in Positions, FdAt(p) = FdAt(q)
      PROVE  p = q
  <2>1. p[1] \in 1..Len(stack) /\ q[1] \in 1..Len(stack)
    BY <1>1, <1>3
  <2>2. p[1] = q[1]
    <3>1. ~ (q[1] \in 1..p[1] - 1) /\ ~ (p[1] \in 1..q[1] - 1)
      BY <1>3, <1>6, <1>7
    <3>2. QED
      BY <1>1, <2>1, <3>1
  <2>3. Distinct(Live(stack[p[1]]))
    BY <1>1, <1>3 DEF Running, Apart
  <2>4. p[2] = q[2]
    BY <1>3, <1>7, <2>2, <2>3 DEF Distinct
  <2>5. QED
    BY <1>3, <2>2, <2>4
<1>8. QED
  BY <1>1, <1>5, <1>7 DEF Running

LEMMA Independent == OInv => BranchesIndependent
<1> SUFFICES ASSUME OInv, stack # <<>>, ~ Unwinding,
                    NEW k \in DOMAIN stack,
                    NEW p \in DOMAIN stack[k].next, NEW q \in DOMAIN stack[k].next
             PROVE  /\ stack[k].next[p] # NoFd
                    /\ fdt[stack[k].next[p]] = fdt[stack[k].next[q]] => p = q
  BY DEF BranchesIndependent
<1> DEFINE fr == stack[k]
<1>1. stack \in Seq(Frame) /\ Running /\ FramesOK
  BY Now DEF OInv, Unwinding, At
<1>2. fr \in Frame /\ FrameOK(fr) /\ Distinct(Live(fr))
  BY <1>1, ElementOfSeq, LenProperties DEF FramesOK, Running, Apart
<1>3. Made(fr) \subseteq MadeOf(stack)
  BY DEF MadeOf
<1> HIDE DEF fr
<1>4. Distinct(fr.next)
  <2>1. CASE fr.stage = "enter"
    BY <1>2, <2>1, EmptyList DEF FrameOK
  <2>2. CASE fr.stage # "enter"
    BY <1>2, <2>2, FrameLists
  <2>3. QED
    BY <2>1, <2>2
<1>5. p \in DOMAIN fr.next /\ q \in DOMAIN fr.next
  BY DEF fr
<1>6. fr.next[p] # NoFd /\ fr.next[q] # NoFd
  BY <1>2, <1>5 DEF FrameOK, Held
<1>7. fr.next[p] \in MadeOf(stack) /\ fr.next[q] \in MadeOf(stack)
  BY <1>3, <1>5, <1>6 DEF Made, Names, Held
<1>8. fdt[fr.next[p]] = fdt[fr.next[q]] => fr.next[p] = fr.next[q]
  BY <1>1, <1>7 DEF Running, OwnFiles
<1>9. QED
  BY <1>4, <1>5, <1>6, <1>8 DEF fr, Distinct

LEMMA PendingIsKept ==
  ASSUME NEW c \in Seq(Frame), \A k \in DOMAIN c : c[k].stage # "enter",
         NEW k \in DOMAIN c
  PROVE  Pending(c[k]) \subseteq KeptOf(c)
<1>1. /\ Len(c) \in Nat /\ DOMAIN c = 1..Len(c) /\ c # <<>>
      /\ c[k] \in Frame /\ c[k].stage # "enter"
  BY LenProperties, ElementOfSeq, EmptySeq
<1> DEFINE b == SubSeq(c, 1, Len(c) - 1)
<1>2. KeptOf(c) = LiveOf(b) \cup Pending(c[Len(c)])
  BY <1>1 DEF KeptOf
<1>3. /\ b \in Seq(Frame) /\ Len(b) = Len(c) - 1
      /\ \A l \in 1..Len(c) - 1 : b[l] = c[l]
  BY <1>1, PrefixFacts
<1> HIDE DEF b
<1>4. CASE k = Len(c)
  BY <1>2, <1>4
<1>5. CASE k \in 1..Len(c) - 1
  <2>1. k \in DOMAIN b /\ b[k] = c[k]
    BY <1>3, <1>5, LenProperties
  <2>2. Pending(c[k]) \subseteq LiveNames(c[k])
    BY <1>1, FrameLists
  <2>3. QED
    BY <1>2, <2>1, <2>2 DEF LiveOf
<1>6. QED
  BY <1>1, <1>4, <1>5

LEMMA Spared == OInv => UnwindSparesCallers
<1> SUFFICES ASSUME OInv, Unwinding, NEW k \in 1..Len(stack) - 1,
                    NEW p \in stack[k].i..Len(stack[k].active)
             PROVE  stack[k].active[p] \in OpenFds(fdt) \cup {NoFd}
  BY DEF UnwindSparesCallers
<1>1. stack # <<>> /\ Failing
  BY DEF OInv, Unwinding, At
<1>2. /\ stack \in Seq(Frame) /\ Callers \in Seq(Frame)
      /\ Len(stack) \in Nat \ {0} /\ Len(Callers) = Len(stack) - 1
      /\ \A l \in 1..Len(stack) - 1 : Callers[l] = stack[l]
      /\ \A l \in DOMAIN Callers : Callers[l].stage # "enter"
  BY <1>1, Now, TopFacts, CallersCall
<1>3. k \in DOMAIN Callers /\ Callers[k] = stack[k] /\ stack[k] \in Frame
  BY <1>2, LenProperties, ElementOfSeq
<1>4. Pending(stack[k]) \subseteq OpenFds(fdt)
  BY <1>1, <1>2, <1>3, PendingIsKept DEF Failing
<1>5. stack[k].active[p] \in Held(Rest(stack[k]))
  <2>1. stack[k].active \in FdList /\ stack[k].i \in Nat \ {0}
    BY <1>3, FrameFields
  <2>2. Held(SubSeq(stack[k].active, stack[k].i, Len(stack[k].active)))
          = {stack[k].active[l] : l \in stack[k].i..Len(stack[k].active)}
    BY <2>1, ListRest
  <2>3. QED
    BY <2>2 DEF Rest
<1>6. QED
  BY <1>4, <1>5 DEF Pending, Names

LEMMA AllReleased == OInv => ExitReleasesAll
<1> SUFFICES ASSUME OInv, result = "ok" \/ (result = "error" /\ cfg.fd_in = NoFd)
             PROVE  OpenFds(fdt) = cfg.foreign
  BY DEF ExitReleasesAll
<1>1. stack = <<>> /\ Own(fdt) = {}
  BY DEF OInv, Over
<1>2. cfg.foreign \subseteq Fds /\ \A f \in cfg.foreign : fdt[f] = f
  BY NowParts, ForeignFds DEF OInv, IInv, NoForeignClose
<1>3. cfg.foreign \subseteq OpenFds(fdt)
  BY <1>2, NegativeIsNoFd DEF OpenFds, Closed
<1>4. QED
  BY <1>1, <1>3 DEF Own

(* Until something fails, every descriptor the runtime has open is one     *)
(* entry of one list, and every branch with a descriptor has it open: while*)
(* node.c and runtime.c move branches between active, next, produced and   *)
(* outputs none is leaked and none released twice, whatever the flow.      *)
THEOREM BranchesHaveOneOwner == Spec => []EachBranchOwnedOnce
<1>1. OInv => EachBranchOwnedOnce
  BY OwnedOnce
<1>2. QED
  BY <1>1, Owned, PTL

(* Two branches collected in one list never share an open file, so no seek *)
(* or write on one (branch_dup_input, a command) moves or changes another. *)
THEOREM BranchesStayIndependent == Spec => []BranchesIndependent
<1>1. OInv => BranchesIndependent
  BY Independent
<1>2. QED
  BY <1>1, Owned, PTL

(* The error paths free lists whose entries were released before: by the   *)
(* time they do, no caller of the failing call holds one of those numbers  *)
(* for a branch it has yet to process.                                     *)
THEOREM UnwindingIsSafe == Spec => []UnwindSparesCallers
<1>1. OInv => UnwindSparesCallers
  BY Spared
<1>2. QED
  BY <1>1, Owned, PTL

(* A run that succeeds, and one that fails without --fd-in, has closed all *)
(* that it opened: run_model and the exits of run_node together free every *)
(* list on every path.                                                     *)
THEOREM NothingLeaks == Spec => []ExitReleasesAll
<1>1. OInv => ExitReleasesAll
  BY AllReleased
<1>2. QED
  BY <1>1, Owned, PTL

(* No list of any activation ever outgrows its array, so the appends that  *)
(* the engine makes below the limit cannot fail: exec collects one branch  *)
(* for each it consumes, and file and exec append to a list just emptied.  *)
THEOREM ListsFitTheirArrays == Spec => []ListsFit
<1>1. OInv => ListsFit
  BY DEF OInv, FramesOK, FrameOK, ListsFit
<1>2. QED
  BY <1>1, Owned, PTL

(* However a run ends, all its nodes have finished by then, and run.finished*)
(* with what run_model returns is the last event.                          *)
THEOREM TheRunFinishesLast == Spec => []FinishedIsLast
<1>1. Shown!Spec => []Shown!FinishedIsLast
  BY Shown!LastEventIsTheRun
<1>2. OInv /\ Shown!FinishedIsLast => FinishedIsLast
  <2>1. SUFFICES ASSUME OInv, Shown!FinishedIsLast, result # "none"
                 PROVE  Seen!OpenNodes = <<>> /\ log[Len(log)] = Event("run.finished", Root, result)
    BY DEF FinishedIsLast
  <2>2. stack = <<>> /\ result \in {"ok", "error"}
    BY <2>1 DEF OInv, IInv, TypeOK
  <2>3. Phase = result
    BY <2>2 DEF Phase, PhaseIn
  <2>4. Shown!OpenNodes = Seen!OpenNodes
    BY DEF Shown!OpenNodes, Seen!OpenNodes, Shown!OpenAfter, Seen!OpenAfter,
       Shown!Following, Seen!Following
  <2>5. QED
    BY <2>1, <2>2, <2>3, <2>4 DEF Shown!FinishedIsLast, Shown!Event, Event
<1>3. QED
  BY <1>1, <1>2, SpecShown, Owned, PTL

----------------------------------------------------------------------------
(***************************************************************************)
(* A run that succeeds writes the branches the flow files describe: the    *)
(* loops of runtime.c and node.c, which pass descriptors between lists and *)
(* files, compute the recursion of Walk.                                   *)
(*                                                                         *)
(* Each frame of the stack has something left to do, and what it has done  *)
(* so far; ToCome puts the two together to the branches it will end up     *)
(* with.  FlowInv says that these are what its node makes of the branch it *)
(* was called for (Meets), and what the whole flow means for run_model's   *)
(* frame.  A step moves a branch from what is left to what is done, or     *)
(* calls a node for it, and keeps that sum.  It is inductive only with     *)
(* what is known of the offsets (AtEndAlone, Fresh): what a command reads  *)
(* depends on them, and a branch that is still to be read must not share   *)
(* one with a branch that was written (OInv).                              *)
(*                                                                         *)
(* Walk is a recursive function, so that it is what its definition says    *)
(* has to be proved (WalkExists, WalkUnfolds), by the least depth at which *)
(* it would not be.                                                        *)
(***************************************************************************)

----------------------------------------------------------------------------
(* Sequences taken through a function                                      *)

(* The function space under a name of its own, which the provers leave     *)
(* alone.                                                                  *)
Maps(A, B) == [A -> B]

Image(g, s) == [k \in DOMAIN s |-> g[s[k]]]

LEMMA ImageFacts ==
  ASSUME NEW A, NEW B, NEW g \in Maps(A, B), NEW s \in Seq(A)
  PROVE  /\ Image(g, s) \in Seq(B) /\ Len(Image(g, s)) = Len(s)
         /\ \A k \in 1..Len(s) : Image(g, s)[k] = g[s[k]]
<1>1. Len(s) \in Nat /\ DOMAIN s = 1..Len(s) /\ \A k \in 1..Len(s) : s[k] \in A
  BY LenProperties, ElementOfSeq
<1>2. Image(g, s) = [k \in 1..Len(s) |-> g[s[k]]]
  BY <1>1 DEF Image
<1>3. \A k \in 1..Len(s) : g[s[k]] \in B
  BY <1>1 DEF Maps
<1>4. QED
  BY <1>1, <1>2, <1>3, SeqDef

LEMMA ImageNone == \A g : Image(g, <<>>) = <<>>
BY EmptySeq DEF Image

LEMMA ImageCat ==
  ASSUME NEW A, NEW B, NEW g \in Maps(A, B), NEW s \in Seq(A), NEW u \in Seq(A)
  PROVE  Image(g, Cat(s, u)) = Cat(Image(g, s), Image(g, u))
<1>1. Len(s) \in Nat /\ Len(u) \in Nat
  BY LenProperties
<1>2. \A t \in Seq(A) : /\ Image(g, t) \in Seq(B) /\ Len(Image(g, t)) = Len(t)
                        /\ \A k \in 1..Len(t) : Image(g, t)[k] = g[t[k]]
  BY ImageFacts
<1>3. \A C : \A t, v \in Seq(C) :
        /\ Cat(t, v) \in Seq(C) /\ Len(Cat(t, v)) = Len(t) + Len(v)
        /\ \A k \in 1..Len(t) + Len(v) : Cat(t, v)[k] = IF k <= Len(t) THEN t[k] ELSE v[k - Len(t)]
  BY CatFacts
<1> DEFINE c == Cat(s, u)
           x == Image(g, s)
           y == Image(g, u)
           l == Image(g, c)
           r == Cat(x, y)
<1>4. c \in Seq(A) /\ x \in Seq(B) /\ y \in Seq(B)
  BY <1>2, <1>3
<1>5. /\ Len(c) = Len(s) + Len(u)
      /\ \A k \in 1..Len(s) + Len(u) : c[k] = IF k <= Len(s) THEN s[k] ELSE u[k - Len(s)]
  BY <1>3
<1>6. /\ Len(x) = Len(s) /\ \A k \in 1..Len(s) : x[k] = g[s[k]]
      /\ Len(y) = Len(u) /\ \A k \in 1..Len(u) : y[k] = g[u[k]]
  BY <1>2
<1> HIDE DEF c, x, y
<1>7. l \in Seq(B) /\ Len(l) = Len(c) /\ \A k \in 1..Len(c) : l[k] = g[c[k]]
  BY <1>2, <1>4
<1>8. /\ r \in Seq(B) /\ Len(r) = Len(x) + Len(y)
      /\ \A k \in 1..Len(x) + Len(y) : r[k] = IF k <= Len(x) THEN x[k] ELSE y[k - Len(x)]
  BY <1>3, <1>4
<1> HIDE DEF l, r
<1>9. ASSUME NEW k \in 1..Len(s) + Len(u)
      PROVE  l[k] = r[k]
  <2>1. CASE k <= Len(s)
    <3>1. k \in 1..Len(s)
      BY <1>1, <2>1
    <3>2. QED
      BY <1>5, <1>6, <1>7, <1>8, <2>1, <3>1
  <2>2. CASE ~ (k <= Len(s))
    <3>1. k - Len(s) \in 1..Len(u)
      BY <1>1, <2>2
    <3>2. l[k] = g[u[k - Len(s)]]
      BY <1>5, <1>7, <2>2
    <3>3. r[k] = y[k - Len(s)]
      BY <1>6, <1>8, <2>2
    <3>4. QED
      BY <1>6, <3>1, <3>2, <3>3
  <2>3. QED
    BY <2>1, <2>2
<1>10. l = r
  BY <1>1, <1>5, <1>6, <1>7, <1>8, <1>9, SeqEqual
<1>11. QED
  BY <1>10 DEF l, r, c, x, y

LEMMA ImageOne ==
  ASSUME NEW A, NEW B, NEW g \in Maps(A, B), NEW a \in A
  PROVE  Image(g, <<a>>) = <<g[a]>>
<1>1. <<a>> \in Seq(A) /\ Len(<<a>>) = 1 /\ <<a>>[1] = a /\ DOMAIN <<a>> = 1..1
  OBVIOUS
<1>2. Image(g, <<a>>) = [k \in 1..1 |-> g[a]]
  BY <1>1 DEF Image
<1>3. QED
  BY <1>2

(* Functions that agree on the elements of a sequence.                     *)
LEMMA ImageSame ==
  ASSUME NEW g, NEW h, NEW s, \A k \in DOMAIN s : g[s[k]] = h[s[k]]
  PROVE  Image(g, s) = Image(h, s)
BY DEF Image
----------------------------------------------------------------------------
(* The recursion of Walk                                                   *)

Walks == [Node -> [Trail -> Seq(Trail)]]

LEMMA TrailType == <<>> \in Trail /\ <<>> \in Seq(Trail)
BY EmptySeq DEF Trail

(* What each node makes of one trail.                                      *)
FromTrail(W, trail) == [n \in Node |-> W[n][trail]]

LEMMA VisitImage ==
  ASSUME NEW W \in Walks, NEW targets \in Seq(Node), NEW trail \in Trail
  PROVE  /\ FromTrail(W, trail) \in Maps(Node, Seq(Trail))
         /\ Visit(W, targets, trail) = FlattenSeq(Image(FromTrail(W, trail), targets))
         /\ Visit(W, targets, trail) \in Seq(Trail)
<1>1. FromTrail(W, trail) \in Maps(Node, Seq(Trail))
  BY DEF FromTrail, Walks, Maps
<1>2. \A k \in DOMAIN targets : targets[k] \in Node
  BY LenProperties, ElementOfSeq
<1>3. Image(FromTrail(W, trail), targets) = [k \in DOMAIN targets |-> W[targets[k]][trail]]
  BY <1>2 DEF Image, FromTrail
<1>4. Visit(W, targets, trail) = FlattenSeq(Image(FromTrail(W, trail), targets))
  BY <1>3, Zenon DEF Visit
<1>5. Image(FromTrail(W, trail), targets) \in Seq(Seq(Trail))
  BY <1>1, ImageFacts
<1>6. QED
  BY <1>1, <1>4, <1>5, FlattenType

LEMMA VisitNone ==
  ASSUME NEW W, NEW trail
  PROVE  Visit(W, <<>>, trail) = <<>>
<1>1. [k \in DOMAIN <<>> |-> W[<<>>[k]][trail]] = <<>>
  BY EmptySeq
<1>2. QED
  BY <1>1, FlattenNone, Zenon DEF Visit

LEMMA VisitFirst ==
  ASSUME NEW W \in Walks, NEW n \in Node, NEW targets \in Seq(Node), NEW trail \in Trail
  PROVE  Visit(W, <<n>> \o targets, trail) = Cat(W[n][trail], Visit(W, targets, trail))
<1> DEFINE g == FromTrail(W, trail)
<1>1. g \in Maps(Node, Seq(Trail)) /\ g[n] = W[n][trail] /\ W[n][trail] \in Seq(Trail)
  BY VisitImage DEF FromTrail, Walks
<1>2. <<n>> \in Seq(Node) /\ <<n>> \o targets \in Seq(Node)
  <2>1. <<n>> \in Seq(Node)
    OBVIOUS
  <2>2. QED
    BY <2>1, ConcatProperties
<1>3. /\ Visit(W, <<n>> \o targets, trail) = FlattenSeq(Image(g, <<n>> \o targets))
      /\ Visit(W, targets, trail) = FlattenSeq(Image(g, targets))
  BY <1>2, VisitImage
<1> HIDE DEF g
<1>4. Image(g, <<n>>) = <<g[n]>>
  BY <1>1, ImageOne
<1>5. Image(g, Cat(<<n>>, targets)) = Cat(<<g[n]>>, Image(g, targets))
  <2>1. Image(g, Cat(<<n>>, targets)) = Cat(Image(g, <<n>>), Image(g, targets))
    BY <1>1, <1>2, ImageCat
  <2>2. QED
    BY <1>4, <2>1, Zenon
<1>6. Image(g, targets) \in Seq(Seq(Trail))
  BY <1>1, ImageFacts
<1>7. FlattenSeq(<<g[n]>> \o Image(g, targets)) = Cat(g[n], FlattenSeq(Image(g, targets)))
  BY <1>1, <1>6, FlattenFirst
<1>8. QED
  BY <1>1, <1>3, <1>5, <1>7, Zenon DEF Cat

(* The same for several branches.                                          *)
AtTargets(W, targets) == [trail \in Trail |-> Visit(W, targets, trail)]

LEMMA VisitEachImage ==
  ASSUME NEW W \in Walks, NEW targets \in Seq(Node), NEW trails \in Seq(Trail)
  PROVE  /\ AtTargets(W, targets) \in Maps(Trail, Seq(Trail))
         /\ VisitEach(W, targets, trails) = FlattenSeq(Image(AtTargets(W, targets), trails))
         /\ VisitEach(W, targets, trails) \in Seq(Trail)
<1>1. AtTargets(W, targets) \in Maps(Trail, Seq(Trail))
  BY VisitImage DEF AtTargets, Maps
<1>2. \A k \in DOMAIN trails : trails[k] \in Trail
  BY LenProperties, ElementOfSeq
<1>3. Image(AtTargets(W, targets), trails)
        = [k \in DOMAIN trails |-> Visit(W, targets, trails[k])]
  BY <1>2 DEF Image, AtTargets
<1>4. VisitEach(W, targets, trails) = FlattenSeq(Image(AtTargets(W, targets), trails))
  BY <1>3, Zenon DEF VisitEach
<1>5. Image(AtTargets(W, targets), trails) \in Seq(Seq(Trail))
  BY <1>1, ImageFacts
<1>6. QED
  BY <1>1, <1>4, <1>5, FlattenType

LEMMA VisitEachNone ==
  ASSUME NEW W, NEW targets
  PROVE  VisitEach(W, targets, <<>>) = <<>>
<1>1. [k \in DOMAIN <<>> |-> Visit(W, targets, <<>>[k])] = <<>>
  BY EmptySeq
<1>2. QED
  BY <1>1, FlattenNone, Zenon DEF VisitEach

LEMMA VisitEachFirst ==
  ASSUME NEW W \in Walks, NEW targets \in Seq(Node), NEW x \in Trail, NEW trails \in Seq(Trail)
  PROVE  VisitEach(W, targets, Cat(<<x>>, trails))
           = Cat(Visit(W, targets, x), VisitEach(W, targets, trails))
<1>0. <<x>> \in Seq(Trail) /\ Cat(<<x>>, trails) \in Seq(Trail)
  BY CatOne
<1> DEFINE g == AtTargets(W, targets)
<1>1. g \in Maps(Trail, Seq(Trail)) /\ g[x] = Visit(W, targets, x) /\ g[x] \in Seq(Trail)
  BY VisitEachImage, VisitImage DEF AtTargets
<1> HIDE DEF g
<1>2. <<x>> \in Seq(Trail) /\ Cat(<<x>>, trails) \in Seq(Trail)
  BY <1>0
<1>3. /\ VisitEach(W, targets, Cat(<<x>>, trails)) = FlattenSeq(Image(g, Cat(<<x>>, trails)))
      /\ VisitEach(W, targets, trails) = FlattenSeq(Image(g, trails))
  BY <1>2, VisitEachImage DEF g
<1>4. Image(g, <<x>>) = <<g[x]>>
  BY <1>1, ImageOne
<1>5. Image(g, Cat(<<x>>, trails)) = Cat(<<g[x]>>, Image(g, trails))
  <2>1. \A s, u \in Seq(Trail) : Image(g, Cat(s, u)) = Cat(Image(g, s), Image(g, u))
    BY <1>1, ImageCat
  <2>2. QED
    BY <1>2, <1>4, <2>1, Zenon
<1>6. Image(g, trails) \in Seq(Seq(Trail))
  BY <1>1, ImageFacts
<1>7. FlattenSeq(<<g[x]>> \o Image(g, trails)) = Cat(g[x], FlattenSeq(Image(g, trails)))
  BY <1>1, <1>6, FlattenFirst
<1>8. QED
  BY <1>1, <1>3, <1>5, <1>7, Zenon DEF Cat

(* What a command makes of a trail.                                        *)
RunOn(p, n) == [trail \in Trail |-> Append(IF p.file[n] = NoFile THEN trail ELSE <<>>, n)]

LEMMA RanImage ==
  ASSUME NEW p, NEW n \in Node, NEW trails \in Seq(Trail)
  PROVE  /\ RunOn(p, n) \in Maps(Trail, Trail)
         /\ Ran(p, n, trails) = Image(RunOn(p, n), trails)
         /\ Ran(p, n, trails) \in Seq(Trail)
<1>1. RunOn(p, n) \in Maps(Trail, Trail)
  <2>1. ASSUME NEW trail \in Trail
        PROVE  Append(IF p.file[n] = NoFile THEN trail ELSE <<>>, n) \in Trail
    BY AppendProperties, EmptySeq DEF Trail
  <2>2. QED
    BY <2>1 DEF RunOn, Maps
<1>2. \A k \in DOMAIN trails : trails[k] \in Trail
  BY LenProperties, ElementOfSeq
<1>3. Ran(p, n, trails) = Image(RunOn(p, n), trails)
  BY <1>2 DEF Image, RunOn, Ran
<1>4. QED
  BY <1>1, <1>3, ImageFacts

LEMMA RanFirst ==
  ASSUME NEW p, NEW n \in Node, NEW x \in Trail, NEW trails \in Seq(Trail)
  PROVE  Ran(p, n, Cat(<<x>>, trails)) = Cat(<<RunOn(p, n)[x]>>, Ran(p, n, trails))
<1>1. <<x>> \in Seq(Trail)
  OBVIOUS
<1>2. Cat(<<x>>, trails) \in Seq(Trail)
  BY CatOne
<1>3. RunOn(p, n) \in Maps(Trail, Trail) /\ Ran(p, n, trails) = Image(RunOn(p, n), trails)
      /\ Ran(p, n, Cat(<<x>>, trails)) = Image(RunOn(p, n), Cat(<<x>>, trails))
  BY <1>2, RanImage
<1>4. Image(RunOn(p, n), <<x>>) = <<RunOn(p, n)[x]>>
  BY <1>3, ImageOne
<1>5. Image(RunOn(p, n), Cat(<<x>>, trails))
        = Cat(Image(RunOn(p, n), <<x>>), Image(RunOn(p, n), trails))
  BY <1>1, <1>3, ImageCat
<1>6. QED
  BY <1>3, <1>4, <1>5, Zenon

LEMMA AppliedType ==
  ASSUME NEW p, NEW n \in Node, NEW trails \in Seq(Trail)
  PROVE  Applied(p, n, trails) \in Seq(Trail)
BY RanImage DEF Applied

LEMMA ForwardedType ==
  ASSUME NEW p \in ProgramType, NEW n \in Node, NEW trails \in Seq(Trail), NEW W \in Walks
  PROVE  Forwarded(W, p, n, trails) \in Seq(Trail)
<1>1. p.links[n] \in Seq(Node)
  BY DEF ProgramType
<1>2. QED
  BY <1>1, VisitEachImage DEF Forwarded

(* The branches an expansion of n starts from.                             *)
Expanded(W, p, n, trail) ==
  IF p.file[n] = NoFile THEN <<trail>> ELSE Visit(W, p.entry[p.file[n]], trail)

LEMMA BecomesType ==
  ASSUME NEW p \in ProgramType, NEW n \in Node, NEW trail \in Trail, NEW W \in Walks
  PROVE  /\ Expanded(W, p, n, trail) \in Seq(Trail)
         /\ Becomes(W, p, n, trail) = Forwarded(W, p, n, Applied(p, n, Expanded(W, p, n, trail)))
         /\ Becomes(W, p, n, trail) \in Seq(Trail)
<1>1. Expanded(W, p, n, trail) \in Seq(Trail)
  <2>1. CASE p.file[n] = NoFile
    BY <2>1 DEF Expanded
  <2>2. CASE p.file[n] # NoFile
    <3>1. p.entry[p.file[n]] \in Seq(Node)
      BY <2>2 DEF ProgramType
    <3>2. QED
      BY <2>2, <3>1, VisitImage DEF Expanded
  <2>3. QED
    BY <2>1, <2>2
<1>2. Becomes(W, p, n, trail) = Forwarded(W, p, n, Applied(p, n, Expanded(W, p, n, trail)))
  BY Zenon DEF Becomes, Expanded
<1>3. QED
  BY <1>1, <1>2, AppliedType, ForwardedType

(* What a node makes of a trail depends on its links and on the entries of *)
(* its file.                                                               *)
LEMMA BecomesLocal ==
  ASSUME NEW p, NEW n, NEW V, NEW W,
         \A k \in DOMAIN p.links[n] : V[p.links[n][k]] = W[p.links[n][k]],
         p.file[n] # NoFile =>
           \A k \in DOMAIN p.entry[p.file[n]] :
             V[p.entry[p.file[n]][k]] = W[p.entry[p.file[n]][k]],
         NEW trail
  PROVE  Becomes(V, p, n, trail) = Becomes(W, p, n, trail)
<1>1. \A x : Visit(V, p.links[n], x) = Visit(W, p.links[n], x)
  BY DEF Visit
<1>2. \A trails : VisitEach(V, p.links[n], trails) = VisitEach(W, p.links[n], trails)
  BY <1>1 DEF VisitEach
<1>3. \A trails : Forwarded(V, p, n, trails) = Forwarded(W, p, n, trails)
  BY <1>2 DEF Forwarded
<1>4. p.file[n] # NoFile =>
        Visit(V, p.entry[p.file[n]], trail) = Visit(W, p.entry[p.file[n]], trail)
  BY DEF Visit
<1>5. QED
  BY <1>3, <1>4 DEF Becomes

(* A table W is right up to the given depth.                               *)
RightTo(W, p, depth, m) ==
  \A n \in Node : depth[n] <= m => \A trail \in Trail : W[n][trail] = Becomes(W, p, n, trail)

DepthOf(p, depth) ==
  /\ depth \in [Node -> 1..Cardinality(Node)]
  /\ \A n \in Node :
       /\ \A k \in DOMAIN p.links[n] : depth[p.links[n][k]] < depth[n]
       /\ p.file[n] # NoFile =>
            \A k \in DOMAIN p.entry[p.file[n]] : depth[p.entry[p.file[n]][k]] < depth[n]

LEMMA TargetsAreNodes ==
  ASSUME NEW p \in ProgramType, NEW n \in Node
  PROVE  /\ \A k \in DOMAIN p.links[n] : p.links[n][k] \in Node
         /\ p.file[n] # NoFile =>
              \A k \in DOMAIN p.entry[p.file[n]] : p.entry[p.file[n]][k] \in Node
<1>1. p.links[n] \in Seq(Node)
  BY DEF ProgramType
<1>2. p.file[n] # NoFile => p.entry[p.file[n]] \in Seq(Node)
  BY DEF ProgramType
<1>3. QED
  BY <1>1, <1>2, LenProperties, ElementOfSeq

LEMMA OneDeeper ==
  ASSUME NEW p \in ProgramType, NEW depth, DepthOf(p, depth), Cardinality(Node) \in Nat,
         NEW m \in Nat, NEW W \in Walks, RightTo(W, p, depth, m)
  PROVE  \E V \in Walks : RightTo(V, p, depth, m + 1)
<1> DEFINE V == [n \in Node |-> IF depth[n] = m + 1
                                 THEN [trail \in Trail |-> Becomes(W, p, n, trail)]
                                 ELSE W[n]]
<1>1. V \in Walks
  BY BecomesType DEF Walks
<1>2. \A n \in Node : depth[n] \in Nat
  BY DEF DepthOf
<1>3. ASSUME NEW n \in Node, depth[n] <= m + 1, NEW trail \in Trail
      PROVE  V[n][trail] = Becomes(V, p, n, trail)
  <2>1. \A k \in Node : depth[k] < depth[n] => V[k] = W[k]
    BY <1>2, <1>3
  <2> HIDE DEF V
  <2>2. Becomes(V, p, n, trail) = Becomes(W, p, n, trail)
    BY <2>1, TargetsAreNodes, BecomesLocal DEF DepthOf
  <2>3. V[n][trail] = Becomes(W, p, n, trail)
    BY <1>2, <1>3 DEF V, RightTo
  <2>4. QED
    BY <2>2, <2>3
<1> HIDE DEF V
<1>4. RightTo(V, p, depth, m + 1)
  BY <1>3 DEF RightTo
<1>5. QED
  BY <1>1, <1>4

LEMMA WalkExists ==
  ASSUME NEW p \in ProgramType, NEW depth, DepthOf(p, depth), Cardinality(Node) \in Nat
  PROVE  \E W \in Walks : \A n \in Node : \A trail \in Trail : W[n][trail] = Becomes(W, p, n, trail)
<1> DEFINE Good(m) == \E W \in Walks : RightTo(W, p, depth, m)
           Bad == {m \in Nat : ~ Good(m)}
<1>1. Good(0)
  <2>1. [n \in Node |-> [trail \in Trail |-> <<>>]] \in Walks
    BY EmptySeq DEF Walks
  <2>2. \A n \in Node : ~ (depth[n] <= 0)
    BY DEF DepthOf
  <2>3. QED
    BY <2>1, <2>2 DEF RightTo
<1>2. ASSUME NEW m \in Bad, \A k \in Bad : m <= k
      PROVE  FALSE
  <2>1. m \in Nat /\ ~ Good(m)
    OBVIOUS
  <2>2. m # 0
    BY <1>1, <2>1
  <2>3. m - 1 \in Nat /\ ~ (m <= m - 1) /\ (m - 1) + 1 = m
    BY <2>1, <2>2
  <2>4. Good(m - 1)
    <3> HIDE DEF Good
    <3>1. QED
      BY <1>2, <2>3
  <2>5. PICK W \in Walks : RightTo(W, p, depth, m - 1)
    BY <2>4
  <2>6. \E V \in Walks : RightTo(V, p, depth, (m - 1) + 1)
    BY <2>3, <2>5, OneDeeper
  <2>7. QED
    BY <2>1, <2>3, <2>6
<1>3. Good(Cardinality(Node))
  <2>1. Bad \in SUBSET Nat
    OBVIOUS
  <2> HIDE DEF Bad
  <2>2. Bad = {}
    BY <1>2, <2>1, Least
  <2> HIDE DEF Good
  <2>3. QED
    BY <2>2 DEF Bad
<1>4. PICK W \in Walks : RightTo(W, p, depth, Cardinality(Node))
  BY <1>3
<1>5. \A n \in Node : depth[n] <= Cardinality(Node)
  BY DEF DepthOf
<1>6. QED
  BY <1>4, <1>5 DEF RightTo

(* Walk is what its definition says, where files do not include themselves.*)
LEMMA WalkUnfolds ==
  ASSUME NEW p \in ProgramType, Nested(p), IsFiniteSet(Node)
  PROVE  /\ Walk(p) \in Walks
         /\ \A n \in Node : \A trail \in Trail : Walk(p)[n][trail] = Becomes(Walk(p), p, n, trail)
<1> DEFINE Table(W) == [n \in Node |-> [trail \in Trail |-> Becomes(W, p, n, trail)]]
           V == CHOOSE W : W = Table(W)
<1>1. Cardinality(Node) \in Nat
  BY FS_CardinalityType
<1>2. PICK depth : DepthOf(p, depth)
  BY DEF Nested, DepthOf
<1>3. PICK W \in Walks : \A n \in Node : \A trail \in Trail : W[n][trail] = Becomes(W, p, n, trail)
  BY <1>1, <1>2, WalkExists
<1>4. W = Table(W)
  BY <1>3 DEF Walks
<1>5. V = Table(V)
  <2> HIDE DEF Table
  <2>1. QED
    BY <1>4, Zenon
<1>6. Walk(p) = V
  BY DEF Walk
<1> HIDE DEF V
<1>7. \A n \in Node : V[n] = W[n]
  <2> DEFINE Bad == {m \in Nat : \E n \in Node : depth[n] = m /\ V[n] # W[n]}
  <2>1. ASSUME NEW m \in Bad, \A k \in Bad : m <= k
        PROVE  FALSE
    <3>1. PICK n \in Node : depth[n] = m /\ V[n] # W[n]
      OBVIOUS
    <3>2. ASSUME NEW k \in Node, depth[k] < depth[n]
          PROVE  V[k] = W[k]
      <4>1. depth[k] \in Nat /\ ~ (m <= depth[k])
        BY <1>2, <3>1, <3>2 DEF DepthOf
      <4>2. ASSUME V[k] # W[k]
            PROVE  FALSE
        <5>1. depth[k] \in Bad
          BY <4>1, <4>2
        <5> HIDE DEF Bad
        <5>2. QED
          BY <2>1, <4>1, <5>1
      <4>3. QED
        BY <4>2
    <3>3. \A trail \in Trail : Becomes(V, p, n, trail) = Becomes(W, p, n, trail)
      <4>1. \A k \in DOMAIN p.links[n] : V[p.links[n][k]] = W[p.links[n][k]]
        BY <1>2, <3>2, TargetsAreNodes DEF DepthOf
      <4>2. p.file[n] # NoFile =>
              \A k \in DOMAIN p.entry[p.file[n]] :
                V[p.entry[p.file[n]][k]] = W[p.entry[p.file[n]][k]]
        BY <1>2, <3>2, TargetsAreNodes DEF DepthOf
      <4>3. QED
        BY <4>1, <4>2, BecomesLocal
    <3>4. V[n] = W[n]
      <4>1. /\ V[n] = [trail \in Trail |-> Becomes(V, p, n, trail)]
            /\ W[n] = [trail \in Trail |-> Becomes(W, p, n, trail)]
        BY <1>4, <1>5
      <4>2. QED
        BY <3>3, <4>1
    <3>5. QED
      BY <3>1, <3>4
  <2>2. Bad \in SUBSET Nat
    OBVIOUS
  <2>3. ASSUME NEW n \in Node
        PROVE  V[n] = W[n]
    <3>1. depth[n] \in Nat
      BY <1>2 DEF DepthOf
    <3>2. Bad = {}
      <4> HIDE DEF Bad
      <4>1. QED
        BY <2>1, <2>2, Least
    <3>3. QED
      BY <3>1, <3>2
  <2>4. QED
    BY <2>3
<1>8. V = W
  BY <1>5, <1>7 DEF Walks
<1>9. QED
  BY <1>3, <1>6, <1>8
----------------------------------------------------------------------------
(* What a run still has to come to                                         *)

Walked == Walk(prog)

Meaning ==
  /\ Walked \in Walks
  /\ \A n \in Node : \A trail \in Trail : Walked[n][trail] = Becomes(Walked, prog, n, trail)

(* The branch each descriptor stands for.                                  *)
Carried(table, fs) ==
  [f \in Fds \cup {NoFd} |-> IF f \in OpenFds(table) THEN fs[table[f]].trail ELSE <<>>]

(* The calls a loop still makes: all of them before its child is loaded.   *)
From(targets, j) == SubSeq(targets, IF j = 0 THEN 1 ELSE j, Len(targets))

After(frame) == SubSeq(frame.active, frame.i + 1, Len(frame.active))

(* What the loop over active x targets still collects, from its j-th call  *)
(* for active[i] on.                                                       *)
Looping(t, frame, j) ==
  IF frame.i \in DOMAIN frame.active
    THEN Cat(Visit(Walked, From(Targets(frame), j), t[frame.active[frame.i]]),
             VisitEach(Walked, Targets(frame), Image(t, After(frame))))
    ELSE <<>>

(* The branches a frame ends up with, from what it has collected and what  *)
(* it has left to do; for run_model, what is written in the end.           *)
ToCome(t, out, frame, j) ==
  LET n == frame.node
      collected == Image(t, frame.next)
  IN
  CASE frame.stage = "enter" -> Walked[n][t[frame.arg]]
    [] frame.stage = "file"  ->
         Forwarded(Walked, prog, n, Applied(prog, n, Cat(collected, Looping(t, frame, j))))
    [] frame.stage = "exec"  ->
         Forwarded(Walked, prog, n, Cat(collected, Ran(prog, n, Image(t, Rest(frame)))))
    [] frame.stage = "links" ->
         IF prog.links[n] = <<>> THEN Image(t, Rest(frame))
                                 ELSE Cat(collected, Looping(t, frame, j))
    [] frame.stage = "entries" ->
         Cat(out, Cat(collected, Visit(Walked, From(Targets(frame), j), Start)))
    [] frame.stage = "flush" ->
         Cat(out, Image(t, SubSeq(frame.next, frame.i, Len(frame.next))))
    [] OTHER -> <<>>

(* What the call a loop is at was given.                                   *)
InLoop(frame) == frame.node = Root \/ frame.i \in DOMAIN frame.active
SourceTrail(t, frame) == IF frame.node = Root THEN Start ELSE t[frame.active[frame.i]]

(* A frame called by c comes to what its node makes of what it was given,  *)
(* and run_model to what the flow means.                                   *)
Meets(t, out, c, frame, j) ==
  IF c = <<>>
    THEN /\ ToCome(t, out, frame, j) = Branches
         /\ frame.stage = "entries" => frame.i = 1
    ELSE /\ InLoop(c[Len(c)])
         /\ ToCome(t, out, frame, j) = Walked[frame.node][SourceTrail(t, c[Len(c)])]

CallersMeet(t, out, c) ==
  \A k \in DOMAIN c : Meets(t, out, SubSeq(c, 1, k - 1), c[k], c[k].j)

(* A call that has returned well has handed over what it came to.          *)
AllMeet(t, out, c, frame) ==
  IF frame.stage = "ok"
    THEN LET below == SubSeq(c, 1, Len(c) - 1)
         IN  CallersMeet(t, out, below) /\ Meets(t, out, below, c[Len(c)], c[Len(c)].j + 1)
    ELSE CallersMeet(t, out, c) /\ Meets(t, out, c, frame, frame.j)

(* The branches no command will read from where they are: they were written*)
(* by one, whose offset they kept.                                         *)
Settled(frame) ==
  Names(frame.next) \cup
  IF \/ frame.stage = "exec" /\ prog.file[frame.node] # NoFile
     \/ frame.stage = "links" /\ prog.links[frame.node] = <<>>
  THEN Pending(frame) ELSE {}

SettledOf(s) == UNION {Settled(s[k]) : k \in DOMAIN s}

AtEndAlone(table, fs, S) ==
  \A f \in S : /\ fs[table[f]].atEnd
               /\ \A g \in OpenFds(table) : table[g] = table[f] => g = f

(* A node is entered, and its command is run without an expansion before   *)
(* it, on a branch that was rewound.                                       *)
Fresh(table, fs, frame) ==
  /\ frame.stage = "enter" /\ frame.arg # NoFd => ~ fs[table[frame.arg]].atEnd
  /\ frame.stage = "exec" /\ prog.file[frame.node] = NoFile =>
       Len(frame.active) = 1 /\ \A f \in Pending(frame) : ~ fs[table[f]].atEnd

(* Past its first call a run has an input it was started with, or none.    *)
InputOK(c, frame) ==
  \/ cfg.fd_in \in cfg.foreign \cup {NoFd}
  \/ c = <<>> /\ frame.stage = "entries" /\ frame.j = 1

AsMeant(c, frame, table, fs, out) ==
  /\ AllMeet(Carried(table, fs), out, c, frame)
  /\ AtEndAlone(table, fs, SettledOf(c) \cup Settled(frame))
  /\ Fresh(table, fs, frame)
  /\ InputOK(c, frame)

InputKept == cfg.fd_in \in cfg.foreign => files[cfg.fd_in].trail = <<Root>>

FlowInv ==
  /\ Meaning
  /\ InputKept
  /\ stack # <<>> /\ Top.stage # "err" => AsMeant(Callers, Top, fdt, files, flushed)
  /\ result = "ok" => flushed = Branches
----------------------------------------------------------------------------
(* Lists of descriptors and of targets                                     *)

FdTrails == Maps(Fds \cup {NoFd}, Trail)

LEMMA ListTrails ==
  ASSUME NEW t \in FdTrails, NEW s \in FdList
  PROVE  s \in Seq(Fds \cup {NoFd}) /\ Image(t, s) \in Seq(Trail)
<1>1. s \in Seq(Fds \cup {NoFd})
  <2>1. /\ Len(s) \in Nat /\ DOMAIN s = 1..Len(s)
        /\ \A k \in 1..Len(s) : s[k] \in OwnFds \cup {NoFd}
        /\ s = [k \in 1..Len(s) |-> s[k]]
    BY LenProperties, ElementOfSeq DEF FdList
  <2>2. \A k \in 1..Len(s) : s[k] \in Fds \cup {NoFd}
    BY <2>1 DEF OwnFds
  <2>3. QED
    BY <2>1, <2>2, SeqDef
<1>2. QED
  BY <1>1, ImageFacts DEF FdTrails

LEMMA ListTrailsCat ==
  ASSUME NEW t \in FdTrails, NEW s \in FdList, NEW u \in FdList
  PROVE  Image(t, Cat(s, u)) = Cat(Image(t, s), Image(t, u))
<1>1. s \in Seq(Fds \cup {NoFd}) /\ u \in Seq(Fds \cup {NoFd})
  BY ListTrails
<1>2. QED
  BY <1>1, ImageCat DEF FdTrails

LEMMA OneTrail ==
  ASSUME NEW t \in FdTrails, NEW f \in OwnFds \cup {NoFd}
  PROVE  /\ t[f] \in Trail /\ Image(t, <<f>>) = <<t[f]>>
         /\ <<f>> \in FdList /\ <<t[f]>> \in Seq(Trail)
<1>1. f \in Fds \cup {NoFd}
  BY DEF OwnFds
<1>2. t[f] \in Trail
  BY <1>1 DEF FdTrails, Maps
<1>3. Image(t, <<f>>) = <<t[f]>>
  BY <1>1, ImageOne DEF FdTrails
<1>4. QED
  BY <1>2, <1>3, OneEntry

(* The first of the entries from the i-th on.                              *)
LEMMA RestTrails ==
  ASSUME NEW t \in FdTrails, NEW s \in FdList, NEW i \in Nat \ {0}
  PROVE  /\ Image(t, SubSeq(s, i, Len(s))) \in Seq(Trail)
         /\ Image(t, SubSeq(s, i + 1, Len(s))) \in Seq(Trail)
         /\ i \in DOMAIN s =>
              /\ s[i] \in OwnFds \cup {NoFd} /\ t[s[i]] \in Trail
              /\ Image(t, SubSeq(s, i, Len(s)))
                   = Cat(<<t[s[i]]>>, Image(t, SubSeq(s, i + 1, Len(s))))
         /\ i \notin DOMAIN s => Image(t, SubSeq(s, i, Len(s))) = <<>>
<1> DEFINE r == SubSeq(s, i, Len(s))
           q == SubSeq(s, i + 1, Len(s))
<1>1. i + 1 \in Nat \ {0}
  OBVIOUS
<1>2. r \in FdList /\ q \in FdList
  BY <1>1, ListRest
<1>3. Image(t, r) \in Seq(Trail) /\ Image(t, q) \in Seq(Trail)
  BY <1>2, ListTrails
<1>4. i \in DOMAIN s => r = <<s[i]>> \o q
  BY ListRest
<1>5. i \notin DOMAIN s => r = <<>>
  <2>1. DOMAIN s = 1..Len(s) /\ Len(s) \in Nat
    BY LenProperties DEF FdList
  <2>2. i \notin DOMAIN s => i > Len(s)
    BY <2>1
  <2>3. QED
    BY <2>2, ListRest
<1> HIDE DEF r, q
<1>6. ASSUME i \in DOMAIN s
      PROVE  /\ s[i] \in OwnFds \cup {NoFd} /\ t[s[i]] \in Trail
             /\ Image(t, r) = Cat(<<t[s[i]]>>, Image(t, q))
  <2>1. s[i] \in OwnFds \cup {NoFd}
    BY <1>6, LenProperties, ElementOfSeq DEF FdList
  <2>2. <<s[i]>> \in FdList /\ t[s[i]] \in Trail /\ Image(t, <<s[i]>>) = <<t[s[i]]>>
    BY <2>1, OneTrail
  <2>3. Image(t, Cat(<<s[i]>>, q)) = Cat(Image(t, <<s[i]>>), Image(t, q))
    BY <1>2, <2>2, ListTrailsCat
  <2>4. r = Cat(<<s[i]>>, q)
    BY <1>4, <1>6, Zenon DEF Cat
  <2>5. QED
    BY <2>1, <2>2, <2>3, <2>4, Zenon
<1>7. QED
  BY <1>3, <1>5, <1>6, ImageNone DEF r, q

LEMMA FromFacts ==
  ASSUME NEW s \in Seq(Node), NEW j \in Nat
  PROVE  /\ From(s, j) \in Seq(Node)
         /\ j \in {0, 1} => From(s, j) = s
         /\ j > Len(s) => From(s, j) = <<>>
         /\ j \in DOMAIN s => s[j] \in Node /\ From(s, j) = <<s[j]>> \o From(s, j + 1)
<1> DEFINE i == IF j = 0 THEN 1 ELSE j
<1>1. Len(s) \in Nat /\ DOMAIN s = 1..Len(s) /\ \A k \in 1..Len(s) : s[k] \in Node
  BY LenProperties, ElementOfSeq
<1>2. i \in Nat \ {0} /\ \A k \in i..Len(s) : k \in 1..Len(s) /\ s[k] \in Node
  BY <1>1
<1>3. From(s, j) \in Seq(Node)
  BY <1>1, <1>2, SubSeqProperties DEF From
<1>4. j \in {0, 1} => From(s, j) = s
  BY SubSeqFull DEF From
<1>5. j > Len(s) => From(s, j) = <<>>
  <2>1. j > Len(s) => i = j
    BY <1>1
  <2>2. QED
    BY <1>1, <2>1, SubSeqEmpty DEF From
<1>6. ASSUME j \in DOMAIN s
      PROVE  s[j] \in Node /\ From(s, j) = <<s[j]>> \o From(s, j + 1)
  <2>1. j \in 1..Len(s) /\ Len(s) \in j..Len(s) /\ i = j /\ j + 1 # 0
    BY <1>1, <1>6
  <2>2. SubSeq(s, j, Len(s)) = <<s[j]>> \o SubSeq(s, j + 1, Len(s))
    BY <1>1, <2>1, SubSeqRecursiveFirst
  <2>3. QED
    BY <1>1, <2>1, <2>2 DEF From
<1>7. QED
  BY <1>3, <1>4, <1>5, <1>6
----------------------------------------------------------------------------
(* The loops                                                               *)

LEMMA TargetsType ==
  ASSUME prog \in ProgramType, NEW fr \in Frame, FrameShape(fr),
         fr.stage \in {"entries", "file", "links"}
  PROVE  /\ Targets(fr) \in Seq(Node)
         /\ fr.node = Root <=> fr.stage = "entries"
         /\ fr.node # Root => fr.node \in Node
<1>1. /\ fr.node = Root <=> fr.stage = "entries"
      /\ fr.node \in Node \cup {Root}
  BY FrameFields DEF FrameShape
<1>2. CASE fr.stage = "entries"
  BY <1>1, <1>2, RuntimeAssumption DEF Targets, ProgramType
<1>3. CASE fr.stage = "file"
  <2>1. Targets(fr) = prog.entry[prog.file[fr.node]] /\ prog.file[fr.node] \in Flow
    BY <1>1, <1>3 DEF Targets, ProgramType, FrameShape
  <2>2. QED
    BY <1>1, <1>3, <2>1 DEF ProgramType
<1>4. CASE fr.stage = "links"
  BY <1>1, <1>4 DEF Targets, ProgramType
<1>5. QED
  BY <1>2, <1>3, <1>4

LEMMA LoopSteps ==
  ASSUME Walked \in Walks, NEW t \in FdTrails, NEW fr \in Frame, Targets(fr) \in Seq(Node),
         NEW j \in Nat
  PROVE  /\ Looping(t, fr, j) \in Seq(Trail)
         /\ fr.i \notin DOMAIN fr.active => Looping(t, fr, j) = <<>>
         /\ j \in {0, 1} =>
              Looping(t, fr, j) = VisitEach(Walked, Targets(fr), Image(t, Rest(fr)))
         /\ fr.i \in DOMAIN fr.active /\ j > Len(Targets(fr)) =>
              Looping(t, fr, j) = VisitEach(Walked, Targets(fr), Image(t, After(fr)))
         /\ fr.i \in DOMAIN fr.active /\ j \in DOMAIN Targets(fr) =>
              Looping(t, fr, j)
                = Cat(Walked[Targets(fr)[j]][t[fr.active[fr.i]]], Looping(t, fr, j + 1))
<1> DEFINE x == t[fr.active[fr.i]]
           T == Targets(fr)
           later == VisitEach(Walked, T, Image(t, After(fr)))
<1>1. fr.active \in FdList /\ fr.i \in Nat \ {0} /\ j + 1 \in Nat
  BY FrameFields
<1>2. /\ Image(t, After(fr)) \in Seq(Trail) /\ Image(t, Rest(fr)) \in Seq(Trail)
      /\ fr.i \in DOMAIN fr.active =>
           x \in Trail /\ Image(t, Rest(fr)) = Cat(<<x>>, Image(t, After(fr)))
      /\ fr.i \notin DOMAIN fr.active => Image(t, Rest(fr)) = <<>>
  BY <1>1, RestTrails DEF Rest, After
<1>3. later \in Seq(Trail)
  BY <1>2, VisitEachImage
<1>4. fr.i \notin DOMAIN fr.active => Looping(t, fr, j) = <<>>
  BY DEF Looping
<1>5. \A m \in Nat : fr.i \in DOMAIN fr.active =>
        Looping(t, fr, m) = Cat(Visit(Walked, From(T, m), x), later)
  BY Zenon DEF Looping
<1> HIDE DEF T, later, x
<1>6. T \in Seq(Node)
  BY DEF T
<1>7. fr.i \in DOMAIN fr.active => \A m \in Nat : Visit(Walked, From(T, m), x) \in Seq(Trail)
  BY <1>2, <1>6, FromFacts, VisitImage
<1>8. Looping(t, fr, j) \in Seq(Trail)
  <2>1. CASE fr.i \in DOMAIN fr.active
    <3>1. Cat(Visit(Walked, From(T, j), x), later) \in Seq(Trail)
      BY <1>3, <1>7, <2>1, CatFacts
    <3>2. QED
      BY <1>5, <2>1, <3>1
  <2>2. CASE fr.i \notin DOMAIN fr.active
    BY <1>4, <2>2, EmptySeq
  <2>3. QED
    BY <2>1, <2>2
<1>9. ASSUME j \in {0, 1}
      PROVE  Looping(t, fr, j) = VisitEach(Walked, T, Image(t, Rest(fr)))
  <2>1. CASE fr.i \in DOMAIN fr.active
    <3>1. From(T, j) = T
      BY <1>6, <1>9, FromFacts
    <3>2. VisitEach(Walked, T, Cat(<<x>>, Image(t, After(fr)))) = Cat(Visit(Walked, T, x), later)
      BY <1>2, <1>6, <2>1, VisitEachFirst DEF later
    <3>3. Looping(t, fr, j) = Cat(Visit(Walked, T, x), later)
      BY <1>5, <2>1, <3>1
    <3>4. QED
      BY <1>2, <2>1, <3>2, <3>3
  <2>2. CASE fr.i \notin DOMAIN fr.active
    BY <1>2, <1>4, <2>2, VisitEachNone
  <2>3. QED
    BY <2>1, <2>2
<1>10. ASSUME fr.i \in DOMAIN fr.active, j > Len(T)
       PROVE  Looping(t, fr, j) = later
  <2>1. From(T, j) = <<>>
    BY <1>6, <1>10, FromFacts
  <2>2. Looping(t, fr, j) = Cat(<<>>, later)
    BY <1>5, <1>10, <2>1, VisitNone
  <2>3. QED
    BY <1>3, <2>2, CatNone
<1>11. ASSUME fr.i \in DOMAIN fr.active, j \in DOMAIN T
       PROVE  Looping(t, fr, j) = Cat(Walked[T[j]][x], Looping(t, fr, j + 1))
  <2>1. T[j] \in Node /\ From(T, j) = <<T[j]>> \o From(T, j + 1) /\ From(T, j + 1) \in Seq(Node)
    BY <1>1, <1>6, <1>11, FromFacts
  <2>2. Visit(Walked, From(T, j), x)
          = Cat(Walked[T[j]][x], Visit(Walked, From(T, j + 1), x))
    BY <1>2, <1>11, <2>1, VisitFirst
  <2>3. Walked[T[j]][x] \in Seq(Trail)
    BY <1>2, <1>11, <2>1 DEF Walks
  <2>4. Cat(Cat(Walked[T[j]][x], Visit(Walked, From(T, j + 1), x)), later)
          = Cat(Walked[T[j]][x], Cat(Visit(Walked, From(T, j + 1), x), later))
    <3>1. Visit(Walked, From(T, j + 1), x) \in Seq(Trail)
      BY <1>1, <1>7, <1>11
    <3>2. QED
      BY <1>3, <2>3, <3>1, CatAssociative
  <2>5. Looping(t, fr, j + 1) = Cat(Visit(Walked, From(T, j + 1), x), later)
    BY <1>1, <1>5, <1>11
  <2>6. QED
    BY <1>5, <1>11, <2>2, <2>4, <2>5
<1>12. QED
  BY <1>4, <1>8, <1>9, <1>10, <1>11 DEF T, later, x

(* run_model's loop over the entry links.                                  *)
LEMMA StartIsTrail == Start \in Trail
<1>1. <<>> \in Trail /\ <<Root>> \in Trail
  BY TrailType DEF Trail
<1>2. QED
  BY <1>1 DEF Start

LEMMA EntrySteps ==
  ASSUME Walked \in Walks, NEW s \in Seq(Node), NEW j \in Nat
  PROVE  /\ Visit(Walked, From(s, j), Start) \in Seq(Trail)
         /\ j > Len(s) => Visit(Walked, From(s, j), Start) = <<>>
         /\ j \in DOMAIN s =>
              Visit(Walked, From(s, j), Start)
                = Cat(Walked[s[j]][Start], Visit(Walked, From(s, j + 1), Start))
<1>1. j + 1 \in Nat
  OBVIOUS
<1>2. From(s, j) \in Seq(Node) /\ From(s, j + 1) \in Seq(Node)
  BY <1>1, FromFacts
<1>3. j \in DOMAIN s => s[j] \in Node /\ From(s, j) = <<s[j]>> \o From(s, j + 1)
  BY FromFacts
<1>4. Visit(Walked, From(s, j), Start) \in Seq(Trail)
  BY <1>2, StartIsTrail, VisitImage
<1>5. j > Len(s) => Visit(Walked, From(s, j), Start) = <<>>
  BY FromFacts, VisitNone
<1>6. j \in DOMAIN s =>
        Visit(Walked, From(s, j), Start)
          = Cat(Walked[s[j]][Start], Visit(Walked, From(s, j + 1), Start))
  BY <1>2, <1>3, StartIsTrail, VisitFirst
<1>7. QED
  BY <1>4, <1>5, <1>6
----------------------------------------------------------------------------
(* What a frame has to come to, stage by stage                             *)

LEMMA ToComeAt ==
  ASSUME NEW t, NEW out, NEW fr, NEW j
  PROVE  LET n == fr.node
             collected == Image(t, fr.next)
         IN
         /\ fr.stage = "enter" => ToCome(t, out, fr, j) = Walked[n][t[fr.arg]]
         /\ fr.stage = "file" =>
              ToCome(t, out, fr, j)
                = Forwarded(Walked, prog, n, Applied(prog, n, Cat(collected, Looping(t, fr, j))))
         /\ fr.stage = "exec" =>
              ToCome(t, out, fr, j)
                = Forwarded(Walked, prog, n, Cat(collected, Ran(prog, n, Image(t, Rest(fr)))))
         /\ fr.stage = "links" =>
              ToCome(t, out, fr, j) = IF prog.links[n] = <<>> THEN Image(t, Rest(fr))
                                      ELSE Cat(collected, Looping(t, fr, j))
         /\ fr.stage = "entries" =>
              ToCome(t, out, fr, j)
                = Cat(out, Cat(collected, Visit(Walked, From(Targets(fr), j), Start)))
         /\ fr.stage = "flush" =>
              ToCome(t, out, fr, j)
                = Cat(out, Image(t, SubSeq(fr.next, fr.i, Len(fr.next))))
BY DEF ToCome

LEMMA LinksComes ==
  ASSUME Walked \in Walks, prog \in ProgramType, NEW t \in FdTrails, NEW out,
         NEW fr \in Frame, fr.node \in Node, NEW list \in FdList
  PROVE  LET e == Enter(fr, "links", list) IN
         ToCome(t, out, e, e.j) = Forwarded(Walked, prog, fr.node, Image(t, list))
<1> DEFINE e == Enter(fr, "links", list)
           n == fr.node
<1>1. /\ e \in Frame /\ e.node = n /\ e.stage = "links" /\ e.next = <<>> /\ e.j = 1
      /\ Rest(e) = list
  BY EnterFields
<1> HIDE DEF e
<1>2. CASE prog.links[n] = <<>>
  <2>1. ToCome(t, out, e, e.j) = Image(t, list)
    BY <1>1, <1>2, ToComeAt
  <2>2. QED
    BY <1>2, <2>1 DEF Forwarded, e
<1>3. CASE prog.links[n] # <<>>
  <2>1. Targets(e) = prog.links[n] /\ prog.links[n] \in Seq(Node)
    BY <1>1 DEF Targets, ProgramType
  <2>2. /\ Looping(t, e, 1) \in Seq(Trail)
        /\ Looping(t, e, 1) = VisitEach(Walked, prog.links[n], Image(t, list))
    BY <1>1, <2>1, LoopSteps
  <2>3. ToCome(t, out, e, e.j) = Cat(<<>>, Looping(t, e, 1))
    BY <1>1, <1>3, ToComeAt, ImageNone
  <2>4. ToCome(t, out, e, e.j) = VisitEach(Walked, prog.links[n], Image(t, list))
    BY <2>2, <2>3, CatNone
  <2>5. QED
    BY <1>3, <2>4 DEF Forwarded, e
<1>4. QED
  BY <1>2, <1>3

LEMMA AfterFileComes ==
  ASSUME Walked \in Walks, prog \in ProgramType, NEW t \in FdTrails, NEW out,
         NEW fr \in Frame, fr.node \in Node, NEW list \in FdList
  PROVE  LET e == Enter(fr, AfterFile(fr.node), list) IN
         ToCome(t, out, e, e.j)
           = Forwarded(Walked, prog, fr.node, Applied(prog, fr.node, Image(t, list)))
<1> DEFINE n == fr.node
           e == Enter(fr, AfterFile(n), list)
<1>1. CASE prog.exec[n]
  <2>1. AfterFile(n) = "exec"
    BY <1>1 DEF AfterFile
  <2>2. e \in Frame /\ e.node = n /\ e.stage = "exec" /\ e.next = <<>> /\ Rest(e) = list
    BY <2>1, EnterFields
  <2> HIDE DEF e
  <2>3. ToCome(t, out, e, e.j)
          = Forwarded(Walked, prog, n, Cat(<<>>, Ran(prog, n, Image(t, list))))
    BY <2>2, ToComeAt, ImageNone
  <2>4. Image(t, list) \in Seq(Trail)
    BY ListTrails
  <2>5. Ran(prog, n, Image(t, list)) \in Seq(Trail)
    BY <2>4, RanImage
  <2>6. QED
    BY <1>1, <2>3, <2>5, CatNone DEF Applied, e
<1>2. CASE ~ prog.exec[n]
  <2>1. AfterFile(n) = "links" /\ Applied(prog, n, Image(t, list)) = Image(t, list)
    BY <1>2 DEF AfterFile, Applied
  <2>2. QED
    BY <2>1, LinksComes
<1>3. QED
  BY <1>1, <1>2

LEMMA FileComes ==
  ASSUME Walked \in Walks, prog \in ProgramType, NEW t \in FdTrails, NEW out,
         NEW fr \in Frame, fr.node \in Node, prog.file[fr.node] # NoFile, NEW list \in FdList
  PROVE  LET e == Enter(fr, "file", list)
             n == fr.node
         IN  ToCome(t, out, e, e.j)
               = Forwarded(Walked, prog, n, Applied(prog, n,
                   VisitEach(Walked, prog.entry[prog.file[n]], Image(t, list))))
<1> DEFINE n == fr.node
           e == Enter(fr, "file", list)
<1>1. /\ e \in Frame /\ e.node = n /\ e.stage = "file" /\ e.next = <<>> /\ e.j = 0
      /\ Rest(e) = list
  BY EnterFields
<1> HIDE DEF e
<1>2. Targets(e) = prog.entry[prog.file[n]] /\ Targets(e) \in Seq(Node)
  BY <1>1 DEF Targets, ProgramType
<1>3. /\ Looping(t, e, 0) \in Seq(Trail)
      /\ Looping(t, e, 0) = VisitEach(Walked, Targets(e), Image(t, list))
  BY <1>1, <1>2, LoopSteps
<1>4. Cat(<<>>, Looping(t, e, 0)) = Looping(t, e, 0)
  BY <1>3, CatNone
<1>5. ToCome(t, out, e, e.j)
        = Forwarded(Walked, prog, n, Applied(prog, n, Cat(<<>>, Looping(t, e, 0))))
  BY <1>1, ToComeAt, ImageNone
<1>6. QED
  BY <1>2, <1>3, <1>4, <1>5 DEF e

(* run_node begins with the stage whose work is the whole of the node's.   *)
LEMMA EnterComes ==
  ASSUME Meaning, prog \in ProgramType, NEW t \in FdTrails, NEW out,
         NEW fr \in Frame, fr.node \in Node
  PROVE  LET e == Enter(fr, FirstStage(fr.node), <<fr.arg>>) IN
         ToCome(t, out, e, e.j) = Walked[fr.node][t[fr.arg]]
<1> DEFINE n == fr.node
           x == t[fr.arg]
           e == Enter(fr, FirstStage(n), <<fr.arg>>)
<1>1. x \in Trail /\ Image(t, <<fr.arg>>) = <<x>> /\ <<fr.arg>> \in FdList /\ <<x>> \in Seq(Trail)
  BY FrameFields, OneTrail
<1>2. Walked \in Walks /\ Walked[n][x] = Becomes(Walked, prog, n, x)
  BY <1>1 DEF Meaning
<1>3. Walked[n][x] = Forwarded(Walked, prog, n, Applied(prog, n, Expanded(Walked, prog, n, x)))
  BY <1>1, <1>2, BecomesType
<1>4. CASE prog.file[n] = NoFile
  <2>1. FirstStage(n) = AfterFile(n) /\ Expanded(Walked, prog, n, x) = <<x>>
    BY <1>4 DEF FirstStage, Expanded
  <2>2. QED
    BY <1>1, <1>2, <1>3, <2>1, AfterFileComes
<1>5. CASE prog.file[n] # NoFile
  <2> DEFINE T == prog.entry[prog.file[n]]
  <2>1. T \in Seq(Node)
    BY <1>5 DEF ProgramType
  <2>2. FirstStage(n) = "file" /\ Expanded(Walked, prog, n, x) = Visit(Walked, T, x)
    BY <1>5 DEF FirstStage, Expanded
  <2>3. VisitEach(Walked, T, <<x>>) = Visit(Walked, T, x)
    <3> HIDE DEF T, x
    <3>1. <<>> \in Seq(Trail) /\ Visit(Walked, T, x) \in Seq(Trail)
      BY <1>1, <1>2, <2>1, VisitImage, EmptySeq
    <3>2. VisitEach(Walked, T, Cat(<<x>>, <<>>))
            = Cat(Visit(Walked, T, x), VisitEach(Walked, T, <<>>))
      BY <1>1, <1>2, <2>1, <3>1, VisitEachFirst
    <3>3. Cat(<<x>>, <<>>) = <<x>>
      BY <1>1, CatNone
    <3>4. Cat(Visit(Walked, T, x), <<>>) = Visit(Walked, T, x)
      BY <3>1, CatNone
    <3>5. QED
      BY <3>2, <3>3, <3>4, VisitEachNone, Zenon
  <2>4. QED
    BY <1>1, <1>2, <1>3, <1>5, <2>2, <2>3, FileComes
<1>6. QED
  BY <1>4, <1>5
(* The end of a stage: what it has collected goes to the next one.         *)
LEMMA PastTheEnd ==
  ASSUME NEW t, NEW fr \in Frame, fr.i > Len(fr.active)
  PROVE  /\ fr.i \notin DOMAIN fr.active /\ Rest(fr) = <<>>
         /\ Image(t, Rest(fr)) = <<>>
<1>1. fr.active \in FdList /\ fr.i \in Nat \ {0}
  BY FrameFields
<1>2. Rest(fr) = <<>>
  BY <1>1, ListRest DEF Rest
<1>3. DOMAIN fr.active = 1..Len(fr.active) /\ Len(fr.active) \in Nat
  BY <1>1, LenProperties DEF FdList
<1>4. QED
  BY <1>1, <1>2, <1>3, ImageNone

LEMMA FileEnds ==
  ASSUME Walked \in Walks, NEW t \in FdTrails, NEW out, NEW fr \in Frame,
         Targets(fr) \in Seq(Node),
         fr.stage = "file", fr.i > Len(fr.active)
  PROVE  ToCome(t, out, fr, fr.j)
           = Forwarded(Walked, prog, fr.node, Applied(prog, fr.node, Image(t, fr.next)))
<1>1. fr.next \in FdList /\ fr.j \in Nat
  BY FrameFields
<1>2. Looping(t, fr, fr.j) = <<>>
  BY <1>1, PastTheEnd, LoopSteps
<1>3. Cat(Image(t, fr.next), <<>>) = Image(t, fr.next)
  BY <1>1, ListTrails, CatNone
<1>4. QED
  BY <1>2, <1>3, ToComeAt

LEMMA ExecEnds ==
  ASSUME NEW t \in FdTrails, NEW out, NEW fr \in Frame, fr.node \in Node,
         fr.stage = "exec", fr.i > Len(fr.active)
  PROVE  ToCome(t, out, fr, fr.j) = Forwarded(Walked, prog, fr.node, Image(t, fr.next))
<1>1. fr.next \in FdList
  BY FrameFields
<1>2. Image(t, Rest(fr)) = <<>>
  BY PastTheEnd
<1>3. Ran(prog, fr.node, <<>>) = <<>>
  BY EmptySeq DEF Ran
<1>4. Cat(Image(t, fr.next), <<>>) = Image(t, fr.next)
  BY <1>1, ListTrails, CatNone
<1>5. QED
  BY <1>2, <1>3, <1>4, ToComeAt

(* What run_node_links hands over is what its node comes to.               *)
LEMMA LinksEnd ==
  ASSUME Walked \in Walks, prog \in ProgramType, NEW t \in FdTrails, NEW out,
         NEW fr \in Frame, fr.node \in Node, FrameOK(fr), fr.stage = "links"
  PROVE  /\ prog.links[fr.node] = <<>> => ToCome(t, out, fr, fr.j) = Image(t, fr.active)
         /\ prog.links[fr.node] # <<>> /\ fr.i > Len(fr.active) =>
              ToCome(t, out, fr, fr.j) = Image(t, fr.next)
<1>1. /\ fr.next \in FdList /\ fr.active \in FdList /\ fr.j \in Nat /\ 1 \in Nat \ {0}
      /\ prog.links[fr.node] \in Seq(Node)
  BY FrameFields DEF ProgramType
<1>2. ASSUME prog.links[fr.node] = <<>>
      PROVE  ToCome(t, out, fr, fr.j) = Image(t, fr.active)
  <2>1. fr.i = 1
    BY <1>2 DEF FrameOK
  <2>2. Rest(fr) = fr.active
    BY <1>1, <2>1, ListRest DEF Rest
  <2>3. QED
    BY <1>2, <2>2, ToComeAt
<1>3. ASSUME prog.links[fr.node] # <<>>, fr.i > Len(fr.active)
      PROVE  ToCome(t, out, fr, fr.j) = Image(t, fr.next)
  <2>1. Targets(fr) \in Seq(Node)
    BY <1>1 DEF Targets
  <2>2. Looping(t, fr, fr.j) = <<>>
    BY <1>1, <1>3, <2>1, PastTheEnd, LoopSteps
  <2>3. Cat(Image(t, fr.next), <<>>) = Image(t, fr.next)
    BY <1>1, ListTrails, CatNone
  <2>4. QED
    BY <1>3, <2>2, <2>3, ToComeAt
<1>4. QED
  BY <1>2, <1>3

(* A loop that only moves on to its next branch, or to its first call.     *)
LEMMA LoopMoves ==
  ASSUME Walked \in Walks, NEW t \in FdTrails, NEW out,
         NEW fr \in Frame, NEW gr \in Frame, Targets(fr) \in Seq(Node),
         fr.stage \in {"file", "links"}, gr.stage = fr.stage, gr.node = fr.node,
         fr.stage = "links" => prog.links[fr.node] # <<>>,
         gr.next = fr.next, gr.active = fr.active, gr.j \in {0, 1},
         \/ fr.j = 0 /\ gr.i = fr.i
         \/ fr.i \in DOMAIN fr.active /\ fr.j > Len(Targets(fr)) /\ gr.i = fr.i + 1
  PROVE  ToCome(t, out, gr, gr.j) = ToCome(t, out, fr, fr.j)
<1>1. Targets(gr) = Targets(fr)
  BY DEF Targets
<1>2. gr.j \in Nat /\ fr.j \in Nat
  BY FrameFields
<1>3. Looping(t, gr, gr.j) = VisitEach(Walked, Targets(fr), Image(t, Rest(gr)))
  <2>1. Targets(gr) \in Seq(Node)
    BY <1>1
  <2>2. Looping(t, gr, gr.j) = VisitEach(Walked, Targets(gr), Image(t, Rest(gr)))
    BY <1>2, <2>1, LoopSteps
  <2>3. QED
    BY <1>1, <2>2
<1>4. Looping(t, fr, fr.j) = VisitEach(Walked, Targets(fr), Image(t, Rest(gr)))
  <2>1. CASE fr.j = 0 /\ gr.i = fr.i
    <3>1. Rest(gr) = Rest(fr)
      BY <2>1 DEF Rest
    <3>2. Looping(t, fr, fr.j) = VisitEach(Walked, Targets(fr), Image(t, Rest(fr)))
      BY <1>2, <2>1, LoopSteps
    <3>3. QED
      BY <3>1, <3>2
  <2>2. CASE fr.i \in DOMAIN fr.active /\ fr.j > Len(Targets(fr)) /\ gr.i = fr.i + 1
    <3>1. Rest(gr) = After(fr)
      BY <2>2 DEF Rest, After
    <3>2. Looping(t, fr, fr.j) = VisitEach(Walked, Targets(fr), Image(t, After(fr)))
      BY <1>2, <2>2, LoopSteps
    <3>3. QED
      BY <3>1, <3>2
  <2>3. QED
    BY <2>1, <2>2
<1>5. Looping(t, gr, gr.j) = Looping(t, fr, fr.j)
  BY <1>3, <1>4
<1>6. QED
  BY <1>5, ToComeAt

(* A call that came to what its node makes of its branch is done with.     *)
LEMMA CallComes ==
  ASSUME Walked \in Walks, prog \in ProgramType, NEW t \in FdTrails, NEW out \in Seq(Trail),
         NEW fr \in Frame, NEW gr \in Frame, FrameShape(fr),
         fr.stage \in {"entries", "file", "links"}, fr.j \in DOMAIN Targets(fr), InLoop(fr),
         NEW part \in FdList,
         Image(t, part) = Walked[Targets(fr)[fr.j]][SourceTrail(t, fr)],
         gr.stage = fr.stage, gr.node = fr.node, gr.active = fr.active, gr.i = fr.i,
         gr.next = Cat(fr.next, part)
  PROVE  ToCome(t, out, gr, fr.j + 1) = ToCome(t, out, fr, fr.j)
<1> DEFINE n == fr.node
           here == Walked[Targets(fr)[fr.j]][SourceTrail(t, fr)]
           old == Image(t, fr.next)
           new == Image(t, gr.next)
<1>1. fr.next \in FdList /\ fr.j \in Nat /\ fr.j + 1 \in Nat
  BY FrameFields
<1>2. /\ Targets(fr) \in Seq(Node) /\ Targets(gr) = Targets(fr)
      /\ n = Root <=> fr.stage = "entries"
  BY TargetsType DEF Targets
<1>3. old \in Seq(Trail) /\ here \in Seq(Trail)
  BY <1>1, ListTrails
<1>4. new = Cat(old, here)
  <2>1. Image(t, Cat(fr.next, part)) = Cat(Image(t, fr.next), Image(t, part))
    BY <1>1, ListTrailsCat
  <2>2. QED
    BY <2>1
<1> HIDE DEF here, old, new
<1>5. CASE fr.stage = "entries"
  <2> DEFINE v(j) == Visit(Walked, From(Targets(fr), j), Start)
  <2>1. SourceTrail(t, fr) = Start
    BY <1>2, <1>5 DEF SourceTrail
  <2>2. v(fr.j) = Cat(here, v(fr.j + 1)) /\ v(fr.j + 1) \in Seq(Trail)
    BY <1>1, <1>2, <2>1, EntrySteps DEF here
  <2>3. ToCome(t, out, fr, fr.j) = Cat(out, Cat(old, v(fr.j)))
    BY <1>5, ToComeAt DEF old
  <2>4. ToCome(t, out, gr, fr.j + 1) = Cat(out, Cat(new, v(fr.j + 1)))
    <3>1. gr.stage = "entries"
      BY <1>5
    <3>2. \A m : ToCome(t, out, gr, m)
            = Cat(out, Cat(Image(t, gr.next), Visit(Walked, From(Targets(gr), m), Start)))
      BY <3>1, ToComeAt
    <3>3. QED
      BY <1>2, <3>2 DEF new
  <2> HIDE DEF v
  <2>5. Cat(Cat(old, here), v(fr.j + 1)) = Cat(old, Cat(here, v(fr.j + 1)))
    BY <1>3, <2>2, CatAssociative
  <2>6. QED
    BY <1>4, <2>2, <2>3, <2>4, <2>5
<1>6. CASE fr.stage \in {"file", "links"}
  <2>1. fr.i \in DOMAIN fr.active /\ SourceTrail(t, fr) = t[fr.active[fr.i]]
    BY <1>2, <1>6 DEF InLoop, SourceTrail
  <2>2. Looping(t, fr, fr.j) = Cat(here, Looping(t, fr, fr.j + 1))
    BY <1>1, <1>2, <2>1, LoopSteps DEF here
  <2>3. Looping(t, fr, fr.j + 1) \in Seq(Trail)
    BY <1>1, <1>2, LoopSteps
  <2>4. Looping(t, gr, fr.j + 1) = Looping(t, fr, fr.j + 1)
    BY <1>2 DEF Looping, After
  <2>5. Cat(Cat(old, here), Looping(t, fr, fr.j + 1))
          = Cat(old, Cat(here, Looping(t, fr, fr.j + 1)))
    BY <1>3, <2>3, CatAssociative
  <2>6. Cat(new, Looping(t, gr, fr.j + 1)) = Cat(old, Looping(t, fr, fr.j))
    BY <1>4, <2>2, <2>4, <2>5
  <2>7. CASE fr.stage = "file"
    <3>1. ToCome(t, out, fr, fr.j)
            = Forwarded(Walked, prog, n, Applied(prog, n, Cat(old, Looping(t, fr, fr.j))))
      BY <2>7, ToComeAt DEF old
    <3>2. gr.stage = "file" /\ gr.node = n
      BY <2>7
    <3>3. \A m : ToCome(t, out, gr, m)
            = Forwarded(Walked, prog, n, Applied(prog, n, Cat(new, Looping(t, gr, m))))
      BY <3>2, ToComeAt DEF new
    <3>4. QED
      BY <2>6, <3>1, <3>3
  <2>8. CASE fr.stage = "links"
    <3>1. prog.links[n] # <<>>
      BY <2>8, EmptySeq DEF Targets
    <3>2. ToCome(t, out, fr, fr.j) = Cat(old, Looping(t, fr, fr.j))
      BY <2>8, <3>1, ToComeAt DEF old
    <3>3. gr.stage = "links" /\ gr.node = n
      BY <2>8
    <3>4. \A m : ToCome(t, out, gr, m) = Cat(new, Looping(t, gr, m))
      BY <3>1, <3>3, ToComeAt DEF new
    <3>5. QED
      BY <2>6, <3>2, <3>4
  <2>9. QED
    BY <1>6, <2>7, <2>8
<1>7. QED
  BY <1>5, <1>6
(* A branch that its command has gone over.                                *)
LEMMA ExecComes ==
  ASSUME NEW t \in FdTrails, NEW u \in FdTrails, NEW out,
         NEW fr \in Frame, NEW gr \in Frame, fr.node \in Node,
         fr.stage = "exec", gr.stage = "exec", gr.node = fr.node, gr.active = fr.active,
         fr.i \in DOMAIN fr.active, gr.i = fr.i + 1,
         NEW f \in OwnFds, gr.next = Cat(fr.next, <<f>>),
         u[f] = RunOn(prog, fr.node)[t[fr.active[fr.i]]],
         Image(u, fr.next) = Image(t, fr.next), Image(u, Rest(gr)) = Image(t, Rest(gr))
  PROVE  ToCome(u, out, gr, gr.j) = ToCome(t, out, fr, fr.j)
<1> DEFINE n == fr.node
           x == t[fr.active[fr.i]]
           y == RunOn(prog, n)[x]
           old == Image(t, fr.next)
           later == Image(t, Rest(gr))
<1>1. fr.next \in FdList /\ fr.active \in FdList /\ fr.i \in Nat \ {0}
  BY FrameFields
<1>2. Rest(gr) = After(fr)
  BY DEF Rest, After
<1>3. later \in Seq(Trail) /\ x \in Trail /\ Image(t, Rest(fr)) = Cat(<<x>>, later)
  BY <1>1, <1>2, RestTrails DEF Rest, After
<1>4. Ran(prog, n, Cat(<<x>>, later)) = Cat(<<y>>, Ran(prog, n, later))
  BY <1>3, RanFirst
<1>5. /\ old \in Seq(Trail) /\ Ran(prog, n, later) \in Seq(Trail) /\ y \in Trail
      /\ <<y>> \in Seq(Trail)
  <2>1. old \in Seq(Trail)
    BY <1>1, ListTrails
  <2>2. Ran(prog, n, later) \in Seq(Trail)
    BY <1>3, RanImage
  <2>3. y \in Trail
    <3>1. <<x>> \in Seq(Trail)
      BY <1>3, CatOne
    <3>2. RunOn(prog, n) \in Maps(Trail, Trail)
      BY <3>1, RanImage
    <3>3. QED
      BY <1>3, <3>2 DEF Maps
  <2>4. <<y>> \in Seq(Trail)
    BY <2>3, CatOne, EmptySeq
  <2>5. QED
    BY <2>1, <2>2, <2>3, <2>4
<1>6. Image(u, gr.next) = Cat(old, <<y>>)
  <2>1. f \in OwnFds \cup {NoFd}
    OBVIOUS
  <2>2. <<f>> \in FdList /\ Image(u, <<f>>) = <<u[f]>>
    BY <2>1, OneTrail
  <2>3. Image(u, Cat(fr.next, <<f>>)) = Cat(Image(u, fr.next), Image(u, <<f>>))
    BY <1>1, <2>2, ListTrailsCat
  <2>4. QED
    BY <2>2, <2>3, Zenon
<1>7. ToCome(t, out, fr, fr.j)
        = Forwarded(Walked, prog, n, Cat(old, Ran(prog, n, Image(t, Rest(fr)))))
  BY ToComeAt
<1>8. ToCome(u, out, gr, gr.j)
        = Forwarded(Walked, prog, n, Cat(Image(u, gr.next), Ran(prog, n, later)))
  <2>1. ToCome(u, out, gr, gr.j)
          = Forwarded(Walked, prog, n, Cat(Image(u, gr.next), Ran(prog, n, Image(u, Rest(gr)))))
    BY ToComeAt
  <2>2. QED
    BY <2>1
<1> HIDE DEF x, y, old, later
<1>9. Cat(Cat(old, <<y>>), Ran(prog, n, later)) = Cat(old, Cat(<<y>>, Ran(prog, n, later)))
  <2>1. \A q \in Seq(Trail) :
          Cat(Cat(old, q), Ran(prog, n, later)) = Cat(old, Cat(q, Ran(prog, n, later)))
    BY <1>5, CatAssociative
  <2>2. QED
    BY <1>5, <2>1, Zenon
<1>10. QED
  BY <1>3, <1>4, <1>6, <1>7, <1>8, <1>9

(* One output copied to fd_out.                                            *)
LEMMA FlushComes ==
  ASSUME NEW t \in FdTrails, NEW out \in Seq(Trail),
         NEW fr \in Frame, NEW gr \in Frame,
         fr.stage = "flush", gr.stage = "flush", gr.next = fr.next,
         fr.i \in DOMAIN fr.next, gr.i = fr.i + 1
  PROVE  ToCome(t, Cat(out, <<t[fr.next[fr.i]]>>), gr, gr.j) = ToCome(t, out, fr, fr.j)
<1> DEFINE x == t[fr.next[fr.i]]
           later == Image(t, SubSeq(gr.next, gr.i, Len(gr.next)))
<1>1. fr.next \in FdList /\ fr.i \in Nat \ {0}
  BY FrameFields
<1>2. /\ later \in Seq(Trail) /\ x \in Trail
      /\ Image(t, SubSeq(fr.next, fr.i, Len(fr.next))) = Cat(<<x>>, later)
  BY <1>1, RestTrails
<1>3. \A o : ToCome(t, o, gr, gr.j) = Cat(o, later)
  BY ToComeAt
<1>4. ToCome(t, out, fr, fr.j) = Cat(out, Image(t, SubSeq(fr.next, fr.i, Len(fr.next))))
  BY ToComeAt
<1> HIDE DEF x, later
<1>5. <<x>> \in Seq(Trail)
  BY <1>2, CatOne
<1>6. Cat(Cat(out, <<x>>), later) = Cat(out, Cat(<<x>>, later))
  <2>1. later \in Seq(Trail)
    BY <1>2
  <2>2. \A q \in Seq(Trail) : Cat(Cat(out, q), later) = Cat(out, Cat(q, later))
    BY <2>1, CatAssociative
  <2>3. QED
    BY <1>5, <2>2, Zenon
<1>7. QED
  BY <1>2, <1>3, <1>4, <1>6 DEF x

LEMMA FlushEnds ==
  ASSUME NEW t, NEW out \in Seq(Trail), NEW fr \in Frame, fr.stage = "flush", fr.i > Len(fr.next)
  PROVE  ToCome(t, out, fr, fr.j) = out
<1>1. fr.next \in FdList /\ fr.i \in Nat \ {0}
  BY FrameFields
<1>2. SubSeq(fr.next, fr.i, Len(fr.next)) = <<>>
  BY <1>1, ListRest
<1>3. ToCome(t, out, fr, fr.j) = Cat(out, <<>>)
  <2>1. ToCome(t, out, fr, fr.j) = Cat(out, Image(t, SubSeq(fr.next, fr.i, Len(fr.next))))
    BY ToComeAt
  <2>2. QED
    BY <1>2, <2>1, ImageNone
<1>4. QED
  BY <1>3, CatNone

LEMMA EntriesEnd ==
  ASSUME Walked \in Walks, NEW t \in FdTrails, NEW out,
         NEW fr \in Frame, NEW gr \in Frame, Targets(fr) \in Seq(Node),
         fr.stage = "entries", fr.i = 1, fr.j > Len(Targets(fr)),
         gr.stage = "flush", gr.next = fr.next, gr.i = fr.i
  PROVE  ToCome(t, out, gr, gr.j) = ToCome(t, out, fr, fr.j)
<1>1. fr.next \in FdList /\ fr.j \in Nat /\ 1 \in Nat \ {0}
  BY FrameFields
<1>2. Visit(Walked, From(Targets(fr), fr.j), Start) = <<>>
  BY <1>1, EntrySteps
<1>3. Image(t, fr.next) \in Seq(Trail) /\ Cat(Image(t, fr.next), <<>>) = Image(t, fr.next)
  BY <1>1, ListTrails, CatNone
<1>4. SubSeq(gr.next, gr.i, Len(gr.next)) = fr.next
  BY <1>1, ListRest
<1>5. ToCome(t, out, gr, gr.j) = Cat(out, Image(t, SubSeq(gr.next, gr.i, Len(gr.next))))
  BY ToComeAt
<1>6. ToCome(t, out, fr, fr.j)
        = Cat(out, Cat(Image(t, fr.next), Visit(Walked, From(Targets(fr), fr.j), Start)))
  BY ToComeAt
<1>7. QED
  BY <1>2, <1>3, <1>4, <1>5, <1>6
----------------------------------------------------------------------------
(* A frame's account depends on its live branches alone                    *)

(* Two readings of the descriptors that say the same of those in S.        *)
Agree(t, u, S) == \A f \in S \cup {NoFd} : u[f] = t[f]

LEMMA ImageAgree ==
  ASSUME NEW t, NEW u, NEW s, NEW S, Names(s) \subseteq S, Agree(t, u, S)
  PROVE  Image(u, s) = Image(t, s)
<1>1. \A k \in DOMAIN s : u[s[k]] = t[s[k]]
  BY DEF Agree, Names, Held
<1>2. QED
  BY <1>1, ImageSame

LEMMA RestNames ==
  ASSUME NEW a \in FdList, NEW i \in Nat \ {0}
  PROVE  /\ Names(SubSeq(a, i + 1, Len(a))) \subseteq Names(SubSeq(a, i, Len(a)))
         /\ i \in DOMAIN a => a[i] \in Names(SubSeq(a, i, Len(a))) \cup {NoFd}
<1>1. i + 1 \in Nat \ {0} /\ Len(a) \in Nat /\ DOMAIN a = 1..Len(a)
  BY LenProperties DEF FdList
<1>2. /\ Held(SubSeq(a, i, Len(a))) = {a[k] : k \in i..Len(a)}
      /\ Held(SubSeq(a, i + 1, Len(a))) = {a[k] : k \in i + 1..Len(a)}
  BY <1>1, ListRest
<1>3. \A k \in i + 1..Len(a) : k \in i..Len(a)
  BY <1>1
<1>4. i \in DOMAIN a => i \in i..Len(a)
  BY <1>1
<1> DEFINE r == SubSeq(a, i, Len(a))
           q == SubSeq(a, i + 1, Len(a))
<1> HIDE DEF r, q
<1>5. Held(q) \subseteq Held(r) /\ (i \in DOMAIN a => a[i] \in Held(r))
  BY <1>2, <1>3, <1>4 DEF r, q
<1>6. Names(q) \subseteq Names(r) /\ (i \in DOMAIN a => a[i] \in Names(r) \cup {NoFd})
  BY <1>5 DEF Names
<1>7. QED
  BY <1>6 DEF r, q

LEMMA Stable ==
  ASSUME NEW t, NEW u, NEW fr \in Frame, Agree(t, u, LiveNames(fr))
  PROVE  /\ \A out, j : ToCome(u, out, fr, j) = ToCome(t, out, fr, j)
         /\ fr.stage # "enter" =>
              /\ Image(u, fr.next) = Image(t, fr.next)
              /\ Image(u, Rest(fr)) = Image(t, Rest(fr))
              /\ InLoop(fr) => SourceTrail(u, fr) = SourceTrail(t, fr)
<1>1. /\ fr.next \in FdList /\ fr.active \in FdList /\ fr.i \in Nat \ {0}
      /\ fr.arg \in OwnFds \cup {NoFd}
  BY FrameFields
<1>2. CASE fr.stage = "enter"
  <2>1. fr.arg \in LiveNames(fr) \cup {NoFd}
    BY <1>2, FrameLists
  <2>2. QED
    BY <1>2, <2>1, ToComeAt DEF Agree
<1>3. CASE fr.stage # "enter"
  <2>1. /\ Names(fr.next) \subseteq LiveNames(fr)
        /\ Names(Rest(fr)) \subseteq LiveNames(fr)
    BY <1>3, FrameLists DEF Pending
  <2>2. /\ Names(After(fr)) \subseteq LiveNames(fr)
        /\ fr.i \in DOMAIN fr.active => fr.active[fr.i] \in LiveNames(fr) \cup {NoFd}
    BY <1>1, <2>1, RestNames DEF Rest, After
  <2>3. Names(SubSeq(fr.next, fr.i, Len(fr.next))) \subseteq LiveNames(fr)
    BY <1>1, <2>1, ListRest
  <2>4. /\ Image(u, fr.next) = Image(t, fr.next)
        /\ Image(u, Rest(fr)) = Image(t, Rest(fr))
        /\ Image(u, After(fr)) = Image(t, After(fr))
        /\ Image(u, SubSeq(fr.next, fr.i, Len(fr.next)))
             = Image(t, SubSeq(fr.next, fr.i, Len(fr.next)))
    <3>1. \A s : Names(s) \subseteq LiveNames(fr) => Image(u, s) = Image(t, s)
      BY ImageAgree
    <3>2. QED
      BY <2>1, <2>2, <2>3, <3>1
  <2>5. fr.i \in DOMAIN fr.active => u[fr.active[fr.i]] = t[fr.active[fr.i]]
    BY <2>2 DEF Agree
  <2>6. \A j : Looping(u, fr, j) = Looping(t, fr, j)
    BY <2>4, <2>5 DEF Looping
  <2>7. \A out, j : ToCome(u, out, fr, j) = ToCome(t, out, fr, j)
    <3>1. ASSUME NEW out, NEW j
          PROVE  ToCome(u, out, fr, j) = ToCome(t, out, fr, j)
      <4> DEFINE oldNext == Image(t, fr.next)
                 oldRest == Image(t, Rest(fr))
                 oldFlush == Image(t, SubSeq(fr.next, fr.i, Len(fr.next)))
      <4>1. /\ Image(u, fr.next) = oldNext /\ Image(u, Rest(fr)) = oldRest
            /\ Image(u, SubSeq(fr.next, fr.i, Len(fr.next))) = oldFlush
            /\ Looping(u, fr, j) = Looping(t, fr, j)
        BY <2>4, <2>6
      <4>2. QED
        BY <1>3, <4>1, Zenon DEF ToCome
    <3>2. QED
      BY <3>1
  <2>8. InLoop(fr) => SourceTrail(u, fr) = SourceTrail(t, fr)
    BY <2>5 DEF InLoop, SourceTrail
  <2>9. QED
    BY <2>4, <2>7, <2>8
<1>4. QED
  BY <1>2, <1>3

(* A frame that differs only where it is not looked at.                    *)
LEMMA SameComes ==
  ASSUME NEW t, NEW fr, NEW gr, gr.node = fr.node, gr.stage = fr.stage, gr.arg = fr.arg,
         gr.active = fr.active, gr.next = fr.next, gr.i = fr.i
  PROVE  \A out, j : ToCome(t, out, gr, j) = ToCome(t, out, fr, j)
<1>1. Rest(gr) = Rest(fr) /\ After(gr) = After(fr) /\ Targets(gr) = Targets(fr)
  BY DEF Rest, After, Targets
<1>2. \A j : Looping(t, gr, j) = Looping(t, fr, j)
  BY <1>1 DEF Looping
<1>3. QED
  BY <1>1, <1>2 DEF ToCome
----------------------------------------------------------------------------
(* The account of a stack, frame by frame                                  *)

LEMMA PrefixOfAppend ==
  ASSUME NEW c \in Seq(Frame), NEW fr \in Frame, NEW k \in 1..Len(c)
  PROVE  SubSeq(Append(c, fr), 1, k - 1) = SubSeq(c, 1, k - 1)
<1> DEFINE s == Append(c, fr)
<1>1. /\ s \in Seq(Frame) /\ Len(c) \in Nat /\ Len(s) = Len(c) + 1
      /\ \A m \in 1..Len(c) : s[m] = c[m]
  BY AppendProperties, LenProperties
<1> HIDE DEF s
<1>2. k - 1 \in 0..Len(c) /\ k - 1 \in 0..Len(s) /\ \A m \in 1..k - 1 : m \in 1..Len(c)
  BY <1>1
<1>3. /\ SubSeq(s, 1, k - 1) \in Seq(Frame) /\ Len(SubSeq(s, 1, k - 1)) = k - 1
      /\ \A m \in 1..k - 1 : SubSeq(s, 1, k - 1)[m] = s[m]
  BY <1>1, <1>2, PrefixFacts
<1>4. /\ SubSeq(c, 1, k - 1) \in Seq(Frame) /\ Len(SubSeq(c, 1, k - 1)) = k - 1
      /\ \A m \in 1..k - 1 : SubSeq(c, 1, k - 1)[m] = c[m]
  BY <1>2, PrefixFacts
<1>5. \A m \in 1..k - 1 : SubSeq(s, 1, k - 1)[m] = SubSeq(c, 1, k - 1)[m]
  BY <1>1, <1>2, <1>3, <1>4
<1>6. SubSeq(s, 1, k - 1) = SubSeq(c, 1, k - 1)
  BY <1>3, <1>4, <1>5, SeqEqual
<1>7. QED
  BY <1>6 DEF s

LEMMA OneMoreMeets ==
  ASSUME NEW c \in Seq(Frame), NEW fr \in Frame
  PROVE  /\ \A t, out : CallersMeet(t, out, Append(c, fr))
                          <=> CallersMeet(t, out, c) /\ Meets(t, out, c, fr, fr.j)
         /\ SettledOf(Append(c, fr)) = SettledOf(c) \cup Settled(fr)
<1> DEFINE s == Append(c, fr)
<1>1. /\ s \in Seq(Frame) /\ Len(c) \in Nat /\ Len(s) = Len(c) + 1
      /\ s[Len(c) + 1] = fr /\ SubSeq(s, 1, (Len(c) + 1) - 1) = c
      /\ \A k \in 1..Len(c) : s[k] = c[k]
  BY AppendProperties, LenProperties, AppendUndone
<1>2. \A k \in 1..Len(c) : SubSeq(s, 1, k - 1) = SubSeq(c, 1, k - 1)
  BY PrefixOfAppend
<1>3. DOMAIN c = 1..Len(c) /\ DOMAIN s = 1..Len(c) + 1
  BY <1>1, LenProperties
<1> HIDE DEF s
<1>4. /\ \A k \in DOMAIN c : k \in DOMAIN s /\ s[k] = c[k]
                             /\ SubSeq(s, 1, k - 1) = SubSeq(c, 1, k - 1)
      /\ Len(c) + 1 \in DOMAIN s
      /\ \A k \in DOMAIN s : k \in DOMAIN c \/ k = Len(c) + 1
  BY <1>1, <1>2, <1>3
<1>5. SettledOf(s) = SettledOf(c) \cup Settled(fr)
  BY <1>1, <1>4 DEF SettledOf
<1>6. ASSUME NEW t, NEW out
      PROVE  CallersMeet(t, out, s) <=> CallersMeet(t, out, c) /\ Meets(t, out, c, fr, fr.j)
  BY <1>1, <1>4 DEF CallersMeet
<1>7. QED
  BY <1>5, <1>6 DEF s

LEMMA MeetsCaller ==
  ASSUME NEW c \in Seq(Frame), NEW cr \in Frame, NEW t, NEW out, NEW fr, NEW j
  PROVE  Meets(t, out, Append(c, cr), fr, j) <=>
           /\ InLoop(cr)
           /\ ToCome(t, out, fr, j) = Walked[fr.node][SourceTrail(t, cr)]
<1>1. LET s == Append(c, cr) IN s # <<>> /\ s[Len(s)] = cr
  BY AppendUndone
<1>2. QED
  BY <1>1 DEF Meets

LEMMA MeetsNone ==
  ASSUME NEW t, NEW out, NEW fr, NEW j
  PROVE  Meets(t, out, <<>>, fr, j) <=>
           /\ ToCome(t, out, fr, j) = Branches
           /\ fr.stage = "entries" => fr.i = 1
BY DEF Meets
----------------------------------------------------------------------------
(* prog and cfg never change, so neither does what the flow means.         *)

LEMMA SameMeaning ==
  ASSUME UNCHANGED <<prog, cfg>>
  PROVE  /\ Walked' = Walked /\ Start' = Start /\ Branches' = Branches
         /\ Meaning => Meaning'
<1>1. Walked' = Walked
  BY DEF Walked
<1>2. Start' = Start
  BY DEF Start
<1>3. Branches' = Branches
  BY <1>2 DEF Branches
<1>4. Meaning => Meaning'
  BY <1>1 DEF Meaning
<1>5. QED
  BY <1>1, <1>2, <1>3, <1>4

LEMMA SameAccount ==
  ASSUME UNCHANGED <<prog, cfg>>
  PROVE  \A c, fr, table, fs, out : AsMeant(c, fr, table, fs, out)' <=> AsMeant(c, fr, table, fs, out)
<1>1. Walked' = Walked /\ Start' = Start /\ Branches' = Branches
  BY SameMeaning
<1>2. \A fr : Targets(fr)' = Targets(fr)
  BY DEF Targets
<1>3. \A t, fr, j : Looping(t, fr, j)' = Looping(t, fr, j)
  BY <1>1, <1>2 DEF Looping
<1>4. \A t, out, fr, j : ToCome(t, out, fr, j)' = ToCome(t, out, fr, j)
  BY <1>1, <1>2, <1>3 DEF ToCome
<1>5. \A t, fr : SourceTrail(t, fr)' = SourceTrail(t, fr)
  BY <1>1 DEF SourceTrail
<1>6. \A t, out, c, fr, j : Meets(t, out, c, fr, j)' <=> Meets(t, out, c, fr, j)
  BY <1>1, <1>4, <1>5 DEF Meets
<1>7. \A t, out, c : CallersMeet(t, out, c)' <=> CallersMeet(t, out, c)
  BY <1>6 DEF CallersMeet
<1>8. \A t, out, c, fr : AllMeet(t, out, c, fr)' <=> AllMeet(t, out, c, fr)
  BY <1>6, <1>7 DEF AllMeet
<1>9. \A fr : Settled(fr)' = Settled(fr)
  BY DEF Settled
<1>10. \A s : SettledOf(s)' = SettledOf(s)
  BY <1>9 DEF SettledOf
<1>11. \A table, fs, fr : Fresh(table, fs, fr)' <=> Fresh(table, fs, fr)
  BY DEF Fresh
<1>12. \A c, fr : InputOK(c, fr)' <=> InputOK(c, fr)
  BY DEF InputOK
<1>13. QED
  BY <1>8, <1>9, <1>10, <1>11, <1>12 DEF AsMeant
----------------------------------------------------------------------------
(* Steps                                                                   *)

LEMMA CarriedType ==
  ASSUME NEW table \in [Fds -> Fds \cup {Closed}], NEW fs \in [Fds -> OpenFile]
  PROVE  /\ Carried(table, fs) \in FdTrails
         /\ Carried(table, fs)[NoFd] = <<>>
         /\ \A f \in OpenFds(table) : /\ f \in Fds /\ table[f] \in Fds
                                      /\ Carried(table, fs)[f] = fs[table[f]].trail
<1>1. \A f \in OpenFds(table) : f \in Fds /\ table[f] \in Fds
  BY DEF OpenFds
<1>2. \A f \in OpenFds(table) : fs[table[f]].trail \in Trail
  BY <1>1 DEF OpenFile, Trail
<1>3. Carried(table, fs) \in FdTrails
  BY <1>2, TrailType DEF Carried, FdTrails, Maps
<1>4. NoFd \notin OpenFds(table)
  BY NegativeIsNoFd DEF OpenFds, NoFd
<1>5. QED
  BY <1>1, <1>3, <1>4 DEF Carried

LEMMA NowCarried ==
  ASSUME IInv
  PROVE  /\ Carried(fdt, files) \in FdTrails
         /\ Carried(fdt, files)[NoFd] = <<>>
         /\ \A f \in OpenFds(fdt) : /\ f \in Fds /\ fdt[f] \in Fds
                                    /\ Carried(fdt, files)[f] = files[fdt[f]].trail
         /\ prog \in ProgramType /\ flushed \in Seq(Trail)
<1>1. /\ fdt \in [Fds -> Fds \cup {Closed}] /\ files \in [Fds -> OpenFile]
      /\ prog \in ProgramType /\ flushed \in Seq(Trail)
  BY DEF IInv, TypeOK, Trail
<1>2. QED
  BY <1>1, CarriedType

LEMMA NextCarried ==
  ASSUME IInv'
  PROVE  /\ Carried(fdt', files') \in FdTrails
         /\ \A f \in OpenFds(fdt') : /\ f \in Fds
                                     /\ Carried(fdt', files')[f] = files'[fdt'[f]].trail
<1>1. fdt' \in [Fds -> Fds \cup {Closed}] /\ files' \in [Fds -> OpenFile]
  BY DEF IInv, TypeOK, OpenFile
<1>2. QED
  BY <1>1, CarriedType

(* Descriptors that stay open on the file they name, when that file keeps  *)
(* its content.                                                            *)
Keeps(t, fs, u, gs, S) ==
  \A f \in S : /\ f \in OpenFds(t) /\ f \in OpenFds(u) /\ u[f] = t[f]
               /\ gs[u[f]].trail = fs[t[f]].trail

LEMMA KeptCarried ==
  ASSUME NEW t, NEW fs, NEW u, NEW gs, NEW S, Keeps(t, fs, u, gs, S)
  PROVE  Agree(Carried(t, fs), Carried(u, gs), S)
<1>1. \A f \in S : f \in Fds
  BY DEF Keeps, OpenFds
<1>2. NoFd \notin OpenFds(t) /\ NoFd \notin OpenFds(u)
  BY NegativeIsNoFd DEF OpenFds, NoFd
<1>3. QED
  BY <1>1, <1>2 DEF Agree, Carried, Keeps

LEMMA SettledIsLive ==
  ASSUME NEW fr \in Frame, FrameOK(fr)
  PROVE  Settled(fr) \subseteq LiveNames(fr)
<1>1. CASE fr.stage = "enter"
  <2>1. fr.next = <<>>
    BY <1>1 DEF FrameOK
  <2>2. Settled(fr) = {}
    BY <1>1, <2>1, EmptyList DEF Settled
  <2>3. QED
    BY <2>2
<1>2. CASE fr.stage # "enter"
  BY <1>2, FrameLists DEF Settled
<1>3. QED
  BY <1>1, <1>2

LEMMA SettledAreLive ==
  ASSUME NEW c \in Seq(Frame), FramesOKIn(c)
  PROVE  SettledOf(c) \subseteq LiveOf(c)
<1>1. \A k \in DOMAIN c : Settled(c[k]) \subseteq LiveNames(c[k])
  BY LenProperties, ElementOfSeq, SettledIsLive DEF FramesOKIn
<1>2. QED
  BY <1>1 DEF SettledOf, LiveOf

(* The account of the callers when their branches stay what they are.      *)
LEMMA CallersStable ==
  ASSUME NEW t, NEW u, NEW out, NEW c \in Seq(Frame), CallersMeet(t, out, c),
         \A k \in DOMAIN c : c[k].stage # "enter",
         Agree(t, u, LiveOf(c))
  PROVE  CallersMeet(u, out, c)
<1>1. ASSUME NEW k \in DOMAIN c
      PROVE  Meets(u, out, SubSeq(c, 1, k - 1), c[k], c[k].j)
  <2> DEFINE b == SubSeq(c, 1, k - 1)
  <2>1. /\ Len(c) \in Nat /\ DOMAIN c = 1..Len(c) /\ k - 1 \in 0..Len(c)
        /\ \A l \in DOMAIN c : c[l] \in Frame
    BY LenProperties, ElementOfSeq
  <2>2. b \in Seq(Frame) /\ Len(b) = k - 1 /\ \A l \in 1..k - 1 : b[l] = c[l]
    BY <2>1, PrefixFacts
  <2>3. \A l \in DOMAIN c : Agree(t, u, LiveNames(c[l]))
    BY DEF Agree, LiveOf
  <2>4. \A o, j : ToCome(u, o, c[k], j) = ToCome(t, o, c[k], j)
    <3>1. \A fr \in Frame : Agree(t, u, LiveNames(fr)) =>
            \A o, j : ToCome(u, o, fr, j) = ToCome(t, o, fr, j)
      BY Stable
    <3>2. c[k] \in Frame /\ Agree(t, u, LiveNames(c[k]))
      BY <2>1, <2>3
    <3>3. QED
      BY <3>1, <3>2, Zenon
  <2>5. Meets(t, out, b, c[k], c[k].j)
    BY DEF CallersMeet
  <2> HIDE DEF b
  <2>6. CASE b = <<>>
    BY <2>4, <2>5, <2>6 DEF Meets, b
  <2>7. CASE b # <<>>
    <3>1. k - 1 \in 1..k - 1 /\ k - 1 \in DOMAIN c /\ b[Len(b)] = c[k - 1]
      BY <2>1, <2>2, <2>7, EmptySeq
    <3>2. InLoop(c[k - 1]) => SourceTrail(u, c[k - 1]) = SourceTrail(t, c[k - 1])
      BY <2>1, <2>3, <3>1, Stable
    <3>3. QED
      BY <2>4, <2>5, <2>7, <3>1, <3>2 DEF Meets
  <2>8. QED
    BY <2>6, <2>7 DEF b
<1>2. QED
  BY <1>1 DEF CallersMeet

LEMMA MeetsStable ==
  ASSUME NEW t, NEW u, NEW out, NEW c \in Seq(Frame), NEW fr \in Frame, NEW j,
         Meets(t, out, c, fr, j),
         \A k \in DOMAIN c : c[k].stage # "enter",
         Agree(t, u, LiveOf(c)), Agree(t, u, LiveNames(fr))
  PROVE  Meets(u, out, c, fr, j)
<1>1. ToCome(u, out, fr, j) = ToCome(t, out, fr, j)
  BY Stable
<1>2. CASE c = <<>>
  BY <1>1, <1>2 DEF Meets
<1>3. CASE c # <<>>
  <2>1. Len(c) \in DOMAIN c /\ c[Len(c)] \in Frame
    BY <1>3, LastFront, LenProperties
  <2>2. Agree(t, u, LiveNames(c[Len(c)]))
    BY <2>1 DEF Agree, LiveOf
  <2>3. InLoop(c[Len(c)]) => SourceTrail(u, c[Len(c)]) = SourceTrail(t, c[Len(c)])
    BY <2>1, <2>2, Stable
  <2>4. QED
    BY <1>1, <1>3, <2>3 DEF Meets
<1>4. QED
  BY <1>2, <1>3

LEMMA NowFlow ==
  ASSUME OInv, FlowInv, stack # <<>>, Top.stage # "err"
  PROVE  /\ Meaning /\ Walked \in Walks /\ InputKept /\ result = "none"
         /\ IInv /\ Callers \in Seq(Frame) /\ Top \in Frame
         /\ RunningWith(Callers, Top, fdt)
         /\ AsMeant(Callers, Top, fdt, files, flushed)
         /\ Top.stage # "ok" =>
              /\ CallersMeet(Carried(fdt, files), flushed, Callers)
              /\ Meets(Carried(fdt, files), flushed, Callers, Top, Top.j)
         /\ SettledOf(Callers) \cup Settled(Top) \subseteq OpenFds(fdt)
         /\ SettledOf(Callers) \subseteq LiveOf(Callers)
         /\ Settled(Top) \subseteq LiveNames(Top)
         /\ \A k \in DOMAIN Callers : Callers[k].stage # "enter"
<1>1. /\ IInv /\ Callers \in Seq(Frame) /\ Top \in Frame /\ result = "none"
      /\ RunningWith(Callers, Top, fdt)
  BY Now
<1>2. Meaning /\ InputKept /\ AsMeant(Callers, Top, fdt, files, flushed)
  BY DEF FlowInv
<1>3. SettledOf(Callers) \subseteq LiveOf(Callers) /\ Settled(Top) \subseteq LiveNames(Top)
  BY <1>1, SettledAreLive, SettledIsLive DEF RunningWith
<1>4. LiveOf(Callers) \subseteq OpenFds(fdt) /\ LiveNames(Top) \subseteq OpenFds(fdt)
  BY <1>1, LiveIsOpen
<1>5. \A k \in DOMAIN Callers : Callers[k].stage # "enter"
  BY CallersCall
<1>6. QED
  BY <1>1, <1>2, <1>3, <1>4, <1>5 DEF AsMeant, AllMeet, Meaning

LEMMA NextFlow ==
  ASSUME FlowInv, OInv', UNCHANGED <<prog, cfg>>, InputKept',
         NEW c \in Seq(Frame), NEW fr \in Frame, stack' = Append(c, fr),
         fr.stage # "err" => AsMeant(c, fr, fdt', files', flushed')
  PROVE  FlowInv'
<1>1. stack' # <<>> /\ Top' = fr /\ Callers' = c
  BY AppendUndone DEF Top, Callers
<1>2. result' = "none"
  BY <1>1 DEF OInv
<1>3. Meaning'
  BY SameMeaning DEF FlowInv
<1>4. AsMeant(c, fr, fdt', files', flushed') => AsMeant(Callers, Top, fdt, files, flushed)'
  BY <1>1, SameAccount
<1>5. QED
  BY <1>1, <1>2, <1>3, <1>4 DEF FlowInv
----------------------------------------------------------------------------
(* Steps that leave the descriptors and their files alone                  *)

LEMMA FewerSettled ==
  ASSUME NEW table, NEW fs, NEW S, AtEndAlone(table, fs, S), NEW T, T \subseteq S
  PROVE  AtEndAlone(table, fs, T)
BY DEF AtEndAlone

LEMMA QuietFlow ==
  ASSUME OInv, FlowInv, OInv', stack # <<>>, Top.stage \notin {"err", "ok"},
         UNCHANGED <<prog, cfg, fdt, files, flushed>>,
         NEW fr \in Frame, SetTop(fr), fr.stage \notin {"err", "ok"}, fr.node = Top.node,
         ToCome(Carried(fdt, files), flushed, fr, fr.j)
           = ToCome(Carried(fdt, files), flushed, Top, Top.j),
         fr.stage = "entries" => fr.i = 1,
         Settled(fr) \subseteq Settled(Top), Fresh(fdt, files, fr), InputOK(Callers, fr)
  PROVE  FlowInv'
<1> DEFINE t == Carried(fdt, files)
<1>1. /\ Callers \in Seq(Frame) /\ AsMeant(Callers, Top, fdt, files, flushed)
      /\ CallersMeet(t, flushed, Callers) /\ Meets(t, flushed, Callers, Top, Top.j)
      /\ InputKept
  BY NowFlow
<1>2. stack' = Append(Callers, fr)
  BY Now
<1>3. Meets(t, flushed, Callers, fr, fr.j)
  BY <1>1 DEF Meets
<1>4. AllMeet(t, flushed, Callers, fr)
  BY <1>1, <1>3 DEF AllMeet
<1>5. AtEndAlone(fdt, files, SettledOf(Callers) \cup Settled(fr))
  BY <1>1, FewerSettled DEF AsMeant
<1>6. AsMeant(Callers, fr, fdt, files, flushed)
  BY <1>4, <1>5 DEF AsMeant
<1>7. InputKept'
  BY <1>1 DEF InputKept
<1>8. AsMeant(Callers, fr, fdt', files', flushed')
  BY <1>6
<1>9. QED
  BY <1>1, <1>2, <1>7, <1>8, NextFlow

LEMMA CallersInput ==
  ASSUME OInv, FlowInv, stack # <<>>, Top.stage # "err", Top.node # Root
  PROVE  cfg.fd_in \in cfg.foreign \cup {NoFd}
<1>1. Callers # <<>> /\ AsMeant(Callers, Top, fdt, files, flushed)
  BY NowFlow, NowCaller
<1>2. QED
  BY <1>1 DEF AsMeant, InputOK

LEMMA EnterNodeFlow ==
  ASSUME OInv, FlowInv, OInv', EnterNode
  PROVE  FlowInv'
<1> DEFINE n == Top.node
           fr == Enter(Top, FirstStage(n), <<Top.arg>>)
           t == Carried(fdt, files)
<1>1. /\ IInv /\ prog \in Programs /\ prog \in ProgramType /\ ValidProgram(prog)
  BY RuntimeAssumption DEF OInv
<1>2. /\ stack # <<>> /\ Top \in Frame /\ Top.stage = "enter" /\ FrameShape(Top)
      /\ SetTop(fr) /\ UNCHANGED <<prog, cfg, fdt, files, flushed>>
  BY <1>1, AtTop DEF EnterNode
<1>3. n \in Node /\ Top.node # Root /\ Top.arg \in OwnFds \cup {NoFd}
  BY <1>2, FrameFields DEF FrameShape
<1>4. FirstStage(n) \in {"file", "exec", "links"}
  BY DEF FirstStage, AfterFile
<1>5. /\ <<Top.arg>> \in FdList /\ Len(<<Top.arg>>) = 1 /\ Names(<<Top.arg>>) = {Top.arg} \ {NoFd}
  BY <1>3, OneEntry
<1>6. /\ fr \in Frame /\ fr.node = n /\ fr.stage = FirstStage(n)
      /\ fr.active = <<Top.arg>> /\ fr.next = <<>> /\ Rest(fr) = <<Top.arg>>
  BY <1>2, <1>4, <1>5, EnterFields
<1>7. Meaning /\ t \in FdTrails /\ Fresh(fdt, files, Top)
  BY <1>1, <1>2, NowFlow, NowCarried DEF AsMeant
<1>8. ToCome(t, flushed, fr, fr.j) = Walked[n][t[Top.arg]]
  BY <1>1, <1>2, <1>3, <1>7, EnterComes
<1>9. ToCome(t, flushed, Top, Top.j) = Walked[n][t[Top.arg]]
  BY <1>2, ToComeAt
<1> HIDE DEF fr, t
<1>10. Settled(fr) = {}
  <2>1. ~ (fr.stage = "exec" /\ prog.file[n] # NoFile)
    BY <1>6 DEF FirstStage
  <2>2. ~ (fr.stage = "links" /\ prog.links[n] = <<>>)
    BY <1>1, <1>3, <1>6 DEF FirstStage, AfterFile, ValidProgram
  <2>3. QED
    BY <1>6, <2>1, <2>2, EmptyList DEF Settled
<1>11. Fresh(fdt, files, fr)
  <2>1. Pending(fr) = {Top.arg} \ {NoFd}
    BY <1>5, <1>6 DEF Pending
  <2>2. Len(fr.active) = 1
    BY <1>5, <1>6
  <2>3. fr.stage # "enter"
    BY <1>4, <1>6
  <2>4. Top.arg # NoFd => ~ files[fdt[Top.arg]].atEnd
    BY <1>2, <1>7 DEF Fresh
  <2>5. QED
    BY <2>1, <2>2, <2>3, <2>4 DEF Fresh
<1>12. InputOK(Callers, fr)
  BY <1>2, <1>3, CallersInput DEF InputOK
<1>13. QED
  <2>1. fr.stage \notin {"err", "ok", "entries"}
    BY <1>4, <1>6
  <2>2. SetTop(fr)
    BY <1>2 DEF fr
  <2>3. QED
    BY <1>2, <1>6, <1>8, <1>9, <1>10, <1>11, <1>12, <2>1, <2>2, QuietFlow DEF t

LEMMA LoadChildFlow ==
  ASSUME OInv, FlowInv, OInv', LoadChild
  PROVE  FlowInv'
<1> DEFINE fr == [Top EXCEPT !.j = 1]
           t == Carried(fdt, files)
<1>1. IInv /\ prog \in ProgramType
  BY NowCarried DEF OInv
<1>2. /\ stack # <<>> /\ Top \in Frame /\ Top.stage = "file" /\ FrameShape(Top)
      /\ SetTop(fr) /\ UNCHANGED <<prog, cfg, fdt, files, flushed>> /\ Top.j = 0
  BY <1>1, AtTop DEF LoadChild
<1>3. /\ fr \in Frame /\ fr.node = Top.node /\ fr.stage = "file" /\ fr.j = 1
      /\ fr.active = Top.active /\ fr.next = Top.next /\ fr.i = Top.i
  BY <1>2 DEF Frame
<1> HIDE DEF fr
<1>4. Targets(Top) \in Seq(Node) /\ Top.node # Root
  BY <1>1, <1>2, TargetsType
<1>5. Walked \in Walks /\ t \in FdTrails
  BY <1>1, <1>2, NowFlow, NowCarried
<1>6. ToCome(t, flushed, fr, fr.j) = ToCome(t, flushed, Top, Top.j)
  BY <1>2, <1>3, <1>4, <1>5, LoopMoves
<1>7. Settled(fr) = Settled(Top)
  BY <1>2, <1>3 DEF Settled
<1>8. Fresh(fdt, files, fr)
  BY <1>3 DEF Fresh
<1>9. InputOK(Callers, fr)
  BY <1>2, <1>4, CallersInput DEF InputOK
<1>10. SetTop(fr)
  BY <1>2 DEF fr
<1>11. QED
  BY <1>2, <1>3, <1>6, <1>7, <1>8, <1>9, <1>10, QuietFlow

(* The turn from one stage of run_node to the next.                        *)
LEMMA TurnFlow ==
  ASSUME OInv, FlowInv, OInv', stack # <<>>, Top \in Frame, Top.node \in Node, Top.node # Root,
         UNCHANGED <<prog, cfg, fdt, files, flushed>>,
         Top.stage = "exec" \/ prog.file[Top.node] # NoFile,
         Top.stage \in {"file", "exec"},
         NEW stage \in {"exec", "links"}, SetTop(Enter(Top, stage, Top.next)),
         Top.stage = "exec" => stage = "links",
         LET fr == Enter(Top, stage, Top.next) IN
           ToCome(Carried(fdt, files), flushed, fr, fr.j)
             = ToCome(Carried(fdt, files), flushed, Top, Top.j)
  PROVE  FlowInv'
<1> DEFINE fr == Enter(Top, stage, Top.next)
<1>1. Top.next \in FdList
  BY FrameFields
<1>2. /\ fr \in Frame /\ fr.node = Top.node /\ fr.stage = stage
      /\ fr.next = <<>> /\ Rest(fr) = Top.next
  BY <1>1, EnterFields
<1>3. /\ SetTop(fr)
      /\ ToCome(Carried(fdt, files), flushed, fr, fr.j)
           = ToCome(Carried(fdt, files), flushed, Top, Top.j)
  OBVIOUS
<1> HIDE DEF fr
<1>4. Settled(fr) \subseteq Settled(Top)
  <2>1. Pending(fr) = Names(Top.next)
    BY <1>2 DEF Pending
  <2>2. QED
    BY <1>2, <2>1, EmptyList DEF Settled
<1>5. Fresh(fdt, files, fr)
  BY <1>2 DEF Fresh
<1>6. InputOK(Callers, fr)
  BY CallersInput DEF InputOK
<1>7. QED
  BY <1>2, <1>3, <1>4, <1>5, <1>6, QuietFlow

LEMMA FileDoneFlow ==
  ASSUME OInv, FlowInv, OInv', FileDone
  PROVE  FlowInv'
<1> DEFINE t == Carried(fdt, files)
           fr == Enter(Top, AfterFile(Top.node), Top.next)
<1>1. IInv /\ prog \in ProgramType
  BY NowCarried DEF OInv
<1>2. /\ stack # <<>> /\ Top \in Frame /\ Top.stage = "file" /\ FrameShape(Top)
      /\ SetTop(fr) /\ UNCHANGED <<prog, cfg, fdt, files, flushed>>
      /\ Top.i > Len(Top.active)
  BY <1>1, AtTop DEF FileDone
<1>3. Targets(Top) \in Seq(Node) /\ Top.node # Root /\ Top.node \in Node
  BY <1>1, <1>2, TargetsType
<1>4. Walked \in Walks /\ t \in FdTrails /\ Top.next \in FdList
  BY <1>1, <1>2, NowFlow, NowCarried, FrameFields
<1>5. ToCome(t, flushed, fr, fr.j) = ToCome(t, flushed, Top, Top.j)
  BY <1>1, <1>2, <1>3, <1>4, AfterFileComes, FileEnds
<1>6. AfterFile(Top.node) \in {"exec", "links"} /\ prog.file[Top.node] # NoFile
  BY <1>2 DEF AfterFile, FrameShape
<1>7. QED
  BY <1>2, <1>3, <1>5, <1>6, TurnFlow

LEMMA ExecDoneFlow ==
  ASSUME OInv, FlowInv, OInv', ExecDone
  PROVE  FlowInv'
<1> DEFINE t == Carried(fdt, files)
           fr == Enter(Top, "links", Top.next)
<1>1. IInv /\ prog \in ProgramType
  BY NowCarried DEF OInv
<1>2. /\ stack # <<>> /\ Top \in Frame /\ Top.stage = "exec" /\ FrameShape(Top)
      /\ SetTop(fr) /\ UNCHANGED <<prog, cfg, fdt, files, flushed>>
      /\ Top.i > Len(Top.active)
  BY <1>1, AtTop DEF ExecDone
<1>3. Top.node # Root /\ Top.node \in Node
  BY <1>2, FrameFields DEF FrameShape
<1>4. Walked \in Walks /\ t \in FdTrails /\ Top.next \in FdList
  BY <1>1, <1>2, NowFlow, NowCarried, FrameFields
<1>5. ToCome(t, flushed, fr, fr.j) = ToCome(t, flushed, Top, Top.j)
  BY <1>1, <1>2, <1>3, <1>4, LinksComes, ExecEnds
<1>6. QED
  BY <1>2, <1>3, <1>5, TurnFlow

LEMMA EntriesDoneFlow ==
  ASSUME OInv, FlowInv, OInv', EntriesDone
  PROVE  FlowInv'
<1> DEFINE fr == [Top EXCEPT !.stage = "flush"]
           t == Carried(fdt, files)
<1>1. IInv /\ prog \in ProgramType /\ ValidProgram(prog)
  BY NowCarried, RuntimeAssumption DEF OInv
<1>2. /\ stack # <<>> /\ Top \in Frame /\ Top.stage = "entries" /\ FrameShape(Top)
      /\ SetTop(fr) /\ UNCHANGED <<prog, cfg, fdt, files, flushed>>
      /\ Top.j > Len(Targets(Top))
  BY <1>1, AtTop DEF EntriesDone
<1>3. /\ fr \in Frame /\ fr.node = Top.node /\ fr.stage = "flush"
      /\ fr.next = Top.next /\ fr.i = Top.i
  BY <1>2 DEF Frame, Stages
<1> HIDE DEF fr
<1>4. Targets(Top) \in Seq(Node) /\ Top.node = Root /\ Targets(Top) # <<>>
  <2>1. Targets(Top) = prog.entry[Main]
    BY <1>2 DEF Targets
  <2>2. QED
    BY <1>1, <1>2, <2>1, TargetsType, RuntimeAssumption DEF ValidProgram
<1>5. /\ Walked \in Walks /\ t \in FdTrails /\ Callers = <<>>
      /\ Meets(t, flushed, Callers, Top, Top.j) /\ InputOK(Callers, Top)
  BY <1>1, <1>2, <1>4, NowFlow, NowCarried, RootOwns DEF AsMeant
<1>6. Top.i = 1
  BY <1>2, <1>5 DEF Meets
<1>7. ToCome(t, flushed, fr, fr.j) = ToCome(t, flushed, Top, Top.j)
  BY <1>2, <1>3, <1>4, <1>5, <1>6, EntriesEnd
<1>8. Settled(fr) = Settled(Top)
  BY <1>2, <1>3 DEF Settled
<1>9. Fresh(fdt, files, fr)
  BY <1>3 DEF Fresh
<1>10. InputOK(Callers, fr)
  <2>1. Top.j # 1
    <3>1. Len(Targets(Top)) \in Nat \ {0} /\ Top.j \in Nat
      BY <1>2, <1>4, LastFront, FrameFields
    <3>2. QED
      BY <1>2, <3>1
  <2>2. QED
    BY <1>5, <2>1 DEF InputOK
<1>11. SetTop(fr)
  BY <1>2 DEF fr
<1>12. QED
  BY <1>2, <1>3, <1>7, <1>8, <1>9, <1>10, <1>11, QuietFlow
----------------------------------------------------------------------------
(* Failures, and the end of a run                                          *)

(* A call fails in the frame fr above c.                                   *)
LEMMA FailFlow ==
  ASSUME FlowInv, OInv', UNCHANGED <<prog, cfg, files>>,
         NEW c \in Seq(Frame), NEW fr \in Frame, NEW extra, Fail(Append(c, fr), extra)
  PROVE  FlowInv'
<1> DEFINE gr == [fr EXCEPT !.stage = "err",
                            !.next  = IF fr.node = Root THEN @ ELSE <<>>]
           s  == Append(c, fr)
<1>1. gr \in Frame /\ gr.stage = "err"
  BY EmptyList DEF Frame, Stages
<1>2. s \in Seq(Frame) /\ s # <<>> /\ s[Len(s)] = fr /\ SubSeq(s, 1, Len(s) - 1) = c
  BY OneFrameMore
<1>3. stack' = [s EXCEPT ![Len(s)] = gr]
  BY <1>2 DEF Fail
<1> HIDE DEF gr, s
<1>4. stack' = Append(c, gr)
  BY <1>1, <1>2, <1>3, SplitTop
<1>5. InputKept'
  BY DEF FlowInv, InputKept
<1>6. QED
  BY <1>1, <1>4, <1>5, NextFlow

LEMMA FailuresFlow ==
  ASSUME OInv, FlowInv, OInv', DupFails \/ ChildFails \/ ExecFails \/ FlushFails
  PROVE  FlowInv'
<1>1. /\ stack # <<>> /\ Fail(stack, {}) /\ UNCHANGED <<prog, cfg, files>>
  BY DEF DupFails, ChildFails, ExecFails, FlushFails, Calling, At
<1>2. Callers \in Seq(Frame) /\ Top \in Frame /\ Fail(Append(Callers, Top), {})
  BY <1>1, Now
<1>3. QED
  BY <1>1, <1>2, FailFlow

LEMMA FailedCallFlow ==
  ASSUME OInv, FlowInv, OInv', ParamsFail \/ FinishErr
  PROVE  FlowInv'
<1>1. IInv
  BY DEF OInv
<1>2. /\ stack # <<>> /\ Top.node # Root /\ UNCHANGED <<prog, cfg, files>>
      /\ \E extra : Fail(Callers, extra)
  BY <1>1, AtTop DEF ParamsFail, FinishErr, Unwinding, At, FrameShape
<1>3. Below \in Seq(Frame) /\ Caller \in Frame /\ Callers = Append(Below, Caller)
  BY <1>2, NowCaller
<1>4. PICK extra : Fail(Append(Below, Caller), extra)
  BY <1>2, <1>3
<1>5. QED
  BY <1>2, <1>3, <1>4, FailFlow

LEMMA DeliverOverflowsFlow ==
  ASSUME OInv, FlowInv, OInv', DeliverOverflows
  PROVE  FlowInv'
<1> DEFINE k    == MaxBranches - Len(Caller.next)
           part == SubSeq(Delivered, 1, k)
           fr   == [Top EXCEPT !.stage = "err", !.next = <<>>,
                               !.active = IF Terminal THEN @ ELSE <<>>]
<1>1. /\ stack # <<>> /\ Top \in Frame /\ Top.node # Root /\ Delivered \in FdList
      /\ UNCHANGED <<prog, cfg, files>>
  BY DeliveredOwned DEF DeliverOverflows
<1>2. /\ Below \in Seq(Frame) /\ Outputs = Caller.next
      /\ Caller.next \in FdList /\ Len(Caller.next) <= MaxBranches
  BY <1>1, NowCaller, FrameFields DEF Outputs, FrameOK
<1>3. ~ Fits(Caller.next, Delivered)
  BY <1>2 DEF DeliverOverflows
<1>4. /\ Len(Caller.next) \in Nat /\ Len(Delivered) \in Nat /\ MaxBranches \in Nat
      /\ Len(Caller.next) + Len(Delivered) > MaxBranches
  BY <1>1, <1>2, <1>3, LenProperties, RuntimeAssumption DEF Fits, FdList
<1>5. k \in 0..Len(Delivered)
  BY <1>2, <1>4
<1> HIDE DEF k
<1>6. part \in FdList
  BY <1>1, <1>5, ListPart
<1>7. Moved(Caller.next, Delivered) = Caller.next \o part
  BY <1>3 DEF Moved, k
<1> HIDE DEF part
<1>8. fr \in Frame /\ fr.stage = "err"
  BY <1>1, EmptyList DEF Frame, Stages
<1>9. HandOver(fr)
  BY DEF DeliverOverflows
<1> HIDE DEF fr
<1>10. Taken(part) \in Frame /\ stack' = Append(Append(Below, Taken(part)), fr)
  BY <1>1, <1>6, <1>7, <1>8, <1>9, HandOverStack
<1> DEFINE c == Append(Below, Taken(part))
<1>11. c \in Seq(Frame)
  BY <1>2, <1>10, AppendProperties
<1>12. stack' = Append(c, fr)
  BY <1>10
<1>13. InputKept'
  BY <1>1 DEF FlowInv, InputKept
<1> HIDE DEF c
<1>14. QED
  BY <1>1, <1>8, <1>11, <1>12, <1>13, NextFlow

(* run_model returns.                                                      *)
LEMMA OverFlow ==
  ASSUME FlowInv, UNCHANGED <<prog, cfg, files>>, stack' = <<>>,
         result' = "ok" => flushed' = Branches
  PROVE  FlowInv'
<1>1. Meaning' /\ Branches' = Branches
  BY SameMeaning DEF FlowInv
<1>2. InputKept'
  BY DEF FlowInv, InputKept
<1>3. QED
  BY <1>1, <1>2 DEF FlowInv

LEMMA RunEndsFlow ==
  ASSUME OInv, FlowInv, OInv', RunEnds
  PROVE  FlowInv'
<1> DEFINE t == Carried(fdt, files)
<1>1. IInv
  BY DEF OInv
<1>2. /\ stack # <<>> /\ Top \in Frame /\ stack' = <<>>
      /\ UNCHANGED <<prog, cfg, files, flushed>>
  BY <1>1, AtTop DEF RunEnds, Unwinding
<1>3. ASSUME result' = "ok"
      PROVE  flushed = Branches
  <2>1. Top.stage = "flush" /\ Top.i > Len(Top.next) /\ FrameShape(Top)
    BY <1>1, <1>3, AtTop DEF RunEnds, Unwinding, At
  <2>2. Top.node = Root
    BY <2>1 DEF FrameShape
  <2>3. flushed \in Seq(Trail) /\ Callers = <<>> /\ Meets(t, flushed, Callers, Top, Top.j)
    BY <1>1, <1>2, <2>1, <2>2, NowCarried, NowFlow, RootOwns
  <2>4. ToCome(t, flushed, Top, Top.j) = Branches
    BY <2>3 DEF Meets
  <2>5. ToCome(t, flushed, Top, Top.j) = flushed
    BY <1>2, <2>1, <2>3, FlushEnds
  <2>6. QED
    BY <2>4, <2>5
<1>4. QED
  BY <1>2, <1>3, OverFlow

LEMMA RunFailsFlow ==
  ASSUME OInv, FlowInv, OInv', EntryDupFails \/ RunParamsFail
  PROVE  FlowInv'
BY OverFlow DEF EntryDupFails, RunParamsFail

LEMMA StutterFlow ==
  ASSUME OInv, FlowInv, OInv', UNCHANGED vars
  PROVE  FlowInv'
<1>1. UNCHANGED <<prog, cfg, fdt, files, stack, result, log, flushed>>
  BY DEF vars
<1>2. InputKept'
  BY <1>1 DEF FlowInv, InputKept
<1>3. CASE stack = <<>>
  <2>1. Meaning' /\ Branches' = Branches
    BY <1>1, SameMeaning DEF FlowInv
  <2>2. QED
    BY <1>1, <1>2, <1>3, <2>1 DEF FlowInv
<1>4. CASE stack # <<>>
  <2>1. Callers \in Seq(Frame) /\ Top \in Frame /\ stack' = Append(Callers, Top)
    BY <1>1, <1>4, Now
  <2>2. Top.stage # "err" => AsMeant(Callers, Top, fdt', files', flushed')
    BY <1>1, <1>4 DEF FlowInv
  <2>3. QED
    BY <1>1, <1>2, <2>1, <2>2, NextFlow
<1>5. QED
  BY <1>3, <1>4
----------------------------------------------------------------------------
(* Steps of the top frame that touch descriptors                           *)

LEMMA TopFlow ==
  ASSUME OInv, FlowInv, OInv', stack # <<>>, UNCHANGED <<prog, cfg>>, InputKept',
         NEW fr \in Frame, SetTop(fr), fr.stage # "ok",
         CallersMeet(Carried(fdt', files'), flushed', Callers),
         Meets(Carried(fdt', files'), flushed', Callers, fr, fr.j),
         AtEndAlone(fdt', files', SettledOf(Callers) \cup Settled(fr)),
         Fresh(fdt', files', fr), InputOK(Callers, fr)
  PROVE  FlowInv'
<1>1. Callers \in Seq(Frame) /\ stack' = Append(Callers, fr)
  BY Now
<1>2. AsMeant(Callers, fr, fdt', files', flushed')
  BY DEF AsMeant, AllMeet
<1>3. QED
  BY <1>1, <1>2, NextFlow

(* What is not released keeps its file and its offset, and stays alone.    *)
LEMMA ReleaseKept ==
  ASSUME NEW table, NEW fs, NEW S, NEW T, T \subseteq OpenFds(table), S \cap T = {}
  PROVE  /\ Keeps(table, fs, Release(table, S), fs, T)
         /\ AtEndAlone(table, fs, T) => AtEndAlone(Release(table, S), fs, T)
<1> DEFINE u == Release(table, S)
<1>1. OpenFds(u) = OpenFds(table) \ S /\ \A f \in Fds \ S : u[f] = table[f]
  BY Released
<1> HIDE DEF u
<1>2. \A f \in OpenFds(u) : f \in OpenFds(table) /\ u[f] = table[f]
  BY <1>1 DEF OpenFds
<1>3. \A f \in T : f \in OpenFds(u) /\ u[f] = table[f]
  BY <1>1, <1>2
<1>4. Keeps(table, fs, u, fs, T)
  BY <1>2, <1>3 DEF Keeps
<1>5. AtEndAlone(table, fs, T) => AtEndAlone(u, fs, T)
  BY <1>2, <1>3 DEF AtEndAlone
<1>6. QED
  BY <1>4, <1>5 DEF u

LEMMA KeepsFewer ==
  ASSUME NEW t, NEW fs, NEW u, NEW gs, NEW S, Keeps(t, fs, u, gs, S), NEW T, T \subseteq S
  PROVE  Keeps(t, fs, u, gs, T)
BY DEF Keeps

LEMMA BranchConsumedFlow ==
  ASSUME OInv, FlowInv, OInv', BranchConsumed
  PROVE  FlowInv'
<1>1. IInv /\ prog \in ProgramType
  BY NowCarried DEF OInv
<1>2. /\ stack # <<>> /\ Top \in Frame /\ FrameShape(Top) /\ IInv
      /\ Top.stage \in {"file", "links"}
      /\ Top.stage = "links" => prog.links[Top.node] # <<>>
      /\ Top.i \in DOMAIN Top.active /\ Top.j > Len(Targets(Top))
      /\ UNCHANGED <<prog, cfg, files, flushed>>
  BY <1>1, AtTop DEF BranchConsumed, At
<1> DEFINE b  == Top.active[Top.i]
           fr == [Top EXCEPT !.i = @ + 1, !.j = IF Top.stage = "file" THEN 0 ELSE 1]
           t  == Carried(fdt, files)
           u  == Carried(fdt', files')
           S  == SettledOf(Callers) \cup Settled(fr)
<1>3. Top.i + 1 \in Nat \ {0}
  BY <1>2, FrameFields
<1>4. /\ fr \in Frame /\ fr.node = Top.node /\ fr.stage = Top.stage
      /\ fr.active = Top.active /\ fr.next = Top.next /\ fr.i = Top.i + 1 /\ fr.j \in {0, 1}
  BY <1>2, <1>3 DEF Frame
<1>5. SetTop(fr) /\ fdt' = Release(fdt, {b})
  BY DEF BranchConsumed
<1> HIDE DEF fr
<1>6. /\ Walked \in Walks /\ InputKept /\ Callers \in Seq(Frame)
      /\ RunningWith(Callers, Top, fdt)
      /\ CallersMeet(t, flushed, Callers) /\ Meets(t, flushed, Callers, Top, Top.j)
      /\ AtEndAlone(fdt, files, SettledOf(Callers) \cup Settled(Top))
      /\ SettledOf(Callers) \subseteq LiveOf(Callers)
      /\ \A k \in DOMAIN Callers : Callers[k].stage # "enter"
  BY <1>2, NowFlow DEF AsMeant
<1>7. /\ {b} \ {NoFd} \subseteq Names(Top.active)
      /\ Pending(Top) = Pending(fr) \cup ({b} \ {NoFd})
      /\ Distinct(Rest(Top)) => b \notin Pending(fr)
  BY <1>2, <1>4, OneConsumed
<1> HIDE DEF b
<1>8. /\ LiveNames(Top) = Pending(Top) \cup Names(Top.next)
      /\ LiveNames(fr) = Pending(fr) \cup Names(Top.next)
      /\ Distinct(Rest(Top)) /\ Pending(Top) \cap Names(Top.next) = {}
  BY <1>2, <1>4, <1>6, FrameLists DEF RunningWith
<1>9. LiveNames(fr) \subseteq LiveNames(Top) \ {b}
  BY <1>7, <1>8 DEF Names
<1>10. b \notin LiveOf(Callers)
  <2>1. {b} \ {NoFd} \subseteq Reach(Top)
    BY <1>2, <1>7 DEF Reach
  <2>2. NoFd \notin LiveOf(Callers)
    BY DEF LiveOf, LiveNames, Names
  <2>3. QED
    BY <1>6, <2>1, <2>2 DEF RunningWith
<1>11. /\ LiveOf(Callers) \cup LiveNames(fr) \subseteq OpenFds(fdt)
       /\ {b} \cap (LiveOf(Callers) \cup LiveNames(fr)) = {}
  BY <1>6, <1>9, <1>10, LiveIsOpen
<1>12. Settled(fr) = Names(Top.next) /\ Settled(Top) = Names(Top.next)
  BY <1>2, <1>4 DEF Settled
<1>13. S \subseteq LiveOf(Callers) \cup LiveNames(fr)
  BY <1>6, <1>8, <1>12
<1> HIDE DEF S
<1>14. Keeps(fdt, files, fdt', files', LiveOf(Callers) \cup LiveNames(fr))
  BY <1>2, <1>5, <1>11, ReleaseKept
<1>15. AtEndAlone(fdt', files', S)
  <2>1. AtEndAlone(fdt, files, S)
    BY <1>6, <1>12 DEF S
  <2>2. S \subseteq OpenFds(fdt) /\ {b} \cap S = {}
    BY <1>11, <1>13
  <2>3. QED
    BY <1>2, <1>5, <2>1, <2>2, ReleaseKept
<1>16. Agree(t, u, LiveOf(Callers)) /\ Agree(t, u, LiveNames(fr))
  BY <1>14, KeepsFewer, KeptCarried
<1>17. Targets(Top) \in Seq(Node) /\ Top.node # Root /\ t \in FdTrails
  BY <1>1, <1>2, TargetsType, NowCarried
<1>18. ToCome(t, flushed, fr, fr.j) = ToCome(t, flushed, Top, Top.j)
  BY <1>2, <1>4, <1>6, <1>17, LoopMoves
<1> HIDE DEF t, u
<1>19. Meets(t, flushed, Callers, fr, fr.j)
  BY <1>2, <1>4, <1>6, <1>18 DEF Meets
<1>20. Meets(u, flushed, Callers, fr, fr.j) /\ CallersMeet(u, flushed, Callers)
  BY <1>4, <1>6, <1>16, <1>19, MeetsStable, CallersStable
<1>21. Fresh(fdt', files', fr)
  BY <1>2, <1>4 DEF Fresh
<1>22. InputOK(Callers, fr)
  BY <1>2, <1>17, CallersInput DEF InputOK
<1>23. InputKept'
  BY <1>2, <1>6 DEF InputKept
<1>24. QED
  BY <1>2, <1>4, <1>5, <1>15, <1>20, <1>21, <1>22, <1>23, TopFlow DEF S, u

LEMMA AppendIsCat ==
  ASSUME NEW S, NEW s \in Seq(S), NEW e \in S
  PROVE  Append(s, e) = Cat(s, <<e>>)
BY DEF Cat

LEMMA FlushBranchFlow ==
  ASSUME OInv, FlowInv, OInv', FlushBranch
  PROVE  FlowInv'
<1> DEFINE fd == Top.next[Top.i]
           fr == [Top EXCEPT !.i = @ + 1]
           t  == Carried(fdt, files)
           u  == Carried(fdt', files')
<1>1. IInv /\ prog \in ProgramType
  BY NowCarried DEF OInv
<1>2. /\ stack # <<>> /\ Top \in Frame /\ FrameShape(Top) /\ Top.stage = "flush"
      /\ Top.i \in DOMAIN Top.next /\ SetTop(fr)
      /\ fd = NoFd \/ fd \in OpenFds(fdt)
      /\ flushed' = IF fd = NoFd THEN flushed ELSE Append(flushed, files[fdt[fd]].trail)
      /\ files' = Seek(fd, TRUE)
      /\ UNCHANGED <<prog, cfg, fdt>>
  BY <1>1, AtTop DEF FlushBranch
<1>3. Top.node = Root
  BY <1>2 DEF FrameShape
<1>4. Top.i + 1 \in Nat \ {0}
  BY <1>2, FrameFields
<1>5. /\ fr \in Frame /\ fr.node = Root /\ fr.stage = "flush"
      /\ fr.next = Top.next /\ fr.i = Top.i + 1
  BY <1>2, <1>3, <1>4 DEF Frame
<1> HIDE DEF fr
<1>6. /\ Walked \in Walks /\ InputKept /\ Callers = <<>> /\ t \in FdTrails
      /\ RunningWith(Callers, Top, fdt)
      /\ Meets(t, flushed, Callers, Top, Top.j)
      /\ AtEndAlone(fdt, files, SettledOf(Callers) \cup Settled(Top))
      /\ SettledOf(Callers) \cup Settled(Top) \subseteq OpenFds(fdt)
      /\ InputOK(Callers, Top)
  BY <1>1, <1>2, <1>3, NowFlow, NowCarried, RootOwns DEF AsMeant
<1>7. fd # NoFd /\ fd \in OpenFds(fdt)
  <2>1. fd \in Held(Top.next) /\ NoFd \notin Held(Top.next)
    BY <1>2, <1>6 DEF Held, RunningWith, FrameOK
  <2>2. QED
    BY <1>2, <2>1
<1>8. /\ \A o \in Fds : /\ files'[o].trail = files[o].trail
                        /\ files[o].atEnd => files'[o].atEnd
      /\ \A f \in OpenFds(fdt) : fdt[f] \in Fds
  <2>1. /\ files \in [Fds -> OpenFile]
        /\ files' = [o \in Fds |-> IF fd \in OpenFds(fdt) /\ fdt[fd] = o
                                     THEN [files[o] EXCEPT !.atEnd = TRUE] ELSE files[o]]
    BY <1>1, <1>2 DEF IInv, TypeOK, Seek
  <2> HIDE DEF fd
  <2>2. QED
    BY <1>1, <2>1, NowCarried DEF OpenFile
<1>9. u = t
  BY <1>2, <1>8 DEF Carried
<1>10. flushed \in Seq(Trail) /\ t[fd] = files[fdt[fd]].trail
  BY <1>1, <1>7, NowCarried
<1>11. flushed' = Cat(flushed, <<t[fd]>>)
  <2>1. flushed' = Append(flushed, t[fd]) /\ t[fd] \in Trail
    BY <1>1, <1>2, <1>7, <1>10, OneTrail, NowCarried DEF FdTrails, Maps
  <2>2. \A s \in Seq(Trail) : \A e \in Trail : Append(s, e) = Cat(s, <<e>>)
    BY AppendIsCat
  <2>3. QED
    BY <1>10, <2>1, <2>2, Zenon
<1>12. ToCome(t, Cat(flushed, <<t[fd]>>), fr, fr.j) = ToCome(t, flushed, Top, Top.j)
  BY <1>2, <1>5, <1>6, <1>10, FlushComes
<1> HIDE DEF t, u, fd
<1>13. Meets(u, flushed', Callers, fr, fr.j)
  BY <1>5, <1>6, <1>9, <1>11, <1>12 DEF Meets
<1>14. CallersMeet(u, flushed', Callers)
  BY <1>6, EmptySeq DEF CallersMeet
<1>15. AtEndAlone(fdt', files', SettledOf(Callers) \cup Settled(fr))
  <2>1. Settled(fr) = Settled(Top)
    BY <1>2, <1>5 DEF Settled
  <2>2. QED
    BY <1>2, <1>6, <1>8, <2>1 DEF AtEndAlone
<1>16. Fresh(fdt', files', fr)
  BY <1>5 DEF Fresh
<1>17. InputOK(Callers, fr)
  BY <1>2, <1>6 DEF InputOK
<1>18. InputKept'
  <2>1. \A f \in cfg.foreign : f \in Fds
    BY <1>1, ForeignFds DEF IInv
  <2>2. QED
    BY <1>2, <1>6, <1>8, <2>1 DEF InputKept
<1>19. QED
  BY <1>2, <1>5, <1>13, <1>14, <1>15, <1>16, <1>17, <1>18, TopFlow DEF u
----------------------------------------------------------------------------
(* Returns                                                                 *)

(* The caller of a node that delivers, after it has taken all of it.       *)
LEMMA TakenFields ==
  ASSUME Caller \in Frame, NEW part \in FdList, Taken(part) \in Frame
  PROVE  LET d == Taken(part) IN
         /\ d.node = Caller.node /\ d.stage = Caller.stage /\ d.arg = Caller.arg
         /\ d.active = Caller.active /\ d.next = Cat(Caller.next, part)
         /\ d.i = Caller.i /\ d.j = Caller.j
         /\ Settled(d) \subseteq Settled(Caller) \cup Names(part)
<1> DEFINE d == Taken(part)
<1>1. /\ d.node = Caller.node /\ d.stage = Caller.stage /\ d.arg = Caller.arg
      /\ d.active = Caller.active /\ d.next = Caller.next \o part
      /\ d.i = Caller.i /\ d.j = Caller.j
  BY DEF Taken, Frame
<1>2. Names(Caller.next \o part) = Names(Caller.next) \cup Names(part)
  BY FrameFields, CatLists
<1> HIDE DEF d
<1>3. Settled(d) \subseteq Settled(Caller) \cup Names(part)
  BY <1>1, <1>2 DEF Settled, Pending, Rest
<1>4. QED
  BY <1>1, <1>3 DEF d, Cat

LEMMA DeliveredIsSettled ==
  ASSUME OInv, Delivering
  PROVE  Names(Delivered) \subseteq Settled(Top)
<1>1. /\ stack # <<>> /\ Top \in Frame /\ Top.stage = "links" /\ FrameOK(Top)
  BY DeliveredOwned DEF RunningWith
<1>2. CASE Terminal
  <2>1. Top.i = 1 /\ Top.next = <<>>
    BY <1>1, <1>2 DEF FrameOK, Terminal
  <2>2. Pending(Top) = Names(Top.active)
    BY <1>1, <2>1, AtStart
  <2>3. QED
    BY <1>1, <1>2, <2>2 DEF Settled, Delivered, Terminal
<1>3. CASE ~ Terminal
  BY <1>3 DEF Settled, Delivered
<1>4. QED
  BY <1>2, <1>3

LEMMA DeliverFlow ==
  ASSUME OInv, FlowInv, OInv', Deliver
  PROVE  FlowInv'
<1> DEFINE fr == [Top EXCEPT !.stage = "ok", !.active = <<>>, !.next = <<>>]
           d  == Taken(Delivered)
           c  == Append(Below, d)
           t  == Carried(fdt, files)
<1>1. IInv /\ prog \in ProgramType
  BY NowCarried DEF OInv
<1>2. /\ stack # <<>> /\ Top \in Frame /\ Top.stage = "links" /\ Top.node # Root
      /\ Delivered \in FdList
      /\ UNCHANGED <<prog, cfg, fdt, files, flushed>>
  BY DeliveredOwned DEF Deliver
<1>3. fr \in Frame /\ fr.stage = "ok" /\ fr.next = <<>>
  BY <1>2, EmptyList DEF Frame, Stages
<1>4. HandOver(fr) /\ Fits(Outputs, Delivered) /\ Delivering
  BY DEF Deliver
<1> HIDE DEF fr
<1>5. /\ Below \in Seq(Frame) /\ Caller \in Frame /\ Callers = Append(Below, Caller)
      /\ Outputs = Caller.next
      /\ Caller.stage \in {"entries", "file", "links"}
      /\ FrameShape(Caller) /\ Calls(Caller, Top)
  BY <1>2, NowCaller DEF Outputs
<1>6. Moved(Caller.next, Delivered) = Caller.next \o Delivered
  BY <1>4, <1>5 DEF Moved
<1>7. d \in Frame /\ stack' = Append(c, fr)
  BY <1>2, <1>3, <1>4, <1>6, HandOverStack
<1>8. /\ d.node = Caller.node /\ d.stage = Caller.stage /\ d.active = Caller.active
      /\ d.next = Cat(Caller.next, Delivered) /\ d.i = Caller.i /\ d.j = Caller.j
      /\ Settled(d) \subseteq Settled(Caller) \cup Names(Delivered)
  BY <1>2, <1>5, <1>7, TakenFields
<1>9. c \in Seq(Frame)
  BY <1>5, <1>7, AppendProperties
<1>10. /\ Walked \in Walks /\ t \in FdTrails /\ flushed \in Seq(Trail) /\ InputKept
       /\ CallersMeet(t, flushed, Callers) /\ Meets(t, flushed, Callers, Top, Top.j)
       /\ AtEndAlone(fdt, files, SettledOf(Callers) \cup Settled(Top))
       /\ FrameOK(Top)
  BY <1>1, <1>2, NowFlow, NowCarried DEF AsMeant, RunningWith
<1>11. /\ CallersMeet(t, flushed, Below) /\ Meets(t, flushed, Below, Caller, Caller.j)
       /\ SettledOf(Callers) = SettledOf(Below) \cup Settled(Caller)
  BY <1>5, <1>10, OneMoreMeets
<1>12. /\ InLoop(Caller)
       /\ ToCome(t, flushed, Top, Top.j) = Walked[Top.node][SourceTrail(t, Caller)]
       /\ Top.node = Targets(Caller)[Caller.j] /\ Caller.j \in DOMAIN Targets(Caller)
  BY <1>2, <1>5, <1>10, MeetsCaller DEF Calls
<1>13. Image(t, Delivered) = ToCome(t, flushed, Top, Top.j)
  <2>1. Top.node \in Node
    BY <1>2, FrameFields
  <2>2. QED
    BY <1>1, <1>2, <1>4, <1>10, <2>1, LinksEnd DEF Delivering, Delivered, Terminal
<1> HIDE DEF d, t
<1>14. ToCome(t, flushed, d, Caller.j + 1) = ToCome(t, flushed, Caller, Caller.j)
  BY <1>1, <1>2, <1>5, <1>7, <1>8, <1>10, <1>12, <1>13, CallComes
<1>15. Meets(t, flushed, Below, d, d.j + 1)
  BY <1>8, <1>11, <1>14 DEF Meets
<1>16. SubSeq(c, 1, Len(c) - 1) = Below /\ c[Len(c)] = d
  BY <1>5, <1>7, AppendUndone
<1>17. SettledOf(c) = SettledOf(Below) \cup Settled(d)
  BY <1>5, <1>7, OneMoreMeets
<1> HIDE DEF c
<1>18. AllMeet(t, flushed, c, fr)
  BY <1>3, <1>11, <1>15, <1>16 DEF AllMeet
<1>19. AtEndAlone(fdt, files, SettledOf(c) \cup Settled(fr))
  <2>1. Settled(fr) = {}
    BY <1>3, EmptyList DEF Settled
  <2>2. SettledOf(c) \cup Settled(fr) \subseteq SettledOf(Callers) \cup Settled(Top)
    BY <1>4, <1>8, <1>11, <1>17, <2>1, DeliveredIsSettled
  <2>3. QED
    BY <1>10, <2>2, FewerSettled
<1>20. Fresh(fdt, files, fr) /\ InputOK(c, fr)
  BY <1>2, <1>3, CallersInput DEF Fresh, InputOK
<1>21. AsMeant(c, fr, fdt, files, flushed)
  BY <1>18, <1>19, <1>20 DEF AsMeant, t
<1>22. AsMeant(c, fr, fdt', files', flushed')
  BY <1>2, <1>21
<1>23. InputKept'
  BY <1>2, <1>10 DEF InputKept
<1>24. QED
  BY <1>2, <1>3, <1>7, <1>9, <1>22, <1>23, NextFlow

LEMMA FinishOkFlow ==
  ASSUME OInv, FlowInv, OInv', FinishOk
  PROVE  FlowInv'
<1> DEFINE d == [Caller EXCEPT !.j = @ + 1]
           t == Carried(fdt, files)
<1>1. IInv
  BY DEF OInv
<1>2. /\ stack # <<>> /\ Top \in Frame /\ Top.stage = "ok" /\ Top.node # Root
      /\ UNCHANGED <<prog, cfg, fdt, files, flushed>>
  BY <1>1, AtTop DEF FinishOk, FrameShape
<1>3. /\ Below \in Seq(Frame) /\ Caller \in Frame /\ Callers = Append(Below, Caller)
      /\ \A fr \in Frame : [Callers EXCEPT ![Len(Callers)] = fr] = Append(Below, fr)
      /\ Caller.stage \in {"entries", "file", "links"}
  BY <1>2, NowCaller
<1>4. /\ d \in Frame /\ d.node = Caller.node /\ d.stage = Caller.stage /\ d.arg = Caller.arg
      /\ d.active = Caller.active /\ d.next = Caller.next /\ d.i = Caller.i
      /\ d.j = Caller.j + 1
  <2>1. Caller.j + 1 \in Nat
    BY <1>3, FrameFields
  <2>2. QED
    BY <1>3, <2>1 DEF Frame
<1>5. stack' = Append(Below, d)
  <2>1. stack' = [Callers EXCEPT ![Len(Callers)] = d]
    BY DEF FinishOk, Caller
  <2> HIDE DEF d
  <2>2. QED
    BY <1>3, <1>4, <2>1
<1> HIDE DEF d
<1>6. AsMeant(Callers, Top, fdt, files, flushed) /\ InputKept
  BY <1>2, NowFlow
<1>7. /\ CallersMeet(t, flushed, Below)
      /\ Meets(t, flushed, Below, Caller, Caller.j + 1)
  <2>1. SubSeq(Callers, 1, Len(Callers) - 1) = Below /\ Callers[Len(Callers)] = Caller
    BY DEF Below, Caller
  <2>2. QED
    BY <1>2, <1>6, <2>1 DEF AsMeant, AllMeet
<1>8. Meets(t, flushed, Below, d, d.j)
  <2>1. \A out, j : ToCome(t, out, d, j) = ToCome(t, out, Caller, j)
    BY <1>4, SameComes
  <2>2. QED
    BY <1>4, <1>7, <2>1 DEF Meets
<1>9. AllMeet(t, flushed, Below, d)
  BY <1>3, <1>4, <1>7, <1>8 DEF AllMeet
<1>10. AtEndAlone(fdt, files, SettledOf(Below) \cup Settled(d))
  <2>1. Settled(d) = Settled(Caller)
    BY <1>4 DEF Settled, Pending, Rest
  <2>2. SettledOf(Callers) = SettledOf(Below) \cup Settled(Caller)
    BY <1>3, OneMoreMeets
  <2>3. QED
    BY <1>6, <2>1, <2>2, FewerSettled DEF AsMeant
<1>11. Fresh(fdt, files, d) /\ InputOK(Below, d)
  BY <1>2, <1>3, <1>4, CallersInput DEF Fresh, InputOK
<1>12. AsMeant(Below, d, fdt, files, flushed)
  BY <1>9, <1>10, <1>11 DEF AsMeant
<1>13. AsMeant(Below, d, fdt', files', flushed')
  BY <1>2, <1>12
<1>14. InputKept'
  BY <1>2, <1>6 DEF InputKept
<1>15. QED
  BY <1>2, <1>3, <1>4, <1>5, <1>13, <1>14, NextFlow
----------------------------------------------------------------------------
(* Calls                                                                   *)

(* A branch a call is made for is none of those that are done with, and    *)
(* the first call of run_model duplicates something the run was started    *)
(* with.                                                                   *)
LEMMA CallSource ==
  ASSUME OInv, FlowInv, Calling
  PROVE  /\ stack # <<>> /\ Top \in Frame /\ InLoop(Top)
         /\ Top.stage \in {"entries", "file", "links"}
         /\ Targets(Top)[Top.j] \in Node
         /\ Source(Top) \in OpenFds(fdt) \cup {NoFd} =>
              cfg.fd_in \in cfg.foreign \cup {NoFd}
         /\ Source(Top) \in OpenFds(fdt) =>
              Source(Top) \notin SettledOf(Callers) \cup Settled(Top)
<1>1. IInv /\ prog \in ProgramType
  BY NowCarried DEF OInv
<1>2. /\ stack # <<>> /\ Top \in Frame /\ FrameShape(Top)
      /\ Top.stage \in {"entries", "file", "links"}
      /\ Top.j \in DOMAIN Targets(Top) /\ Targets(Top)[Top.j] \in Node
      /\ Top.stage # "entries" => Top.i \in DOMAIN Top.active
  BY <1>1, TargetIsNode, AtTop DEF Calling, At
<1>3. Top.node = Root <=> Top.stage = "entries"
  BY <1>1, <1>2, TargetsType
<1>4. /\ RunningWith(Callers, Top, fdt) /\ InputOK(Callers, Top)
      /\ SettledOf(Callers) \subseteq LiveOf(Callers)
      /\ Settled(Top) \subseteq LiveNames(Top)
  BY <1>2, NowFlow DEF AsMeant
<1>5. CASE Top.node = Root
  <2>1. Source(Top) = cfg.fd_in
    BY <1>5 DEF Source
  <2>2. ASSUME cfg.fd_in \in OpenFds(fdt)
        PROVE  cfg.fd_in \in cfg.foreign \cup {NoFd}
    <3>1. CASE Callers = <<>> /\ Top.j = 1
      <4>1. Top.next = <<>>
        BY <1>3, <1>4, <1>5, <3>1 DEF RunningWith
      <4>2. Own(fdt) = {}
        BY <1>2, <1>5, <4>1, RootOwns, EmptyList
      <4>3. QED
        BY <2>2, <4>2 DEF Own
    <3>2. QED
      BY <1>4, <3>1 DEF InputOK
  <2>3. ASSUME cfg.fd_in \in OpenFds(fdt)
        PROVE  cfg.fd_in \notin SettledOf(Callers) \cup Settled(Top)
    <3>1. cfg.fd_in \in cfg.foreign
      BY <2>2, <2>3, NegativeIsNoFd DEF OpenFds, NoFd
    <3>2. SettledOf(Callers) \cup Settled(Top) \subseteq Own(fdt)
      BY <1>4 DEF RunningWith
    <3>3. QED
      BY <3>1, <3>2 DEF Own
  <2>4. QED
    BY <1>2, <1>5, <2>1, <2>2, <2>3 DEF InLoop
<1>6. CASE Top.node # Root
  <2>1. Top.i \in DOMAIN Top.active /\ Source(Top) = Top.active[Top.i]
    BY <1>2, <1>3, <1>6 DEF Source
  <2>2. Source(Top) \in Pending(Top) \cup {NoFd}
    BY <1>2, <2>1, RestNames, FrameFields DEF Pending, Rest
  <2>3. /\ LiveNames(Top) = Pending(Top) \cup Names(Top.next)
        /\ Pending(Top) \cap Names(Top.next) = {}
    BY <1>2, <1>4, FrameLists DEF RunningWith
  <2>4. LiveNames(Top) \cap LiveOf(Callers) = {}
    BY <1>2, <1>4, LiveIsReached DEF RunningWith
  <2>5. Settled(Top) = Names(Top.next)
    <3>1. Top.stage = "links" => prog.links[Top.node] # <<>>
      BY <1>2, EmptySeq DEF Targets
    <3>2. QED
      BY <1>2, <3>1 DEF Settled
  <2>6. NoFd \notin OpenFds(fdt)
    BY NegativeIsNoFd DEF OpenFds, NoFd
  <2>7. QED
    BY <1>2, <1>4, <1>6, <2>1, <2>2, <2>3, <2>4, <2>5, <2>6, CallersInput DEF InLoop
<1>7. QED
  BY <1>5, <1>6

LEMMA CallFlow ==
  ASSUME OInv, FlowInv, OInv', Calling, UNCHANGED <<prog, cfg, flushed>>, InputKept',
         NEW fd \in OwnFds \cup {NoFd},
         stack' = Append(stack, FrameOf(Targets(Top)[Top.j], fd)),
         cfg.fd_in \in cfg.foreign \cup {NoFd},
         Keeps(fdt, files, fdt', files', LiveOf(Callers) \cup LiveNames(Top)),
         AtEndAlone(fdt', files', SettledOf(Callers) \cup Settled(Top)),
         Carried(fdt', files')[fd] = SourceTrail(Carried(fdt', files'), Top),
         fd # NoFd => ~ files'[fdt'[fd]].atEnd
  PROVE  FlowInv'
<1> DEFINE n == Targets(Top)[Top.j]
           fr == FrameOf(n, fd)
           t == Carried(fdt, files)
           u == Carried(fdt', files')
<1>1. /\ stack # <<>> /\ Top \in Frame /\ InLoop(Top) /\ n \in Node
      /\ Top.stage \in {"entries", "file", "links"}
  BY CallSource
<1>2. fr \in Frame /\ fr.node = n /\ fr.stage = "enter" /\ fr.arg = fd /\ fr.next = <<>>
  BY <1>1, EmptyList DEF FrameOf, Frame, Stages
<1> HIDE DEF fr, n
<1>3. /\ Callers \in Seq(Frame) /\ stack = Append(Callers, Top) /\ stack \in Seq(Frame)
      /\ CallersMeet(t, flushed, Callers) /\ Meets(t, flushed, Callers, Top, Top.j)
      /\ \A k \in DOMAIN Callers : Callers[k].stage # "enter"
  BY <1>1, Now, NowFlow
<1>4. Agree(t, u, LiveOf(Callers)) /\ Agree(t, u, LiveNames(Top))
  BY KeepsFewer, KeptCarried
<1> HIDE DEF t, u
<1>5. CallersMeet(u, flushed, Callers) /\ Meets(u, flushed, Callers, Top, Top.j)
  BY <1>1, <1>3, <1>4, MeetsStable, CallersStable
<1>6. CallersMeet(u, flushed, stack)
  BY <1>1, <1>3, <1>5, OneMoreMeets
<1>7. Meets(u, flushed, stack, fr, fr.j)
  <2>1. ToCome(u, flushed, fr, fr.j) = Walked[n][u[fd]]
    BY <1>2, ToComeAt
  <2>2. u[fd] = SourceTrail(u, Top)
    BY DEF u
  <2>3. QED
    BY <1>1, <1>2, <1>3, <2>1, <2>2, MeetsCaller
<1>8. AllMeet(u, flushed, stack, fr)
  BY <1>2, <1>6, <1>7 DEF AllMeet
<1>9. AtEndAlone(fdt', files', SettledOf(stack) \cup Settled(fr))
  <2>1. Settled(fr) = {}
    BY <1>2, EmptyList DEF Settled
  <2>2. SettledOf(stack) = SettledOf(Callers) \cup Settled(Top)
    BY <1>1, <1>3, OneMoreMeets
  <2>3. QED
    BY <2>1, <2>2
<1>10. Fresh(fdt', files', fr)
  BY <1>2 DEF Fresh
<1>11. AsMeant(stack, fr, fdt', files', flushed')
  BY <1>8, <1>9, <1>10 DEF AsMeant, InputOK, u
<1>12. stack' = Append(stack, fr)
  BY DEF fr, n
<1>13. QED
  BY <1>2, <1>3, <1>11, <1>12, NextFlow

(* Moving an offset leaves what the files hold.                            *)
LEMMA Sought ==
  ASSUME IInv, NEW fd \in OpenFds(fdt), NEW end \in BOOLEAN
  PROVE  LET fs == Seek(fd, end) IN
         /\ \A o \in Fds : fs[o].trail = files[o].trail
         /\ \A o \in Fds : fs[o].atEnd = IF fdt[fd] = o THEN end ELSE files[o].atEnd
BY DEF IInv, TypeOK, Seek, OpenFile

(* A duplicate of fd under the number f, with their offset moved back.     *)
LEMMA DupCarried ==
  ASSUME IInv, NEW fd \in OpenFds(fdt), NEW f \in Fds, IsNextFd(fdt, f),
         fdt' = Dup(fdt, fd, f), files' = Seek(fd, FALSE)
  PROVE  /\ f \in OwnFds /\ f # NoFd
         /\ Keeps(fdt, files, fdt', files', OpenFds(fdt))
         /\ ~ files'[fdt'[f]].atEnd
         /\ Carried(fdt', files')[f] = Carried(fdt, files)[fd]
         /\ \A S \in SUBSET OpenFds(fdt) :
              fd \notin S /\ AtEndAlone(fdt, files, S) => AtEndAlone(fdt', files', S)
<1> DEFINE o == fdt[fd]
<1>1. o \in Fds /\ \A g \in OpenFds(fdt) : g \in Fds /\ fdt[g] \in Fds
  BY NowCarried
<1>2. fdt' = [fdt EXCEPT ![f] = o]
  BY DEF Dup
<1>3. /\ \A p \in Fds : files'[p].trail = files[p].trail
      /\ \A p \in Fds : files'[p].atEnd = IF o = p THEN FALSE ELSE files[p].atEnd
  BY Sought
<1> HIDE DEF o
<1>4. /\ f \notin OpenFds(fdt) /\ f \in OwnFds
      /\ OpenFds(fdt') = OpenFds(fdt) \cup {f}
      /\ fdt'[f] = o /\ \A g \in OpenFds(fdt) : fdt'[g] = fdt[g]
  <2> DEFINE t == [fdt EXCEPT ![f] = o]
  <2>1. /\ f \notin OpenFds(fdt) /\ f \in OwnFds
        /\ OpenFds(t) = OpenFds(fdt) \cup {f}
        /\ t[f] = o /\ \A g \in OpenFds(fdt) : t[g] = fdt[g]
    BY <1>1, Opened
  <2>2. fdt' = t
    BY <1>2
  <2> HIDE DEF t
  <2>3. QED
    BY <2>1, <2>2
<1>5. Keeps(fdt, files, fdt', files', OpenFds(fdt))
  BY <1>1, <1>3, <1>4 DEF Keeps
<1>6. ~ files'[fdt'[f]].atEnd
  BY <1>1, <1>3, <1>4
<1>7. Carried(fdt', files')[f] = Carried(fdt, files)[fd]
  <2>1. Carried(fdt', files')[f] = files'[o].trail
    BY <1>4 DEF Carried
  <2>2. Carried(fdt, files)[fd] = files[o].trail
    BY NowCarried DEF o
  <2>3. QED
    BY <1>1, <1>3, <2>1, <2>2
<1>8. ASSUME NEW S \in SUBSET OpenFds(fdt), fd \notin S, AtEndAlone(fdt, files, S)
      PROVE  AtEndAlone(fdt', files', S)
  <2>1. \A g \in S : fdt[g] # o
    BY <1>8 DEF AtEndAlone, o
  <2>2. \A g \in S : g \in OpenFds(fdt) /\ fdt'[g] = fdt[g] /\ fdt[g] \in Fds
    BY <1>1, <1>4, <1>8
  <2>3. \A g \in S : files'[fdt'[g]].atEnd
    BY <1>3, <1>8, <2>1, <2>2 DEF AtEndAlone
  <2>4. ASSUME NEW g \in S, NEW h \in OpenFds(fdt'), fdt'[h] = fdt'[g]
        PROVE  h = g
    BY <1>4, <1>8, <2>1, <2>2, <2>4 DEF AtEndAlone
  <2>5. QED
    BY <2>3, <2>4 DEF AtEndAlone
<1>9. f # NoFd
  BY NegativeIsNoFd DEF NoFd
<1>10. QED
  BY <1>4, <1>5, <1>6, <1>7, <1>8, <1>9

LEMMA CallBranchFlow ==
  ASSUME OInv, FlowInv, OInv', CallBranch
  PROVE  FlowInv'
<1> DEFINE src == Source(Top)
           t == Carried(fdt, files)
           u == Carried(fdt', files')
           S == SettledOf(Callers) \cup Settled(Top)
<1>1. IInv
  BY DEF OInv
<1>2. Calling /\ UNCHANGED <<prog, cfg, flushed>>
  BY DEF CallBranch
<1>3. /\ stack # <<>> /\ Top \in Frame /\ InLoop(Top)
      /\ src \in OpenFds(fdt) \cup {NoFd} => cfg.fd_in \in cfg.foreign \cup {NoFd}
      /\ src \in OpenFds(fdt) => src \notin S
      /\ Top.stage \in {"entries", "file", "links"}
  BY <1>2, CallSource
<1>4. /\ AtEndAlone(fdt, files, S) /\ InputKept
      /\ LiveOf(Callers) \cup LiveNames(Top) \subseteq OpenFds(fdt)
      /\ S \in SUBSET OpenFds(fdt)
  BY <1>3, NowFlow, LiveIsOpen DEF AsMeant
<1>5. t[NoFd] = <<>> /\ \A f \in OpenFds(fdt) : t[f] = files[fdt[f]].trail /\ fdt[f] \in Fds
  BY <1>1, NowCarried
<1>6. /\ Top.node = Root => src = cfg.fd_in
      /\ Top.node # Root => src = Top.active[Top.i]
  BY DEF Source
<1>7. ASSUME src \in OpenFds(fdt) \cup {NoFd}
      PROVE  t[src] = SourceTrail(t, Top)
  <2>1. CASE Top.node = Root /\ cfg.fd_in # NoFd
    <3>1. cfg.fd_in \in cfg.foreign
      BY <1>3, <1>7, <2>1
    <3>2. fdt[cfg.fd_in] = cfg.fd_in
      BY <1>1, <3>1 DEF IInv, NoForeignClose
    <3>3. t[src] = <<Root>>
      BY <1>4, <1>5, <1>6, <1>7, <2>1, <3>1, <3>2 DEF InputKept
    <3>4. QED
      BY <2>1, <3>3 DEF SourceTrail, Start
  <2>2. CASE Top.node = Root /\ cfg.fd_in = NoFd
    BY <1>5, <1>6, <2>2 DEF SourceTrail, Start
  <2>3. CASE Top.node # Root
    BY <1>6, <2>3 DEF SourceTrail
  <2>4. QED
    BY <2>1, <2>2, <2>3
<1>8. CASE /\ src = NoFd /\ stack' = Append(stack, FrameOf(Targets(Top)[Top.j], NoFd))
           /\ UNCHANGED <<fdt, files>>
  <2>1. Keeps(fdt, files, fdt', files', LiveOf(Callers) \cup LiveNames(Top))
    BY <1>4, <1>8 DEF Keeps
  <2>2. AtEndAlone(fdt', files', S)
    BY <1>4, <1>8
  <2>3. u[NoFd] = SourceTrail(u, Top)
    BY <1>7, <1>8
  <2>4. InputKept'
    BY <1>2, <1>4, <1>8 DEF InputKept
  <2>5. QED
    BY <1>2, <1>3, <1>8, <2>1, <2>2, <2>3, <2>4, CallFlow
<1>9. CASE /\ src \in OpenFds(fdt) /\ files' = Seek(src, FALSE)
           /\ \E f \in Fds : /\ IsNextFd(fdt, f)
                             /\ fdt' = Dup(fdt, src, f)
                             /\ stack' = Append(stack, FrameOf(Targets(Top)[Top.j], f))
  <2>1. PICK f \in Fds : /\ IsNextFd(fdt, f)
                         /\ fdt' = Dup(fdt, src, f)
                         /\ stack' = Append(stack, FrameOf(Targets(Top)[Top.j], f))
    BY <1>9
  <2>2. /\ f \in OwnFds /\ f # NoFd
        /\ Keeps(fdt, files, fdt', files', OpenFds(fdt))
        /\ ~ files'[fdt'[f]].atEnd
        /\ u[f] = t[src]
        /\ AtEndAlone(fdt', files', S)
    BY <1>1, <1>3, <1>4, <1>9, <2>1, DupCarried
  <2>3. Keeps(fdt, files, fdt', files', LiveOf(Callers) \cup LiveNames(Top))
    BY <1>4, <2>2, KeepsFewer
  <2>4. SourceTrail(u, Top) = SourceTrail(t, Top)
    <3>1. Agree(t, u, LiveNames(Top))
      BY <2>3, KeepsFewer, KeptCarried
    <3>2. QED
      BY <1>3, <3>1, Stable
  <2>5. u[f] = SourceTrail(u, Top)
    BY <1>7, <1>9, <2>2, <2>4
  <2>6. InputKept'
    <3>1. \A o \in Fds : files'[o].trail = files[o].trail
      BY <1>1, <1>9, Sought
    <3>2. \A g \in cfg.foreign : g \in Fds
      BY <1>1, ForeignFds DEF IInv
    <3>3. QED
      BY <1>2, <1>4, <3>1, <3>2 DEF InputKept
  <2>7. QED
    BY <1>2, <1>3, <1>9, <2>1, <2>2, <2>3, <2>5, <2>6, CallFlow
<1>10. QED
  BY <1>8, <1>9 DEF CallBranch
----------------------------------------------------------------------------
(* A command                                                               *)

(* A command has read `in` and written the artifact o under the number f;  *)
(* `in` is released.                                                       *)
LEMMA MadeCarried ==
  ASSUME IInv, NEW n, NEW in \in OpenFds(fdt) \cup {NoFd},
         NEW f \in Fds, IsNextFd(fdt, f), NEW o \in Fds, IsNewFile(fdt, o),
         fdt' = Release(Created(fdt, f, o), {in}),
         files' = [Seek(in, TRUE) EXCEPT
                     ![o] = [trail |-> Append(Reads(in), n), atEnd |-> TRUE]]
  PROVE  /\ f \in OwnFds /\ f # NoFd /\ f \notin OpenFds(fdt)
         /\ Keeps(fdt, files, fdt', files', OpenFds(fdt) \ {in})
         /\ Carried(fdt', files')[f] = Append(Reads(in), n)
         /\ \A S \in SUBSET (OpenFds(fdt) \ {in}) :
              AtEndAlone(fdt, files, S) => AtEndAlone(fdt', files', S \cup {f})
         /\ \A g \in OpenFds(fdt) : files'[fdt[g]].trail = files[fdt[g]].trail
<1> DEFINE T == Created(fdt, f, o)
           a == [trail |-> Append(Reads(in), n), atEnd |-> TRUE]
<1>1. \A g \in OpenFds(fdt) : g \in Fds /\ fdt[g] \in Fds /\ fdt[g] # o
  BY NowCarried DEF IsNewFile, IsLowest
<1>2. /\ f \notin OpenFds(fdt) /\ f \in OwnFds
      /\ OpenFds(T) = OpenFds(fdt) \cup {f}
      /\ T[f] = o /\ \A g \in OpenFds(fdt) : T[g] = fdt[g]
  BY Opened DEF Created
<1>3. fdt' = Release(T, {in})
  OBVIOUS
<1> HIDE DEF T
<1>4. OpenFds(fdt') = (OpenFds(fdt) \cup {f}) \ {in} /\ \A g \in Fds \ {in} : fdt'[g] = T[g]
  <2> DEFINE r == Release(T, {in})
  <2>1. OpenFds(r) = OpenFds(T) \ {in} /\ \A g \in Fds \ {in} : r[g] = T[g]
    BY Released, Zenon
  <2>2. fdt' = r
    BY <1>3
  <2> HIDE DEF r
  <2>3. QED
    BY <1>2, <2>1, <2>2
<1>5. f # NoFd /\ f # in
  BY <1>2, NegativeIsNoFd DEF NoFd
<1>6. /\ fdt'[f] = o /\ f \in OpenFds(fdt')
      /\ \A g \in OpenFds(fdt) \ {in} : g \in OpenFds(fdt') /\ fdt'[g] = fdt[g]
      /\ \A g \in OpenFds(fdt') : g = f \/ g \in OpenFds(fdt) \ {in}
  BY <1>1, <1>2, <1>4, <1>5
<1> DEFINE fs == Seek(in, TRUE)
<1>7. /\ fs \in [Fds -> OpenFile]
      /\ \A p \in Fds : fs[p].trail = files[p].trail
      /\ \A p \in Fds : files[p].atEnd => fs[p].atEnd
  <2>1. fs \in [Fds -> OpenFile] /\ files \in [Fds -> OpenFile]
    BY SeekKeeps DEF IInv, TypeOK
  <2>2. fs = [p \in Fds |-> IF in \in OpenFds(fdt) /\ fdt[in] = p
                              THEN [files[p] EXCEPT !.atEnd = TRUE] ELSE files[p]]
    BY DEF Seek
  <2>3. \A p \in Fds : fs[p] = files[p] \/ fs[p] = [files[p] EXCEPT !.atEnd = TRUE]
    BY <2>2
  <2> HIDE DEF fs
  <2>4. ASSUME NEW p \in Fds
        PROVE  fs[p].trail = files[p].trail /\ (files[p].atEnd => fs[p].atEnd)
    <3>1. files[p] \in OpenFile
      BY <2>1
    <3>2. CASE fs[p] = files[p]
      BY <3>2
    <3>3. CASE fs[p] = [files[p] EXCEPT !.atEnd = TRUE]
      BY <3>1, <3>3 DEF OpenFile
    <3>4. QED
      BY <2>3, <3>2, <3>3
  <2>5. QED
    BY <2>1, <2>4
<1> HIDE DEF fs
<1>8. files' = [fs EXCEPT ![o] = a]
  BY DEF fs
<1>9. a.trail = Append(Reads(in), n) /\ a.atEnd
  OBVIOUS
<1> HIDE DEF a
<1>10. files'[o] = a /\ \A p \in Fds : p # o => files'[p] = fs[p]
  BY <1>7, <1>8
<1>11. \A g \in OpenFds(fdt) : /\ files'[fdt[g]].trail = files[fdt[g]].trail
                               /\ files[fdt[g]].atEnd => files'[fdt[g]].atEnd
  BY <1>1, <1>7, <1>10
<1>12. Keeps(fdt, files, fdt', files', OpenFds(fdt) \ {in})
  BY <1>6, <1>11 DEF Keeps
<1>13. Carried(fdt', files')[f] = Append(Reads(in), n)
  BY <1>6, <1>9, <1>10 DEF Carried
<1>14. ASSUME NEW S \in SUBSET (OpenFds(fdt) \ {in}), AtEndAlone(fdt, files, S)
       PROVE  AtEndAlone(fdt', files', S \cup {f})
  <2>1. \A g \in S : g \in OpenFds(fdt) \ {in} /\ fdt'[g] = fdt[g] /\ fdt[g] # o
    BY <1>1, <1>6, <1>14
  <2>2. \A g \in S \cup {f} : files'[fdt'[g]].atEnd
    BY <1>6, <1>9, <1>10, <1>11, <1>14, <2>1 DEF AtEndAlone
  <2>3. ASSUME NEW g \in S \cup {f}, NEW h \in OpenFds(fdt'), fdt'[h] = fdt'[g]
        PROVE  h = g
    BY <1>1, <1>6, <1>14, <2>1, <2>3 DEF AtEndAlone
  <2>4. QED
    BY <2>2, <2>3 DEF AtEndAlone
<1>15. QED
  BY <1>2, <1>5, <1>11, <1>12, <1>13, <1>14

(* What a command reads is its branch, or nothing after an expansion.      *)
LEMMA ReadsAsRun ==
  ASSUME OInv, FlowInv, stack # <<>>, Top.stage = "exec", Top.node \in Node,
         Top.i \in DOMAIN Top.active
  PROVE  LET in == Top.active[Top.i] IN
         /\ in \in Pending(Top) \cup {NoFd}
         /\ Append(Reads(in), Top.node) = RunOn(prog, Top.node)[Carried(fdt, files)[in]]
<1> DEFINE in == Top.active[Top.i]
           t  == Carried(fdt, files)
<1>1. /\ IInv /\ Top \in Frame /\ AsMeant(Callers, Top, fdt, files, flushed)
      /\ RunningWith(Callers, Top, fdt)
  BY NowFlow
<1>2. in \in Pending(Top) \cup {NoFd}
  BY <1>1, RestNames, FrameFields DEF Pending, Rest
<1>3. /\ t[NoFd] = <<>> /\ NoFd \notin OpenFds(fdt)
      /\ \A g \in OpenFds(fdt) : t[g] = files[fdt[g]].trail
  BY <1>1, NowCarried, NegativeIsNoFd DEF OpenFds, NoFd
<1>4. Pending(Top) \subseteq OpenFds(fdt)
  BY <1>1, LiveIsOpen, FrameLists
<1>5. Reads(in) = IF prog.file[Top.node] = NoFile THEN t[in] ELSE <<>>
  <2>1. CASE in = NoFd
    BY <1>3, <2>1 DEF Reads
  <2>2. CASE in # NoFd /\ prog.file[Top.node] = NoFile
    <3>1. ~ files[fdt[in]].atEnd
      BY <1>1, <1>2, <2>2 DEF AsMeant, Fresh
    <3>2. QED
      BY <1>2, <1>3, <1>4, <2>2, <3>1 DEF Reads
  <2>3. CASE in # NoFd /\ prog.file[Top.node] # NoFile
    <3>1. in \in Settled(Top)
      BY <1>2, <2>3 DEF Settled
    <3>2. files[fdt[in]].atEnd
      BY <1>1, <3>1 DEF AsMeant, AtEndAlone
    <3>3. QED
      BY <2>3, <3>2 DEF Reads
  <2>4. QED
    BY <2>1, <2>2, <2>3
<1>6. t[in] \in Trail
  <2>1. Top.active \in FdList /\ in \in Held(Top.active)
    BY <1>1, FrameFields DEF Held
  <2>2. in \in OwnFds \cup {NoFd} /\ t \in FdTrails
    BY <1>1, <2>1, HeldIsOwn, NowCarried
  <2> HIDE DEF in, t
  <2>3. QED
    BY <2>2, OneTrail
<1> HIDE DEF in, t
<1>7. Append(Reads(in), Top.node) = RunOn(prog, Top.node)[t[in]]
  BY <1>5, <1>6 DEF RunOn
<1>8. QED
  BY <1>2, <1>7 DEF in, t

LEMMA ExecBranchFlow ==
  ASSUME OInv, FlowInv, OInv', ExecBranch
  PROVE  FlowInv'
<1>1. IInv /\ IInv' /\ prog \in ProgramType
  BY NowCarried DEF OInv
<1>2. /\ stack # <<>> /\ Top \in Frame /\ Top.stage = "exec" /\ FrameShape(Top)
      /\ Top.i \in DOMAIN Top.active
      /\ UNCHANGED <<prog, cfg, flushed>>
  BY <1>1, AtTop DEF ExecBranch
<1>3. Top.node \in Node /\ Top.node # Root
  BY <1>2, FrameFields DEF FrameShape
<1> DEFINE in == Top.active[Top.i]
           t  == Carried(fdt, files)
           u  == Carried(fdt', files')
<1>4. PICK f \in Fds, o \in Fds :
         /\ IsNextFd(fdt, f) /\ IsNewFile(fdt, o)
         /\ fdt' = Release(Created(fdt, f, o), {in})
         /\ files' = [Seek(in, TRUE) EXCEPT
                        ![o] = [trail |-> Append(Reads(in), Top.node),
                                atEnd |-> TRUE]]
         /\ SetTop([Top EXCEPT !.next = Append(@, f), !.i = @ + 1])
  BY DEF ExecBranch
<1>5. /\ in \in Pending(Top) \cup {NoFd}
      /\ Append(Reads(in), Top.node) = RunOn(prog, Top.node)[t[in]]
  BY <1>2, <1>3, ReadsAsRun
<1>6. /\ Walked \in Walks /\ InputKept /\ Callers \in Seq(Frame)
      /\ RunningWith(Callers, Top, fdt)
      /\ CallersMeet(t, flushed, Callers) /\ Meets(t, flushed, Callers, Top, Top.j)
      /\ AtEndAlone(fdt, files, SettledOf(Callers) \cup Settled(Top))
      /\ SettledOf(Callers) \subseteq LiveOf(Callers) /\ Settled(Top) \subseteq LiveNames(Top)
      /\ \A k \in DOMAIN Callers : Callers[k].stage # "enter"
      /\ Fresh(fdt, files, Top)
  BY <1>2, NowFlow DEF AsMeant
<1>7. LiveOf(Callers) \subseteq OpenFds(fdt) /\ LiveNames(Top) \subseteq OpenFds(fdt)
  BY <1>6, LiveIsOpen
<1>8. /\ LiveNames(Top) = Pending(Top) \cup Names(Top.next)
      /\ Distinct(Rest(Top)) /\ Pending(Top) \cap Names(Top.next) = {}
  BY <1>2, <1>6, FrameLists DEF RunningWith
<1>9. /\ f \in OwnFds /\ f # NoFd /\ f \notin OpenFds(fdt)
      /\ Keeps(fdt, files, fdt', files', OpenFds(fdt) \ {in})
      /\ u[f] = Append(Reads(in), Top.node)
      /\ \A S \in SUBSET (OpenFds(fdt) \ {in}) :
           AtEndAlone(fdt, files, S) => AtEndAlone(fdt', files', S \cup {f})
      /\ \A g \in OpenFds(fdt) : files'[fdt[g]].trail = files[fdt[g]].trail
  <2>1. in \in OpenFds(fdt) \cup {NoFd}
    BY <1>5, <1>7, <1>8
  <2>2. QED
    BY <1>1, <1>4, <2>1, MadeCarried
<1> DEFINE fr == [Top EXCEPT !.next = Append(@, f), !.i = @ + 1]
<1>10. /\ Top.next \in FdList /\ Append(Top.next, f) = Top.next \o <<f>>
       /\ Append(Top.next, f) \in FdList
       /\ Held(Append(Top.next, f)) = Held(Top.next) \cup {f}
  BY <1>2, <1>9, FrameFields, ListAppend
<1>11. Top.i + 1 \in Nat \ {0}
  BY <1>2, FrameFields
<1>12. /\ fr \in Frame /\ fr.node = Top.node /\ fr.stage = "exec"
       /\ fr.active = Top.active /\ fr.next = Cat(Top.next, <<f>>) /\ fr.i = Top.i + 1
       /\ Names(fr.next) = Names(Top.next) \cup {f}
  BY <1>2, <1>9, <1>10, <1>11 DEF Frame, Cat, Names
<1>13. SetTop(fr)
  BY <1>4
<1> HIDE DEF fr
<1>14. /\ Pending(Top) = Pending(fr) \cup ({in} \ {NoFd})
       /\ in \notin Pending(fr)
  BY <1>2, <1>8, <1>12, OneConsumed
<1>15. in \notin LiveOf(Callers) /\ in \notin Names(Top.next)
  <2>1. LiveNames(Top) \cap LiveOf(Callers) = {}
    BY <1>2, <1>6, LiveIsReached DEF RunningWith
  <2>2. NoFd \notin LiveOf(Callers) /\ NoFd \notin Names(Top.next)
    BY DEF LiveOf, LiveNames, Names
  <2>3. QED
    BY <1>5, <1>8, <2>1, <2>2
<1> HIDE DEF in
<1>16. /\ Agree(t, u, LiveOf(Callers)) /\ Agree(t, u, Names(Top.next)) /\ Agree(t, u, Pending(fr))
  <2>1. /\ LiveOf(Callers) \subseteq OpenFds(fdt) \ {in}
        /\ Names(Top.next) \subseteq OpenFds(fdt) \ {in}
        /\ Pending(fr) \subseteq OpenFds(fdt) \ {in}
    BY <1>7, <1>8, <1>14, <1>15
  <2>2. QED
    BY <1>9, <2>1, KeepsFewer, KeptCarried
<1>17. t \in FdTrails /\ u \in FdTrails
  BY <1>1, NowCarried, NextCarried
<1>18. u[f] = RunOn(prog, Top.node)[t[in]] /\ in = Top.active[Top.i]
  BY <1>5, <1>9 DEF in
<1> HIDE DEF t, u
<1>19. Image(u, Top.next) = Image(t, Top.next) /\ Image(u, Rest(fr)) = Image(t, Rest(fr))
  BY <1>16, ImageAgree DEF Pending
<1>20. ToCome(u, flushed, fr, fr.j) = ToCome(t, flushed, Top, Top.j)
  BY <1>2, <1>3, <1>9, <1>12, <1>17, <1>18, <1>19, ExecComes
<1>21. Meets(u, flushed, Callers, fr, fr.j)
  <2>1. /\ Below \in Seq(Frame) /\ Caller \in Frame /\ Callers = Append(Below, Caller)
        /\ Caller.stage # "enter" /\ LiveNames(Caller) \subseteq LiveOf(Callers)
    BY <1>2, <1>3, NowCaller
  <2>2. InLoop(Caller) => SourceTrail(u, Caller) = SourceTrail(t, Caller)
    <3>1. Agree(t, u, LiveNames(Caller))
      BY <1>16, <2>1 DEF Agree
    <3>2. QED
      BY <2>1, <3>1, Stable
  <2>3. /\ InLoop(Caller)
        /\ ToCome(t, flushed, Top, Top.j) = Walked[Top.node][SourceTrail(t, Caller)]
    BY <1>6, <2>1, MeetsCaller
  <2>4. QED
    BY <1>12, <1>20, <2>1, <2>2, <2>3, MeetsCaller
<1>22. CallersMeet(u, flushed, Callers)
  BY <1>6, <1>16, CallersStable
<1>23. AtEndAlone(fdt', files', SettledOf(Callers) \cup Settled(fr))
  <2> DEFINE S == SettledOf(Callers) \cup (Settled(Top) \ {in})
  <2>1. S \in SUBSET (OpenFds(fdt) \ {in})
    BY <1>6, <1>7, <1>15
  <2>2. AtEndAlone(fdt, files, S)
    BY <1>6, FewerSettled
  <2>3. Settled(fr) \subseteq (Settled(Top) \ {in}) \cup {f}
    BY <1>2, <1>12, <1>14, <1>15 DEF Settled
  <2>4. SettledOf(Callers) \cup Settled(fr) \subseteq S \cup {f}
    BY <2>3
  <2> HIDE DEF S
  <2>5. AtEndAlone(fdt', files', S \cup {f})
    BY <1>9, <2>1, <2>2
  <2>6. QED
    BY <2>4, <2>5, FewerSettled
<1>24. Fresh(fdt', files', fr)
  <2>1. ASSUME prog.file[Top.node] = NoFile
        PROVE  Len(fr.active) = 1 /\ Pending(fr) = {}
    <3>1. Len(Top.active) = 1
      BY <1>2, <1>6, <2>1 DEF Fresh
    <3>2. fr.i > Len(fr.active)
      BY <1>2, <1>12, <3>1, FrameFields
    <3>3. QED
      BY <1>12, <3>1, <3>2, PastTheEnd, EmptyList DEF Pending
  <2>2. QED
    BY <1>12, <2>1 DEF Fresh
<1>25. InputOK(Callers, fr)
  BY <1>2, <1>3, CallersInput DEF InputOK
<1>26. InputKept'
  <2>1. ASSUME cfg.fd_in \in cfg.foreign
        PROVE  cfg.fd_in \in OpenFds(fdt) /\ fdt[cfg.fd_in] = cfg.fd_in
    <3>1. cfg.fd_in \in Fds /\ fdt[cfg.fd_in] = cfg.fd_in
      BY <1>1, <2>1, ForeignFds DEF IInv, NoForeignClose
    <3>2. QED
      BY <3>1, NegativeIsNoFd DEF OpenFds, Closed
  <2>2. QED
    BY <1>2, <1>6, <1>9, <2>1 DEF InputKept
<1>27. QED
  BY <1>2, <1>12, <1>13, <1>21, <1>22, <1>23, <1>24, <1>25, <1>26, TopFlow DEF u
----------------------------------------------------------------------------
(* The invariant of every run                                              *)

LEMMA InitFlow ==
  ASSUME Init, IsFiniteSet(Node), \A p \in Programs : Nested(p)
  PROVE  FlowInv
<1> DEFINE fr == [FrameOf(Root, NoFd) EXCEPT !.stage = "entries"]
           t == Carried(fdt, files)
<1>1. IInv /\ prog \in Programs /\ prog \in ProgramType /\ result = "none" /\ flushed = <<>>
  BY InitHolds, RuntimeAssumption DEF Init
<1>2. Walked \in Walks /\ Meaning
  BY <1>1, WalkUnfolds DEF Walked, Meaning
<1>3. InputKept
  BY RuntimeAssumption DEF Init, InputKept, CfgType
<1>4. /\ fr \in Frame /\ fr.node = Root /\ fr.stage = "entries"
      /\ fr.active = <<>> /\ fr.next = <<>> /\ fr.i = 1 /\ fr.j = 1
  BY EmptyList DEF FrameOf, Frame, Stages
<1>5. stack = <<fr>>
  BY DEF Init
<1> HIDE DEF fr
<1>6. <<>> \in Seq(Frame) /\ stack = Append(<<>>, fr)
  BY <1>4, <1>5, EmptySeq
<1>7. stack # <<>> /\ Top = fr /\ Callers = <<>>
  BY <1>4, <1>6, AppendUndone DEF Top, Callers
<1>8. ToCome(t, <<>>, fr, 1) = Branches
  <2> DEFINE targets == prog.entry[Main]
             v == Visit(Walked, From(targets, 1), Start)
  <2>1. targets \in Seq(Node) /\ Targets(fr) = targets
    BY <1>1, <1>4, RuntimeAssumption DEF ProgramType, Targets
  <2>2. v \in Seq(Trail) /\ From(targets, 1) = targets
    BY <1>2, <2>1, FromFacts, EntrySteps
  <2>3. ToCome(t, <<>>, fr, 1) = Cat(<<>>, Cat(<<>>, v))
    BY <1>4, <2>1, ToComeAt, ImageNone
  <2>4. v = Branches
    BY <2>2 DEF Branches, Walked
  <2> HIDE DEF v
  <2>5. QED
    BY <2>2, <2>3, <2>4, CatNone
<1>9. Settled(fr) = {} /\ SettledOf(<<>>) = {}
  BY <1>4, EmptyList DEF Settled, SettledOf
<1>10. AllMeet(t, <<>>, <<>>, fr)
  BY <1>4, <1>8, MeetsNone DEF AllMeet, CallersMeet
<1>11. AsMeant(<<>>, fr, fdt, files, <<>>)
  BY <1>4, <1>9, <1>10 DEF AsMeant, AtEndAlone, Fresh, InputOK
<1>12. QED
  BY <1>1, <1>2, <1>3, <1>7, <1>11 DEF FlowInv

LEMMA NextFlowInv == OInv /\ FlowInv /\ [Next]_vars => FlowInv'
<1> SUFFICES ASSUME OInv, FlowInv, [Next]_vars PROVE FlowInv'
  OBVIOUS
<1>1. OInv'
  BY NextOwned
<1>2. CASE CallBranch
  BY <1>1, <1>2, CallBranchFlow
<1>3. CASE DupFails \/ ChildFails \/ ExecFails \/ FlushFails
  BY <1>1, <1>3, FailuresFlow
<1>4. CASE EntryDupFails \/ RunParamsFail
  BY <1>1, <1>4, RunFailsFlow
<1>5. CASE BranchConsumed
  BY <1>1, <1>5, BranchConsumedFlow
<1>6. CASE EnterNode
  BY <1>1, <1>6, EnterNodeFlow
<1>7. CASE ParamsFail \/ FinishErr
  BY <1>1, <1>7, FailedCallFlow
<1>8. CASE LoadChild
  BY <1>1, <1>8, LoadChildFlow
<1>9. CASE FileDone
  BY <1>1, <1>9, FileDoneFlow
<1>10. CASE ExecBranch
  BY <1>1, <1>10, ExecBranchFlow
<1>11. CASE ExecDone
  BY <1>1, <1>11, ExecDoneFlow
<1>12. CASE Deliver
  BY <1>1, <1>12, DeliverFlow
<1>13. CASE DeliverOverflows
  BY <1>1, <1>13, DeliverOverflowsFlow
<1>14. CASE FinishOk
  BY <1>1, <1>14, FinishOkFlow
<1>15. CASE EntriesDone
  BY <1>1, <1>15, EntriesDoneFlow
<1>16. CASE FlushBranch
  BY <1>1, <1>16, FlushBranchFlow
<1>17. CASE RunEnds
  BY <1>1, <1>17, RunEndsFlow
<1>18. CASE Exited \/ UNCHANGED vars
  BY <1>1, <1>18, StutterFlow DEF Exited
<1>19. QED
  BY <1>2, <1>3, <1>4, <1>5, <1>6, <1>7, <1>8, <1>9, <1>10, <1>11, <1>12, <1>13,
     <1>14, <1>15, <1>16, <1>17, <1>18 DEF Next

(* Whatever the flow files, the limit on branches, the descriptors the     *)
(* process inherits and the failures of the environment, a run that        *)
(* succeeds has written exactly the branches the flow files describe, all  *)
(* of them and in their order: every loop of runtime.c and node.c, however *)
(* deep in links and files, collects what the recursion of Walk collects,  *)
(* and every command reads the branch it was called for.  No flow file     *)
(* includes itself, through whatever others (a run of one that does never  *)
(* ends well: run FileCycle), and a flow has finitely many nodes.          *)
THEOREM OutputIsTheFlow ==
  ASSUME IsFiniteSet(Node), \A p \in Programs : Nested(p)
  PROVE  Spec => []OutputIsFlowBranches
<1>1. Init => OInv /\ FlowInv
  BY InitOwned, InitFlow
<1>2. OInv /\ FlowInv /\ [Next]_vars => OInv' /\ FlowInv'
  BY NextOwned, NextFlowInv
<1>3. FlowInv => OutputIsFlowBranches
  BY DEF FlowInv, OutputIsFlowBranches
<1>4. QED
  BY <1>1, <1>2, <1>3, PTL DEF Spec

----------------------------------------------------------------------------
(***************************************************************************)
(* When a run fails.  Every node makes at least one branch of each it is   *)
(* given (EveryNodeYields), so a caller comes to at least as many as it has*)
(* collected and the call it is at hands over (CallerExceeds).  By FlowInv *)
(* that carries an overflow anywhere in the stack down to run_model's      *)
(* frame, which comes to the branches of the flow (StackExceeds).          *)
(***************************************************************************)

----------------------------------------------------------------------------
(* Every node makes at least one branch of each                            *)

(* The nodes of a sequence each make a branch of any branch.               *)
Fruitful(W, targets) ==
  \A k \in DOMAIN targets : \A trail \in Trail : Len(W[targets[k]][trail]) >= 1

LEMMA VisitLong ==
  ASSUME NEW W \in Walks, NEW targets \in Seq(Node), Fruitful(W, targets), NEW trail \in Trail
  PROVE  Len(Visit(W, targets, trail)) \in Nat /\ Len(Visit(W, targets, trail)) >= Len(targets)
<1> DEFINE g == FromTrail(W, trail)
           ss == Image(g, targets)
<1>1. g \in Maps(Node, Seq(Trail)) /\ Visit(W, targets, trail) = FlattenSeq(ss)
  BY VisitImage
<1>2. \A k \in DOMAIN targets : Len(g[targets[k]]) >= 1
  <2>1. \A k \in DOMAIN targets : targets[k] \in Node
    BY LenProperties, ElementOfSeq
  <2>2. QED
    BY <2>1 DEF FromTrail, Fruitful
<1>3. DOMAIN targets = 1..Len(targets)
  BY LenProperties
<1> HIDE DEF g
<1>4. /\ ss \in Seq(Seq(Trail)) /\ Len(ss) = Len(targets)
      /\ \A k \in 1..Len(ss) : ss[k] = g[targets[k]]
  BY <1>1, ImageFacts
<1>5. \A k \in 1..Len(ss) : Len(ss[k]) >= 1
  BY <1>2, <1>3, <1>4
<1> HIDE DEF ss
<1>6. QED
  BY <1>1, <1>4, <1>5, FlattenLong

LEMMA VisitEachLong ==
  ASSUME NEW W \in Walks, NEW targets \in Seq(Node), Fruitful(W, targets), targets # <<>>,
         NEW trails \in Seq(Trail)
  PROVE  Len(VisitEach(W, targets, trails)) >= Len(trails)
<1> DEFINE g == AtTargets(W, targets)
           ss == Image(g, trails)
<1>1. g \in Maps(Trail, Seq(Trail)) /\ VisitEach(W, targets, trails) = FlattenSeq(ss)
  BY VisitEachImage
<1>2. \A x \in Trail : Len(g[x]) >= 1
  <2>1. Len(targets) \in Nat \ {0}
    BY LastFront
  <2>2. \A x \in Trail : Len(Visit(W, targets, x)) \in Nat
                         /\ Len(Visit(W, targets, x)) >= Len(targets)
    BY VisitLong
  <2>3. QED
    BY <2>1, <2>2 DEF AtTargets
<1>3. \A k \in 1..Len(trails) : trails[k] \in Trail
  BY LenProperties, ElementOfSeq
<1> HIDE DEF g
<1>4. /\ ss \in Seq(Seq(Trail)) /\ Len(ss) = Len(trails)
      /\ \A k \in 1..Len(ss) : ss[k] = g[trails[k]]
  BY <1>1, ImageFacts
<1>5. \A k \in 1..Len(ss) : Len(ss[k]) >= 1
  BY <1>2, <1>3, <1>4
<1> HIDE DEF ss
<1>6. QED
  BY <1>1, <1>4, <1>5, FlattenLong

(* Neither a command nor the links of a node lose a branch.                *)
LEMMA NoneLost ==
  ASSUME NEW p \in ProgramType, NEW n \in Node, NEW W \in Walks, Fruitful(W, p.links[n]),
         NEW trails \in Seq(Trail)
  PROVE  /\ Len(Forwarded(W, p, n, trails)) >= Len(trails)
         /\ Len(Applied(p, n, trails)) = Len(trails)
         /\ Len(trails) \in Nat
         /\ Len(Forwarded(W, p, n, Applied(p, n, trails))) >= Len(trails)
         /\ Len(Forwarded(W, p, n, Applied(p, n, trails))) \in Nat
<1>1. p.links[n] \in Seq(Node)
  BY DEF ProgramType
<1>2. \A u \in Seq(Trail) : /\ Len(u) \in Nat /\ Forwarded(W, p, n, u) \in Seq(Trail)
                            /\ Applied(p, n, u) \in Seq(Trail)
  BY AppliedType, ForwardedType, LenProperties
<1>3. ASSUME NEW u \in Seq(Trail)
      PROVE  Len(Forwarded(W, p, n, u)) >= Len(u)
  <2>1. CASE p.links[n] = <<>>
    <3>1. Len(u) >= Len(u)
      BY <1>2
    <3>2. QED
      BY <2>1, <3>1 DEF Forwarded
  <2>2. CASE p.links[n] # <<>>
    BY <1>1, <2>2, VisitEachLong DEF Forwarded
  <2>3. QED
    BY <2>1, <2>2
<1>4. Len(Applied(p, n, trails)) = Len(trails)
  <2>1. RunOn(p, n) \in Maps(Trail, Trail) /\ Ran(p, n, trails) = Image(RunOn(p, n), trails)
    BY RanImage
  <2>2. Len(Image(RunOn(p, n), trails)) = Len(trails)
    BY <2>1, ImageFacts
  <2>3. QED
    BY <2>1, <2>2 DEF Applied
<1>5. QED
  BY <1>2, <1>3, <1>4

LEMMA EveryNodeYields ==
  ASSUME Meaning, prog \in ProgramType, ValidProgram(prog), Nested(prog), IsFiniteSet(Node)
  PROVE  \A n \in Node : \A trail \in Trail : Len(Walked[n][trail]) >= 1
<1> DEFINE Yields(n) == \A trail \in Trail : Len(Walked[n][trail]) >= 1
<1>1. /\ Walked \in Walks
      /\ \A n \in Node : \A trail \in Trail : Walked[n][trail] = Becomes(Walked, prog, n, trail)
  BY DEF Meaning
<1>2. PICK depth : DepthOf(prog, depth)
  BY DEF Nested, DepthOf
<1>3. \A n \in Node : depth[n] \in Nat
  BY <1>2, FS_CardinalityType DEF DepthOf
<1> DEFINE Bad == {m \in Nat : \E n \in Node : depth[n] = m /\ ~ Yields(n)}
<1>4. ASSUME NEW m \in Bad, \A k \in Bad : m <= k
      PROVE  FALSE
  <2>1. PICK n \in Node : depth[n] = m /\ ~ Yields(n)
    OBVIOUS
  <2>2. ASSUME NEW k \in Node, depth[k] < depth[n]
        PROVE  Yields(k)
    <3>1. depth[k] \in Nat /\ ~ (m <= depth[k])
      BY <1>3, <2>1, <2>2
    <3>2. ASSUME ~ Yields(k)
          PROVE  FALSE
      <4>1. depth[k] \in Bad
        BY <3>1, <3>2
      <4> HIDE DEF Bad
      <4>2. QED
        BY <1>4, <3>1, <4>1
    <3> HIDE DEF Yields
    <3>3. QED
      BY <3>2
  <2>3. Fruitful(Walked, prog.links[n])
    BY <1>2, <2>2, TargetsAreNodes DEF DepthOf, Fruitful
  <2>4. prog.file[n] # NoFile => Fruitful(Walked, prog.entry[prog.file[n]])
    BY <1>2, <2>2, TargetsAreNodes DEF DepthOf, Fruitful
  <2>5. ASSUME NEW trail \in Trail
        PROVE  Len(Walked[n][trail]) >= 1
    <3> DEFINE x == Expanded(Walked, prog, n, trail)
    <3>1. x \in Seq(Trail)
          /\ Walked[n][trail] = Forwarded(Walked, prog, n, Applied(prog, n, x))
      BY <1>1, BecomesType
    <3>2. Len(x) >= 1
      <4>1. CASE prog.file[n] = NoFile
        BY <4>1 DEF Expanded
      <4>2. CASE prog.file[n] # NoFile
        <5> DEFINE e == prog.entry[prog.file[n]]
        <5>1. e \in Seq(Node) /\ e # <<>>
          BY <4>2 DEF ProgramType, ValidProgram
        <5>2. Len(e) \in Nat \ {0}
          BY <5>1, LastFront
        <5>3. Len(Visit(Walked, e, trail)) \in Nat /\ Len(Visit(Walked, e, trail)) >= Len(e)
          BY <1>1, <2>4, <4>2, <5>1, VisitLong
        <5>4. QED
          BY <4>2, <5>2, <5>3 DEF Expanded
      <4>3. QED
        BY <4>1, <4>2
    <3> HIDE DEF x
    <3>3. /\ Len(Forwarded(Walked, prog, n, Applied(prog, n, x))) >= Len(x)
          /\ Len(Forwarded(Walked, prog, n, Applied(prog, n, x))) \in Nat /\ Len(x) \in Nat
      BY <1>1, <2>3, <3>1, NoneLost
    <3>4. QED
      BY <3>1, <3>2, <3>3
  <2>6. QED
    BY <2>1, <2>5
<1>5. Bad \in SUBSET Nat
  OBVIOUS
<1>6. Bad = {}
  <2> HIDE DEF Bad
  <2>1. QED
    BY <1>4, <1>5, Least
<1>7. QED
  BY <1>3, <1>6

----------------------------------------------------------------------------
(* What overflows a list is more than the flow may have                    *)

Fertile == \A n \in Node : \A trail \in Trail : Len(Walked[n][trail]) >= 1

LEMMA AllFruitful ==
  ASSUME Fertile, NEW targets \in Seq(Node)
  PROVE  Fruitful(Walked, targets)
<1>1. \A k \in DOMAIN targets : targets[k] \in Node
  BY LenProperties, ElementOfSeq
<1>2. QED
  BY <1>1 DEF Fertile, Fruitful

(* A caller comes to at least what it has collected and what the call it is*)
(* at comes to.                                                            *)
LEMMA CallerExceeds ==
  ASSUME Walked \in Walks, Fertile, prog \in ProgramType, NEW t \in FdTrails,
         NEW out \in Seq(Trail), NEW fr \in Frame, FrameShape(fr), InLoop(fr),
         fr.stage \in {"entries", "file", "links"}, fr.j \in DOMAIN Targets(fr)
  PROVE  LET w == Walked[Targets(fr)[fr.j]][SourceTrail(t, fr)] IN
         /\ w \in Seq(Trail) /\ Len(w) \in Nat /\ Len(fr.next) \in Nat
         /\ Len(ToCome(t, out, fr, fr.j)) \in Nat
         /\ Len(ToCome(t, out, fr, fr.j)) >= Len(fr.next) + Len(w)
<1> DEFINE T == Targets(fr)
           collected == Image(t, fr.next)
           w == Walked[T[fr.j]][SourceTrail(t, fr)]
<1>1. /\ fr.next \in FdList /\ fr.active \in FdList /\ fr.j \in Nat /\ fr.i \in Nat \ {0}
      /\ T \in Seq(Node)
      /\ fr.node = Root <=> fr.stage = "entries"
      /\ fr.node # Root => fr.node \in Node
  BY FrameFields, TargetsType
<1>2. fr.j + 1 \in Nat /\ T[fr.j] \in Node
  BY <1>1, FromFacts
<1>3. collected \in Seq(Trail) /\ Len(collected) = Len(fr.next) /\ Len(fr.next) \in Nat
  <2>1. fr.next \in Seq(Fds \cup {NoFd})
    BY <1>1, ListTrails
  <2>2. QED
    BY <2>1, ImageFacts, LenProperties DEF FdTrails
<1>4. SourceTrail(t, fr) \in Trail
  <2>1. CASE fr.node = Root
    BY <2>1, StartIsTrail DEF SourceTrail
  <2>2. CASE fr.node # Root
    <3>1. fr.active[fr.i] \in OwnFds \cup {NoFd}
      BY <1>1, <2>2, LenProperties, ElementOfSeq DEF InLoop, FdList
    <3>2. QED
      BY <2>2, <3>1, OneTrail DEF SourceTrail
  <2>3. QED
    BY <2>1, <2>2
<1>5. w \in Seq(Trail) /\ Len(w) \in Nat
  <2>1. w \in Seq(Trail)
    BY <1>2, <1>4 DEF Walks
  <2>2. QED
    BY <2>1, LenProperties
<1>6. ASSUME NEW rest \in Seq(Trail)
      PROVE  LET c == Cat(collected, Cat(w, rest)) IN
             c \in Seq(Trail) /\ Len(c) \in Nat /\ Len(c) >= Len(fr.next) + Len(w)
  <2> DEFINE d == Cat(w, rest)
             c == Cat(collected, d)
  <2>1. d \in Seq(Trail) /\ Len(d) = Len(w) + Len(rest) /\ Len(rest) \in Nat
    BY <1>5, CatFacts, LenProperties
  <2> HIDE DEF d, w, collected
  <2>2. c \in Seq(Trail) /\ Len(c) = Len(collected) + Len(d)
    BY <1>3, <2>1, CatFacts
  <2> HIDE DEF c
  <2>3. Len(c) \in Nat /\ Len(c) >= Len(fr.next) + Len(w)
    <3>1. \A x, y, z, v \in Nat : x + (y + z) \in Nat /\ x + (y + z) >= x + y
      OBVIOUS
    <3>2. Len(c) = Len(fr.next) + (Len(w) + Len(rest))
      BY <1>3, <2>1, <2>2, Zenon
    <3>3. Len(fr.next) \in Nat /\ Len(w) \in Nat /\ Len(rest) \in Nat
      BY <1>3, <1>5, <2>1
    <3>4. QED
      BY <3>1, <3>2, <3>3, Zenon
  <2>4. QED
    BY <2>2, <2>3 DEF c, d
<1>7. ASSUME fr.stage # "entries"
      PROVE  LET c == Cat(collected, Looping(t, fr, fr.j)) IN
             c \in Seq(Trail) /\ Len(c) \in Nat /\ Len(c) >= Len(fr.next) + Len(w)
  <2>1. fr.i \in DOMAIN fr.active /\ SourceTrail(t, fr) = t[fr.active[fr.i]]
    BY <1>1, <1>7 DEF InLoop, SourceTrail
  <2>2. Looping(t, fr, fr.j) = Cat(w, Looping(t, fr, fr.j + 1))
        /\ Looping(t, fr, fr.j + 1) \in Seq(Trail)
    BY <1>1, <1>2, <2>1, LoopSteps
  <2> HIDE DEF w, collected
  <2>3. QED
    BY <1>6, <2>2
<1> HIDE DEF w, collected, T
<1> DEFINE come == ToCome(t, out, fr, fr.j)
           Goal == Len(come) \in Nat /\ Len(come) >= Len(fr.next) + Len(w)
<1>8. ASSUME fr.stage = "entries"
      PROVE  Goal
  <2> DEFINE v == Visit(Walked, From(T, fr.j), Start)
             later == Visit(Walked, From(T, fr.j + 1), Start)
  <2>1. v = Cat(w, later) /\ later \in Seq(Trail)
    BY <1>1, <1>2, <1>8, EntrySteps DEF w, T, SourceTrail
  <2>2. ToCome(t, out, fr, fr.j) = Cat(out, Cat(collected, v))
    BY <1>8, ToComeAt DEF collected, T
  <2> HIDE DEF v, later
  <2> DEFINE c == Cat(collected, Cat(w, later))
  <2>3. c \in Seq(Trail) /\ Len(c) \in Nat /\ Len(c) >= Len(fr.next) + Len(w)
    BY <1>6, <2>1
  <2> HIDE DEF c
  <2>4. Len(Cat(out, c)) = Len(out) + Len(c) /\ Len(out) \in Nat
    BY <2>3, CatFacts, LenProperties
  <2>5. ToCome(t, out, fr, fr.j) = Cat(out, c)
    BY <2>1, <2>2 DEF c
  <2>6. QED
    BY <1>3, <1>5, <2>3, <2>4, <2>5
<1>9. ASSUME fr.stage = "links"
      PROVE  Goal
  <2>1. prog.links[fr.node] # <<>>
    BY <1>9, EmptySeq DEF Targets
  <2>2. ToCome(t, out, fr, fr.j) = Cat(collected, Looping(t, fr, fr.j))
    BY <1>9, <2>1, ToComeAt DEF collected
  <2>3. QED
    BY <1>3, <1>5, <1>7, <1>9, <2>2
<1>10. ASSUME fr.stage = "file"
       PROVE  Goal
  <2> DEFINE n == fr.node
             c == Cat(collected, Looping(t, fr, fr.j))
  <2>1. n \in Node /\ prog.links[n] \in Seq(Node)
    BY <1>1, <1>10 DEF ProgramType
  <2>2. ToCome(t, out, fr, fr.j) = Forwarded(Walked, prog, n, Applied(prog, n, c))
    BY <1>10, ToComeAt DEF collected
  <2>3. c \in Seq(Trail) /\ Len(c) \in Nat /\ Len(c) >= Len(fr.next) + Len(w)
    BY <1>7, <1>10
  <2> HIDE DEF c
  <2>4. Fruitful(Walked, prog.links[n])
    BY <2>1, AllFruitful
  <2>5. /\ Len(Forwarded(Walked, prog, n, Applied(prog, n, c))) >= Len(c)
        /\ Len(Forwarded(Walked, prog, n, Applied(prog, n, c))) \in Nat
    BY <2>1, <2>3, <2>4, NoneLost
  <2>6. QED
    BY <1>3, <1>5, <2>2, <2>3, <2>5
<1>11. QED
  BY <1>3, <1>5, <1>8, <1>9, <1>10 DEF w, T

(* One caller that comes to more than the limit makes all below do so, and *)
(* with run_model's frame the whole flow.                                  *)
LEMMA StackExceeds ==
  ASSUME Walked \in Walks, Fertile, prog \in ProgramType, NEW t \in FdTrails,
         NEW out \in Seq(Trail), NEW c \in Seq(Frame), CallChain(c), CallersMeet(t, out, c),
         NEW max \in Nat, NEW top \in DOMAIN c, Len(ToCome(t, out, c[top], c[top].j)) > max
  PROVE  Len(Branches) > max
<1> DEFINE Exceeds(k) == Len(ToCome(t, out, c[k], c[k].j)) > max
           S == {k \in DOMAIN c : Exceeds(k)}
<1>1. /\ Len(c) \in Nat /\ DOMAIN c = 1..Len(c) /\ \A k \in DOMAIN c : c[k] \in Frame
  BY LenProperties, ElementOfSeq
<1>2. S \in SUBSET Nat /\ S # {}
  BY <1>1
<1>3. PICK m \in S : \A k \in S : m <= k
  <2> HIDE DEF S
  <2>1. QED
    BY <1>2, Least
<1>4. m \in DOMAIN c /\ Exceeds(m) /\ m \in Nat \ {0}
  BY <1>1
<1>5. Meets(t, out, SubSeq(c, 1, m - 1), c[m], c[m].j)
  BY <1>4 DEF CallersMeet
<1>6. CASE m = 1
  <2>1. SubSeq(c, 1, m - 1) = <<>>
    BY <1>6, SubSeqEmpty
  <2>2. ToCome(t, out, c[m], c[m].j) = Branches
    BY <1>5, <2>1 DEF Meets
  <2>3. QED
    BY <1>4, <2>2
<1>7. CASE m # 1
  <2> DEFINE k == m - 1
             b == SubSeq(c, 1, k)
             w == Walked[Targets(c[k])[c[k].j]][SourceTrail(t, c[k])]
  <2>1. k \in DOMAIN c /\ k \in 1..Len(c) /\ k \in 0..Len(c) /\ ~ (m <= k) /\ m > 1
        /\ m \in 1..Len(c)
    BY <1>1, <1>4, <1>7
  <2>2. FrameShape(c[k]) /\ Calls(c[k], c[m])
    BY <2>1 DEF CallChain
  <2>3. b \in Seq(Frame) /\ Len(b) = k /\ b[Len(b)] = c[k] /\ b # <<>>
    <3>1. b \in Seq(Frame) /\ Len(b) = k /\ \A l \in 1..k : b[l] = c[l]
      BY <2>1, PrefixFacts
    <3>2. k \in 1..k
      BY <2>1
    <3> HIDE DEF b, k
    <3>3. QED
      BY <2>1, <3>1, <3>2, EmptySeq
  <2>4. InLoop(c[k]) /\ ToCome(t, out, c[m], c[m].j) = w
    BY <1>5, <2>2, <2>3 DEF Meets, Calls
  <2>5. c[k] \in Frame /\ c[k].stage \in {"entries", "file", "links"}
        /\ c[k].j \in DOMAIN Targets(c[k])
    BY <1>1, <2>1, <2>2 DEF Calls
  <2> HIDE DEF k, b
  <2>6. /\ Len(w) \in Nat /\ Len(c[k].next) \in Nat
        /\ Len(ToCome(t, out, c[k], c[k].j)) \in Nat
        /\ Len(ToCome(t, out, c[k], c[k].j)) >= Len(c[k].next) + Len(w)
    BY <2>2, <2>4, <2>5, CallerExceeds
  <2> HIDE DEF w
  <2>7. Exceeds(k)
    BY <1>4, <2>4, <2>6
  <2>8. k \in S
    BY <2>1, <2>7
  <2> HIDE DEF S
  <2>9. QED
    BY <1>3, <2>1, <2>8
<1>8. QED
  BY <1>6, <1>7

(* Callers form a chain of calls.                                          *)
LEMMA CallersChain ==
  ASSUME OInv, stack # <<>>
  PROVE  CallChain(Callers)
<1>1. /\ stack \in Seq(Frame) /\ CallChain(stack)
      /\ Len(stack) \in Nat \ {0} /\ Len(Callers) = Len(stack) - 1
      /\ \A k \in 1..Len(stack) - 1 : Callers[k] = stack[k]
  BY Now, NowParts, TopFacts
<1>2. \A k \in 1..Len(Callers) : /\ k \in 1..Len(stack) /\ Callers[k] = stack[k]
                                  /\ k > 1 => Callers[k - 1] = stack[k - 1]
  BY <1>1
<1>3. QED
  BY <1>1, <1>2 DEF CallChain

LEMMA OverflowExceeds ==
  ASSUME OInv, FlowInv, Fertile, DeliverOverflows
  PROVE  Len(Branches) > MaxBranches
<1> DEFINE t == Carried(fdt, files)
<1>1. IInv /\ prog \in ProgramType /\ MaxBranches \in Nat
  BY NowCarried, RuntimeAssumption DEF OInv
<1>2. /\ stack # <<>> /\ Top \in Frame /\ Top.stage = "links" /\ Top.node # Root
      /\ Delivered \in FdList /\ Delivering /\ ~ Fits(Outputs, Delivered)
  BY DeliveredOwned DEF DeliverOverflows
<1>3. /\ Below \in Seq(Frame) /\ Caller \in Frame /\ Callers = Append(Below, Caller)
      /\ Outputs = Caller.next
      /\ Caller.stage \in {"entries", "file", "links"}
      /\ FrameShape(Caller) /\ Calls(Caller, Top)
      /\ Callers \in Seq(Frame) /\ Callers # <<>>
  BY <1>2, NowCaller, Now DEF Outputs
<1>4. /\ Walked \in Walks /\ t \in FdTrails /\ flushed \in Seq(Trail)
      /\ CallersMeet(t, flushed, Callers) /\ Meets(t, flushed, Callers, Top, Top.j)
      /\ FrameOK(Top)
  BY <1>1, <1>2, NowFlow, NowCarried DEF RunningWith
<1>5. /\ InLoop(Caller)
      /\ ToCome(t, flushed, Top, Top.j) = Walked[Top.node][SourceTrail(t, Caller)]
      /\ Top.node = Targets(Caller)[Caller.j] /\ Caller.j \in DOMAIN Targets(Caller)
  BY <1>3, <1>4, MeetsCaller DEF Calls
<1>6. Image(t, Delivered) = ToCome(t, flushed, Top, Top.j)
  <2>1. Top.node \in Node
    BY <1>2, FrameFields
  <2>2. QED
    BY <1>1, <1>2, <1>4, <2>1, LinksEnd DEF Delivering, Delivered, Terminal
<1> HIDE DEF t
<1>7. Len(Image(t, Delivered)) = Len(Delivered) /\ Len(Delivered) \in Nat
  <2>1. Delivered \in Seq(Fds \cup {NoFd})
    BY <1>2, <1>4, ListTrails
  <2>2. QED
    BY <1>4, <2>1, ImageFacts, LenProperties DEF FdTrails
<1>8. /\ Len(Caller.next) \in Nat /\ Len(ToCome(t, flushed, Caller, Caller.j)) \in Nat
      /\ Len(ToCome(t, flushed, Caller, Caller.j)) >= Len(Caller.next) + Len(Delivered)
  BY <1>1, <1>3, <1>4, <1>5, <1>6, <1>7, CallerExceeds
<1>9. Len(Caller.next) + Len(Delivered) > MaxBranches
  BY <1>1, <1>2, <1>3, <1>7, <1>8 DEF Fits
<1>10. Len(ToCome(t, flushed, Caller, Caller.j)) > MaxBranches
  BY <1>1, <1>7, <1>8, <1>9
<1>11. Len(Callers) \in DOMAIN Callers /\ Callers[Len(Callers)] = Caller
  BY <1>3, LastFront, LenProperties DEF Caller
<1>12. CallChain(Callers)
  BY <1>2, CallersChain
<1>13. QED
  BY <1>1, <1>3, <1>4, <1>10, <1>11, <1>12, StackExceeds

----------------------------------------------------------------------------
(* Runs in which the environment does not fail                             *)

(* The descriptor given by --fd-in, if any, is one the process has, and    *)
(* can be rewound.                                                         *)
GoodInput(c) == c.fd_in = NoFd \/ (c.fd_in \in c.foreign /\ c.seekable)

(* What a run has come to at each phase that its supervisor sees.          *)
LimitMet ==
  /\ Phase = "running" => flushed = <<>>
  /\ Phase \in {"writing", "ok"} => Len(Branches) <= MaxBranches
  /\ Phase \in {"failing", "error"} => Len(Branches) > MaxBranches

(* What is left to fail is the limit.                                      *)
LEMMA SourceIsOpen ==
  ASSUME OInv, Calling, GoodInput(cfg), Source(Top) # NoFd
  PROVE  Source(Top) \in OpenFds(fdt) /\ Seekable
<1>1. IInv /\ prog \in ProgramType
  BY NowCarried DEF OInv
<1>2. /\ stack # <<>> /\ Top \in Frame /\ FrameShape(Top)
      /\ Top.stage \in {"entries", "file", "links"}
      /\ Top.stage # "entries" => Top.i \in DOMAIN Top.active
  BY <1>1, TargetIsNode, AtTop DEF Calling, At
<1>3. Top.node = Root <=> Top.stage = "entries"
  BY <1>1, <1>2, TargetsType
<1>4. CASE Top.node = Root
  <2>1. Source(Top) = cfg.fd_in
    BY <1>4 DEF Source
  <2>2. cfg.fd_in \in cfg.foreign /\ cfg.seekable
    BY <2>1 DEF GoodInput
  <2>3. cfg.fd_in \in OpenFds(fdt)
    <3>1. fdt[cfg.fd_in] = cfg.fd_in /\ cfg.foreign \subseteq Fds
      BY <1>1, <2>2, RuntimeAssumption DEF IInv, NoForeignClose, TypeOK, CfgType
    <3>2. QED
      BY <2>2, <3>1, NegativeIsNoFd DEF OpenFds, Closed
  <2>4. QED
    BY <2>1, <2>2, <2>3 DEF Seekable
<1>5. CASE Top.node # Root
  <2>1. Top.i \in DOMAIN Top.active /\ Source(Top) = Top.active[Top.i]
    BY <1>2, <1>3, <1>5 DEF Source
  <2>2. Source(Top) \in Pending(Top)
    BY <1>2, <2>1, RestNames, FrameFields DEF Pending, Rest
  <2>3. LiveNames(Top) = Pending(Top) \cup Names(Top.next)
    BY <1>2, FrameLists
  <2>4. LiveNames(Top) \subseteq OpenFds(fdt)
    BY <1>2, Now, LiveIsOpen
  <2>5. QED
    BY <1>5, <2>2, <2>3, <2>4 DEF Seekable
<1>6. QED
  BY <1>4, <1>5

LEMMA NothingElseFails ==
  ASSUME OInv, GoodInput(cfg), Faults = {}, ~ Full(fdt)
  PROVE  /\ ~ DupFails /\ ~ EntryDupFails /\ ~ RunParamsFail /\ ~ ParamsFail
         /\ ~ ChildFails /\ ~ ExecFails /\ ~ FlushFails
<1>1. ~ RunParamsFail /\ ~ ParamsFail /\ ~ ChildFails /\ ~ ExecFails
  BY DEF RunParamsFail, ParamsFail, ChildFails, ExecFails
<1>2. ~ DupFails
  <2>1. DupFails => Calling /\ Source(Top) # NoFd
                    /\ (Full(fdt) \/ Source(Top) \notin OpenFds(fdt))
    BY DEF DupFails
  <2>2. QED
    BY <2>1, SourceIsOpen
<1>3. ~ EntryDupFails
  <2>1. EntryDupFails => Calling /\ Source(Top) # NoFd
                         /\ (Full(fdt) \/ Source(Top) \notin OpenFds(fdt) \/ ~ Seekable)
    BY DEF EntryDupFails
  <2>2. QED
    BY <2>1, SourceIsOpen
<1>4. ASSUME FlushFails
      PROVE  FALSE
  <2>1. /\ stack # <<>> /\ Top \in Frame /\ Top.stage = "flush" /\ Top.i \in DOMAIN Top.next
        /\ Top.next[Top.i] # NoFd /\ Top.next[Top.i] \notin OpenFds(fdt)
    BY <1>4, AtTop DEF FlushFails, OInv
  <2>2. Top.next[Top.i] \in Names(Top.next)
    BY <2>1 DEF Names, Held
  <2>3. LiveNames(Top) = Pending(Top) \cup Names(Top.next)
    BY <2>1, FrameLists
  <2>4. LiveNames(Top) \subseteq OpenFds(fdt)
    BY <2>1, Now, LiveIsOpen
  <2>5. QED
    BY <2>1, <2>2, <2>3, <2>4
<1>5. QED
  BY <1>1, <1>2, <1>3, <1>4

LEMMA SamePhase ==
  ASSUME LimitMet, UNCHANGED <<prog, cfg>>, Phase' = Phase,
         Phase = "running" => flushed' = flushed
  PROVE  LimitMet'
<1>1. Branches' = Branches
  BY SameMeaning
<1>2. QED
  BY <1>1 DEF LimitMet

LEMMA QuietLimit ==
  ASSUME OInv, LimitMet,
         \/ CallBranch \/ BranchConsumed \/ EnterNode \/ LoadChild \/ FileDone
         \/ ExecBranch \/ ExecDone \/ Deliver \/ FinishOk \/ FinishErr \/ FlushBranch
         \/ Exited \/ UNCHANGED vars
  PROVE  LimitMet'
<1>1. IInv
  BY DEF OInv
<1>2. UNCHANGED <<prog, cfg>>
  BY DEF CallBranch, BranchConsumed, EnterNode, LoadChild, FileDone, ExecBranch, ExecDone,
     Deliver, FinishOk, FinishErr, FlushBranch, Exited, vars
<1>3. CASE CallBranch \/ BranchConsumed \/ LoadChild \/ FileDone \/ ExecBranch \/ ExecDone
           \/ Deliver
  <2>1. UNCHANGED Seen!vars
    BY <1>1, <1>3, CallStutters, MovesStutter, DeliverStutters
  <2>2. QED
    BY <1>2, <2>1, SamePhase DEF Seen!vars
<1>4. CASE EnterNode
  <2>1. PICK n \in Node : Seen!Start(n)
    BY <1>1, <1>4, EnterStarts
  <2>2. QED
    BY <1>2, <2>1, SamePhase DEF Seen!Start
<1>5. CASE FinishOk \/ FinishErr
  <2>1. PICK status : Seen!Finish(status)
    BY <1>1, <1>5, FinishOkFinishes, FinishErrFinishes
  <2>2. QED
    BY <1>2, <2>1, SamePhase DEF Seen!Finish
<1>6. CASE FlushBranch
  <2>1. Seen!Write \/ UNCHANGED Seen!vars
    BY <1>1, <1>6, FlushWrites
  <2>2. Phase' = Phase /\ (Phase = "running" => flushed' = flushed)
    BY <2>1 DEF Seen!Write, Seen!vars
  <2>3. QED
    BY <1>2, <2>2, SamePhase
<1>7. CASE Exited \/ UNCHANGED vars
  <2>1. UNCHANGED <<stack, result, flushed>>
    BY <1>7 DEF Exited, vars
  <2>2. Phase' = Phase
    BY <2>1 DEF Phase
  <2>3. QED
    BY <1>2, <2>1, <2>2, SamePhase
<1>8. QED
  BY <1>3, <1>4, <1>5, <1>6, <1>7

LEMMA OverflowLimit ==
  ASSUME OInv, FlowInv, Fertile, DeliverOverflows
  PROVE  LimitMet'
<1>1. IInv /\ UNCHANGED <<prog, cfg>>
  BY DEF OInv, DeliverOverflows
<1>2. Phase' = "failing"
  BY <1>1, OverflowBreaks DEF Seen!Break
<1>3. Len(Branches) > MaxBranches /\ Branches' = Branches
  BY <1>1, OverflowExceeds, SameMeaning
<1>4. QED
  BY <1>2, <1>3 DEF LimitMet

(* run_model's outputs are then all the flow has, and they fit their list. *)
LEMMA EntriesDoneLimit ==
  ASSUME OInv, FlowInv, LimitMet, EntriesDone
  PROVE  LimitMet'
<1> DEFINE t == Carried(fdt, files)
<1>1. IInv /\ prog \in ProgramType /\ MaxBranches \in Nat
  BY NowCarried, RuntimeAssumption DEF OInv
<1>2. /\ stack # <<>> /\ Top \in Frame /\ Top.stage = "entries" /\ FrameShape(Top)
      /\ UNCHANGED <<prog, cfg>> /\ Top.j > Len(Targets(Top))
  BY <1>1, AtTop DEF EntriesDone
<1>3. Targets(Top) \in Seq(Node) /\ Top.node = Root
  BY <1>1, <1>2, TargetsType
<1>4. /\ Walked \in Walks /\ t \in FdTrails /\ Callers = <<>>
      /\ Meets(t, flushed, Callers, Top, Top.j) /\ FrameOK(Top)
  BY <1>1, <1>2, <1>3, NowFlow, NowCarried, RootOwns DEF RunningWith
<1>5. flushed = <<>>
  <2>1. Phase = "running"
    BY <1>2, View DEF Phase, Top
  <2>2. QED
    BY <2>1 DEF LimitMet
<1>6. ToCome(t, flushed, Top, Top.j) = Branches
  BY <1>4 DEF Meets
<1> HIDE DEF t
<1>7. Top.next \in FdList /\ Top.j \in Nat /\ Len(Top.next) <= MaxBranches
  BY <1>2, <1>4, FrameFields DEF FrameOK
<1>8. Branches = Image(t, Top.next)
  <2>1. Visit(Walked, From(Targets(Top), Top.j), Start) = <<>>
    BY <1>2, <1>3, <1>4, <1>7, EntrySteps
  <2>2. Branches = Cat(<<>>, Cat(Image(t, Top.next), <<>>))
    BY <1>2, <1>5, <1>6, <2>1, ToComeAt
  <2>3. Image(t, Top.next) \in Seq(Trail)
    BY <1>4, <1>7, ListTrails
  <2>4. QED
    BY <2>2, <2>3, CatNone
<1>9. Len(Branches) <= MaxBranches
  <2>1. Top.next \in Seq(Fds \cup {NoFd})
    BY <1>4, <1>7, ListTrails
  <2>2. QED
    BY <1>4, <1>7, <1>8, <2>1, ImageFacts DEF FdTrails
<1>10. Phase' = "writing"
  BY <1>1, EntriesDoneBegins DEF Seen!BeginWriting
<1>11. Branches' = Branches
  BY <1>2, SameMeaning
<1>12. QED
  BY <1>9, <1>10, <1>11 DEF LimitMet

LEMMA RunEndsLimit ==
  ASSUME OInv, LimitMet, RunEnds
  PROVE  LimitMet'
<1>1. UNCHANGED <<prog, cfg>> /\ stack' = <<>>
  BY DEF RunEnds
<1>2. Phase' = result'
  BY <1>1, EmptyView DEF Phase
<1>3. Branches' = Branches
  BY <1>1, SameMeaning
<1>4. CASE At("flush")
  <2>1. stack # <<>> /\ Top.stage = "flush" /\ result' = "ok"
    BY <1>4 DEF At, RunEnds
  <2>2. Phase = "writing"
    BY <2>1, View DEF Phase, Top
  <2>3. QED
    BY <1>2, <1>3, <2>1, <2>2 DEF LimitMet
<1>5. CASE Unwinding
  <2>1. stack # <<>> /\ Top.stage = "err" /\ result' = "error"
    BY <1>5 DEF At, Unwinding, RunEnds
  <2>2. Phase = "failing"
    BY <2>1, View DEF Phase, Top
  <2>3. QED
    BY <1>2, <1>3, <2>1, <2>2 DEF LimitMet
<1>6. QED
  BY <1>4, <1>5 DEF RunEnds

(* The premises under which the limit is the only way to fail.             *)
LimitInv == OInv /\ FlowInv /\ Fertile /\ GoodInput(cfg) /\ LimitMet

LEMMA NextLimit ==
  ASSUME Faults = {}
  PROVE  LimitInv /\ ~ Full(fdt) /\ [Next]_vars => LimitInv'
<1> SUFFICES ASSUME LimitInv, ~ Full(fdt), [Next]_vars PROVE LimitInv'
  OBVIOUS
<1>1. OInv /\ FlowInv /\ Fertile /\ GoodInput(cfg) /\ LimitMet /\ OInv' /\ FlowInv'
  BY NextOwned, NextFlowInv DEF LimitInv
<1>2. LimitMet'
  <2>1. CASE CallBranch \/ BranchConsumed \/ EnterNode \/ LoadChild \/ FileDone
             \/ ExecBranch \/ ExecDone \/ Deliver \/ FinishOk \/ FinishErr \/ FlushBranch
             \/ Exited \/ UNCHANGED vars
    BY <1>1, <2>1, QuietLimit
  <2>2. CASE DeliverOverflows
    BY <1>1, <2>2, OverflowLimit
  <2>3. CASE EntriesDone
    BY <1>1, <2>3, EntriesDoneLimit
  <2>4. CASE RunEnds
    BY <1>1, <2>4, RunEndsLimit
  <2>5. CASE \/ DupFails \/ EntryDupFails \/ RunParamsFail \/ ParamsFail
             \/ ChildFails \/ ExecFails \/ FlushFails
    BY <1>1, <2>5, NothingElseFails
  <2>6. QED
    BY <2>1, <2>2, <2>3, <2>4, <2>5 DEF Next
<1>3. UNCHANGED <<prog, cfg>>
  BY Zenon DEF Next, CallBranch, DupFails, EntryDupFails, BranchConsumed, RunParamsFail,
     EnterNode, ParamsFail, LoadChild, ChildFails, FileDone, ExecBranch, ExecFails, ExecDone,
     Deliver, DeliverOverflows, FinishOk, FinishErr, EntriesDone, FlushBranch, FlushFails,
     RunEnds, Exited, vars
<1>4. Fertile' /\ GoodInput(cfg)'
  BY <1>1, <1>3, SameMeaning DEF Fertile
<1>5. QED
  BY <1>1, <1>2, <1>4 DEF LimitInv

LEMMA InitLimit ==
  ASSUME Init, IsFiniteSet(Node), \A p \in Programs : Nested(p),
         \A c \in Cfgs : GoodInput(c)
  PROVE  LimitInv
<1>1. OInv /\ FlowInv /\ prog \in ProgramType /\ ValidProgram(prog) /\ Nested(prog)
      /\ GoodInput(cfg)
  BY InitOwned, InitFlow, RuntimeAssumption DEF Init
<1>2. Fertile
  BY <1>1, EveryNodeYields DEF FlowInv, Fertile
<1>3. Phase = "running" /\ flushed = <<>>
  <2>1. Phase = "running"
    BY InitShows DEF Seen!Init
  <2>2. QED
    BY <2>1 DEF Init
<1>4. QED
  BY <1>1, <1>2, <1>3 DEF LimitInv, LimitMet

(* Without failures of the environment -- no command, file, write or       *)
(* parameter scope fails, a descriptor number is always left, and --fd-in  *)
(* is absent or an open file that can be rewound -- a run fails exactly    *)
(* when its flow has more terminal branches than KC_FLOW_MAX_BRANCHES.     *)
(* No list of runtime.c and node.c, which all have that same bound, is     *)
(* ever too short for a flow that is not too wide, because nothing makes   *)
(* fewer of the branches it is given; and no overflow deep in the flow is  *)
(* lost on its way up.                                                     *)
THEOREM OnlyTheLimitFails ==
  ASSUME IsFiniteSet(Node), \A p \in Programs : Nested(p),
         \A c \in Cfgs : GoodInput(c), Faults = {}
  PROVE  Spec /\ [](~ Full(fdt)) => []FailsExactlyAtLimit
<1>1. Init => LimitInv
  BY InitLimit
<1>2. LimitInv /\ ~ Full(fdt) /\ [Next]_vars => LimitInv'
  BY NextLimit
<1>3. LimitInv => FailsExactlyAtLimit
  <2> SUFFICES ASSUME LimitInv, result # "none"
               PROVE  result = "ok" <=> Len(Branches) <= MaxBranches
    BY DEF FailsExactlyAtLimit
  <2>1. OInv /\ LimitMet /\ result \in {"ok", "error"}
    BY DEF LimitInv, OInv, IInv, TypeOK
  <2>2. stack = <<>> /\ Phase = result
    BY <2>1, EmptyView DEF OInv, Phase
  <2>3. Len(Branches) > MaxBranches => ~ (Len(Branches) <= MaxBranches)
    <3>1. prog \in ProgramType /\ Walked \in Walks
      BY NowCarried DEF LimitInv, OInv, FlowInv, Meaning
    <3>2. Branches \in Seq(Trail)
      BY <3>1, StartIsTrail, VisitImage, RuntimeAssumption DEF Branches, Walked, ProgramType
    <3>3. Len(Branches) \in Nat /\ MaxBranches \in Nat
      BY <3>2, LenProperties, RuntimeAssumption
    <3>4. QED
      BY <3>3
  <2>4. QED
    BY <2>1, <2>2, <2>3 DEF LimitMet
<1>4. QED
  BY <1>1, <1>2, <1>3, PTL DEF Spec
==============================================================================

----------------------------- MODULE OutputProof -----------------------------
(***************************************************************************)
(* However long the branches, however small the buffer and however short   *)
(* the reads and writes: --fd-out gets every branch byte by byte, each byte*)
(* once, and the readers of each place get the events, the branches and    *)
(* run.finished in this order.  What a line is made of does not matter     *)
(* here.                                                                   *)
(***************************************************************************)
EXTENDS Received, SequenceFacts

(* Where the run is, as far as the copy depends on it.                     *)
Phases ==
  /\ stage = "flush" => outTo \in Sink
  /\ stage = "end" => ~ Writing
  /\ stage = "nodes" => pos = 0

Typed == TypeOK /\ Phases

LEMMA InitTyped == Init => Typed
<1> SUFFICES ASSUME Init PROVE Typed
  OBVIOUS
<1>1. <<>> \in Seq(Byte) /\ Len(<<>>) = 0
  BY EmptySeq
<1>2. QED
  BY <1>1 DEF Init, Typed, TypeOK, Phases, Writing

(* Steps after which nothing is being written.                             *)
LEMMA IdleTyped ==
  ASSUME Typed, UNCHANGED <<run, outTo, statusTo, streams>>, buffer' = <<>>, sent' = 0,
         k' \in Nat \ {0}, pos' \in Nat, rc' \in {"ok", "error"}, before' \in Seq(Byte),
         stage' \in {"nodes", "flush", "end", "over", "killed"},
         stage' = "flush" => outTo \in Sink, stage' = "nodes" => pos' = 0
  PROVE  Typed'
<1>1. buffer' \in Seq(Byte) /\ sent' \in 0..Len(buffer') /\ ~ Writing'
  BY EmptySeq DEF Writing
<1>2. TypeOK'
  BY <1>1 DEF Typed, TypeOK
<1>3. QED
  BY <1>1, <1>2 DEF Typed, Phases

LEMMA WasIdle == ASSUME Typed, ~ Writing PROVE buffer = <<>> /\ sent = 0
BY EmptySeq DEF Typed, TypeOK, Writing

LEMMA EmitStep ==
  ASSUME Typed, NEW event, Emit(event), ~ Writing, stage \in {"nodes", "end"},
         stage' \in {stage, "over"}, rc' = rc,
         stage = "end" => stage' = "over",
         Line(event) \in Seq(Byte) \cup {Dropped}
  PROVE  Typed'
<1>1. /\ buffer' = (IF statusTo = NoFd \/ Line(event) = Dropped THEN <<>> ELSE Line(event))
      /\ k' = k + 1
      /\ UNCHANGED <<run, outTo, statusTo, streams, pos, sent, before>>
  BY DEF Emit, fixed
<1>2. sent = 0 /\ <<>> \in Seq(Byte)
  BY WasIdle, EmptySeq
<1>3. buffer' \in Seq(Byte) /\ (buffer' # <<>> => statusTo \in Sink)
  BY <1>1, <1>2 DEF Typed, TypeOK
<1>4. Len(buffer') \in Nat /\ (buffer' # <<>> => Len(buffer') > 0)
  BY <1>3, EmptySeq, LenProperties
<1>5. sent' \in 0..Len(buffer') /\ (Writing' => Target' \in Sink /\ sent' < Len(buffer'))
  BY <1>1, <1>2, <1>3, <1>4 DEF Writing, Target
<1>6. k' \in Nat \ {0}
  BY <1>1 DEF Typed, TypeOK
<1>7. TypeOK'
  BY <1>1, <1>3, <1>5, <1>6 DEF Typed, TypeOK
<1>8. Phases'
  BY <1>1 DEF Typed, Phases
<1>9. QED
  BY <1>7, <1>8 DEF Typed

LEMMA WriteTyped ==
  ASSUME Typed, Write
  PROVE  Typed'
<1>1. PICK n \in 1..Len(buffer) - sent :
        /\ streams' = [streams EXCEPT ![Target] = @ \o SubSeq(buffer, sent + 1, sent + n)]
        /\ IF sent + n = Len(buffer)
             THEN buffer' = <<>> /\ sent' = 0
             ELSE sent' = sent + n /\ buffer' = buffer
  BY DEF Write
<1>2. /\ UNCHANGED <<run, outTo, statusTo, stage, k, pos, rc, before>> /\ Target \in Sink
      /\ buffer \in Seq(Byte) /\ sent \in Nat /\ Writing
  BY DEF Write, fixed, Typed, TypeOK
<1>3. Len(buffer) \in Nat /\ n \in Nat /\ sent + n \in 1..Len(buffer)
  BY <1>2, LenProperties
<1>4. SubSeq(buffer, sent + 1, sent + n) \in Seq(Byte)
  <2>1. \A m \in sent + 1..sent + n : buffer[m] \in Byte
    BY <1>2, <1>3, ElementOfSeq
  <2>2. QED
    BY <1>2, <1>3, <2>1, SubSeqProperties
<1>5. streams' \in [Sink -> Seq(Byte)]
  <2>1. streams \in [Sink -> Seq(Byte)] /\ streams[Target] \in Seq(Byte)
    BY <1>2 DEF Typed, TypeOK
  <2>2. streams[Target] \o SubSeq(buffer, sent + 1, sent + n) \in Seq(Byte)
    BY <1>4, <2>1, ConcatProperties
  <2>3. QED
    BY <1>1, <2>1, <2>2
<1>6. buffer' \in Seq(Byte) /\ sent' \in 0..Len(buffer') /\ (Writing' => sent' < Len(buffer'))
  <2>1. CASE sent + n = Len(buffer)
    BY <1>1, <2>1, EmptySeq DEF Writing
  <2>2. CASE sent + n # Len(buffer)
    <3>1. buffer' = buffer /\ sent' = sent + n
      BY <1>1, <2>2
    <3>2. QED
      BY <1>2, <1>3, <2>2, <3>1
  <2>3. QED
    BY <2>1, <2>2
<1>7. Writing' => Target' \in Sink
  BY <1>2 DEF Target
<1>8. TypeOK'
  BY <1>2, <1>5, <1>6, <1>7 DEF Typed, TypeOK
<1>9. Phases'
  BY <1>1, <1>2 DEF Typed, Phases, Writing
<1>10. QED
  BY <1>8, <1>9 DEF Typed

(* The branch that is copied, and what a read of it puts into the buffer.  *)
LEMMA BranchIsText ==
  ASSUME TypeOK, k \in DOMAIN run.branches, run.branches[k] # Absent
  PROVE  run.branches[k] \in Seq(Byte) /\ Len(run.branches[k]) \in Nat
<1>1. run.branches \in Seq(Seq(Byte) \cup {Absent})
  BY OutputAssumption DEF TypeOK
<1>2. run.branches[k] \in Seq(Byte)
  BY <1>1, LenProperties, ElementOfSeq
<1>3. QED
  BY <1>2, LenProperties

LEMMA ReadText ==
  ASSUME TypeOK, Read
  PROVE  /\ buffer' \in Seq(Byte) /\ Len(buffer') \in Nat \ {0}
         /\ pos' = pos + Len(buffer') /\ pos' <= Len(run.branches[k])
         /\ buffer' = SubSeq(run.branches[k], pos + 1, pos')
<1> DEFINE d == run.branches[k]
<1>1. PICK n \in 1..BufferSize :
        n <= Unread /\ buffer' = SubSeq(d, pos + 1, pos + n) /\ pos' = pos + n
  BY DEF Read
<1>2. d \in Seq(Byte) /\ Len(d) \in Nat /\ pos \in Nat /\ n \in Nat \ {0}
  BY BranchIsText, OutputAssumption DEF Read, Flushing, TypeOK
<1>3. pos + n <= Len(d)
  BY <1>1, <1>2 DEF Unread
<1> HIDE DEF d
<1>4. \A m \in pos + 1..pos + n : d[m] \in Byte
  BY <1>2, <1>3, ElementOfSeq
<1>5. buffer' \in Seq(Byte) /\ Len(buffer') = n
  BY <1>1, <1>2, <1>4, SubSeqProperties
<1>6. QED
  BY <1>1, <1>2, <1>3, <1>5 DEF d

LEMMA ReadTyped ==
  ASSUME Typed, Read
  PROVE  Typed'
<1>1. /\ UNCHANGED <<run, outTo, statusTo, streams, stage, k, sent, rc, before>>
      /\ stage = "flush" /\ ~ Writing
  BY DEF Read, Flushing, fixed
<1>2. buffer' \in Seq(Byte) /\ Len(buffer') \in Nat \ {0} /\ pos' \in Nat
  BY ReadText DEF Typed, TypeOK
<1>3. sent = 0
  BY <1>1, EmptySeq DEF Typed, TypeOK, Writing
<1>4. QED
  BY <1>1, <1>2, <1>3 DEF Typed, TypeOK, Phases, Writing, Target

LEMMA StepTyped == Typed /\ [Next]_vars => Typed'
<1> SUFFICES ASSUME Typed, [Next]_vars PROVE Typed'
  OBVIOUS
<1>1. /\ k \in Nat \ {0} /\ pos \in Nat /\ rc \in {"ok", "error"}
      /\ before \in Seq(Byte) /\ stage \in {"nodes", "flush", "end", "over", "killed"}
  BY DEF Typed, TypeOK
<1>2. CASE NodeReports
  <2>1. /\ Emit(run.events[k]) /\ ~ Writing /\ stage = "nodes" /\ stage' = "nodes" /\ rc' = rc
        /\ Line(run.events[k]) \in Seq(Byte) \cup {Dropped}
    BY <1>2, OutputAssumption DEF NodeReports, Typed, TypeOK
  <2>2. QED
    BY <2>1, EmitStep
<1>3. CASE RunEnds
  <2>1. /\ Emit(Ended(run, rc)) /\ ~ Writing /\ stage' = "over" /\ stage = "end" /\ rc' = rc
        /\ Line(Ended(run, rc)) \in Seq(Byte) \cup {Dropped}
    BY <1>3, OutputAssumption DEF RunEnds, Typed, TypeOK, Phases
  <2>2. QED
    BY <2>1, EmitStep
<1>4. CASE NodesDone
  <2>1. /\ UNCHANGED <<run, outTo, statusTo, streams, pos, buffer, sent>>
        /\ stage = "nodes" /\ ~ Writing
        /\ stage' = (IF run.fails \/ outTo = NoFd THEN "end" ELSE "flush")
        /\ rc' \in {"ok", "error"}
        /\ k' = (IF stage' = "flush" THEN 1 ELSE k)
        /\ before' = (IF stage' = "flush" THEN streams[outTo] ELSE before)
    BY <1>4 DEF NodesDone, fixed
  <2>2. stage' = "flush" => outTo \in Sink /\ streams[outTo] \in Seq(Byte)
    BY <2>1 DEF Typed, TypeOK
  <2>3. before' \in Seq(Byte) /\ k' \in Nat \ {0} /\ stage' \in {"flush", "end"}
    BY <1>1, <2>1, <2>2
  <2>4. QED
    BY <1>1, <2>1, <2>2, <2>3, WasIdle, IdleTyped
<1>5. CASE Write
  BY <1>5, WriteTyped
<1>6. CASE EventFails \/ Killed
  <2>1. /\ UNCHANGED <<run, outTo, statusTo, streams, k, pos, rc, before>>
        /\ buffer' = <<>> /\ sent' = 0 /\ stage' \in {stage, "killed"}
    BY <1>6 DEF EventFails, Killed, fixed
  <2>2. QED
    BY <1>1, <2>1, IdleTyped DEF Typed, Phases
<1>7. CASE SkipAbsent \/ EndOfBranch
  <2>1. /\ UNCHANGED <<run, outTo, statusTo, streams, stage, buffer, sent, rc>>
        /\ stage = "flush" /\ ~ Writing /\ k' = k + 1 /\ pos' \in {pos, 0}
        /\ before' \in {before, streams[outTo]}
    BY <1>7 DEF SkipAbsent, EndOfBranch, Flushing, fixed
  <2>2. outTo \in Sink /\ streams[outTo] \in Seq(Byte)
    BY <2>1 DEF Typed, TypeOK, Phases
  <2>3. k' \in Nat \ {0} /\ pos' \in Nat /\ before' \in Seq(Byte)
    BY <1>1, <2>1, <2>2
  <2>4. QED
    BY <1>1, <2>1, <2>2, <2>3, WasIdle, IdleTyped
<1>8. CASE Read
  BY <1>8, ReadTyped
<1>9. CASE FlushFails \/ Flushed
  <2>1. Len(run.events) + 1 \in Nat \ {0}
    BY OutputAssumption DEF Typed, TypeOK
  <2>2. /\ UNCHANGED <<run, outTo, statusTo, streams, pos, before>>
        /\ stage' = "end" /\ k' = Len(run.events) + 1 /\ rc' \in {rc, "error"}
        /\ (buffer' = <<>> /\ sent' = 0) \/ (~ Writing /\ UNCHANGED <<buffer, sent>>)
    BY <1>9 DEF FlushFails, Flushed, fixed
  <2>3. QED
    BY <1>1, <2>1, <2>2, WasIdle, IdleTyped
<1>10. CASE Over \/ UNCHANGED vars
  BY <1>10 DEF Over, vars, Typed, TypeOK, Phases, Writing, Target
<1>11. QED
  BY <1>2, <1>3, <1>4, <1>5, <1>6, <1>7, <1>8, <1>9, <1>10 DEF Next

THEOREM TypeCorrect == Spec => []TypeOK
<1>1. Typed => TypeOK
  BY DEF Typed
<1>2. QED
  BY <1>1, InitTyped, StepTyped, PTL DEF Spec

----------------------------------------------------------------------------
(* What waits in the buffer is the end of what was read, so that writing   *)
(* the rest of it continues the copy where it is.                          *)

Present == k \in DOMAIN run.branches /\ run.branches[k] # Absent

Copying ==
  stage = "flush" =>
    IF Present
      THEN LET d == run.branches[k] IN
             /\ pos <= Len(d) /\ Len(buffer) <= pos
             /\ Writing => buffer = SubSeq(d, pos - Len(buffer) + 1, pos)
             /\ streams[outTo] = before \o SubSeq(d, 1, pos - (Len(buffer) - sent))
      ELSE ~ Writing /\ pos = 0 /\ streams[outTo] = before

LEMMA BranchBegins ==
  ASSUME Typed', stage' = "flush", buffer' = <<>>, sent' = 0, pos' = 0,
         streams'[outTo'] = before'
  PROVE  Copying'
<1>1. Len(<<>>) = 0 /\ before' \in Seq(Byte)
  BY EmptySeq DEF Typed, TypeOK
<1>2. ~ Writing'
  BY DEF Writing
<1>3. CASE Present'
  <2>1. Len(run.branches[k])' \in Nat
    BY <1>3, BranchIsText DEF Typed, Present
  <2>2. SubSeq(run.branches[k]', 1, 0) = <<>>
    BY SubSeqEmpty
  <2>3. before' \o <<>> = before'
    BY <1>1, ConcatEmptySeq
  <2>4. QED
    BY <1>1, <1>2, <1>3, <2>1, <2>2, <2>3 DEF Copying
<1>4. QED
  BY <1>2, <1>3 DEF Copying

LEMMA WriteCopies ==
  ASSUME Typed, Copying, Write, stage = "flush"
  PROVE  Copying'
<1> DEFINE d == run.branches[k]
<1>1. Present
  BY DEF Write, Copying
<1>2. d \in Seq(Byte) /\ Len(d) \in Nat
  BY <1>1, BranchIsText DEF Typed, Present
<1>3. /\ pos <= Len(d) /\ Len(buffer) <= pos /\ pos \in Nat
      /\ buffer = SubSeq(d, pos - Len(buffer) + 1, pos)
      /\ streams[outTo] = before \o SubSeq(d, 1, pos - (Len(buffer) - sent))
  BY <1>1 DEF Write, Copying, Typed, TypeOK
<1>4. PICK n \in 1..Len(buffer) - sent :
        /\ streams' = [streams EXCEPT ![outTo] = @ \o SubSeq(buffer, sent + 1, sent + n)]
        /\ IF sent + n = Len(buffer)
             THEN buffer' = <<>> /\ sent' = 0
             ELSE sent' = sent + n /\ buffer' = buffer
  BY DEF Write, Target
<1>5. /\ buffer \in Seq(Byte) /\ Len(buffer) \in Nat \ {0} /\ sent \in Nat /\ n \in Nat \ {0}
      /\ sent + n <= Len(buffer) /\ before \in Seq(Byte) /\ outTo \in Sink
      /\ streams \in [Sink -> Seq(Byte)]
  BY EmptySeq, LenProperties DEF Write, Writing, Typed, TypeOK, Phases
<1>6. UNCHANGED <<run, outTo, stage, k, pos, before>>
  BY DEF Write, fixed
<1> DEFINE from == pos - (Len(buffer) - sent)
<1>7. from \in Nat /\ from + n <= Len(d)
  BY <1>2, <1>3, <1>5
<1> HIDE DEF d
<1>8. SubSeq(buffer, sent + 1, sent + n) = SubSeq(d, from + 1, from + n)
  <2>1. /\ pos \in 1..Len(d) /\ Len(buffer) \in 1..pos
        /\ sent \in 0..Len(buffer) - 1 /\ n \in 1..Len(buffer) - sent
    BY <1>2, <1>3, <1>5
  <2>2. SubSeq(SubSeq(d, pos - Len(buffer) + 1, pos), sent + 1, sent + n)
          = SubSeq(d, from + 1, from + n)
    BY <1>2, <2>1, PartOfRead
  <2>3. QED
    BY <1>3, <2>2 DEF d
<1>9. (before \o SubSeq(d, 1, from)) \o SubSeq(d, from + 1, from + n)
        = before \o SubSeq(d, 1, from + n)
  <2>1. before \in Seq(Byte) /\ d \in Seq(Byte) /\ n \in Nat
    BY <1>2, <1>5 DEF d
  <2>2. from \in Nat /\ from + n <= Len(d)
    BY <1>7
  <2> HIDE DEF from
  <2>3. QED
    BY <2>1, <2>2, CopyOn, Zenon DEF Cat
<1>10. streams'[outTo] = before \o SubSeq(d, 1, from + n)
  <2>1. streams'[outTo] = streams[outTo] \o SubSeq(buffer, sent + 1, sent + n)
    BY <1>4, <1>5
  <2>2. QED
    BY <1>3, <1>8, <1>9, <2>1 DEF d
<1>11. pos' - (Len(buffer') - sent') = from + n
  <2>1. CASE sent + n = Len(buffer)
    <3>1. buffer' = <<>> /\ sent' = 0 /\ Len(<<>>) = 0
      BY <1>4, <2>1, EmptySeq
    <3>2. from + n = pos /\ pos \in Nat
      <4>1. pos \in Nat /\ sent \in Nat /\ n \in Nat
        BY <1>3, <1>5
      <4>2. QED
        BY <2>1, <4>1
    <3>3. Len(buffer') = 0 /\ pos' = pos
      BY <1>6, <3>1
    <3>4. QED
      BY <3>1, <3>2, <3>3
  <2>2. CASE sent + n # Len(buffer)
    BY <1>3, <1>4, <1>5, <1>6, <2>2
  <2>3. QED
    BY <2>1, <2>2
<1>12. Len(buffer') <= pos' /\ (Writing' => buffer' = SubSeq(d, pos' - Len(buffer') + 1, pos'))
  <2>1. CASE sent + n = Len(buffer)
    BY <1>3, <1>4, <1>6, <2>1, EmptySeq DEF Writing
  <2>2. CASE sent + n # Len(buffer)
    BY <1>3, <1>4, <1>6, <2>2
  <2>3. QED
    BY <2>1, <2>2
<1>13. Present' /\ run.branches[k]' = d
  BY <1>1, <1>6 DEF Present, d
<1>14. QED
  BY <1>3, <1>6, <1>10, <1>11, <1>12, <1>13 DEF Copying

LEMMA ReadCopies ==
  ASSUME Typed, Copying, Read
  PROVE  Copying'
<1>1. /\ UNCHANGED <<run, outTo, streams, stage, k, sent, before>>
      /\ stage = "flush" /\ ~ Writing /\ Present
  BY DEF Read, Flushing, fixed, Present
<1>2. /\ streams[outTo] = before \o SubSeq(run.branches[k], 1, pos - (Len(buffer) - sent))
      /\ pos \in Nat
  BY <1>1 DEF Copying, Typed, TypeOK
<1>3. buffer = <<>> /\ sent = 0 /\ Len(<<>>) = 0
  BY <1>1, WasIdle, EmptySeq
<1>4. streams[outTo] = before \o SubSeq(run.branches[k], 1, pos)
  BY <1>2, <1>3
<1>5. /\ Len(buffer') \in Nat \ {0} /\ pos' = pos + Len(buffer')
      /\ pos' <= Len(run.branches[k])
      /\ buffer' = SubSeq(run.branches[k], pos + 1, pos')
  BY ReadText DEF Typed
<1>6. /\ pos' - (Len(buffer') - sent') = pos /\ pos' - Len(buffer') + 1 = pos + 1
      /\ Len(buffer') <= pos'
  BY <1>1, <1>2, <1>3, <1>5
<1>7. /\ stage' = "flush" /\ Present' /\ run.branches[k]' = run.branches[k]
      /\ streams'[outTo'] = before' \o SubSeq(run.branches[k], 1, pos' - (Len(buffer') - sent'))
      /\ buffer' = SubSeq(run.branches[k], pos' - Len(buffer') + 1, pos')
  BY <1>1, <1>4, <1>5, <1>6 DEF Present
<1>8. QED
  BY <1>5, <1>6, <1>7 DEF Copying

LEMMA CopyingStep == Typed /\ Typed' /\ Copying /\ [Next]_vars => Copying'
<1> SUFFICES ASSUME Typed, Typed', Copying, [Next]_vars PROVE Copying'
  OBVIOUS
<1>1. CASE NodesDone
  <2>1. CASE stage' = "flush"
    <3>1. pos = 0 /\ ~ Writing
      BY <1>1 DEF NodesDone, Typed, Phases
    <3>2. streams'[outTo'] = before' /\ UNCHANGED <<pos, buffer, sent>>
      BY <1>1, <2>1 DEF NodesDone, fixed
    <3>3. QED
      BY <2>1, <3>1, <3>2, WasIdle, BranchBegins
  <2>2. QED
    BY <2>1 DEF Copying
<1>2. CASE SkipAbsent
  <2>1. /\ stage = "flush" /\ stage' = "flush" /\ ~ Writing /\ ~ Present
        /\ UNCHANGED <<outTo, streams, before, pos, buffer, sent>>
    BY <1>2 DEF SkipAbsent, Flushing, Present, fixed
  <2>2. QED
    BY <2>1, WasIdle, BranchBegins DEF Copying
<1>3. CASE EndOfBranch
  <2>1. /\ stage' = "flush" /\ ~ Writing /\ pos' = 0
        /\ streams'[outTo'] = before' /\ UNCHANGED <<buffer, sent>>
    BY <1>3 DEF EndOfBranch, Flushing, fixed
  <2>2. QED
    BY <2>1, WasIdle, BranchBegins
<1>4. CASE Write /\ stage = "flush"
  BY <1>4, WriteCopies
<1>5. CASE Read
  BY <1>5, ReadCopies
<1>6. CASE Over \/ UNCHANGED vars
  BY <1>6 DEF Over, vars, Copying, Present, Writing
<1>7. CASE \/ NodeReports \/ RunEnds \/ EventFails \/ Killed \/ FlushFails \/ Flushed
           \/ (Write /\ stage # "flush")
  <2>1. stage' # "flush"
    BY <1>7 DEF NodeReports, RunEnds, EventFails, Killed, FlushFails, Flushed, Write
  <2>2. QED
    BY <2>1 DEF Copying
<1>8. QED
  BY <1>1, <1>2, <1>3, <1>4, <1>5, <1>6, <1>7 DEF Next

LEMMA CopyInvariant == Spec => [](Typed /\ Copying)
<1>1. Init => Typed /\ Copying
  BY InitTyped DEF Init, Copying
<1>2. Typed /\ Copying /\ [Next]_vars => (Typed /\ Copying)'
  BY StepTyped, CopyingStep
<1>3. QED
  BY <1>1, <1>2, PTL DEF Spec

(* --fd-out has at any time the part of the branch that was written to it, *)
(* and nothing else since the branch began.                                *)
THEOREM CopyCorrect == Spec => []CopyIsExact
<1>1. Typed /\ Copying => CopyIsExact
  <2> SUFFICES ASSUME Typed, Copying, stage = "flush", k \in DOMAIN run.branches
               PROVE  CopyIsExact
    BY DEF CopyIsExact
  <2>1. CASE ~ Present
    BY <2>1 DEF Present, Copying, CopyIsExact
  <2>2. CASE Present
    <3>1. /\ Len(run.branches[k]) \in Nat /\ Len(buffer) \in Nat
          /\ pos \in Nat /\ sent \in 0..Len(buffer)
      BY <2>2, BranchIsText, LenProperties DEF Present, Typed, TypeOK
    <3>2. /\ pos <= Len(run.branches[k]) /\ Len(buffer) <= pos
          /\ streams[outTo] = before \o SubSeq(run.branches[k], 1, pos - (Len(buffer) - sent))
      BY <2>2 DEF Copying
    <3>3. pos - (Len(buffer) - sent) \in 0..Len(run.branches[k])
      BY <3>1, <3>2
    <3>4. QED
      BY <2>2, <3>2, <3>3 DEF Present, CopyIsExact
  <2>3. QED
    BY <2>1, <2>2
<1>2. QED
  BY <1>1, CopyInvariant, PTL

(* No branch is left before it is all there.                               *)
THEOREM BranchesAreWhole == Spec => BranchIsWhole
<1> DEFINE Whole ==
      stage = "flush" /\ stage' = "flush" /\ k' # k =>
        streams' = [streams EXCEPT ![outTo] =
          before \o (IF run.branches[k] = Absent THEN <<>> ELSE run.branches[k])]
<1>1. Typed /\ Copying /\ [Next]_vars => Whole
  <2> SUFFICES ASSUME Typed, Copying, [Next]_vars, stage = "flush", stage' = "flush", k' # k
               PROVE  Whole
    OBVIOUS
  <2>1. before \in Seq(Byte) /\ streams \in [Sink -> Seq(Byte)] /\ outTo \in Sink
    BY DEF Typed, TypeOK, Phases
  <2>2. CASE SkipAbsent
    <3>1. streams' = streams /\ run.branches[k] = Absent /\ streams[outTo] = before
      BY <2>2 DEF SkipAbsent, Copying, Present
    <3>2. before \o <<>> = before
      BY <2>1, ConcatEmptySeq
    <3>3. QED
      BY <2>1, <3>1, <3>2
  <2>3. CASE EndOfBranch
    <3>1. /\ streams' = streams /\ Present /\ Unread = 0
          /\ buffer = <<>> /\ sent = 0 /\ Len(<<>>) = 0
      BY <2>3, WasIdle, EmptySeq DEF EndOfBranch, Flushing, Present
    <3>2. run.branches[k] \in Seq(Byte) /\ Len(run.branches[k]) \in Nat /\ pos \in Nat
      BY <3>1, BranchIsText DEF Present, Typed, TypeOK
    <3>3. pos = Len(run.branches[k]) /\ pos - (0 - 0) = pos
      BY <3>1, <3>2 DEF Unread
    <3>4. streams[outTo] = before \o SubSeq(run.branches[k], 1, Len(run.branches[k]))
      BY <3>1, <3>3 DEF Copying
    <3>5. SubSeq(run.branches[k], 1, Len(run.branches[k])) = run.branches[k]
      BY <3>2, SubSeqFull
    <3>6. QED
      BY <2>1, <3>1, <3>4, <3>5 DEF Present
  <2>4. SkipAbsent \/ EndOfBranch
    BY DEF Next, vars, NodeReports, NodesDone, RunEnds, Write, EventFails, Killed, Read,
           FlushFails, Flushed, Over
  <2>5. QED
    BY <2>2, <2>3, <2>4
<1>2. Spec => [][Whole]_vars
  BY <1>1, CopyInvariant, PTL DEF Spec
<1>3. QED
  BY <1>2 DEF BranchIsWhole

----------------------------------------------------------------------------
(* In order                                                                *)

(* What is left of one more text.                                          *)
Piece(text, missing) == IF text = missing THEN <<>> ELSE text

(* Texts of which the first n are there or missing.                        *)
Given(S, texts, missing, n) == \A e \in 1..n : texts[e] = missing \/ texts[e] \in Seq(S)

LEMMA BytesMore ==
  ASSUME NEW S, NEW texts, NEW missing, NEW n \in Nat, Given(S, texts, missing, n + 1)
  PROVE  /\ Bytes(texts, missing, n) \in Seq(S)
         /\ Piece(texts[n + 1], missing) \in Seq(S)
         /\ Bytes(texts, missing, n + 1)
              = Cat(Bytes(texts, missing, n), Piece(texts[n + 1], missing))
<1> DEFINE all(m) == [e \in 1..m |-> Piece(texts[e], missing)]
<1>1. n + 1 \in Nat /\ n + 1 \in 1..n + 1 /\ \A e \in 1..n : e \in 1..n + 1
  OBVIOUS
<1>2. \A e \in 1..n + 1 : Piece(texts[e], missing) \in Seq(S)
  <2>1. <<>> \in Seq(S)
    BY EmptySeq
  <2>2. QED
    BY <2>1 DEF Given, Piece
<1>3. all(n) \in Seq(Seq(S)) /\ all(n + 1) \in Seq(Seq(S))
  <2>1. all(n) \in [1..n -> Seq(S)] /\ all(n + 1) \in [1..n + 1 -> Seq(S)]
    BY <1>1, <1>2
  <2>2. QED
    BY <1>1, <2>1, SeqDef
<1>4. all(n + 1) = Append(all(n), Piece(texts[n + 1], missing))
  <2>1. /\ Len(all(n)) = n /\ \A e \in 1..n : all(n)[e] = Piece(texts[e], missing)
        /\ Len(all(n + 1)) = n + 1
        /\ \A e \in 1..n + 1 : all(n + 1)[e] = Piece(texts[e], missing)
    BY <1>1, <1>3, LenProperties
  <2> DEFINE p == Piece(texts[n + 1], missing)
  <2>2. p \in Seq(S)
    BY <1>1, <1>2
  <2> HIDE DEF all
  <2>3. /\ Append(all(n), p) \in Seq(Seq(S)) /\ Len(Append(all(n), p)) = n + 1
        /\ \A e \in 1..n : Append(all(n), p)[e] = all(n)[e]
        /\ Append(all(n), p)[n + 1] = p
    BY <1>3, <2>1, <2>2, AppendProperties
  <2>4. \A e \in 1..n + 1 : e \in 1..n \/ e = n + 1
    OBVIOUS
  <2>5. \A e \in 1..n + 1 : all(n + 1)[e] = Append(all(n), p)[e]
    BY <2>1, <2>3, <2>4
  <2>6. QED
    BY <1>3, <2>1, <2>3, <2>5, SeqEqual
<1> DEFINE p == Piece(texts[n + 1], missing)
<1>5. p \in Seq(S)
  BY <1>1, <1>2
<1>6. \A m : Bytes(texts, missing, m) = FlattenSeq(all(m))
  BY DEF Bytes, Piece
<1> HIDE DEF all
<1>7. FlattenSeq(Append(all(n), p)) = Cat(FlattenSeq(all(n)), p)
  BY <1>3, <1>5, FlattenLast
<1>8. FlattenSeq(all(n)) \in Seq(S)
  BY <1>3, FlattenType
<1>9. QED
  BY <1>4, <1>5, <1>6, <1>7, <1>8

LEMMA NoBytes ==
  ASSUME NEW texts, NEW missing
  PROVE  Bytes(texts, missing, 0) = <<>>
<1>1. [e \in 1..0 |-> IF texts[e] = missing THEN <<>> ELSE texts[e]] = <<>>
  OBVIOUS
<1>2. QED
  BY <1>1, FlattenNone DEF Bytes

LEMMA BytesBegin ==
  ASSUME NEW S, NEW texts, NEW missing, NEW n \in Nat, Given(S, texts, missing, n),
         NEW j \in 0..n
  PROVE  /\ Bytes(texts, missing, j) \in Seq(S) /\ Bytes(texts, missing, n) \in Seq(S)
         /\ Begins(S, Bytes(texts, missing, j), Bytes(texts, missing, n))
<1> DEFINE b(m) == Bytes(texts, missing, m)
<1>1. \A m \in 0..n : b(m) \in Seq(S)
  <2>1. b(0) \in Seq(S)
    BY NoBytes, EmptySeq
  <2>2. ASSUME NEW m \in 1..n
        PROVE  b(m) \in Seq(S)
    <3>1. m - 1 \in Nat /\ m - 1 + 1 = m /\ Given(S, texts, missing, m)
      BY DEF Given
    <3>2. /\ b(m - 1) \in Seq(S) /\ Piece(texts[m], missing) \in Seq(S)
          /\ b(m) = Cat(b(m - 1), Piece(texts[m], missing))
      <4>1. \A i \in Nat : Given(S, texts, missing, i + 1) =>
              /\ b(i) \in Seq(S) /\ Piece(texts[i + 1], missing) \in Seq(S)
              /\ b(i + 1) = Cat(b(i), Piece(texts[i + 1], missing))
        BY BytesMore
      <4> HIDE DEF b
      <4>2. LET i == m - 1 IN
              /\ b(i) \in Seq(S) /\ Piece(texts[i + 1], missing) \in Seq(S)
              /\ b(i + 1) = Cat(b(i), Piece(texts[i + 1], missing))
        BY <3>1, <4>1
      <4>3. QED
        BY <3>1, <4>2
    <3> HIDE DEF b
    <3>3. QED
      BY <3>2, CatFacts
  <2>3. QED
    BY <2>1, <2>2
<1>2. \A m \in 0..n - 1 : /\ Piece(texts[m + 1], missing) \in Seq(S)
                          /\ b(m + 1) = Cat(b(m), Piece(texts[m + 1], missing))
  <2>1. \A m \in 0..n - 1 : m \in Nat /\ Given(S, texts, missing, m + 1)
    BY DEF Given
  <2>2. QED
    BY <2>1, BytesMore
<1> HIDE DEF b
<1> DEFINE Bad == {m \in j..n : ~ Begins(S, b(j), b(m))}
<1>3. ASSUME NEW m \in Bad, \A x \in Bad : m <= x
      PROVE  FALSE
  <2>1. m \in j..n /\ ~ Begins(S, b(j), b(m))
    OBVIOUS
  <2>2. m # j
    BY <1>1, <2>1, BeginsItself
  <2>3. m - 1 \in j..n /\ ~ (m <= m - 1) /\ m - 1 \in 0..n - 1 /\ m - 1 + 1 = m /\ j \in 0..n
    BY <2>1, <2>2
  <2>4. Begins(S, b(j), b(m - 1))
    BY <1>3, <2>3
  <2>5. /\ Piece(texts[m - 1 + 1], missing) \in Seq(S)
        /\ b(m - 1 + 1) = Cat(b(m - 1), Piece(texts[m - 1 + 1], missing))
    BY <1>2, <2>3
  <2>6. b(j) \in Seq(S) /\ b(m - 1) \in Seq(S)
    BY <1>1, <2>3
  <2>7. Begins(S, b(j), b(m - 1 + 1))
    BY <2>4, <2>5, <2>6, BeginsMore
  <2>8. QED
    BY <2>1, <2>3, <2>7
<1>4. Bad \in SUBSET Nat
  OBVIOUS
<1> HIDE DEF Bad
<1>5. Bad = {}
  BY <1>3, <1>4, Least
<1>6. n \in j..n /\ j \in 0..n /\ n \in 0..n
  OBVIOUS
<1>7. Begins(S, b(j), b(n))
  BY <1>5, <1>6 DEF Bad
<1>8. QED
  BY <1>1, <1>6, <1>7 DEF b

----------------------------------------------------------------------------
(* Where the run is, in terms of what its readers are to get: what has     *)
(* arrived and what waits in the buffer together are the events so far and *)
(* the branches up to the offset.                                          *)

Heard(s)  == s # statusTo \/ failed = {}
Coming(s) == IF Writing /\ s = Target THEN SubSeq(buffer, sent + 1, Len(buffer)) ELSE <<>>
Arrived(s) == Cat(streams[s], Coming(s))

AllNodes    == Reported(Len(run.events))
AllBranches == OutBytes(Len(run.branches))
Part        == IF Present THEN SubSeq(run.branches[k], 1, pos) ELSE <<>>
CopiedSoFar == Cat(OutBytes(k - 1), Part)
Main(s, out) == Cat(Asked(statusTo, s, AllNodes), Asked(outTo, s, out))
Sofar(s)     == Main(s, CopiedSoFar)
First(n)     == SubSeq(AllBranches, 1, n)
Kept(s, n)   == Main(s, First(n))
Counts       == {n \in 0..Len(AllBranches) : rc = "ok" => n = Len(AllBranches)}

NodesTold ==
  stage = "nodes" =>
    /\ k \in 1..Len(run.events) + 1 /\ rc = "ok"
    /\ \A s \in Sink : Heard(s) => Arrived(s) = Asked(statusTo, s, Reported(k - 1))

BranchesCopied ==
  stage = "flush" =>
    /\ k \in 1..Len(run.branches) + 1 /\ rc = "ok" /\ ~ run.fails
    /\ \A s \in Sink : Heard(s) => Arrived(s) = Sofar(s)

CutOff ==
  stage = "end" =>
    \A s \in Sink : Heard(s) => \E n \in Counts : streams[s] = Kept(s, n)

EndTold ==
  stage = "over" =>
    \A s \in Sink : Heard(s) => \E n \in Counts : Arrived(s) = Due(s, n)

KilledInBetween ==
  stage = "killed" =>
    /\ ~ Writing
    /\ \A s \in Sink : Heard(s) => \E n \in Counts : Begins(Byte, streams[s], Due(s, n))

Delivering == NodesTold /\ BranchesCopied /\ CutOff /\ EndTold /\ KilledInBetween

LEMMA RunTexts ==
  ASSUME TypeOK
  PROVE  /\ Len(run.events) \in Nat /\ Len(run.branches) \in Nat
         /\ DOMAIN run.events = 1..Len(run.events)
         /\ DOMAIN run.branches = 1..Len(run.branches)
         /\ Given(Byte, Lines, Dropped, Len(run.events))
         /\ Given(Byte, run.branches, Absent, Len(run.branches))
         /\ Line(Ended(run, rc)) \in Seq(Byte) \cup {Dropped}
<1>1. run \in Runs /\ rc \in {"ok", "error"}
  BY DEF TypeOK
<1>2. /\ run.branches \in Seq(Seq(Byte) \cup {Absent})
      /\ Len(run.events) \in Nat /\ DOMAIN run.events = 1..Len(run.events)
      /\ \A e \in DOMAIN run.events : Line(run.events[e]) \in Seq(Byte) \cup {Dropped}
      /\ Line(Ended(run, rc)) \in Seq(Byte) \cup {Dropped}
  BY <1>1, OutputAssumption
<1>3. /\ Len(run.branches) \in Nat /\ DOMAIN run.branches = 1..Len(run.branches)
      /\ \A e \in 1..Len(run.branches) : run.branches[e] \in Seq(Byte) \cup {Absent}
  BY <1>2, LenProperties, ElementOfSeq
<1>4. QED
  BY <1>2, <1>3 DEF Given, Lines

(* The bytes of events and branches, one more at a time.                   *)
LEMMA Telling ==
  ASSUME TypeOK
  PROVE  /\ \A j \in 0..Len(run.events) :
              Reported(j) \in Seq(Byte) /\ Begins(Byte, Reported(j), AllNodes)
         /\ \A j \in 1..Len(run.events) :
              /\ Piece(Line(run.events[j]), Dropped) \in Seq(Byte)
              /\ Reported(j) = Cat(Reported(j - 1), Piece(Line(run.events[j]), Dropped))
         /\ Reported(0) = <<>>
<1> DEFINE N == Len(run.events)
<1>1. N \in Nat /\ Given(Byte, Lines, Dropped, N) /\ DOMAIN run.events = 1..N
  BY RunTexts
<1>2. \A j \in 0..N : Reported(j) \in Seq(Byte) /\ Begins(Byte, Reported(j), AllNodes)
  BY <1>1, BytesBegin DEF Reported, AllNodes
<1>3. ASSUME NEW j \in 1..N
      PROVE  /\ Piece(Line(run.events[j]), Dropped) \in Seq(Byte)
             /\ Reported(j) = Cat(Reported(j - 1), Piece(Line(run.events[j]), Dropped))
  <2> DEFINE m == j - 1
  <2>1. m \in Nat /\ m + 1 = j /\ Given(Byte, Lines, Dropped, m + 1)
    BY <1>1 DEF Given
  <2> HIDE DEF m
  <2>2. /\ Piece(Lines[m + 1], Dropped) \in Seq(Byte)
        /\ Reported(m + 1) = Cat(Reported(m), Piece(Lines[m + 1], Dropped))
    BY <2>1, BytesMore DEF Reported
  <2>3. Lines[j] = Line(run.events[j])
    BY <1>1 DEF Lines
  <2>4. QED
    BY <2>1, <2>2, <2>3 DEF m
<1>4. Reported(0) = <<>>
  BY NoBytes DEF Reported
<1>5. QED
  BY <1>2, <1>3, <1>4

LEMMA Copies ==
  ASSUME TypeOK
  PROVE  /\ AllBranches \in Seq(Byte) /\ Len(AllBranches) \in Nat /\ OutBytes(0) = <<>>
         /\ ~ run.fails =>
              /\ \A j \in 0..Len(run.branches) :
                   OutBytes(j) \in Seq(Byte) /\ Begins(Byte, OutBytes(j), AllBranches)
              /\ \A j \in 1..Len(run.branches) :
                   /\ Piece(run.branches[j], Absent) \in Seq(Byte)
                   /\ OutBytes(j) = Cat(OutBytes(j - 1), Piece(run.branches[j], Absent))
<1> DEFINE N == Len(run.branches)
<1>1. N \in Nat /\ Given(Byte, run.branches, Absent, N)
  BY RunTexts
<1>2. ASSUME ~ run.fails
      PROVE  /\ \A j \in 0..N : OutBytes(j) \in Seq(Byte) /\ Begins(Byte, OutBytes(j), AllBranches)
             /\ \A j \in 1..N :
                   /\ Piece(run.branches[j], Absent) \in Seq(Byte)
                   /\ OutBytes(j) = Cat(OutBytes(j - 1), Piece(run.branches[j], Absent))
  <2>1. \A j \in 0..N : OutBytes(j) \in Seq(Byte) /\ Begins(Byte, OutBytes(j), AllBranches)
    BY <1>1, <1>2, BytesBegin DEF OutBytes, AllBranches
  <2>2. ASSUME NEW j \in 1..N
        PROVE  /\ Piece(run.branches[j], Absent) \in Seq(Byte)
               /\ OutBytes(j) = Cat(OutBytes(j - 1), Piece(run.branches[j], Absent))
    <3> DEFINE m == j - 1
    <3>1. m \in Nat /\ m + 1 = j /\ Given(Byte, run.branches, Absent, m + 1)
      BY <1>1 DEF Given
    <3> HIDE DEF m
    <3>2. /\ Piece(run.branches[m + 1], Absent) \in Seq(Byte)
          /\ OutBytes(m + 1) = Cat(OutBytes(m), Piece(run.branches[m + 1], Absent))
      BY <1>2, <3>1, BytesMore DEF OutBytes
    <3>3. QED
      BY <3>1, <3>2 DEF m
  <2>3. QED
    BY <2>1, <2>2
<1>3. AllBranches \in Seq(Byte)
  <2>1. CASE run.fails
    BY <2>1, EmptySeq DEF AllBranches, OutBytes
  <2>2. CASE ~ run.fails
    <3>1. N \in 0..N
      BY <1>1
    <3>2. QED
      BY <1>2, <2>2, <3>1 DEF AllBranches
  <2>3. QED
    BY <2>1, <2>2
<1>4. OutBytes(0) = <<>>
  BY NoBytes DEF OutBytes
<1>5. QED
  BY <1>2, <1>3, <1>4, LenProperties

LEMMA Asking ==
  ASSUME NEW option, NEW s, NEW text \in Seq(Byte)
  PROVE  Asked(option, s, text) \in Seq(Byte)
BY EmptySeq DEF Asked

LEMMA MainText ==
  ASSUME TypeOK, NEW s, NEW out \in Seq(Byte)
  PROVE  /\ Asked(statusTo, s, AllNodes) \in Seq(Byte)
         /\ Asked(statusTo, s, EndReported) \in Seq(Byte)
         /\ Main(s, out) \in Seq(Byte)
<1>1. AllNodes \in Seq(Byte)
  <2>1. Len(run.events) \in 0..Len(run.events)
    BY RunTexts
  <2>2. QED
    BY <2>1, Telling DEF AllNodes
<1>2. EndReported \in Seq(Byte)
  <2> DEFINE end == <<Line(Ended(run, rc))>>
  <2>1. Given(Byte, end, Dropped, 1)
    BY RunTexts DEF Given
  <2>2. 1 \in Nat /\ 0 \in 0..1
    OBVIOUS
  <2>3. Bytes(end, Dropped, 1) \in Seq(Byte)
    BY <2>1, <2>2, BytesBegin
  <2>4. QED
    BY <2>3 DEF EndReported
<1>3. Asked(statusTo, s, AllNodes) \in Seq(Byte) /\ Asked(outTo, s, out) \in Seq(Byte)
      /\ Asked(statusTo, s, EndReported) \in Seq(Byte)
  BY <1>1, <1>2, Asking
<1>4. QED
  BY <1>3, CatFacts DEF Main

LEMMA DueText ==
  ASSUME TypeOK, NEW s, NEW n \in 0..Len(AllBranches)
  PROVE  /\ First(n) \in Seq(Byte)
         /\ Due(s, n) = Cat(Kept(s, n), Asked(statusTo, s, EndReported))
         /\ Due(s, n) \in Seq(Byte) /\ Kept(s, n) \in Seq(Byte)
<1>1. First(n) \in Seq(Byte)
  BY Copies, PrefixFacts DEF First
<1>2. /\ Kept(s, n) \in Seq(Byte)
      /\ Asked(statusTo, s, EndReported) \in Seq(Byte)
  BY <1>1, MainText DEF Kept
<1>3. Due(s, n) = Cat(Kept(s, n), Asked(statusTo, s, EndReported))
  BY DEF Due, Cat, Kept, Main, First, AllNodes, AllBranches
<1>4. QED
  BY <1>1, <1>2, <1>3, CatFacts

LEMMA CopiedText ==
  ASSUME TypeOK, Copying, stage = "flush", ~ run.fails, k \in 1..Len(run.branches) + 1
  PROVE  /\ OutBytes(k - 1) \in Seq(Byte) /\ Part \in Seq(Byte) /\ CopiedSoFar \in Seq(Byte)
         /\ Begins(Byte, CopiedSoFar, AllBranches)
         /\ k = Len(run.branches) + 1 => CopiedSoFar = AllBranches
<1> DEFINE N == Len(run.branches)
<1>1. N \in Nat /\ k \in Nat \ {0} /\ k - 1 \in 0..N /\ DOMAIN run.branches = 1..N
  BY RunTexts
<1>2. OutBytes(k - 1) \in Seq(Byte) /\ Begins(Byte, OutBytes(k - 1), AllBranches)
  BY <1>1, Copies
<1>3. CASE Present
  <2> DEFINE d == run.branches[k]
  <2>1. k \in 1..N /\ d \in Seq(Byte) /\ Len(d) \in Nat /\ Part = SubSeq(d, 1, pos)
    BY <1>1, <1>3, BranchIsText DEF Present, Part
  <2>2. pos \in 0..Len(d)
    BY <1>3, <2>1 DEF Copying, TypeOK
  <2>3. Part \in Seq(Byte) /\ Begins(Byte, Part, d)
    BY <2>1, <2>2, BeginsPrefix
  <2>4. OutBytes(k) = Cat(OutBytes(k - 1), d) /\ OutBytes(k) \in Seq(Byte)
        /\ Begins(Byte, OutBytes(k), AllBranches)
    <3>1. Piece(d, Absent) = d
      BY <1>3 DEF Piece, Present
    <3>2. k \in 0..N
      BY <2>1
    <3>3. QED
      BY <2>1, <3>1, <3>2, Copies
  <2>5. CopiedSoFar \in Seq(Byte)
    BY <1>2, <2>3, CatFacts DEF CopiedSoFar
  <2>6. Begins(Byte, CopiedSoFar, OutBytes(k))
    BY <1>2, <2>1, <2>3, <2>4, BeginsPrefixed DEF CopiedSoFar
  <2>7. Begins(Byte, CopiedSoFar, AllBranches)
    BY <2>4, <2>5, <2>6, BeginsFurther
  <2>8. k # N + 1
    BY <1>1, <2>1
  <2>9. QED
    BY <1>2, <2>3, <2>5, <2>7, <2>8
<1>4. CASE ~ Present
  <2>1. Part = <<>> /\ <<>> \in Seq(Byte)
    BY <1>4, EmptySeq DEF Part
  <2>2. CopiedSoFar = OutBytes(k - 1)
    BY <1>2, <2>1, CatNone DEF CopiedSoFar
  <2>3. k = N + 1 => OutBytes(k - 1) = AllBranches
    <3>1. k = N + 1 => k - 1 = N
      BY <1>1
    <3>2. QED
      BY <3>1 DEF AllBranches
  <2>4. QED
    BY <1>2, <2>1, <2>2, <2>3
<1>5. QED
  BY <1>3, <1>4

LEMMA ArrivedIdle ==
  ASSUME TypeOK, NEW s \in Sink, ~ Writing \/ s # Target
  PROVE  Arrived(s) = streams[s] /\ streams[s] \in Seq(Byte)
<1>1. streams[s] \in Seq(Byte) /\ Coming(s) = <<>>
  BY DEF TypeOK, Coming
<1>2. QED
  BY <1>1, CatNone DEF Arrived

LEMMA ArrivedText ==
  ASSUME TypeOK, NEW s \in Sink
  PROVE  /\ streams[s] \in Seq(Byte) /\ Coming(s) \in Seq(Byte) /\ Arrived(s) \in Seq(Byte)
         /\ Begins(Byte, streams[s], Arrived(s))
         /\ Len(Coming(s)) <= Len(buffer)
<1>1. streams[s] \in Seq(Byte) /\ buffer \in Seq(Byte) /\ Len(buffer) \in Nat /\ sent \in 0..Len(buffer)
  BY LenProperties DEF TypeOK
<1>2. Coming(s) \in Seq(Byte) /\ Len(Coming(s)) <= Len(buffer)
  <2>1. CASE Writing /\ s = Target
    <3>1. sent + 1 \in Int /\ Len(buffer) \in Int /\ \A i \in sent + 1..Len(buffer) : buffer[i] \in Byte
      BY <1>1, ElementOfSeq
    <3>2. /\ SubSeq(buffer, sent + 1, Len(buffer)) \in Seq(Byte)
          /\ Len(SubSeq(buffer, sent + 1, Len(buffer)))
               = IF sent + 1 <= Len(buffer) THEN Len(buffer) - (sent + 1) + 1 ELSE 0
      BY <3>1, SubSeqProperties
    <3>3. (IF sent + 1 <= Len(buffer) THEN Len(buffer) - (sent + 1) + 1 ELSE 0) <= Len(buffer)
      BY <1>1
    <3>4. QED
      BY <2>1, <3>2, <3>3 DEF Coming
  <2>2. CASE ~ (Writing /\ s = Target)
    BY <1>1, <2>2, EmptySeq DEF Coming
  <2>3. QED
    BY <2>1, <2>2
<1>3. QED
  BY <1>1, <1>2, CatFacts DEF Arrived, Begins

(* A write moves bytes from the buffer to the stream, in their order.      *)
LEMMA WriteArrives ==
  ASSUME Typed, Write, NEW s \in Sink
  PROVE  Arrived(s)' = Arrived(s)
<1>1. PICK n \in 1..Len(buffer) - sent :
        /\ streams' = [streams EXCEPT ![Target] = @ \o SubSeq(buffer, sent + 1, sent + n)]
        /\ IF sent + n = Len(buffer)
             THEN buffer' = <<>> /\ sent' = 0
             ELSE sent' = sent + n /\ buffer' = buffer
  BY DEF Write
<1>2. /\ Target' = Target /\ Target \in Sink /\ Writing /\ streams \in [Sink -> Seq(Byte)]
      /\ buffer \in Seq(Byte) /\ sent \in Nat
  BY DEF Write, fixed, Typed, TypeOK, Target
<1>3. Len(buffer) \in Nat /\ n \in Nat /\ sent + n \in 1..Len(buffer)
  BY <1>2, LenProperties
<1>4. CASE s # Target
  BY <1>1, <1>2, <1>4 DEF Arrived, Coming
<1>5. CASE s = Target
  <2> DEFINE w == streams[s]
             p == SubSeq(buffer, sent + 1, sent + n)
             r == SubSeq(buffer, sent + n + 1, Len(buffer))
  <2>1. w \in Seq(Byte) /\ p \in Seq(Byte) /\ r \in Seq(Byte)
    <3>1. /\ sent + 1 \in Int /\ sent + n \in Int /\ sent + n + 1 \in Int /\ Len(buffer) \in Int
          /\ \A i \in sent + 1..sent + n : buffer[i] \in Byte
          /\ \A i \in sent + n + 1..Len(buffer) : buffer[i] \in Byte
      BY <1>2, <1>3, ElementOfSeq
    <3>2. QED
      BY <1>2, <3>1, SubSeqProperties
  <2>2. Cat(p, r) = SubSeq(buffer, sent + 1, Len(buffer))
    <3>1. sent + n <= Len(buffer)
      BY <1>2, <1>3
    <3>2. QED
      BY <1>2, <1>3, <3>1, RestInParts
  <2>3. streams'[s] = Cat(w, p)
    BY <1>1, <1>2, <1>5 DEF Cat
  <2>4. Coming(s)' = r
    <3>1. CASE sent + n = Len(buffer)
      <4>1. buffer' = <<>> /\ Len(buffer) < sent + n + 1
        BY <1>1, <1>3, <3>1
      <4>2. r = <<>>
        BY <1>2, <1>3, <4>1, SubSeqEmpty
      <4>3. QED
        BY <4>1, <4>2 DEF Coming, Writing
    <3>2. CASE sent + n # Len(buffer)
      <4>1. buffer' = buffer /\ sent' = sent + n
        BY <1>1, <3>2
      <4>2. QED
        BY <1>2, <1>5, <4>1 DEF Coming, Writing
    <3>3. QED
      BY <3>1, <3>2
  <2>5. Coming(s) = Cat(p, r)
    BY <1>2, <1>5, <2>2 DEF Coming
  <2> HIDE DEF w, p, r
  <2>6. Cat(Cat(w, p), r) = Cat(w, Cat(p, r))
    BY <2>1, CatAssociative
  <2>7. Arrived(s) = Cat(w, Cat(p, r)) /\ Arrived(s)' = Cat(Cat(w, p), r)
    BY <2>3, <2>4, <2>5 DEF Arrived, w
  <2>8. QED
    BY <2>6, <2>7
<1>6. QED
  BY <1>4, <1>5

LEMMA FilledArrives ==
  ASSUME TypeOK, ~ Writing, sent = 0, sent' = 0, streams' = streams, buffer' \in Seq(Byte), NEW s \in Sink
  PROVE  Arrived(s)' = Cat(streams[s], IF s = Target' THEN buffer' ELSE <<>>)
<1>1. CASE buffer' # <<>> /\ s = Target'
  <2>1. Coming(s)' = SubSeq(buffer', 1, Len(buffer'))
    BY <1>1 DEF Coming, Writing
  <2>2. QED
    BY <1>1, <2>1, SubSeqFull DEF Arrived
<1>2. CASE ~ (buffer' # <<>> /\ s = Target')
  <2>1. Coming(s)' = <<>>
    BY <1>2 DEF Coming, Writing
  <2>2. QED
    BY <1>2, <2>1 DEF Arrived
<1>3. QED
  BY <1>1, <1>2

LEMMA EmitArrives ==
  ASSUME Typed, ~ Writing, NEW event, Emit(event), stage' # "flush",
         Line(event) \in Seq(Byte) \cup {Dropped}, NEW s \in Sink
  PROVE  Arrived(s)' = Cat(streams[s], Asked(statusTo, s, Piece(Line(event), Dropped)))
<1>1. /\ buffer' = (IF statusTo = NoFd \/ Line(event) = Dropped THEN <<>> ELSE Line(event))
      /\ streams' = streams /\ sent' = sent /\ Target' = statusTo
  BY DEF Emit, fixed, Target
<1>2. sent = 0 /\ <<>> \in Seq(Byte) /\ NoFd # s
  <2>1. NoFd \notin Sink
    BY OutputAssumption
  <2>2. sent = 0
    BY WasIdle
  <2>3. QED
    BY <2>1, <2>2, EmptySeq
<1>3. buffer' \in Seq(Byte)
  BY <1>1, <1>2
<1>4. Arrived(s)' = Cat(streams[s], IF s = Target' THEN buffer' ELSE <<>>)
  BY <1>1, <1>2, <1>3, FilledArrives DEF Typed
<1>5. (IF s = Target' THEN buffer' ELSE <<>>) = Asked(statusTo, s, Piece(Line(event), Dropped))
  BY <1>1, <1>2 DEF Asked, Piece
<1>6. QED
  BY <1>4, <1>5

----------------------------------------------------------------------------
(* One lemma per step, or group of steps that are alike for the readers.   *)

LEMMA NodeReportsDelivers ==
  ASSUME Typed, Typed', Delivering, NodeReports
  PROVE  Delivering'
<1> DEFINE N == Len(run.events)
           e == run.events[k]
<1>1. /\ stage = "nodes" /\ stage' = "nodes" /\ ~ Writing /\ k \in 1..N /\ k \in Nat /\ N \in Nat
      /\ Emit(e) /\ rc' = rc /\ k' = k + 1 /\ TypeOK
      /\ UNCHANGED <<run, outTo, statusTo, streams, failed>>
  BY RunTexts DEF NodeReports, Emit, fixed, Typed, TypeOK
<1>2. Line(e) \in Seq(Byte) \cup {Dropped}
  BY <1>1, OutputAssumption DEF NodeReports, TypeOK
<1>3. /\ k' - 1 = k /\ k \in 0..N /\ k - 1 \in 0..N /\ k' \in 1..N + 1
  BY <1>1
<1>4. /\ Reported(k) = Cat(Reported(k - 1), Piece(Line(e), Dropped))
      /\ Reported(k - 1) \in Seq(Byte) /\ Piece(Line(e), Dropped) \in Seq(Byte)
  BY <1>1, <1>3, Telling
<1>5. Lines' = Lines
  BY <1>1 DEF Lines
<1>6. ASSUME NEW s \in Sink, Heard(s)'
      PROVE  Arrived(s)' = Asked(statusTo, s, Reported(k))
  <2>1. streams[s] = Asked(statusTo, s, Reported(k - 1))
    <3>1. Heard(s)
      BY <1>1, <1>6 DEF Heard
    <3>2. Arrived(s) = streams[s]
      BY <1>1, ArrivedIdle
    <3>3. QED
      BY <1>1, <3>1, <3>2 DEF Delivering, NodesTold
  <2>2. Arrived(s)' = Cat(streams[s], Asked(statusTo, s, Piece(Line(e), Dropped)))
    <3>1. stage' # "flush"
      BY <1>1
    <3>2. QED
      BY <1>1, <1>2, <3>1, EmitArrives
  <2>3. CASE statusTo = s
    BY <1>4, <2>1, <2>2, <2>3 DEF Asked
  <2>4. CASE statusTo # s
    <3>1. Cat(<<>>, <<>>) = <<>>
      BY CatNone, EmptySeq
    <3>2. QED
      BY <2>1, <2>2, <2>4, <3>1 DEF Asked
  <2>5. QED
    BY <2>3, <2>4
<1>7. N' = N /\ rc = "ok"
  BY <1>1 DEF Delivering, NodesTold
<1>8. NodesTold'
  <2>1. \A s \in Sink :
          Heard(s)' => Arrived(s)' = Asked(statusTo', s, Bytes(Lines', Dropped, k' - 1))
    BY <1>1, <1>3, <1>5, <1>6 DEF Reported
  <2>2. QED
    BY <1>1, <1>3, <1>7, <2>1 DEF NodesTold, Reported
<1>9. QED
  BY <1>1, <1>8 DEF Delivering, BranchesCopied, CutOff, EndTold, KilledInBetween

LEMMA NodesDoneDelivers ==
  ASSUME Typed, Typed', Delivering, NodesDone
  PROVE  Delivering'
<1> DEFINE N == Len(run.events)
<1>1. /\ stage = "nodes" /\ stage' \in {"end", "flush"} /\ ~ Writing /\ k > N /\ TypeOK
      /\ stage' = (IF run.fails \/ outTo = NoFd THEN "end" ELSE "flush")
      /\ rc' = (IF run.fails THEN "error" ELSE "ok")
      /\ k' = (IF stage' = "flush" THEN 1 ELSE k)
      /\ UNCHANGED <<run, outTo, statusTo, streams, pos, buffer, sent, failed>>
  BY DEF NodesDone, fixed, Typed
<1>2. /\ N \in Nat /\ k \in 1..N + 1 /\ k - 1 = N /\ pos = 0
      /\ Len(run.branches) \in Nat /\ DOMAIN run.branches = 1..Len(run.branches)
  <2>1. N \in Nat /\ Len(run.branches) \in Nat /\ DOMAIN run.branches = 1..Len(run.branches)
    BY <1>1, RunTexts
  <2>2. k \in 1..N + 1 /\ pos = 0
    BY <1>1 DEF Typed, Phases, Delivering, NodesTold
  <2>3. QED
    BY <1>1, <2>1, <2>2
<1>3. ASSUME NEW s \in Sink, Heard(s)'
      PROVE  /\ streams[s] = Asked(statusTo, s, AllNodes)
             /\ streams[s] = Main(s, <<>>) /\ Arrived(s)' = streams[s]
  <2>1. Heard(s)
    BY <1>1, <1>3 DEF Heard
  <2>2. Arrived(s) = streams[s] /\ streams[s] \in Seq(Byte)
    BY <1>1, ArrivedIdle
  <2>3. Arrived(s)' = streams[s]
    <3>1. ~ Writing'
      BY <1>1 DEF Writing
    <3>2. TypeOK'
      BY DEF Typed
    <3>3. Coming(s)' = <<>>
      BY <3>1 DEF Coming
    <3>4. QED
      BY <1>1, <2>2, <3>3, CatNone DEF Arrived
  <2>4. streams[s] = Asked(statusTo, s, AllNodes)
    BY <1>1, <1>2, <2>1, <2>2 DEF Delivering, NodesTold, AllNodes
  <2>5. Asked(outTo, s, <<>>) = <<>>
    BY DEF Asked
  <2>6. streams[s] = Main(s, <<>>)
    BY <2>2, <2>4, <2>5, CatNone DEF Main
  <2>7. QED
    BY <2>3, <2>4, <2>6
<1>4. CASE stage' = "flush"
  <2>1. ~ run.fails /\ rc' = "ok" /\ k' = 1
    BY <1>1, <1>4
  <2>2. Part' = <<>>
    BY <1>1, <1>2, SubSeqEmpty DEF Part
  <2>3. CopiedSoFar' = <<>>
    <3>1. k' - 1 = 0
      BY <2>1
    <3>2. CopiedSoFar' = Cat(OutBytes(0), <<>>)
      BY <1>1, <2>2, <3>1 DEF CopiedSoFar, OutBytes
    <3>3. QED
      BY <1>1, <3>2, Copies, CatNone, EmptySeq
  <2>4. \A s \in Sink : Sofar(s)' = Main(s, <<>>)
    BY <1>1, <2>3 DEF Sofar, Main, AllNodes, Reported, Lines
  <2>5. 1 \in 1..Len(run.branches) + 1
    BY <1>2
  <2>6. BranchesCopied'
    <3>1. \A s \in Sink : Heard(s)' => Arrived(s)' = Sofar(s)'
      BY <1>3, <2>4
    <3>2. QED
      BY <1>1, <2>1, <2>5, <3>1 DEF BranchesCopied
  <2>7. QED
    BY <1>4, <2>6 DEF Delivering, NodesTold, CutOff, EndTold, KilledInBetween
<1>5. CASE stage' = "end"
  <2>1. AllBranches' = AllBranches /\ \A s, n : Kept(s, n)' = Kept(s, n)
    BY <1>1 DEF AllBranches, OutBytes, Kept, First, Main, AllNodes, Reported, Lines
  <2>2. AllBranches \in Seq(Byte) /\ Len(AllBranches) \in Nat
    BY <1>1, Copies
  <2>3. PICK m \in Nat : m = Len(AllBranches)
    BY <2>2
  <2>4. m \in Counts' /\ m \in 0..m
    BY <2>1, <2>3 DEF Counts
  <2>5. \A s \in Sink : Kept(s, m) = Main(s, <<>>)
    <3>1. CASE run.fails
      <4>1. AllBranches = <<>>
        BY <3>1 DEF AllBranches, OutBytes
      <4>2. First(m) = <<>>
        BY <2>2, <2>3, <4>1, SubSeqFull DEF First
      <4>3. QED
        BY <4>2 DEF Kept
    <3>2. CASE outTo = NoFd
      <4>1. NoFd \notin Sink
        BY OutputAssumption
      <4>2. QED
        BY <3>2, <4>1 DEF Kept, Main, Asked
    <3>3. QED
      BY <1>1, <1>5, <3>1, <3>2
  <2>6. CutOff'
    <3>1. \A s \in Sink : Heard(s)' => streams'[s] = Kept(s, m)'
      BY <1>1, <1>3, <2>1, <2>5
    <3>2. QED
      BY <2>4, <3>1 DEF CutOff
  <2>7. QED
    BY <1>5, <2>6 DEF Delivering, NodesTold, BranchesCopied, EndTold, KilledInBetween
<1>6. QED
  BY <1>1, <1>4, <1>5

LEMMA EndPiece ==
  ASSUME TypeOK
  PROVE  EndReported = Piece(Line(Ended(run, rc)), Dropped)
<1> DEFINE end == <<Line(Ended(run, rc))>>
<1>1. Given(Byte, end, Dropped, 0 + 1) /\ end[0 + 1] = Line(Ended(run, rc)) /\ 0 \in Nat /\ 0 + 1 = 1
  BY RunTexts DEF Given
<1> HIDE DEF end
<1>2. /\ Piece(end[0 + 1], Dropped) \in Seq(Byte)
      /\ Bytes(end, Dropped, 0 + 1) = Cat(Bytes(end, Dropped, 0), Piece(end[0 + 1], Dropped))
  BY <1>1, BytesMore
<1>3. Bytes(end, Dropped, 0) = <<>>
  BY NoBytes
<1>4. Bytes(end, Dropped, 1) = Piece(Line(Ended(run, rc)), Dropped)
  BY <1>1, <1>2, <1>3, CatNone
<1>5. QED
  BY <1>4 DEF EndReported, end

LEMMA RunEndsDelivers ==
  ASSUME Typed, Typed', Delivering, RunEnds
  PROVE  Delivering'
<1>1. /\ stage = "end" /\ stage' = "over" /\ ~ Writing /\ Emit(Ended(run, rc)) /\ rc' = rc /\ TypeOK
      /\ UNCHANGED <<run, outTo, statusTo, streams, failed>>
  BY DEF RunEnds, Emit, fixed, Typed, Phases
<1>2. Line(Ended(run, rc)) \in Seq(Byte) \cup {Dropped}
  BY <1>1, RunTexts
<1>3. Counts' = Counts /\ \A s, n : Due(s, n)' = Due(s, n)
  BY <1>1 DEF Counts, AllBranches, Due, Reported, OutBytes, Lines, EndReported
<1>4. ASSUME NEW s \in Sink, Heard(s)'
      PROVE  \E n \in Counts' : Arrived(s)' = Due(s, n)'
  <2>1. Heard(s)
    BY <1>1, <1>4 DEF Heard
  <2>2. PICK n \in Counts : streams[s] = Kept(s, n)
    BY <1>1, <2>1 DEF Delivering, CutOff
  <2>3. Arrived(s)' = Cat(streams[s], Asked(statusTo, s, Piece(Line(Ended(run, rc)), Dropped)))
    BY <1>1, <1>2, EmitArrives
  <2>4. EndReported = Piece(Line(Ended(run, rc)), Dropped)
    BY <1>1, EndPiece
  <2>5. Due(s, n) = Cat(Kept(s, n), Asked(statusTo, s, EndReported))
    BY <1>1, DueText DEF Counts
  <2>6. Arrived(s)' = Due(s, n)
    BY <2>2, <2>3, <2>4, <2>5
  <2>7. QED
    BY <1>3, <2>6
<1>5. QED
  BY <1>1, <1>4 DEF Delivering, NodesTold, BranchesCopied, CutOff, EndTold, KilledInBetween

LEMMA SameTexts ==
  ASSUME UNCHANGED <<run, outTo, statusTo>>
  PROVE  /\ AllBranches' = AllBranches /\ Lines' = Lines
         /\ \A s, n : Kept(s, n)' = Kept(s, n)
         /\ rc' = rc => Counts' = Counts /\ \A s, n : Due(s, n)' = Due(s, n)
<1>1. AllBranches' = AllBranches /\ Lines' = Lines
  BY DEF AllBranches, OutBytes, Lines
<1>2. \A s, n : Kept(s, n)' = Kept(s, n)
  BY DEF Kept, First, AllBranches, OutBytes, Main, AllNodes, Reported, Lines
<1>3. rc' = rc => Counts' = Counts /\ \A s, n : Due(s, n)' = Due(s, n)
  BY <1>1 DEF Counts, Due, Reported, OutBytes, Lines, EndReported
<1>4. QED
  BY <1>1, <1>2, <1>3

(* What has arrived and what waits are the same: so is what they are.      *)
LEMMA SameDelivers ==
  ASSUME Typed, Delivering, stage \in {"nodes", "flush", "over"},
         UNCHANGED <<run, outTo, statusTo, stage, k, pos, rc>>,
         \A s \in Sink : Heard(s)' => Heard(s) /\ Arrived(s)' = Arrived(s)
  PROVE  Delivering'
<1>1. Lines' = Lines /\ Counts' = Counts /\ \A s, n : Due(s, n)' = Due(s, n)
  BY SameTexts
<1>2. CASE stage = "nodes"
  <2>1. \A s \in Sink : Heard(s)' => Arrived(s)' = Asked(statusTo, s, Bytes(Lines, Dropped, k - 1))
    BY <1>2 DEF Delivering, NodesTold, Reported
  <2>2. NodesTold'
    BY <1>1, <1>2, <2>1 DEF Delivering, NodesTold, Reported
  <2>3. QED
    BY <1>2, <2>2 DEF Delivering, BranchesCopied, CutOff, EndTold, KilledInBetween
<1>3. CASE stage = "flush"
  <2>1. \A s : Sofar(s)' = Sofar(s)
    BY DEF Sofar, Main, AllNodes, Reported, Lines, CopiedSoFar, OutBytes, Part, Present
  <2>2. BranchesCopied'
    BY <1>3, <2>1 DEF Delivering, BranchesCopied
  <2>3. QED
    BY <1>3, <2>2 DEF Delivering, NodesTold, CutOff, EndTold, KilledInBetween
<1>4. CASE stage = "over"
  <2>1. ASSUME NEW s \in Sink, Heard(s)'
        PROVE  \E n \in Counts' : Arrived(s)' = Due(s, n)'
    BY <1>1, <1>4, <2>1 DEF Delivering, EndTold
  <2>2. QED
    BY <1>4, <2>1 DEF Delivering, NodesTold, BranchesCopied, CutOff, EndTold, KilledInBetween
<1>5. QED
  BY <1>2, <1>3, <1>4

LEMMA WriteDelivers ==
  ASSUME Typed, Delivering, Write
  PROVE  Delivering'
<1>1. /\ UNCHANGED <<run, outTo, statusTo, stage, k, pos, rc, failed>> /\ Writing
  BY DEF Write, fixed
<1>2. stage \in {"nodes", "flush", "over"}
  BY <1>1 DEF Typed, TypeOK, Phases, Delivering, KilledInBetween
<1>3. \A s \in Sink : Heard(s)' => Heard(s) /\ Arrived(s)' = Arrived(s)
  BY <1>1, WriteArrives DEF Heard
<1>4. QED
  BY <1>1, <1>2, <1>3, SameDelivers

(* What is lost of an event is lost to the readers of the events only.     *)
LEMMA EventFailsDelivers ==
  ASSUME Typed, Delivering, EventFails
  PROVE  Delivering'
<1>1. /\ UNCHANGED <<run, outTo, statusTo, stage, streams, k, pos, rc>> /\ Writing
      /\ stage # "flush" /\ failed' # {} /\ buffer' = <<>>
  BY DEF EventFails, fixed
<1>2. stage \in {"nodes", "flush", "over"}
  BY <1>1 DEF Typed, TypeOK, Phases, Delivering, KilledInBetween
<1>3. ASSUME NEW s \in Sink, Heard(s)'
      PROVE  Heard(s) /\ Arrived(s)' = Arrived(s)
  <2>1. s # statusTo /\ s # Target
    BY <1>1, <1>3 DEF Heard, Target
  <2>2. Coming(s) = <<>> /\ Coming(s)' = <<>>
    BY <1>1, <2>1 DEF Coming, Writing
  <2>3. QED
    BY <1>1, <2>1, <2>2 DEF Heard, Arrived
<1>4. QED
  BY <1>1, <1>2, <1>3, SameDelivers

(* Wherever the run is, what arrives is the beginning of what is due.      *)
LEMMA ArrivedIsDue ==
  ASSUME Typed, Copying, Delivering, NEW s \in Sink, Heard(s)
  PROVE  \E n \in Counts : Begins(Byte, Arrived(s), Due(s, n))
<1> DEFINE N == Len(run.events)
           end == Asked(statusTo, s, EndReported)
<1>1. /\ TypeOK /\ N \in Nat /\ Len(run.branches) \in Nat
      /\ AllBranches \in Seq(Byte) /\ Len(AllBranches) \in Nat
      /\ Arrived(s) \in Seq(Byte)
  BY RunTexts, Copies, ArrivedText DEF Typed
<1>2. PICK m \in Nat : m = Len(AllBranches)
  BY <1>1
<1>3. m \in 0..Len(AllBranches) /\ First(m) = AllBranches /\ m \in Counts
  BY <1>1, <1>2, SubSeqFull DEF First, Counts
<1>4. /\ Due(s, m) = Cat(Kept(s, m), end) /\ Due(s, m) \in Seq(Byte) /\ Kept(s, m) \in Seq(Byte)
      /\ Kept(s, m) = Cat(Asked(statusTo, s, AllNodes), Asked(outTo, s, AllBranches))
      /\ end \in Seq(Byte) /\ Asked(statusTo, s, AllNodes) \in Seq(Byte)
      /\ Asked(outTo, s, AllBranches) \in Seq(Byte)
  <2>1. Due(s, m) = Cat(Kept(s, m), end) /\ Due(s, m) \in Seq(Byte) /\ Kept(s, m) \in Seq(Byte)
    BY <1>1, <1>3, DueText
  <2>2. end \in Seq(Byte) /\ Asked(statusTo, s, AllNodes) \in Seq(Byte)
    BY <1>1, MainText
  <2>3. Asked(outTo, s, AllBranches) \in Seq(Byte)
    BY <1>1, Asking
  <2>4. QED
    BY <1>3, <2>1, <2>2, <2>3 DEF Kept, Main
<1> HIDE DEF end
<1>5. ASSUME Begins(Byte, Arrived(s), Kept(s, m))
      PROVE  \E n \in Counts : Begins(Byte, Arrived(s), Due(s, n))
  <2>1. Begins(Byte, Arrived(s), Due(s, m))
    BY <1>1, <1>4, <1>5, BeginsMore
  <2>2. QED
    BY <1>3, <2>1
<1>6. CASE stage = "nodes"
  <2>1. k - 1 \in 0..N /\ Arrived(s) = Asked(statusTo, s, Reported(k - 1))
    BY <1>1, <1>6 DEF Delivering, NodesTold
  <2>2. Reported(k - 1) \in Seq(Byte) /\ Begins(Byte, Reported(k - 1), AllNodes)
    BY <1>1, <2>1, Telling
  <2>3. Begins(Byte, Arrived(s), Asked(statusTo, s, AllNodes))
    BY <2>1, <2>2, BeginsItself, EmptySeq DEF Asked
  <2>4. Begins(Byte, Arrived(s), Kept(s, m))
    BY <1>1, <1>4, <2>3, BeginsMore
  <2>5. QED
    BY <1>5, <2>4
<1>7. CASE stage = "flush"
  <2>1. Arrived(s) = Sofar(s) /\ ~ run.fails /\ k \in 1..Len(run.branches) + 1
    BY <1>7 DEF Delivering, BranchesCopied
  <2>2. CopiedSoFar \in Seq(Byte) /\ Begins(Byte, CopiedSoFar, AllBranches)
    BY <1>1, <1>7, <2>1, CopiedText
  <2>3. /\ Asked(outTo, s, CopiedSoFar) \in Seq(Byte)
        /\ Begins(Byte, Asked(outTo, s, CopiedSoFar), Asked(outTo, s, AllBranches))
    BY <2>2, BeginsItself, EmptySeq DEF Asked
  <2>4. Begins(Byte, Cat(Asked(statusTo, s, AllNodes), Asked(outTo, s, CopiedSoFar)), Kept(s, m))
    BY <1>4, <2>3, BeginsPrefixed
  <2>5. QED
    BY <1>5, <2>1, <2>4 DEF Sofar, Main
<1>8. CASE stage = "end"
  <2>1. PICK n \in Counts : streams[s] = Kept(s, n)
    BY <1>8 DEF Delivering, CutOff
  <2>2. Arrived(s) = Kept(s, n)
    BY <1>1, <1>8, <2>1, ArrivedIdle DEF Typed, Phases
  <2>3. n \in 0..Len(AllBranches)
    BY DEF Counts
  <2>4. /\ Due(s, n) = Cat(Kept(s, n), end) /\ Kept(s, n) \in Seq(Byte)
    BY <1>1, <2>3, DueText DEF end
  <2>5. Begins(Byte, Kept(s, n), Due(s, n))
    BY <1>4, <2>4 DEF Begins
  <2>6. QED
    BY <2>2, <2>5
<1>9. CASE stage = "over"
  <2>1. PICK n \in Counts : Arrived(s) = Due(s, n)
    BY <1>9 DEF Delivering, EndTold
  <2>2. Begins(Byte, Arrived(s), Due(s, n))
    BY <1>1, <2>1, BeginsItself
  <2>3. QED
    BY <2>2
<1>10. CASE stage = "killed"
  <2>1. PICK n \in Counts : Begins(Byte, streams[s], Due(s, n))
    BY <1>10 DEF Delivering, KilledInBetween
  <2>2. Arrived(s) = streams[s]
    BY <1>1, <1>10, ArrivedIdle DEF Delivering, KilledInBetween
  <2>3. QED
    BY <2>1, <2>2
<1>11. QED
  BY <1>1, <1>6, <1>7, <1>8, <1>9, <1>10 DEF TypeOK

LEMMA KilledDelivers ==
  ASSUME Typed, Copying, Delivering, Killed
  PROVE  Delivering'
<1>1. /\ UNCHANGED <<run, outTo, statusTo, streams, rc, failed>>
      /\ stage' = "killed" /\ buffer' = <<>> /\ TypeOK
  BY DEF Killed, fixed, Typed
<1>2. Counts' = Counts /\ \A s, n : Due(s, n)' = Due(s, n)
  BY <1>1, SameTexts
<1>3. ASSUME NEW s \in Sink, Heard(s)'
      PROVE  \E n \in Counts' : Begins(Byte, streams'[s], Due(s, n)')
  <2>1. Heard(s)
    BY <1>1, <1>3 DEF Heard
  <2>2. PICK n \in Counts : Begins(Byte, Arrived(s), Due(s, n))
    BY <2>1, ArrivedIsDue
  <2>3. streams[s] \in Seq(Byte) /\ Arrived(s) \in Seq(Byte) /\ Begins(Byte, streams[s], Arrived(s))
    BY <1>1, ArrivedText
  <2>4. Begins(Byte, streams[s], Due(s, n))
    BY <2>2, <2>3, BeginsFurther
  <2>5. QED
    BY <1>1, <1>2, <2>4
<1>4. KilledInBetween'
  <2>1. ~ Writing'
    BY <1>1 DEF Writing
  <2>2. \A s \in Sink : Heard(s)' => \E n \in Counts' : Begins(Byte, streams[s], Due(s, n))'
    BY <1>3 DEF Begins
  <2>3. QED
    BY <2>1, <2>2 DEF KilledInBetween
<1>5. QED
  BY <1>1, <1>4 DEF Delivering, NodesTold, BranchesCopied, CutOff, EndTold

(* The flush goes on, and what readers are to get has changed from one text*)
(* to another.                                                             *)
LEMMA FlushDelivers ==
  ASSUME Delivering, stage = "flush", stage' = "flush",
         UNCHANGED <<run, outTo, statusTo, rc, failed>>,
         k' \in 1..Len(run.branches) + 1,
         \A s \in Sink : Heard(s) =>
           Arrived(s)' = Cat(Asked(statusTo, s, AllNodes), Asked(outTo, s, CopiedSoFar'))
  PROVE  Delivering'
<1>1. \A s : Sofar(s)' = Cat(Asked(statusTo, s, AllNodes), Asked(outTo, s, CopiedSoFar'))
  BY DEF Sofar, Main, AllNodes, Reported, Lines
<1>2. \A s \in Sink : Heard(s)' => Arrived(s)' = Sofar(s)'
  BY <1>1 DEF Heard
<1>3. BranchesCopied'
  BY <1>2 DEF Delivering, BranchesCopied
<1>4. QED
  BY <1>3 DEF Delivering, NodesTold, CutOff, EndTold, KilledInBetween

LEMMA NextBranchDelivers ==
  ASSUME Typed, Copying, Delivering, SkipAbsent \/ EndOfBranch
  PROVE  Delivering'
<1> DEFINE N == Len(run.branches)
<1>1. /\ stage = "flush" /\ stage' = "flush" /\ ~ Writing /\ k' = k + 1 /\ pos' = 0
      /\ UNCHANGED <<run, outTo, statusTo, streams, buffer, sent, rc, failed>>
      /\ k \in DOMAIN run.branches /\ k \in Nat /\ TypeOK
  BY DEF SkipAbsent, EndOfBranch, Flushing, fixed, Typed, TypeOK, Copying, Present
<1>2. /\ N \in Nat /\ k \in 1..N /\ k' \in 1..N + 1 /\ k' - 1 = k /\ k \in 0..N /\ ~ run.fails
      /\ k \in 1..N + 1
  BY <1>1, RunTexts DEF Delivering, BranchesCopied
<1>3. Part = Piece(run.branches[k], Absent)
  <2>1. CASE SkipAbsent
    BY <2>1 DEF SkipAbsent, Part, Present, Piece
  <2>2. CASE EndOfBranch
    <3>1. Present /\ Len(run.branches[k]) - pos = 0
      BY <1>1, <2>2 DEF EndOfBranch, Present, Unread
    <3>2. run.branches[k] \in Seq(Byte) /\ Len(run.branches[k]) \in Nat /\ pos \in Nat
      BY <1>1, <3>1, BranchIsText DEF Present, TypeOK
    <3>3. pos = Len(run.branches[k])
      BY <3>1, <3>2
    <3>4. QED
      BY <3>1, <3>2, <3>3, SubSeqFull DEF Part, Piece, Present
  <2>3. QED
    BY <2>1, <2>2
<1>4. OutBytes(k) = CopiedSoFar /\ OutBytes(k) \in Seq(Byte)
  BY <1>1, <1>2, <1>3, Copies DEF CopiedSoFar
<1>5. CopiedSoFar' = CopiedSoFar
  <2>1. Part' = <<>>
    BY <1>1, SubSeqEmpty DEF Part
  <2>2. CopiedSoFar' = Cat(OutBytes(k), <<>>)
    BY <1>1, <1>2, <2>1 DEF CopiedSoFar, OutBytes
  <2>3. QED
    BY <1>4, <2>2, CatNone
<1>6. \A s \in Sink : Arrived(s)' = Arrived(s)
  BY <1>1 DEF Arrived, Coming, Writing, Target
<1>7. \A s \in Sink : Heard(s) => Arrived(s) = Sofar(s)
  BY <1>1 DEF Delivering, BranchesCopied
<1>8. \A s \in Sink : Heard(s) =>
        Arrived(s)' = Cat(Asked(statusTo, s, AllNodes), Asked(outTo, s, CopiedSoFar'))
  BY <1>5, <1>6, <1>7 DEF Sofar, Main
<1>9. QED
  BY <1>1, <1>2, <1>8, FlushDelivers

LEMMA ReadDelivers ==
  ASSUME Typed, Copying, Delivering, Read
  PROVE  Delivering'
<1> DEFINE N == Len(run.branches)
           d == run.branches[k]
<1>1. /\ stage = "flush" /\ stage' = "flush" /\ ~ Writing /\ k' = k /\ sent' = sent
      /\ UNCHANGED <<run, outTo, statusTo, streams, rc, failed>>
      /\ k \in DOMAIN run.branches /\ Present /\ TypeOK /\ Present'
  BY DEF Read, Flushing, fixed, Typed, Present
<1>2. N \in Nat /\ k \in 1..N + 1 /\ ~ run.fails
  BY <1>1, RunTexts DEF Delivering, BranchesCopied
<1>3. d \in Seq(Byte) /\ Len(d) \in Nat /\ pos \in Nat
  BY <1>1, BranchIsText DEF Present, TypeOK
<1>4. /\ buffer' \in Seq(Byte) /\ Len(buffer') \in Nat
      /\ pos' = pos + Len(buffer') /\ pos' <= Len(d) /\ buffer' = SubSeq(d, pos + 1, pos')
  BY <1>1, ReadText
<1>5. OutBytes(k - 1) \in Seq(Byte) /\ Part \in Seq(Byte) /\ CopiedSoFar \in Seq(Byte)
  BY <1>1, <1>2, CopiedText
<1>6. Part' = Cat(Part, buffer')
  <2> DEFINE n == Len(buffer')
  <2>1. n \in Nat /\ pos' = pos + n /\ pos + n <= Len(d) /\ buffer' = SubSeq(d, pos + 1, pos + n)
    BY <1>4
  <2> HIDE DEF n
  <2>2. Part = SubSeq(d, 1, pos) /\ Part' = SubSeq(d, 1, pos + n)
    BY <1>1, <2>1 DEF Part
  <2> HIDE DEF d
  <2>3. Cat(Cat(<<>>, SubSeq(d, 1, pos)), SubSeq(d, pos + 1, pos + n)) = Cat(<<>>, SubSeq(d, 1, pos + n))
    <3>1. \A w, e \in Seq(Byte) : \A i, m \in Nat :
            i + m <= Len(e) =>
              Cat(Cat(w, SubSeq(e, 1, i)), SubSeq(e, i + 1, i + m)) = Cat(w, SubSeq(e, 1, i + m))
      BY CopyOn
    <3>2. <<>> \in Seq(Byte) /\ d \in Seq(Byte) /\ pos \in Nat /\ n \in Nat /\ pos + n <= Len(d)
      BY <1>3, <2>1, EmptySeq
    <3>3. QED
      BY <3>1, <3>2, Zenon
  <2>4. SubSeq(d, 1, pos) \in Seq(Byte) /\ SubSeq(d, 1, pos + n) \in Seq(Byte)
    <3>1. pos \in 0..Len(d) /\ pos + n \in 0..Len(d)
      BY <1>3, <2>1
    <3>2. QED
      BY <1>3, <3>1, BeginsPrefix
  <2>5. QED
    BY <2>1, <2>2, <2>3, <2>4, CatNone
<1>7. CopiedSoFar' = Cat(CopiedSoFar, buffer')
  <2>1. CopiedSoFar' = Cat(OutBytes(k - 1), Part')
    BY <1>1 DEF CopiedSoFar, OutBytes
  <2>2. QED
    <3>1. \A t, u, v \in Seq(Byte) : Cat(Cat(t, u), v) = Cat(t, Cat(u, v))
      BY CatAssociative
    <3>2. QED
      BY <1>4, <1>5, <1>6, <2>1, <3>1 DEF CopiedSoFar
<1>8. ASSUME NEW s \in Sink, Heard(s)
      PROVE  Arrived(s)' = Cat(Asked(statusTo, s, AllNodes), Asked(outTo, s, CopiedSoFar'))
  <2> DEFINE a == Asked(statusTo, s, AllNodes)
  <2>1. streams[s] = Cat(a, Asked(outTo, s, CopiedSoFar)) /\ streams[s] \in Seq(Byte)
    <3>1. Arrived(s) = Sofar(s)
      BY <1>1, <1>8 DEF Delivering, BranchesCopied
    <3>2. QED
      BY <1>1, <3>1, ArrivedIdle DEF Sofar, Main
  <2>2. a \in Seq(Byte)
    BY <1>1, <1>5, MainText
  <2> HIDE DEF a
  <2>3. Arrived(s)' = Cat(streams[s], IF s = outTo THEN buffer' ELSE <<>>)
    <3>1. sent = 0 /\ Target' = outTo
      BY <1>1, WasIdle DEF Target
    <3>2. QED
      BY <1>1, <1>4, <3>1, FilledArrives
  <2>4. CASE s = outTo
    <3>1. Arrived(s)' = Cat(Cat(a, CopiedSoFar), buffer')
      BY <2>1, <2>3, <2>4 DEF Asked
    <3>2. \A t, u, v \in Seq(Byte) : Cat(Cat(t, u), v) = Cat(t, Cat(u, v))
      BY CatAssociative
    <3>3. Arrived(s)' = Cat(a, CopiedSoFar')
      BY <1>4, <1>5, <1>7, <2>2, <3>1, <3>2
    <3>4. QED
      BY <2>4, <3>3 DEF Asked, a
  <2>5. CASE s # outTo
    <3>1. Arrived(s)' = streams[s]
      BY <2>1, <2>3, <2>5, CatNone
    <3>2. QED
      BY <2>1, <2>5, <3>1 DEF Asked, a
  <2>6. QED
    BY <2>4, <2>5
<1>9. QED
  BY <1>1, <1>2, <1>8, FlushDelivers

(* The flush ends, after which nothing more of the branches arrives.       *)
LEMMA FlushStops ==
  ASSUME stage' = "end",
         \A s \in Sink : Heard(s)' => \E n \in Counts' : streams'[s] = Kept(s, n)'
  PROVE  Delivering'
BY DEF Delivering, NodesTold, BranchesCopied, CutOff, EndTold, KilledInBetween

LEMMA FlushFailsDelivers ==
  ASSUME Typed, Copying, Delivering, FlushFails
  PROVE  Delivering'
<1>1. /\ stage = "flush" /\ stage' = "end" /\ rc' = "error"
      /\ UNCHANGED <<run, outTo, statusTo, streams, failed>> /\ TypeOK /\ Present
  BY DEF FlushFails, fixed, Typed, Present
<1>2. ~ run.fails /\ k \in 1..Len(run.branches) + 1
  BY <1>1 DEF Delivering, BranchesCopied
<1>3. /\ CopiedSoFar \in Seq(Byte) /\ Begins(Byte, CopiedSoFar, AllBranches)
      /\ OutBytes(k - 1) \in Seq(Byte) /\ Part \in Seq(Byte)
      /\ AllBranches \in Seq(Byte) /\ Len(AllBranches) \in Nat
  BY <1>1, <1>2, CopiedText, Copies
<1>4. Len(buffer) <= Len(CopiedSoFar) /\ Len(CopiedSoFar) \in Nat
  <2> DEFINE d == run.branches[k]
  <2>1. d \in Seq(Byte) /\ Len(d) \in Nat /\ pos \in Nat /\ pos <= Len(d) /\ Len(buffer) <= pos
    BY <1>1, BranchIsText DEF Present, Copying, TypeOK
  <2>2. pos \in 0..Len(d) /\ Part = SubSeq(d, 1, pos)
    BY <1>1, <2>1 DEF Part
  <2>3. Len(Part) = pos
    BY <2>1, <2>2, PrefixFacts
  <2>4. Len(CopiedSoFar) = Len(OutBytes(k - 1)) + pos
    BY <1>3, <2>3, CatFacts DEF CopiedSoFar
  <2>5. Len(OutBytes(k - 1)) \in Nat /\ buffer \in Seq(Byte)
    BY <1>1, <1>3, LenProperties DEF TypeOK
  <2>6. Len(buffer) \in Nat
    BY <2>5, LenProperties
  <2>7. QED
    BY <2>1, <2>4, <2>5, <2>6
<1>5. Counts' = 0..Len(AllBranches) /\ \A s, n : Kept(s, n)' = Kept(s, n)
  <2>1. AllBranches' = AllBranches
    BY <1>1, SameTexts
  <2>2. Counts' = 0..Len(AllBranches)
    BY <1>1, <2>1 DEF Counts
  <2>3. QED
    BY <1>1, <2>2, SameTexts
<1>6. ASSUME NEW s \in Sink, Heard(s)'
      PROVE  \E n \in 0..Len(AllBranches) : streams[s] = Kept(s, n)
  <2> DEFINE a == Asked(statusTo, s, AllNodes)
  <2>1. /\ Arrived(s) = Cat(a, Asked(outTo, s, CopiedSoFar)) /\ a \in Seq(Byte)
    <3>1. Heard(s)
      BY <1>1, <1>6 DEF Heard
    <3>2. Arrived(s) = Sofar(s)
      BY <1>1, <3>1 DEF Delivering, BranchesCopied
    <3>3. QED
      BY <1>1, <1>3, <3>2, MainText DEF Sofar, Main
  <2>2. /\ streams[s] \in Seq(Byte) /\ Coming(s) \in Seq(Byte)
        /\ Arrived(s) = Cat(streams[s], Coming(s)) /\ Len(Coming(s)) <= Len(buffer)
    BY <1>1, ArrivedText DEF Arrived
  <2> HIDE DEF a
  <2>3. CASE s = outTo
    <3> DEFINE n == Len(CopiedSoFar) - Len(Coming(s))
    <3>1. Len(Coming(s)) \in Nat /\ Len(buffer) \in Nat
      BY <1>1, <2>2, LenProperties DEF TypeOK
    <3>2. Len(Coming(s)) <= Len(CopiedSoFar) /\ n \in 0..Len(CopiedSoFar)
      BY <1>4, <2>2, <3>1
    <3>3. Cat(streams[s], Coming(s)) = Cat(a, CopiedSoFar)
      BY <2>1, <2>2, <2>3 DEF Asked
    <3>4. streams[s] = Cat(a, SubSeq(CopiedSoFar, 1, n))
      BY <1>3, <2>1, <2>2, <3>2, <3>3, CutEnd
    <3> HIDE DEF n
    <3>5. n \in 0..Len(AllBranches) /\ SubSeq(AllBranches, 1, n) = SubSeq(CopiedSoFar, 1, n)
      BY <1>3, <3>2, SamePrefix
    <3>6. streams[s] = Kept(s, n)
      BY <2>3, <3>4, <3>5 DEF Kept, Main, First, Asked, a
    <3>7. QED
      BY <3>5, <3>6
  <2>4. CASE s # outTo
    <3>1. Coming(s) = <<>>
      BY <1>1, <2>4 DEF Coming, Target
    <3>2. streams[s] = Cat(a, <<>>)
      BY <2>1, <2>2, <2>4, <3>1, CatNone DEF Asked
    <3>3. streams[s] = Kept(s, 0)
      BY <2>4, <3>2 DEF Kept, Main, Asked, a
    <3>4. 0 \in 0..Len(AllBranches)
      BY <1>3
    <3>5. QED
      BY <3>3, <3>4
  <2>5. QED
    BY <2>3, <2>4
<1>7. \A s \in Sink : Heard(s)' => \E n \in Counts' : streams'[s] = Kept(s, n)'
  BY <1>1, <1>5, <1>6
<1>8. QED
  BY <1>1, <1>7, FlushStops

LEMMA FlushedDelivers ==
  ASSUME Typed, Copying, Delivering, Flushed
  PROVE  Delivering'
<1>1. /\ stage = "flush" /\ stage' = "end" /\ rc' = rc /\ k > Len(run.branches) /\ ~ Writing
      /\ UNCHANGED <<run, outTo, statusTo, streams, failed>> /\ TypeOK
  BY DEF Flushed, fixed, Typed
<1>2. /\ ~ run.fails /\ k \in 1..Len(run.branches) + 1 /\ Len(run.branches) \in Nat
      /\ k = Len(run.branches) + 1
  <2>1. ~ run.fails /\ k \in 1..Len(run.branches) + 1 /\ Len(run.branches) \in Nat
    BY <1>1, RunTexts DEF Delivering, BranchesCopied
  <2>2. QED
    BY <1>1, <2>1
<1>3. CopiedSoFar = AllBranches /\ AllBranches \in Seq(Byte) /\ Len(AllBranches) \in Nat
  BY <1>1, <1>2, CopiedText, Copies
<1>4. PICK m \in Nat : m = Len(AllBranches)
  BY <1>3
<1>5. First(m) = AllBranches /\ m \in Counts
  BY <1>3, <1>4, SubSeqFull DEF First, Counts
<1>6. Counts' = Counts /\ \A s, n : Kept(s, n)' = Kept(s, n)
  BY <1>1, SameTexts
<1>7. \A s \in Sink : Heard(s) => streams[s] = Kept(s, m)
  <2>1. \A s \in Sink : Arrived(s) = streams[s]
    BY <1>1, ArrivedIdle
  <2>2. \A s \in Sink : Heard(s) => Arrived(s) = Sofar(s)
    BY <1>1 DEF Delivering, BranchesCopied
  <2>3. QED
    BY <1>3, <1>5, <2>1, <2>2 DEF Sofar, Kept
<1>8. \A s \in Sink : Heard(s)' => \E n \in Counts' : streams'[s] = Kept(s, n)'
  <2>1. \A s : Heard(s)' = Heard(s)
    BY <1>1 DEF Heard
  <2>2. QED
    BY <1>1, <1>5, <1>6, <1>7, <2>1
<1>9. QED
  BY <1>1, <1>8, FlushStops

LEMMA InitDelivers == Init => Delivering
<1> SUFFICES ASSUME Init PROVE Delivering
  OBVIOUS
<1>1. /\ stage = "nodes" /\ k = 1 /\ rc = "ok" /\ buffer = <<>> /\ streams = [s \in Sink |-> <<>>]
      /\ TypeOK
  BY InitTyped DEF Init, Typed
<1>2. k - 1 = 0 /\ Len(run.events) \in Nat /\ Reported(0) = <<>>
  BY <1>1, RunTexts, Telling
<1>3. k \in 1..Len(run.events) + 1
  BY <1>1, <1>2
<1>4. \A s \in Sink : Arrived(s) = Asked(statusTo, s, Reported(k - 1))
  <2>1. ~ Writing
    BY <1>1 DEF Writing
  <2>2. \A s \in Sink : Arrived(s) = <<>>
    BY <1>1, <2>1, ArrivedIdle
  <2>3. QED
    BY <1>2, <2>2 DEF Asked
<1>5. QED
  BY <1>1, <1>3, <1>4 DEF Delivering, NodesTold, BranchesCopied, CutOff, EndTold, KilledInBetween

LEMMA DeliveringStep ==
  Typed /\ Typed' /\ Copying /\ Delivering /\ [Next]_vars => Delivering'
<1> SUFFICES ASSUME Typed, Typed', Copying, Delivering, [Next]_vars PROVE Delivering'
  OBVIOUS
<1>1. CASE NodeReports \/ NodesDone \/ RunEnds
  BY <1>1, NodeReportsDelivers, NodesDoneDelivers, RunEndsDelivers
<1>2. CASE Write \/ EventFails \/ Killed
  BY <1>2, WriteDelivers, EventFailsDelivers, KilledDelivers
<1>3. CASE SkipAbsent \/ Read \/ EndOfBranch
  BY <1>3, NextBranchDelivers, ReadDelivers
<1>4. CASE FlushFails \/ Flushed
  BY <1>4, FlushFailsDelivers, FlushedDelivers
<1>5. CASE UNCHANGED vars
  <2>1. /\ UNCHANGED <<run, outTo, statusTo, streams, stage, k, pos, buffer, sent, rc, failed>>
        /\ Counts' = Counts /\ \A s, n : Kept(s, n)' = Kept(s, n)
        /\ \A s, n : Due(s, n)' = Due(s, n)
    BY <1>5, SameTexts DEF vars
  <2>2. /\ \A s \in Sink : Arrived(s)' = Arrived(s)
        /\ \A s \in Sink : Heard(s)' <=> Heard(s)
    BY <2>1 DEF Arrived, Coming, Writing, Target, Heard
  <2>3. CASE stage \in {"nodes", "flush", "over"}
    BY <2>1, <2>2, <2>3, SameDelivers
  <2>4. CASE stage = "end"
    <3>1. \A s \in Sink : Heard(s)' => \E n \in Counts' : streams'[s] = Kept(s, n)'
      BY <2>1, <2>2, <2>4 DEF Delivering, CutOff
    <3>2. QED
      BY <2>1, <2>4, <3>1, FlushStops
  <2>5. CASE stage = "killed"
    <3>1. ~ Writing'
      BY <2>1, <2>5 DEF Delivering, KilledInBetween, Writing
    <3>2. \A s \in Sink : Heard(s)' => \E n \in Counts' : Begins(Byte, streams[s], Due(s, n))'
      BY <2>1, <2>2, <2>5 DEF Delivering, KilledInBetween, Begins
    <3>3. KilledInBetween'
      BY <3>1, <3>2 DEF KilledInBetween
    <3>4. QED
      BY <2>1, <2>5, <3>3 DEF Delivering, NodesTold, BranchesCopied, CutOff, EndTold
  <2>6. QED
    BY <2>3, <2>4, <2>5 DEF Typed, TypeOK
<1>6. QED
  BY <1>1, <1>2, <1>3, <1>4, <1>5 DEF Next, Over

(* What arrives anywhere are the events, then the branches, then           *)
(* run.finished, however reads and writes cut them, whichever of the       *)
(* options are given and whether or not they lead to the same place: a     *)
(* failure cuts the branches off at some byte, an event lost part way      *)
(* disturbs only the readers of the events, and a run that reports ok has  *)
(* written every byte.                                                     *)
THEOREM ReadersGetAllInOrder == Spec => []DeliveredInOrder
<1>1. Typed /\ Copying /\ Delivering => DeliveredInOrder
  <2> SUFFICES ASSUME Typed, Copying, Delivering, ~ Writing,
                      NEW s \in Sink, s # statusTo \/ failed = {}
               PROVE  \E n \in 0..Len(AllBranches) :
                        /\ IsPrefix(streams[s], Due(s, n))
                        /\ stage = "over" => streams[s] = Due(s, n)
                        /\ rc = "ok" => n = Len(AllBranches)
    BY DEF DeliveredInOrder, AllBranches
  <2>1. Heard(s) /\ Arrived(s) = streams[s] /\ streams[s] \in Seq(Byte)
    BY ArrivedIdle DEF Heard, Typed
  <2>2. CASE stage = "over"
    <3>1. PICK n \in Counts : streams[s] = Due(s, n)
      BY <2>1, <2>2 DEF Delivering, EndTold
    <3>2. IsPrefix(streams[s], Due(s, n))
      BY <2>1, <3>1, BeginsItself, BeginsIsPrefix
    <3>3. QED
      BY <3>1, <3>2 DEF Counts
  <2>3. CASE stage # "over"
    <3>1. PICK n \in Counts : Begins(Byte, streams[s], Due(s, n))
      BY <2>1, ArrivedIsDue
    <3>2. IsPrefix(streams[s], Due(s, n))
      BY <2>1, <3>1, BeginsIsPrefix
    <3>3. QED
      BY <2>3, <3>1, <3>2 DEF Counts
  <2>4. QED
    BY <2>2, <2>3
<1>2. Spec => [](Typed /\ Copying /\ Delivering)
  <2>1. Init => Typed /\ Copying /\ Delivering
    BY InitTyped, InitDelivers DEF Init, Copying
  <2>2. Typed /\ Copying /\ Delivering /\ [Next]_vars => (Typed /\ Copying /\ Delivering)'
    BY StepTyped, CopyingStep, DeliveringStep
  <2>3. QED
    BY <2>1, <2>2, PTL DEF Spec
<1>3. QED
  BY <1>1, <1>2, PTL
==============================================================================

-------------------------- MODULE SupervisionProof --------------------------
(***************************************************************************)
(* That a failed node decides the run follows from the supervisor's view   *)
(* alone: a node can only finish badly while the run is failing, and a     *)
(* failing run starts, finishes well and writes nothing any more.          *)
(***************************************************************************)
EXTENDS Supervision, SequenceFacts, TLAPS

LogEvent ==
  [event  : {"run.started", "node.started", "node.finished", "run.finished"},
   node   : Node \cup {Root},
   status : {"none", "ok", "error"}]

Failed(e) == e.event = "node.finished" /\ e.status = "error"
Broken == \E a \in 1..Len(log) : Failed(log[a])

(* Output is written when no node is open; a failure before it keeps it    *)
(* empty.                                                                  *)
IInv ==
  /\ open \in Seq(Node)
  /\ log \in Seq(LogEvent)
  /\ open # <<>> \/ phase = "running" => written = <<>>
  /\ phase = "writing" => open = <<>>
  /\ Broken => phase \in {"failing", "error"} /\ written = <<>>
  /\ FailStop

LEMMA InitHolds == Init => IInv
<1> SUFFICES ASSUME Init PROVE IInv
  OBVIOUS
<1> DEFINE e == Event("run.started", Root, "none")
<1>1. e \in LogEvent /\ ~ Failed(e)
  BY DEF Event, LogEvent, Failed
<1>2. log = <<e>> /\ open = <<>> /\ written = <<>> /\ phase = "running"
  BY DEF Init
<1> HIDE DEF e
<1>3. log \in Seq(LogEvent) /\ Len(log) = 1 /\ log[1] = e
  BY <1>1, <1>2
<1>4. open \in Seq(Node)
  BY <1>2, EmptySeq
<1>5. ~ Broken
  BY <1>1, <1>3 DEF Broken
<1>6. FailStop
  BY <1>3, <1>5, LenProperties DEF FailStop, Broken, Failed
<1>7. QED
  BY <1>2, <1>3, <1>4, <1>5, <1>6 DEF IInv

(* What one more event does to the log.                                    *)
LEMMA LogGrows ==
  ASSUME IInv, NEW e \in LogEvent, log' = Append(log, e)
  PROVE  /\ log' \in Seq(LogEvent)
         /\ Broken' <=> Broken \/ Failed(e)
         /\ e.status = "error" /\ written = <<>> /\ written' = written => FailStop'
         /\ ~ Broken /\ ~ Failed(e) => FailStop'
<1>1. /\ log \in Seq(LogEvent) /\ Len(log) \in Nat
      /\ log' \in Seq(LogEvent)
      /\ Len(log') = Len(log) + 1
      /\ \A a \in 1..Len(log) : log'[a] = log[a]
      /\ log'[Len(log) + 1] = e
      /\ DOMAIN log = 1..Len(log) /\ DOMAIN log' = 1..Len(log')
  BY AppendProperties, LenProperties DEF IInv
<1>2. Broken' <=> Broken \/ Failed(e)
  <2>1. ASSUME Broken PROVE Broken'
    <3>1. PICK a \in 1..Len(log) : Failed(log[a])
      BY <2>1 DEF Broken
    <3>2. a \in 1..Len(log') /\ log'[a] = log[a]
      BY <1>1
    <3>3. QED
      BY <3>1, <3>2 DEF Broken, Failed
  <2>2. ASSUME Failed(e) PROVE Broken'
    <3>1. Len(log) + 1 \in 1..Len(log')
      BY <1>1
    <3>2. QED
      BY <1>1, <2>2, <3>1 DEF Broken, Failed
  <2>3. ASSUME Broken' PROVE Broken \/ Failed(e)
    <3>1. PICK a \in 1..Len(log') : Failed(log'[a])
      BY <2>3 DEF Broken, Failed
    <3>2. a \in 1..Len(log) \/ a = Len(log) + 1
      BY <1>1
    <3>3. QED
      BY <1>1, <3>1, <3>2 DEF Broken
  <2>4. QED
    BY <2>1, <2>2, <2>3
<1>3. ASSUME e.status = "error", written = <<>>, written' = written
      PROVE  FailStop'
  <2>1. SUFFICES ASSUME NEW a \in 1..Len(log'), Failed(log'[a]), NEW b \in a..Len(log')
                 PROVE  log'[b].status = "error"
    BY <1>1, <1>3 DEF FailStop, Failed
  <2>2. CASE b = Len(log) + 1
    BY <1>1, <1>3, <2>2
  <2>3. CASE b # Len(log) + 1
    <3>1. a \in 1..Len(log) /\ b \in 1..Len(log) /\ b \in a..Len(log)
      BY <1>1, <2>3
    <3>2. log[b].status = "error"
      BY <1>1, <2>1, <3>1 DEF IInv, FailStop, Failed
    <3>3. QED
      BY <1>1, <3>1, <3>2
  <2>4. QED
    BY <2>2, <2>3
<1>4. ASSUME ~ Broken, ~ Failed(e) PROVE FailStop'
  BY <1>1, <1>2, <1>4 DEF FailStop, Broken, Failed
<1>5. QED
  BY <1>1, <1>2, <1>3, <1>4

(* The log stays: then only the output could break the invariant.          *)
LEMMA LogStays ==
  ASSUME IInv, log' = log, written' = written \/ ~ Broken
  PROVE  /\ log' \in Seq(LogEvent)
         /\ Broken' <=> Broken
         /\ FailStop'
<1>1. log \in Seq(LogEvent) /\ DOMAIN log = 1..Len(log)
  BY LenProperties DEF IInv
<1>2. QED
  BY <1>1 DEF IInv, Broken, FailStop, Failed

LEMMA OpenFacts ==
  ASSUME IInv, open # <<>>
  PROVE  /\ open[Len(open)] \in Node
         /\ SubSeq(open, 1, Len(open) - 1) \in Seq(Node)
<1>1. open \in Seq(Node) /\ Len(open) \in Nat \ {0}
  BY EmptySeq DEF IInv
<1>2. Len(open) - 1 \in 0..Len(open)
  BY <1>1
<1>3. QED
  BY <1>1, <1>2, ElementOfSeq, PrefixFacts

LEMMA NextKeeps == IInv /\ [Next]_vars => IInv'
<1> SUFFICES ASSUME IInv, [Next]_vars PROVE IInv'
  OBVIOUS
<1>1. ASSUME NEW n \in Node, Start(n) PROVE IInv'
  <2> DEFINE e == Event("node.started", n, "none")
  <2>1. e \in LogEvent /\ ~ Failed(e)
    BY DEF Event, LogEvent, Failed
  <2>2. log' = Append(log, e)
    BY <1>1 DEF Start
  <2> HIDE DEF e
  <2>3. ~ Broken
    BY <1>1 DEF Start, IInv
  <2>4. log' \in Seq(LogEvent) /\ ~ Broken' /\ FailStop'
    BY <2>1, <2>2, <2>3, LogGrows
  <2>5. open' \in Seq(Node)
    BY <1>1, AppendProperties DEF Start, IInv
  <2>6. QED
    BY <1>1, <2>4, <2>5 DEF Start, IInv
<1>2. ASSUME Finish("ok") PROVE IInv'
  <2> DEFINE e == Event("node.finished", open[Len(open)], "ok")
  <2>1. e \in LogEvent /\ ~ Failed(e)
    BY <1>2, OpenFacts DEF Event, LogEvent, Failed, Finish
  <2>2. log' = Append(log, e)
    BY <1>2 DEF Finish
  <2> HIDE DEF e
  <2>3. ~ Broken
    BY <1>2 DEF Finish, IInv
  <2>4. log' \in Seq(LogEvent) /\ ~ Broken' /\ FailStop'
    BY <2>1, <2>2, <2>3, LogGrows
  <2>5. open' \in Seq(Node)
    BY <1>2, OpenFacts DEF Finish
  <2>6. QED
    BY <1>2, <2>4, <2>5 DEF Finish, IInv
<1>3. ASSUME Finish("error") PROVE IInv'
  <2> DEFINE e == Event("node.finished", open[Len(open)], "error")
  <2>1. e \in LogEvent /\ e.status = "error"
    BY <1>3, OpenFacts DEF Event, LogEvent, Finish
  <2>2. log' = Append(log, e)
    BY <1>3 DEF Finish
  <2> HIDE DEF e
  <2>3. phase = "failing" /\ written = <<>> /\ written' = written /\ phase' = phase
    BY <1>3 DEF Finish, IInv
  <2>4. log' \in Seq(LogEvent) /\ FailStop'
    BY <2>1, <2>2, <2>3, LogGrows
  <2>5. open' \in Seq(Node)
    BY <1>3, OpenFacts DEF Finish
  <2>6. QED
    BY <2>3, <2>4, <2>5 DEF IInv
<1>4. ASSUME NEW status \in {"ok", "error"}, End(status) PROVE IInv'
  <2> DEFINE e == Event("run.finished", Root, status)
  <2>1. e \in LogEvent /\ ~ Failed(e) /\ e.status = status
    BY DEF Event, LogEvent, Failed
  <2>2. log' = Append(log, e)
    BY <1>4 DEF End
  <2> HIDE DEF e
  <2>3. Broken => status = "error" /\ written = <<>>
    BY <1>4 DEF End, IInv
  <2>4. log' \in Seq(LogEvent) /\ (Broken' <=> Broken) /\ FailStop'
    BY <1>4, <2>1, <2>2, <2>3, LogGrows DEF End
  <2>5. open = <<>> /\ phase' = status /\ UNCHANGED <<open, written>>
    BY <1>4 DEF End
  <2>6. QED
    BY <2>3, <2>4, <2>5 DEF IInv
<1>5. CASE Break
  BY <1>5, LogStays DEF Break, IInv
<1>6. CASE BeginWriting
  BY <1>6, LogStays DEF BeginWriting, IInv
<1>7. CASE Write
  <2>1. ~ Broken
    BY <1>7 DEF Write, IInv
  <2>2. QED
    BY <1>7, <2>1, LogStays DEF Write, IInv
<1>8. CASE UNCHANGED vars
  BY <1>8, LogStays DEF vars, IInv
<1>9. QED
  BY <1>1, <1>2, <1>3, <1>4, <1>5, <1>6, <1>7, <1>8 DEF Next

(* Whatever implements Supervision reports nothing but failures after a    *)
(* failed node, and writes no output.                                      *)
THEOREM FailureIsFinal == Spec => []FailStop
<1>1. Init => IInv
  BY InitHolds
<1>2. IInv /\ [Next]_vars => IInv'
  BY NextKeeps
<1>3. IInv => FailStop
  BY DEF IInv
<1>4. QED
  BY <1>1, <1>2, <1>3, PTL DEF Spec

----------------------------------------------------------------------------
(* The nodes the log leaves open                                           *)

Opened == Seq(Node \cup {Root})

LEMMA FollowingType ==
  ASSUME NEW nodes \in Opened, NEW e \in LogEvent
  PROVE  Following(nodes, e) \in Opened
<1>1. e.node \in Node \cup {Root} /\ Root \in Node \cup {Root}
  BY DEF LogEvent
<1>2. Append(nodes, e.node) \in Opened /\ Append(nodes, Root) \in Opened
  BY <1>1, AppendProperties DEF Opened
<1>3. nodes # <<>> => SubSeq(nodes, 1, Len(nodes) - 1) \in Opened
  <2>1. ASSUME nodes # <<>>
        PROVE  SubSeq(nodes, 1, Len(nodes) - 1) \in Opened
    <3>1. Len(nodes) \in Nat \ {0}
      BY <2>1, EmptySeq DEF Opened
    <3>2. Len(nodes) - 1 \in 0..Len(nodes)
      BY <3>1
    <3>3. QED
      BY <3>2, PrefixFacts DEF Opened
  <2>2. QED
    BY <2>1
<1>4. QED
  BY <1>2, <1>3 DEF Following

(* The nodes that are open after each event of a log.                      *)
Opens(events, f) ==
  /\ f \in [0..Len(events) -> Opened] /\ f[0] = <<>>
  /\ \A k \in 1..Len(events) : f[k] = Following(f[k - 1], events[k])

LEMMA OpenTable ==
  ASSUME NEW events \in Seq(LogEvent)
  PROVE  \E f : Opens(events, f) /\ OpenAfter(events) = f[Len(events)]
<1> DEFINE n == Len(events)
           step == [k \in 1..n |-> [x \in Opened |-> Following(x, events[k])]]
           Table(u) == [k \in 0..n |-> IF k = 0 THEN <<>> ELSE Following(u[k - 1], events[k])]
           U == CHOOSE u : u = Table(u)
<1>1. n \in Nat /\ \A k \in 1..n : events[k] \in LogEvent
  BY LenProperties, ElementOfSeq
<1>2. step \in [1..n -> [Opened -> Opened]] /\ <<>> \in Opened
  BY <1>1, FollowingType, EmptySeq DEF Opened
<1>3. PICK f \in [0..n -> Opened] : Rows(n, <<>>, step, f)
  <2> HIDE DEF step, n
  <2>1. QED
    BY <1>1, <1>2, TableExists
<1>4. f[0] = <<>> /\ \A k \in 1..n : f[k] = step[k][f[k - 1]]
  BY <1>3 DEF Rows
<1>5. f = Table(f)
  <2>1. \A k \in 1..n : step[k][f[k - 1]] = Following(f[k - 1], events[k])
    <3>1. \A k \in 1..n : f[k - 1] \in Opened
      BY <1>1
    <3>2. QED
      BY <3>1
  <2>2. \A k \in 0..n : k = 0 \/ k \in 1..n
    BY <1>1
  <2> HIDE DEF step, n
  <2>3. \A k \in 0..n : f[k] = IF k = 0 THEN <<>> ELSE Following(f[k - 1], events[k])
    BY <1>4, <2>1, <2>2
  <2>4. f = [k \in 0..n |-> f[k]]
    OBVIOUS
  <2>5. QED
    BY <2>3, <2>4
<1>6. U = Table(U)
  <2> HIDE DEF Table
  <2>1. QED
    BY <1>5, Zenon
<1>7. OpenAfter(events) = U[n]
  BY DEF OpenAfter
<1> HIDE DEF U
<1>8. U[0] = <<>> /\ \A k \in 1..n : U[k] = Following(U[k - 1], events[k])
  BY <1>1, <1>6
<1> DEFINE S == {m \in Nat : m <= n => U[m] \in Opened}
<1>9. 0 \in S
  BY <1>2, <1>8
<1>10. ASSUME NEW m \in S
       PROVE  m + 1 \in S
  <2>1. CASE m + 1 <= n
    <3>1. m + 1 \in 1..n /\ m + 1 - 1 = m /\ U[m] \in Opened
      BY <1>1, <2>1
    <3>2. U[m + 1] = Following(U[m], events[m + 1]) /\ events[m + 1] \in LogEvent
      BY <1>1, <1>8, <3>1
    <3>3. QED
      BY <3>1, <3>2, FollowingType
  <2>2. QED
    BY <2>1
<1>11. S = Nat
  <2>1. S \in SUBSET Nat
    OBVIOUS
  <2> HIDE DEF S
  <2>2. QED
    BY <1>9, <1>10, <2>1, FromZero
<1>12. U \in [0..n -> Opened]
  <2>1. \A k \in 0..n : U[k] \in Opened
    BY <1>1, <1>11
  <2>2. DOMAIN U = 0..n /\ U = [k \in 0..n |-> U[k]]
    BY <1>6
  <2>3. QED
    BY <2>1, <2>2
<1>13. QED
  BY <1>7, <1>8, <1>12 DEF Opens

(* One log, one table: of two logs that begin alike, the same nodes are    *)
(* open where they do.                                                     *)
Alike(s, t, n) ==
  /\ Len(s) \in Nat /\ Len(t) \in Nat /\ n <= Len(s) /\ n <= Len(t)
  /\ \A k \in 1..n : s[k] = t[k]

LEMMA OpensAgree ==
  ASSUME NEW s, NEW t, NEW n \in Nat, Alike(s, t, n), NEW f, Opens(s, f), NEW g, Opens(t, g)
  PROVE  f[n] = g[n]
<1> DEFINE S == {m \in Nat : m <= n => f[m] = g[m]}
<1>1. 0 \in S
  BY DEF Opens
<1>2. ASSUME NEW m \in S
      PROVE  m + 1 \in S
  <2>1. CASE m + 1 <= n
    <3>1. /\ m + 1 \in 1..n /\ m + 1 \in 1..Len(s) /\ m + 1 \in 1..Len(t) /\ m + 1 - 1 = m
          /\ f[m] = g[m]
      BY <2>1 DEF Alike
    <3>2. f[m + 1] = Following(f[m], s[m + 1]) /\ g[m + 1] = Following(g[m], t[m + 1])
      BY <3>1 DEF Opens
    <3>3. QED
      BY <3>1, <3>2 DEF Alike
  <2>2. QED
    BY <2>1
<1>3. S = Nat
  <2>1. S \in SUBSET Nat
    OBVIOUS
  <2> HIDE DEF S
  <2>2. QED
    BY <1>1, <1>2, <2>1, FromZero
<1>4. n \in S
  <2> HIDE DEF S
  <2>1. QED
    BY <1>3
<1>5. QED
  BY <1>4

(* One more event.                                                         *)
LEMMA OpenFollows ==
  ASSUME NEW s \in Seq(LogEvent), NEW e \in LogEvent
  PROVE  OpenAfter(Append(s, e)) = Following(OpenAfter(s), e)
<1> DEFINE n == Len(s)
           t == Append(s, e)
<1>1. /\ n \in Nat /\ t \in Seq(LogEvent) /\ Len(t) = n + 1 /\ t[n + 1] = e
      /\ \A k \in 1..n : s[k] = t[k]
  BY LenProperties, AppendProperties
<1> HIDE DEF t
<1>2. PICK f : Opens(s, f) /\ OpenAfter(s) = f[n]
  BY OpenTable
<1>3. PICK g : Opens(t, g) /\ OpenAfter(t) = g[n + 1]
  BY <1>1, OpenTable
<1>4. f[n] = g[n]
  <2>1. Alike(s, t, n) /\ n \in Nat
    BY <1>1 DEF Alike
  <2>2. Opens(s, f) /\ Opens(t, g)
    BY <1>2, <1>3
  <2> HIDE DEF n
  <2>3. QED
    BY <2>1, <2>2, OpensAgree
<1>5. n + 1 \in 1..n + 1 /\ n + 1 - 1 = n
  BY <1>1
<1>6. g[n + 1] = Following(g[n], e)
  BY <1>1, <1>3, <1>5 DEF Opens
<1>7. QED
  BY <1>2, <1>3, <1>4, <1>6 DEF t

LEMMA NothingOpen == OpenAfter(<<>>) = <<>>
<1>1. <<>> \in Seq(LogEvent) /\ Len(<<>>) = 0
  BY EmptySeq
<1>2. QED
  BY <1>1, OpenTable DEF Opens

(* The log and what it tells.                                              *)
Told ==
  /\ EventsTellOpen /\ FinishedIsLast
  /\ phase \in {"ok", "error"} => open = <<>>

LEMMA InitTold == Init => Told
<1> SUFFICES ASSUME Init PROVE Told
  OBVIOUS
<1> DEFINE e == Event("run.started", Root, "none")
<1>1. e \in LogEvent /\ e.event = "run.started"
  BY DEF Event, LogEvent
<1>2. log = Append(<<>>, e) /\ open = <<>> /\ phase = "running"
  BY DEF Init
<1> HIDE DEF e
<1>3. OpenNodes = Following(<<>>, e)
  BY <1>1, <1>2, NothingOpen, OpenFollows, EmptySeq DEF OpenNodes
<1>4. Following(<<>>, e) = <<>>
  BY <1>1 DEF Following
<1>5. QED
  BY <1>2, <1>3, <1>4 DEF Told, EventsTellOpen, FinishedIsLast

(* An event that the bracket follows.                                      *)
LEMMA ToldMore ==
  ASSUME IInv, Told, NEW e \in LogEvent, log' = Append(log, e), open' = Following(open, e)
  PROVE  EventsTellOpen' /\ log'[Len(log')] = e
<1>1. log \in Seq(LogEvent)
  BY DEF IInv
<1>2. OpenNodes' = Following(OpenNodes, e)
  <2>1. OpenNodes' = OpenAfter(log')
    BY DEF OpenNodes, OpenAfter, Following
  <2>2. QED
    BY <1>1, <2>1, OpenFollows DEF OpenNodes
<1>3. log'[Len(log')] = e
  BY <1>1, AppendProperties, LenProperties
<1>4. QED
  BY <1>2, <1>3 DEF Told, EventsTellOpen

LEMMA ToldStays ==
  ASSUME Told, log' = log, open' = open, phase' \notin {"ok", "error"} \/ phase' = phase
  PROVE  Told'
<1>1. OpenNodes' = OpenNodes
  BY DEF OpenNodes, OpenAfter, Following
<1>2. QED
  BY <1>1 DEF Told, EventsTellOpen, FinishedIsLast, Event

LEMMA NextTells == IInv /\ Told /\ [Next]_vars => Told'
<1> SUFFICES ASSUME IInv, Told, [Next]_vars PROVE Told'
  OBVIOUS
<1>1. ASSUME NEW n \in Node, Start(n) PROVE Told'
  <2> DEFINE e == Event("node.started", n, "none")
  <2>1. e \in LogEvent /\ e.event = "node.started" /\ e.node = n
    BY DEF Event, LogEvent
  <2>2. log' = Append(log, e) /\ open' = Append(open, n) /\ phase' = "running"
    BY <1>1 DEF Start
  <2> HIDE DEF e
  <2>3. open' = Following(open, e)
    BY <2>1, <2>2 DEF Following
  <2>4. EventsTellOpen'
    BY <2>1, <2>2, <2>3, ToldMore
  <2>5. QED
    BY <2>2, <2>4 DEF Told, FinishedIsLast
<1>2. ASSUME NEW status \in {"ok", "error"}, Finish(status) PROVE Told'
  <2> DEFINE e == Event("node.finished", open[Len(open)], status)
  <2>1. e \in LogEvent /\ e.event = "node.finished" /\ e.node = open[Len(open)] /\ open # <<>>
    BY <1>2, OpenFacts DEF Event, LogEvent, Finish
  <2>2. /\ log' = Append(log, e) /\ open' = SubSeq(open, 1, Len(open) - 1)
        /\ phase' \in {"running", "failing"}
    BY <1>2 DEF Finish
  <2> HIDE DEF e
  <2>3. open' = Following(open, e)
    BY <2>1, <2>2 DEF Following
  <2>4. EventsTellOpen'
    BY <2>1, <2>2, <2>3, ToldMore
  <2>5. QED
    BY <2>2, <2>4 DEF Told, FinishedIsLast
<1>3. ASSUME NEW status \in {"ok", "error"}, End(status) PROVE Told'
  <2> DEFINE e == Event("run.finished", Root, status)
  <2>1. e \in LogEvent /\ e.event = "run.finished"
    BY DEF Event, LogEvent
  <2>2. log' = Append(log, e) /\ open = <<>> /\ open' = open /\ phase' = status
    BY <1>3 DEF End
  <2>3. e = Event("run.finished", Root, phase')
    BY <2>2
  <2> HIDE DEF e
  <2>4. open' = Following(open, e)
    BY <2>1, <2>2 DEF Following
  <2>5. EventsTellOpen' /\ log'[Len(log')] = e
    BY <2>1, <2>2, <2>4, ToldMore
  <2>6. OpenNodes' = <<>>
    BY <2>2, <2>5 DEF EventsTellOpen
  <2>7. FinishedIsLast'
    BY <2>3, <2>5, <2>6 DEF FinishedIsLast, Event
  <2>8. QED
    BY <2>2, <2>5, <2>7 DEF Told
<1>4. CASE Break \/ BeginWriting \/ Write \/ UNCHANGED vars
  <2>1. log' = log /\ open' = open /\ (phase' \notin {"ok", "error"} \/ phase' = phase)
    BY <1>4 DEF Break, BeginWriting, Write, vars
  <2>2. QED
    BY <2>1, ToldStays
<1>5. QED
  BY <1>1, <1>2, <1>3, <1>4 DEF Next

LEMMA LogTells == Spec => []Told
<1>1. Init => IInv /\ Told
  BY InitHolds, InitTold
<1>2. (IInv /\ Told) /\ [Next]_vars => (IInv /\ Told)'
  BY NextKeeps, NextTells
<1>3. QED
  BY <1>1, <1>2, PTL DEF Spec

(* Whoever implements Supervision can be watched by its events alone.      *)
THEOREM BracketIsInTheLog == Spec => []EventsTellOpen
<1>1. Told => EventsTellOpen
  BY DEF Told
<1>2. QED
  BY <1>1, LogTells, PTL

(* After run.finished there is no event, and no node is left open.         *)
THEOREM LastEventIsTheRun == Spec => []FinishedIsLast
<1>1. Told => FinishedIsLast
  BY DEF Told
<1>2. QED
  BY <1>1, LogTells, PTL
=============================================================================

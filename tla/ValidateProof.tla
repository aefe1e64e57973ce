--------------------------- MODULE ValidateProof ---------------------------
(***************************************************************************)
(* What kc_flow_validate_model guarantees of every file it accepts, for    *)
(* files of any size.  The invariant follows the marks of the walk: nodes  *)
(* that are seen and no longer on the stack have returned, all their links *)
(* lead to nodes that returned before them (FinishedClosed); the links a   *)
(* pending loop is past lead to nodes that have returned (PastLinks).      *)
(***************************************************************************)
EXTENDS Validate, SequenceFacts, FiniteSetTheorems, TLAPS

Finished == seen \ onstack

(* The links before position i of a list.                                  *)
Before(list, i) == {list[l] : l \in {l \in DOMAIN list : l < i}}

FinishedClosed ==
  \A n \in Finished :
    /\ finished[n] <= clock
    /\ \A m \in Elements(model.links[n]) : m \in Finished /\ finished[m] < finished[n]

PastLinks ==
  /\ \A k \in DOMAIN walk : Before(model.links[walk[k].node], walk[k].i) \subseteq Finished
  /\ Before(model.entry, e) \subseteq Finished

AcceptedAtEnd ==
  verdict = "ok" => walk = <<>> /\ e > 0 /\ e \notin DOMAIN model.entry

IInv == TypeOK /\ WalkIsPath /\ FinishedClosed /\ PastLinks /\ AcceptedAtEnd

LEMMA ModelFacts ==
  ASSUME IInv
  PROVE  /\ model \in ModelType
         /\ model.entry \in Seq(Ref)
         /\ model.nodes \subseteq Ref
         /\ \A n \in Ref : model.links[n] \in Seq(Ref)
         /\ seen \subseteq Ref /\ onstack \subseteq seen
         /\ walk \in Seq(Frame) /\ e \in Nat /\ clock \in Nat
         /\ DOMAIN walk = 1..Len(walk) /\ Len(walk) \in Nat
         /\ \A k \in DOMAIN walk : walk[k].node \in Ref /\ walk[k].i \in Nat \ {0}
<1>1. model \in ModelType /\ walk \in Seq(Frame)
  BY ModelsAssumption DEF IInv, TypeOK
<1>2. /\ model.entry \in Seq(Ref) /\ model.nodes \subseteq Ref
      /\ \A n \in Ref : model.links[n] \in Seq(Ref)
  BY <1>1 DEF ModelType
<1>3. /\ DOMAIN walk = 1..Len(walk) /\ Len(walk) \in Nat
      /\ \A k \in DOMAIN walk : walk[k] \in Frame
  BY <1>1, LenProperties, ElementOfSeq
<1>4. \A k \in DOMAIN walk : walk[k].node \in Ref /\ walk[k].i \in Nat \ {0}
  BY <1>3 DEF Frame
<1>5. QED
  BY <1>1, <1>2, <1>3, <1>4 DEF IInv, TypeOK

(* The innermost activation.                                               *)
LEMMA InnerFacts ==
  ASSUME IInv, walk # <<>>
  PROVE  /\ Len(walk) \in DOMAIN walk /\ Len(walk) \in Nat \ {0}
         /\ Inner \in Frame /\ Inner.node \in Ref /\ Inner.i \in Nat \ {0}
         /\ Inner.node \in onstack
<1>1. Len(walk) \in DOMAIN walk /\ Len(walk) \in Nat \ {0}
  BY ModelFacts, EmptySeq
<1>2. Inner \in Frame
  BY <1>1, ModelFacts, ElementOfSeq DEF Inner
<1>3. Inner.node \in onstack
  BY <1>1 DEF IInv, WalkIsPath, Inner
<1>4. QED
  BY <1>1, <1>2, <1>3 DEF Frame

(* A loop over a list of links that takes the next one has passed one more.*)
LEMMA BeforeNext ==
  ASSUME NEW list \in Seq(Ref), NEW i \in Nat, i \in DOMAIN list
  PROVE  Before(list, i + 1) = Before(list, i) \cup {list[i]}
<1>1. \A l \in DOMAIN list : l \in Nat
  BY LenProperties
<1>2. \A l \in DOMAIN list : l < i + 1 <=> l < i \/ l = i
  BY <1>1
<1>3. QED
  BY <1>2 DEF Before

(* A loop that is past its list has passed all of it.                      *)
LEMMA BeforeAll ==
  ASSUME NEW list \in Seq(Ref), NEW i \in Nat \ {0}, i \notin DOMAIN list
  PROVE  Before(list, i) = Elements(list)
<1>1. DOMAIN list = 1..Len(list) /\ Len(list) \in Nat
  BY LenProperties
<1>2. \A l \in DOMAIN list : l < i
  BY <1>1
<1>3. QED
  BY <1>2 DEF Before, Elements

LEMMA BeforeNone ==
  ASSUME NEW list \in Seq(Ref), NEW i \in {0, 1}
  PROVE  Before(list, i) = {}
<1>1. \A l \in DOMAIN list : l \in Nat \ {0}
  BY LenProperties
<1>2. QED
  BY <1>1 DEF Before

----------------------------------------------------------------------------

LEMMA InitHolds == Init => IInv
<1> SUFFICES ASSUME Init PROVE IInv
  OBVIOUS
<1>1. walk \in Seq(Frame) /\ Len(walk) = 0 /\ DOMAIN walk = {}
  BY EmptySeq DEF Init
<1>2. TypeOK
  BY <1>1 DEF Init, TypeOK, Verdicts
<1>3. Before(model.entry, e) = {}
  BY BeforeNone, ModelsAssumption DEF Init, ModelType
<1>4. QED
  BY <1>1, <1>2, <1>3
     DEF Init, IInv, WalkIsPath, FinishedClosed, PastLinks, AcceptedAtEnd, Finished

(* Reporting changes nothing but the verdict.                              *)
LEMMA ReportKeeps ==
  ASSUME IInv, NEW v \in Verdicts, Report(v),
         v = "ok" => walk = <<>> /\ e > 0 /\ e \notin DOMAIN model.entry
  PROVE  IInv'
BY DEF IInv, Report, TypeOK, WalkIsPath, FinishedClosed, PastLinks,
       AcceptedAtEnd, Finished, Elements, Before

LEMMA StartWalkKeeps ==
  ASSUME IInv, StartWalk
  PROVE  IInv'
<1>1. Before(model.entry, 1) = {}
  BY ModelFacts, BeforeNone
<1>2. walk = <<>>
  BY ModelFacts, LenProperties DEF IInv, WalkIsPath, StartWalk, Preliminary
<1>3. QED
  BY <1>1, <1>2 DEF IInv, StartWalk, Preliminary, TypeOK, WalkIsPath, FinishedClosed,
         PastLinks, AcceptedAtEnd, Finished, Elements, Before
(* The next link is a reference of the list the walk is at.                *)
LEMMA LinkIsRef ==
  ASSUME IInv, Walking, Pending
  PROVE  Link \in Ref
<1>1. CASE walk = <<>>
  BY <1>1, ModelFacts, LenProperties, ElementOfSeq DEF Pending, Link
<1>2. CASE walk # <<>>
  BY <1>2, ModelFacts, InnerFacts, LenProperties, ElementOfSeq DEF Pending, Link
<1>3. QED
  BY <1>1, <1>2

(* Moving the loop of one activation to its next link.                     *)
LEMMA StepFrame ==
  ASSUME NEW w \in Seq(Frame), w # <<>>
  PROVE  LET t == [w EXCEPT ![Len(w)].i = @ + 1]
         IN  /\ t \in Seq(Frame) /\ Len(t) = Len(w) /\ DOMAIN t = DOMAIN w
             /\ \A k \in DOMAIN w : t[k].node = w[k].node
             /\ \A k \in DOMAIN w : t[k].i = IF k = Len(w) THEN w[k].i + 1 ELSE w[k].i
<1> DEFINE fr == [w[Len(w)] EXCEPT !.i = @ + 1]
           t  == [w EXCEPT ![Len(w)] = fr]
<1>1. Len(w) \in 1..Len(w) /\ DOMAIN w = 1..Len(w)
  BY EmptySeq, LenProperties
<1>2. w[Len(w)] \in Frame
  BY <1>1, ElementOfSeq
<1>3. fr \in Frame /\ fr.node = w[Len(w)].node /\ fr.i = w[Len(w)].i + 1
  BY <1>2 DEF Frame
<1> HIDE DEF fr
<1>4. /\ t \in Seq(Frame) /\ Len(t) = Len(w)
      /\ \A k \in 1..Len(w) : t[k] = IF k = Len(w) THEN fr ELSE w[k]
  BY <1>1, <1>3, ExceptSeq
<1>5. DOMAIN t = DOMAIN w
  BY <1>1
<1>6. t = [w EXCEPT ![Len(w)].i = @ + 1]
  BY DEF fr
<1> HIDE DEF t
<1>7. QED
  BY <1>1, <1>3, <1>4, <1>5, <1>6

LEMMA AlreadySeenKeeps ==
  ASSUME IInv, AlreadySeen
  PROVE  IInv'
<1>1. Link \in Finished
  BY DEF AlreadySeen, Finished
<1>2. UNCHANGED <<model, verdict, seen, onstack, clock, finished>> /\ verdict = "none"
  BY DEF AlreadySeen, Walking
<1>3. Finished' = Finished /\ FinishedClosed'
  BY <1>2 DEF IInv, Finished, FinishedClosed, Elements
<1>4. CASE walk = <<>>
  <2>1. e' = e + 1 /\ walk' = walk /\ e \in DOMAIN model.entry /\ Link = model.entry[e]
    BY <1>4 DEF AlreadySeen, Advance, Pending, Link
  <2>2. Before(model.entry, e') \subseteq Finished
    BY <1>1, <2>1, ModelFacts, BeforeNext DEF IInv, PastLinks
  <2>3. QED
    BY <1>2, <1>3, <1>4, <2>1, <2>2
       DEF IInv, TypeOK, WalkIsPath, PastLinks, AcceptedAtEnd, Before
<1>5. CASE walk # <<>>
  <2>1. /\ e' = e /\ walk' = [walk EXCEPT ![Len(walk)].i = @ + 1]
        /\ Inner.i \in DOMAIN model.links[Inner.node]
        /\ Link = model.links[Inner.node][Inner.i]
    BY <1>5 DEF AlreadySeen, Advance, Pending, Link
  <2>2. /\ walk' \in Seq(Frame) /\ Len(walk') = Len(walk) /\ DOMAIN walk' = DOMAIN walk
        /\ \A k \in DOMAIN walk : walk'[k].node = walk[k].node
        /\ \A k \in DOMAIN walk :
             walk'[k].i = IF k = Len(walk) THEN walk[k].i + 1 ELSE walk[k].i
    BY <1>5, <2>1, ModelFacts, StepFrame
  <2>3. ASSUME NEW k \in DOMAIN walk
        PROVE  Before(model.links[walk'[k].node], walk'[k].i) \subseteq Finished
    <3>1. Before(model.links[walk[k].node], walk[k].i) \subseteq Finished
      BY DEF IInv, PastLinks
    <3>2. CASE k = Len(walk)
      <4>1. walk'[k].node = Inner.node /\ walk'[k].i = Inner.i + 1 /\ walk[k] = Inner
        BY <2>2, <3>2 DEF Inner
      <4>2. Before(model.links[Inner.node], Inner.i + 1)
              = Before(model.links[Inner.node], Inner.i) \cup {Link}
        BY <1>5, <2>1, ModelFacts, InnerFacts, BeforeNext
      <4>3. QED
        BY <1>1, <3>1, <4>1, <4>2
    <3>3. CASE k # Len(walk)
      BY <2>2, <3>1, <3>3
    <3>4. QED
      BY <3>2, <3>3
  <2>4. PastLinks'
    BY <1>2, <1>3, <2>1, <2>2, <2>3 DEF IInv, PastLinks, Before
  <2>5. WalkIsPath'
    <3>1. \A k, l \in DOMAIN walk' : walk'[k].node = walk'[l].node => k = l
      BY <2>2 DEF IInv, WalkIsPath
    <3>2. onstack' = {walk'[k].node : k \in DOMAIN walk'}
      BY <1>2, <2>2 DEF IInv, WalkIsPath
    <3>3. walk'[1].node = model.entry[e] /\ e \in DOMAIN model.entry
      <4>1. 1 \in DOMAIN walk
        BY <1>5, ModelFacts, InnerFacts
      <4>2. walk'[1].node = walk[1].node
        BY <2>2, <4>1
      <4>3. walk[1].node = model.entry[e] /\ e \in DOMAIN model.entry
        BY <1>5 DEF IInv, WalkIsPath
      <4>4. QED
        BY <4>2, <4>3
    <3>4. ASSUME NEW k \in DOMAIN walk', k > 1
          PROVE  /\ walk'[k - 1].i \in DOMAIN model.links[walk'[k - 1].node]
                 /\ walk'[k].node = model.links[walk'[k - 1].node][walk'[k - 1].i]
      <4>1. k - 1 \in DOMAIN walk /\ k - 1 # Len(walk)
        BY <2>2, <3>4, ModelFacts
      <4>2. walk'[k - 1].i = walk[k - 1].i /\ walk'[k - 1].node = walk[k - 1].node
        BY <2>2, <4>1
      <4>3. QED
        BY <2>2, <3>4, <4>2 DEF IInv, WalkIsPath
    <3>5. QED
      BY <1>2, <2>1, <3>1, <3>2, <3>3, <3>4 DEF WalkIsPath
  <2>6. QED
    BY <1>2, <1>3, <2>1, <2>2, <2>4, <2>5 DEF IInv, TypeOK, AcceptedAtEnd
<1>6. QED
  BY <1>4, <1>5

LEMMA DescendKeeps ==
  ASSUME IInv, Descend
  PROVE  IInv'
<1> DEFINE fr == [node |-> Link, i |-> 1]
<1>1. /\ UNCHANGED <<model, verdict, e, clock, finished>> /\ verdict = "none"
      /\ Walking /\ Pending
      /\ Link \in model.nodes /\ Link \notin seen /\ Link \notin onstack
      /\ seen' = seen \cup {Link} /\ onstack' = onstack \cup {Link}
      /\ walk' = Append(walk, fr)
  BY DEF Descend, Walking
<1>2. Link \in Ref
  BY <1>1, LinkIsRef
<1>3. Finished' = Finished /\ FinishedClosed'
  BY <1>1 DEF IInv, Finished, FinishedClosed, Elements
<1>4. fr \in Frame /\ fr.node = Link /\ fr.i = 1
  BY <1>2 DEF Frame
<1> HIDE DEF fr
<1>5. /\ walk' \in Seq(Frame) /\ Len(walk') = Len(walk) + 1
      /\ DOMAIN walk' = DOMAIN walk \cup {Len(walk) + 1}
      /\ \A k \in DOMAIN walk : walk'[k] = walk[k]
      /\ walk'[Len(walk) + 1] = fr
      /\ Len(walk) + 1 \notin DOMAIN walk
  <2>1. /\ walk' \in Seq(Frame) /\ Len(walk') = Len(walk) + 1
        /\ \A k \in 1..Len(walk) : walk'[k] = walk[k]
        /\ walk'[Len(walk) + 1] = fr
    BY <1>1, <1>4, ModelFacts, AppendProperties
  <2>2. DOMAIN walk' = 1..(Len(walk) + 1) /\ Len(walk) \in Nat /\ DOMAIN walk = 1..Len(walk)
    BY <2>1, ModelFacts, LenProperties
  <2>3. QED
    BY <2>1, <2>2
<1>6. PastLinks'
  <2>1. Before(model.links[Link], 1) = {}
    BY <1>2, ModelFacts, BeforeNone
  <2>2. \A k \in DOMAIN walk' : Before(model.links[walk'[k].node], walk'[k].i) \subseteq Finished
    BY <1>4, <1>5, <2>1 DEF IInv, PastLinks
  <2>3. QED
    BY <1>1, <1>3, <2>2 DEF IInv, PastLinks, Before
<1>7. WalkIsPath'
  <2>1. \A k \in DOMAIN walk : walk[k].node # Link
    BY <1>1 DEF IInv, WalkIsPath
  <2>2. \A k, l \in DOMAIN walk' : walk'[k].node = walk'[l].node => k = l
    BY <1>4, <1>5, <2>1 DEF IInv, WalkIsPath
  <2>3. onstack' = {walk'[k].node : k \in DOMAIN walk'}
    BY <1>1, <1>4, <1>5 DEF IInv, WalkIsPath
  <2>4. e \in DOMAIN model.entry /\ walk'[1].node = model.entry[e]
    <3>1. CASE walk = <<>>
      BY <1>1, <1>4, <1>5, <3>1 DEF Pending, Link
    <3>2. CASE walk # <<>>
      BY <1>5, <3>2, ModelFacts, InnerFacts DEF IInv, WalkIsPath
    <3>3. QED
      BY <3>1, <3>2
  <2>5. ASSUME NEW k \in DOMAIN walk', k > 1
        PROVE  /\ walk'[k - 1].i \in DOMAIN model.links[walk'[k - 1].node]
               /\ walk'[k].node = model.links[walk'[k - 1].node][walk'[k - 1].i]
    <3>1. CASE k \in DOMAIN walk
      <4>1. k - 1 \in DOMAIN walk
        BY <2>5, <3>1, ModelFacts
      <4>2. QED
        BY <1>5, <2>5, <3>1, <4>1 DEF IInv, WalkIsPath
    <3>2. CASE k = Len(walk) + 1
      <4>1. walk # <<>> /\ k - 1 = Len(walk) /\ Len(walk) \in DOMAIN walk
        BY <2>5, <3>2, ModelFacts
      <4>2. walk'[k - 1] = Inner /\ walk'[k].node = Link
        BY <1>4, <1>5, <3>2, <4>1 DEF Inner
      <4>3. QED
        BY <1>1, <4>1, <4>2 DEF Pending, Link
    <3>3. QED
      BY <1>5, <3>1, <3>2
  <2>6. QED
    BY <1>1, <2>2, <2>3, <2>4, <2>5 DEF WalkIsPath
<1>8. QED
  BY <1>1, <1>3, <1>5, <1>6, <1>7 DEF IInv, TypeOK, AcceptedAtEnd
LEMMA ReturnKeeps ==
  ASSUME IInv, Return
  PROVE  IInv'
<1> DEFINE n == Inner.node
           w == SubSeq(walk, 1, Len(walk) - 1)
<1>1. /\ UNCHANGED <<model, verdict, seen>> /\ verdict = "none"
      /\ walk # <<>> /\ Inner.i \notin DOMAIN model.links[n]
      /\ onstack' = onstack \ {n}
      /\ clock' = clock + 1 /\ finished' = [finished EXCEPT ![n] = clock + 1]
      /\ Advance(w)
  BY DEF Return, Walking, Pending
<1>2. /\ Len(walk) \in DOMAIN walk /\ Len(walk) \in Nat \ {0} /\ walk[Len(walk)] = Inner
      /\ n \in Ref /\ n \in onstack /\ n \in seen /\ Inner.i \in Nat \ {0}
      /\ DOMAIN walk = 1..Len(walk)
  BY <1>1, InnerFacts, ModelFacts DEF Inner
<1>3. /\ w \in Seq(Frame) /\ Len(w) = Len(walk) - 1 /\ DOMAIN w = 1..Len(walk) - 1
      /\ \A k \in DOMAIN w : k \in DOMAIN walk /\ w[k] = walk[k]
  <2>1. Len(walk) - 1 \in 0..Len(walk)
    BY <1>2
  <2>2. /\ w \in Seq(Frame) /\ Len(w) = Len(walk) - 1
        /\ \A k \in 1..Len(walk) - 1 : w[k] = walk[k]
    BY <2>1, ModelFacts, PrefixFacts
  <2>3. DOMAIN w = 1..Len(walk) - 1
    BY <2>2, LenProperties
  <2>4. QED
    BY <1>2, <2>2, <2>3
<1> HIDE DEF w
<1>4. Finished' = Finished \cup {n} /\ n \notin Finished
  BY <1>1, <1>2 DEF Finished
<1>5. Elements(model.links[n]) \subseteq Finished
  <2>1. Before(model.links[n], Inner.i) \subseteq Finished
    BY <1>2 DEF IInv, PastLinks
  <2>2. QED
    BY <1>1, <1>2, <2>1, ModelFacts, BeforeAll
<1>6. /\ finished' \in [Ref -> Nat] /\ finished'[n] = clock + 1
      /\ \A m \in Finished : finished'[m] = finished[m] /\ finished[m] <= clock
                           /\ finished[m] \in Nat
  BY <1>1, <1>2, <1>4, ModelFacts DEF IInv, TypeOK, FinishedClosed, Finished
<1>7. FinishedClosed'
  <2>1. ASSUME NEW m \in Finished'
        PROVE  /\ finished'[m] <= clock'
               /\ \A p \in Elements(model.links[m]) :
                    p \in Finished' /\ finished'[p] < finished'[m]
    <3>1. CASE m = n
      BY <1>1, <1>4, <1>5, <1>6, <3>1, ModelFacts
    <3>2. CASE m \in Finished
      BY <1>1, <1>4, <1>6, <3>2, ModelFacts DEF IInv, FinishedClosed
    <3>3. QED
      BY <1>4, <3>1, <3>2
  <2>2. QED
    BY <1>1, <2>1 DEF FinishedClosed, Elements
<1>8. \A k \in DOMAIN walk : k # Len(walk) => walk[k].node # n
  BY <1>2 DEF IInv, WalkIsPath
<1>9. onstack' = {walk[k].node : k \in DOMAIN w}
  <2>1. onstack = {walk[k].node : k \in DOMAIN walk}
    BY DEF IInv, WalkIsPath
  <2>2. DOMAIN walk = DOMAIN w \cup {Len(walk)} /\ Len(walk) \notin DOMAIN w
    BY <1>2, <1>3
  <2>3. QED
    BY <1>1, <1>2, <1>8, <2>1, <2>2
<1>10. e \in DOMAIN model.entry /\ walk[1].node = model.entry[e] /\ e \in Nat
  BY <1>1, ModelFacts DEF IInv, WalkIsPath
<1>11. CASE w = <<>>
  <2>1. e' = e + 1 /\ walk' = <<>> /\ Len(walk) = 1 /\ DOMAIN w = {}
    BY <1>1, <1>2, <1>3, <1>11, EmptySeq DEF Advance
  <2>2. onstack' = {}
    BY <1>9, <2>1
  <2>3. Before(model.entry, e + 1) = Before(model.entry, e) \cup {n}
    BY <1>2, <1>10, <2>1, ModelFacts, BeforeNext, ZenonT(60)
  <2>4. Before(model.entry, e + 1) \subseteq Finished'
    BY <1>4, <2>3 DEF IInv, PastLinks
  <2>5. walk' \in Seq(Frame) /\ DOMAIN walk' = {}
    BY <2>1, EmptySeq, LenProperties
  <2>6. QED
    BY <1>1, <1>6, <1>7, <1>10, <2>1, <2>2, <2>4, <2>5, ModelFacts,
       SMTT(30) DEF IInv, TypeOK, WalkIsPath, PastLinks, AcceptedAtEnd, Before
<1>12. CASE w # <<>>
  <2>1. e' = e /\ walk' = [w EXCEPT ![Len(w)].i = @ + 1]
    BY <1>1, <1>12 DEF Advance
  <2>2. /\ walk' \in Seq(Frame) /\ Len(walk') = Len(w) /\ DOMAIN walk' = DOMAIN w
        /\ \A k \in DOMAIN w : walk'[k].node = walk[k].node
        /\ \A k \in DOMAIN w : walk'[k].i = IF k = Len(w) THEN walk[k].i + 1 ELSE walk[k].i
    BY <1>3, <1>12, <2>1, StepFrame
  <2>3. Len(w) \in DOMAIN w /\ Len(w) \in DOMAIN walk /\ 1 \in DOMAIN w
    BY <1>2, <1>3, <1>12, EmptySeq
  <2> DEFINE c == walk[Len(w)]
  <2>4. /\ c.i \in DOMAIN model.links[c.node]
        /\ n = model.links[c.node][c.i]
        /\ c.node \in Ref /\ c.i \in Nat
    <3>1. Len(walk) > 1 /\ Len(walk) - 1 = Len(w)
      BY <1>2, <1>3, <2>3
    <3>2. QED
      BY <1>2, <2>3, <3>1, ModelFacts DEF IInv, WalkIsPath
  <2>5. ASSUME NEW k \in DOMAIN w
        PROVE  Before(model.links[walk'[k].node], walk'[k].i) \subseteq Finished'
    <3>1. Before(model.links[walk[k].node], walk[k].i) \subseteq Finished
      BY <1>3 DEF IInv, PastLinks
    <3>2. CASE k = Len(w)
      <4> DEFINE list == model.links[c.node]
                 i    == c.i
      <4>1. Before(model.links[c.node], c.i + 1) = Before(model.links[c.node], c.i) \cup {n}
        <5>1. list \in Seq(Ref) /\ i \in Nat /\ i \in DOMAIN list /\ list[i] = n
          BY <2>4, ModelFacts
        <5> HIDE DEF list, i, n
        <5>2. Before(list, i + 1) = Before(list, i) \cup {n}
          BY <5>1, BeforeNext
        <5>3. QED
          BY <5>2 DEF list, i
      <4>2. walk'[k].node = c.node /\ walk'[k].i = c.i + 1
        BY <2>2, <3>2
      <4>3. QED
        BY <1>4, <3>1, <3>2, <4>1, <4>2
    <3>3. CASE k # Len(w)
      BY <1>4, <2>2, <3>1, <3>3
    <3>4. QED
      BY <3>2, <3>3
  <2>6. PastLinks'
    BY <1>1, <1>4, <2>1, <2>2, <2>5 DEF IInv, PastLinks, Before
  <2>7. WalkIsPath'
    <3>1. \A k, l \in DOMAIN walk' : walk'[k].node = walk'[l].node => k = l
      BY <1>3, <2>2 DEF IInv, WalkIsPath
    <3>2. onstack' = {walk'[k].node : k \in DOMAIN walk'}
      BY <1>9, <2>2
    <3>3. walk'[1].node = model.entry[e]
      BY <1>10, <2>2, <2>3
    <3>4. ASSUME NEW k \in DOMAIN walk', k > 1
          PROVE  /\ walk'[k - 1].i \in DOMAIN model.links[walk'[k - 1].node]
                 /\ walk'[k].node = model.links[walk'[k - 1].node][walk'[k - 1].i]
      <4>1. k - 1 \in DOMAIN w /\ k - 1 # Len(w) /\ k \in DOMAIN walk
        BY <1>2, <1>3, <2>2, <3>4
      <4>2. walk'[k - 1].i = walk[k - 1].i /\ walk'[k - 1].node = walk[k - 1].node
        BY <2>2, <4>1
      <4>3. QED
        BY <2>2, <3>4, <4>1, <4>2 DEF IInv, WalkIsPath
    <3>5. QED
      BY <1>1, <1>10, <2>1, <3>1, <3>2, <3>3, <3>4 DEF WalkIsPath
  <2>8. QED
    BY <1>1, <1>6, <1>7, <2>1, <2>2, <2>6, <2>7, ModelFacts DEF IInv, TypeOK, AcceptedAtEnd
<1>13. QED
  BY <1>11, <1>12

----------------------------------------------------------------------------

LEMMA NextKeeps == IInv /\ [Next]_vars => IInv'
<1> SUFFICES ASSUME IInv, [Next]_vars PROVE IInv'
  OBVIOUS
<1>1. CASE MissingId \/ MissingLink \/ VoidNode \/ Unknown \/ Cycle
  <2>1. \E v \in Verdicts \ {"ok"} : Report(v)
    BY <1>1 DEF MissingId, MissingLink, VoidNode, Unknown, Cycle, Verdicts
  <2>2. QED
    BY <2>1, ReportKeeps
<1>2. CASE Accept
  <2>1. Report("ok") /\ "ok" \in Verdicts
    BY <1>2 DEF Accept, Verdicts
  <2>2. walk = <<>> /\ e > 0 /\ e \notin DOMAIN model.entry
    BY <1>2 DEF Accept, Walking, Pending
  <2>3. QED
    BY <2>1, <2>2, ReportKeeps
<1>3. CASE StartWalk
  BY <1>3, StartWalkKeeps
<1>4. CASE AlreadySeen
  BY <1>4, AlreadySeenKeeps
<1>5. CASE Descend
  BY <1>5, DescendKeeps
<1>6. CASE Return
  BY <1>6, ReturnKeeps
<1>7. CASE Done \/ UNCHANGED vars
  BY <1>7 DEF Done, vars, IInv, TypeOK, WalkIsPath, FinishedClosed, PastLinks,
              AcceptedAtEnd, Finished, Elements, Before
<1>8. QED
  BY <1>1, <1>2, <1>3, <1>4, <1>5, <1>6, <1>7 DEF Next

LEMMA Invariance == Spec => []IInv
BY InitHolds, NextKeeps, PTL DEF Spec

(* Every variable of the walk has its type; in particular only nodes that  *)
(* are declared are ever marked, so seen[] and stack[] are indexed by nodes*)
(* of the model.                                                           *)
THEOREM TypeCorrect == Spec => []TypeOK
<1>1. IInv => TypeOK
  BY DEF IInv
<1>2. QED
  BY <1>1, Invariance, PTL

(* The recursion of validate_node_walk is a path of the file's links       *)
(* through different nodes: it is bounded by the number of nodes, and when *)
(* a link meets a marked node there is a cycle to report.                  *)
THEOREM WalkStaysAPath == Spec => []WalkIsPath
<1>1. IInv => WalkIsPath
  BY DEF IInv
<1>2. QED
  BY <1>1, Invariance, PTL

(* A file that kc_flow_validate_model accepts has no unknown link and no   *)
(* cycle among the nodes its entry links reach: the order in which their   *)
(* walks returned decreases along every link.                              *)
THEOREM AcceptedIsSound == Spec => []AcceptedIsRunnable
<1>1. IInv => AcceptedIsRunnable
  <2> SUFFICES ASSUME IInv, verdict = "ok"
               PROVE  /\ Elements(model.entry) \subseteq seen
                      /\ Closed(model, seen)
                      /\ Ranks(model, finished, seen)
                      /\ \A n \in seen : finished[n] <= clock
    BY DEF AcceptedIsRunnable
  <2>1. walk = <<>> /\ e > 0 /\ e \notin DOMAIN model.entry
    BY DEF IInv, AcceptedAtEnd
  <2>2. DOMAIN walk = {}
    BY <2>1, EmptySeq, ModelFacts
  <2>3. onstack = {}
    BY <2>2 DEF IInv, WalkIsPath
  <2>4. Finished = seen
    BY <2>3 DEF Finished
  <2>5. Elements(model.entry) \subseteq seen
    BY <2>1, <2>4, ModelFacts, BeforeAll DEF IInv, PastLinks
  <2>6. QED
    BY <2>4, <2>5 DEF IInv, FinishedClosed, Closed, Ranks
<1>2. QED
  BY <1>1, Invariance, PTL

----------------------------------------------------------------------------
(* Whether a verdict is right.  What the walk marks is reachable; a        *)
(* numbering that decreases along links decreases along the walk, which is *)
(* why a link back into the walk refutes every numbering; and the clock    *)
(* counts the nodes that have returned, so that the order of their returns *)
(* is a numbering no larger than the file.                                 *)

MarkedIsReachable == seen \subseteq Reachable(model)

WalkDescends ==
  \A rank \in [Ref -> 1..Cardinality(Ref)] :
    Ranks(model, rank, Reachable(model) \cap model.nodes) =>
      \A j, k \in DOMAIN walk : j < k => rank[walk[k].node] < rank[walk[j].node]

ClockCounts ==
  /\ clock = Cardinality(Finished)
  /\ \A n \in Finished : finished[n] > 0

Complete(m) == m.id /\ m.entry # <<>> /\ \A n \in m.nodes : ~ Void(m, n)

FaultIsThere ==
  /\ e > 0 => Complete(model)
  /\ verdict = "no id" => ~ model.id
  /\ verdict = "no link" => model.entry = <<>>
  /\ verdict = "void node" => \E n \in model.nodes : Void(model, n)
  /\ verdict = "unknown link" => ~ (Reachable(model) \subseteq model.nodes)
  /\ verdict = "cycle" => ~ Acyclic(model, Reachable(model) \cap model.nodes)

VInv == MarkedIsReachable /\ WalkDescends /\ ClockCounts /\ FaultIsThere

(* A link the walk looks up is reachable.                                  *)
LEMMA LinkIsReachable ==
  ASSUME IInv, VInv, Walking, Pending
  PROVE  Link \in Reachable(model)
<1>1. Link \in Ref
  BY LinkIsRef
<1>2. ASSUME NEW S \in SUBSET Ref, Elements(model.entry) \subseteq S, Closed(model, S)
      PROVE  Link \in S
  <2>1. CASE walk = <<>>
    BY <1>2, <2>1 DEF Pending, Link, Elements
  <2>2. CASE walk # <<>>
    <3>1. Inner.node \in seen /\ Inner.node \in model.nodes
      BY <2>2, InnerFacts DEF IInv, TypeOK
    <3>2. Inner.node \in S
      BY <1>2, <3>1 DEF VInv, MarkedIsReachable, Reachable
    <3>3. Link \in Elements(model.links[Inner.node])
      BY <2>2 DEF Pending, Link, Elements
    <3>4. QED
      BY <1>2, <3>1, <3>2, <3>3 DEF Closed
  <2>3. QED
    BY <2>1, <2>2
<1>3. QED
  BY <1>1, <1>2 DEF Reachable

(* A numbering that decreases along links decreases from the activations   *)
(* to the link they look up.                                               *)
LEMMA LinkDescends ==
  ASSUME IInv, VInv, Walking, Pending, walk # <<>>,
         NEW rank \in [Ref -> 1..Cardinality(Ref)],
         Ranks(model, rank, Reachable(model) \cap model.nodes),
         NEW k \in DOMAIN walk
  PROVE  rank[Link] < rank[walk[k].node]
<1>1. Inner.node \in Reachable(model) \cap model.nodes
  BY InnerFacts DEF IInv, TypeOK, VInv, MarkedIsReachable
<1>2. Link \in Elements(model.links[Inner.node])
  BY DEF Pending, Link, Elements
<1>3. rank[Link] < rank[Inner.node]
  BY <1>1, <1>2 DEF Ranks
<1>4. CASE k = Len(walk)
  BY <1>3, <1>4 DEF Inner
<1>5. CASE k # Len(walk)
  <2>1. k < Len(walk) /\ Len(walk) \in DOMAIN walk
    BY <1>5, ModelFacts, InnerFacts
  <2>2. rank[Inner.node] < rank[walk[k].node]
    BY <2>1 DEF VInv, WalkDescends, Inner
  <2>3. \A n \in Ref : rank[n] \in Int
    <3>1. Cardinality(Ref) \in Nat
      BY RefAssumption, FS_CardinalityType
    <3>2. QED
      BY <3>1
  <2>4. Link \in Ref /\ Inner.node \in Ref /\ walk[k].node \in Ref
    BY LinkIsRef, InnerFacts, ModelFacts
  <2>5. QED
    BY <1>3, <2>2, <2>3, <2>4
<1>6. QED
  BY <1>4, <1>5

LEMMA VInitHolds == Init => VInv
<1> SUFFICES ASSUME Init PROVE VInv
  OBVIOUS
<1>1. walk = <<>> /\ DOMAIN walk = {}
  BY EmptySeq DEF Init
<1>2. Finished = {} /\ Cardinality(Finished) = 0
  BY FS_EmptySet DEF Init, Finished
<1>3. QED
  BY <1>1, <1>2 DEF Init, VInv, MarkedIsReachable, WalkDescends, ClockCounts, FaultIsThere

LEMMA VReportKeeps ==
  ASSUME IInv, VInv, NEW v \in Verdicts, Report(v),
         v = "no id" => ~ model.id,
         v = "no link" => model.entry = <<>>,
         v = "void node" => \E n \in model.nodes : Void(model, n),
         v = "unknown link" => ~ (Reachable(model) \subseteq model.nodes),
         v = "cycle" => ~ Acyclic(model, Reachable(model) \cap model.nodes)
  PROVE  VInv'
<1>1. UNCHANGED <<model, e, seen, onstack, walk, clock, finished>> /\ verdict' = v
  BY DEF Report
<1>2. Finished' = Finished
  BY <1>1 DEF Finished
<1>3. MarkedIsReachable' /\ WalkDescends' /\ ClockCounts'
  BY <1>1, <1>2 DEF VInv, MarkedIsReachable, WalkDescends, ClockCounts
<1>4. FaultIsThere'
  BY <1>1 DEF VInv, FaultIsThere, Verdicts
<1>5. QED
  BY <1>3, <1>4 DEF VInv

(* The link that is reported closes a cycle: it is a node of the walk, and *)
(* every numbering would put it below itself.                              *)
LEMMA CycleIsThere ==
  ASSUME IInv, VInv, Cycle
  PROVE  ~ Acyclic(model, Reachable(model) \cap model.nodes)
<1> SUFFICES ASSUME NEW rank \in [Ref -> 1..Cardinality(Ref)],
                    Ranks(model, rank, Reachable(model) \cap model.nodes)
             PROVE  FALSE
  BY DEF Acyclic
<1>1. Walking /\ Pending /\ Link \in onstack
  BY DEF Cycle
<1>2. PICK k \in DOMAIN walk : walk[k].node = Link
  BY <1>1 DEF IInv, WalkIsPath
<1>3. walk # <<>>
  BY <1>2, EmptySeq
<1>4. rank[Link] < rank[Link]
  BY <1>1, <1>2, <1>3, LinkDescends
<1>5. rank[Link] \in Int
  <2>1. Cardinality(Ref) \in Nat
    BY RefAssumption, FS_CardinalityType
  <2>2. QED
    BY <1>1, <2>1, LinkIsRef
<1>6. QED
  BY <1>4, <1>5

(* Moving a loop on changes the node of no activation.                     *)
LEMMA AdvanceKeepsNodes ==
  ASSUME NEW w \in Seq(Frame), Advance(w)
  PROVE  /\ DOMAIN walk' = DOMAIN w
         /\ \A k \in DOMAIN w : walk'[k].node = w[k].node
         /\ e' = e \/ e' = e + 1
<1>1. CASE w = <<>>
  BY <1>1 DEF Advance
<1>2. CASE w # <<>>
  BY <1>2, StepFrame DEF Advance
<1>3. QED
  BY <1>1, <1>2

LEMMA VStartWalkKeeps ==
  ASSUME IInv, VInv, StartWalk
  PROVE  VInv'
<1>1. /\ UNCHANGED <<model, verdict, seen, onstack, walk, clock, finished>>
      /\ Complete(model) /\ verdict = "none"
  BY DEF StartWalk, Preliminary, Complete
<1>2. Finished' = Finished
  BY <1>1 DEF Finished
<1>3. MarkedIsReachable' /\ WalkDescends' /\ ClockCounts'
  BY <1>1, <1>2 DEF VInv, MarkedIsReachable, WalkDescends, ClockCounts
<1>4. FaultIsThere'
  BY <1>1 DEF VInv, FaultIsThere
<1>5. QED
  BY <1>3, <1>4 DEF VInv

LEMMA VAlreadySeenKeeps ==
  ASSUME IInv, VInv, AlreadySeen
  PROVE  VInv'
<1>1. /\ UNCHANGED <<model, verdict, seen, onstack, clock, finished>>
      /\ verdict = "none" /\ e > 0 /\ e \in Nat /\ Advance(walk) /\ walk \in Seq(Frame)
  BY ModelFacts DEF AlreadySeen, Walking
<1>2. DOMAIN walk' = DOMAIN walk /\ (\A k \in DOMAIN walk : walk'[k].node = walk[k].node)
  BY <1>1, AdvanceKeepsNodes
<1>3. Finished' = Finished
  BY <1>1 DEF Finished
<1>4. MarkedIsReachable' /\ ClockCounts'
  BY <1>1, <1>3 DEF VInv, MarkedIsReachable, ClockCounts
<1>5. WalkDescends'
  BY <1>1, <1>2 DEF VInv, WalkDescends
<1>6. FaultIsThere'
  BY <1>1 DEF VInv, FaultIsThere
<1>7. QED
  BY <1>4, <1>5, <1>6 DEF VInv

LEMMA VDescendKeeps ==
  ASSUME IInv, VInv, Descend
  PROVE  VInv'
<1> DEFINE fr == [node |-> Link, i |-> 1]
           d  == Len(walk) + 1
<1>1. /\ UNCHANGED <<model, verdict, e, clock, finished>> /\ verdict = "none"
      /\ Walking /\ Pending
      /\ seen' = seen \cup {Link} /\ onstack' = onstack \cup {Link}
      /\ Link \notin seen /\ Link \notin onstack
      /\ walk' = Append(walk, fr)
  BY DEF Descend, Walking
<1>2. fr \in Frame /\ fr.node = Link
  BY <1>1, LinkIsRef DEF Frame
<1> HIDE DEF fr
<1>3. /\ \A k \in DOMAIN walk : walk'[k] = walk[k]
      /\ walk'[d] = fr
      /\ DOMAIN walk' = DOMAIN walk \cup {d}
      /\ \A k \in DOMAIN walk : k < d
      /\ d \in Nat
  <2>1. /\ walk' \in Seq(Frame) /\ Len(walk') = Len(walk) + 1
        /\ \A k \in 1..Len(walk) : walk'[k] = walk[k]
        /\ walk'[Len(walk) + 1] = fr
    BY <1>1, <1>2, ModelFacts, AppendProperties
  <2>2. DOMAIN walk' = 1..(Len(walk) + 1) /\ Len(walk) \in Nat /\ DOMAIN walk = 1..Len(walk)
    BY <2>1, ModelFacts, LenProperties
  <2>3. QED
    BY <2>1, <2>2
<1>4. MarkedIsReachable'
  BY <1>1, LinkIsReachable DEF VInv, MarkedIsReachable
<1>5. Finished' = Finished
  BY <1>1 DEF Finished
<1>6. ClockCounts'
  BY <1>1, <1>5 DEF VInv, ClockCounts
<1>7. WalkDescends'
  <2> SUFFICES ASSUME NEW rank \in [Ref -> 1..Cardinality(Ref)],
                      Ranks(model, rank, Reachable(model) \cap model.nodes),
                      NEW j \in DOMAIN walk', NEW k \in DOMAIN walk', j < k
               PROVE  rank[walk'[k].node] < rank[walk'[j].node]
    BY <1>1 DEF WalkDescends
  <2>1. CASE k \in DOMAIN walk
    <3>1. j \in DOMAIN walk
      BY <1>3, <2>1, ModelFacts
    <3>2. QED
      BY <1>3, <2>1, <3>1 DEF VInv, WalkDescends
  <2>2. CASE k = d
    <3>1. j \in DOMAIN walk
      BY <1>3, <2>2
    <3>2. walk # <<>>
      BY <3>1, EmptySeq
    <3>3. rank[Link] < rank[walk[j].node]
      BY <1>1, <3>1, <3>2, LinkDescends
    <3>4. QED
      BY <1>2, <1>3, <2>2, <3>1, <3>3
  <2>3. QED
    BY <1>3, <2>1, <2>2
<1>8. FaultIsThere'
  BY <1>1 DEF VInv, FaultIsThere
<1>9. QED
  BY <1>4, <1>6, <1>7, <1>8 DEF VInv

LEMMA VReturnKeeps ==
  ASSUME IInv, VInv, Return
  PROVE  VInv'
<1> DEFINE n == Inner.node
           w == SubSeq(walk, 1, Len(walk) - 1)
<1>1. /\ UNCHANGED <<model, verdict, seen>> /\ verdict = "none"
      /\ walk # <<>> /\ e > 0 /\ e \in Nat
      /\ onstack' = onstack \ {n}
      /\ clock' = clock + 1 /\ finished' = [finished EXCEPT ![n] = clock + 1]
      /\ Advance(w)
  BY ModelFacts DEF Return, Walking
<1>2. /\ Len(walk) \in Nat \ {0} /\ DOMAIN walk = 1..Len(walk)
      /\ n \in Ref /\ n \in onstack /\ n \in seen
  BY <1>1, InnerFacts, ModelFacts
<1>3. /\ w \in Seq(Frame) /\ DOMAIN w = 1..Len(walk) - 1
      /\ \A k \in DOMAIN w : k \in DOMAIN walk /\ w[k] = walk[k]
  <2>1. Len(walk) - 1 \in 0..Len(walk)
    BY <1>2
  <2>2. /\ w \in Seq(Frame) /\ Len(w) = Len(walk) - 1
        /\ \A k \in 1..Len(walk) - 1 : w[k] = walk[k]
    BY <2>1, ModelFacts, PrefixFacts
  <2>3. DOMAIN w = 1..Len(walk) - 1
    BY <2>2, LenProperties
  <2>4. QED
    BY <1>2, <2>2, <2>3
<1> HIDE DEF w
<1>4. /\ \A k \in DOMAIN walk' : k \in DOMAIN walk /\ walk'[k].node = walk[k].node
      /\ e' > 0
  BY <1>1, <1>3, AdvanceKeepsNodes
<1>5. WalkDescends'
  BY <1>1, <1>4 DEF VInv, WalkDescends
<1>6. MarkedIsReachable'
  BY <1>1 DEF VInv, MarkedIsReachable
<1>7. Finished' = Finished \cup {n} /\ n \notin Finished /\ Finished \subseteq Ref
  BY <1>1, <1>2, ModelFacts DEF Finished
<1>8. ClockCounts'
  <2>1. IsFiniteSet(Finished)
    BY <1>7, RefAssumption, FS_Subset
  <2>2. Cardinality(Finished') = Cardinality(Finished) + 1
    BY <1>7, <2>1, FS_AddElement
  <2>3. clock' = Cardinality(Finished')
    BY <1>1, <2>2 DEF VInv, ClockCounts
  <2>4. \A m \in Finished' : finished'[m] > 0
    BY <1>1, <1>2, <1>7, ModelFacts DEF IInv, TypeOK, VInv, ClockCounts
  <2>5. QED
    BY <2>3, <2>4 DEF ClockCounts
<1>9. FaultIsThere'
  BY <1>1 DEF VInv, FaultIsThere
<1>10. QED
  BY <1>5, <1>6, <1>8, <1>9 DEF VInv

LEMMA VNextKeeps == IInv /\ VInv /\ [Next]_vars => VInv'
<1> SUFFICES ASSUME IInv, VInv, [Next]_vars PROVE VInv'
  OBVIOUS
<1>1. CASE MissingId \/ MissingLink \/ VoidNode
  <2>1. CASE MissingId
    BY <2>1, VReportKeeps DEF MissingId, Verdicts
  <2>2. CASE MissingLink
    BY <2>2, VReportKeeps DEF MissingLink, Verdicts
  <2>3. CASE VoidNode
    BY <2>3, VReportKeeps DEF VoidNode, Verdicts
  <2>4. QED
    BY <1>1, <2>1, <2>2, <2>3
<1>2. CASE Unknown
  <2>1. Report("unknown link") /\ Link \in Reachable(model) /\ Link \notin model.nodes
    BY <1>2, LinkIsReachable DEF Unknown
  <2>2. QED
    BY <2>1, VReportKeeps DEF Verdicts
<1>3. CASE Cycle
  <2>1. Report("cycle") /\ ~ Acyclic(model, Reachable(model) \cap model.nodes)
    BY <1>3, CycleIsThere DEF Cycle
  <2>2. QED
    BY <2>1, VReportKeeps DEF Verdicts
<1>4. CASE Accept
  BY <1>4, VReportKeeps DEF Accept, Verdicts
<1>5. CASE StartWalk
  BY <1>5, VStartWalkKeeps
<1>6. CASE AlreadySeen
  BY <1>6, VAlreadySeenKeeps
<1>7. CASE Descend
  BY <1>7, VDescendKeeps
<1>8. CASE Return
  BY <1>8, VReturnKeeps
<1>9. CASE Done \/ UNCHANGED vars
  <2>1. UNCHANGED vars
    BY <1>9 DEF Done
  <2>2. UNCHANGED <<model, verdict, e, seen, onstack, walk, clock, finished>>
    BY <2>1 DEF vars
  <2>3. Finished' = Finished
    BY <2>2 DEF Finished
  <2>4. QED
    BY <2>2, <2>3 DEF VInv, MarkedIsReachable, WalkDescends, ClockCounts, FaultIsThere
<1>10. QED
  BY <1>1, <1>2, <1>3, <1>4, <1>5, <1>6, <1>7, <1>8, <1>9 DEF Next

(* An accepted file is Sound: the marked nodes are all that can be reached,*)
(* and the order in which they returned numbers them.                      *)
LEMMA AcceptedMeansSound ==
  ASSUME IInv, VInv, AcceptedIsRunnable, verdict = "ok"
  PROVE  Sound(model)
<1>1. walk = <<>> /\ e > 0
  BY DEF IInv, AcceptedAtEnd
<1>2. Complete(model)
  BY <1>1 DEF VInv, FaultIsThere
<1>3. Finished = seen
  <2>1. onstack = {}
    BY <1>1, EmptySeq, ModelFacts DEF IInv, WalkIsPath
  <2>2. QED
    BY <2>1 DEF Finished
<1>4. Reachable(model) \subseteq seen
  <2>1. seen \in SUBSET Ref /\ Elements(model.entry) \subseteq seen /\ Closed(model, seen)
    BY ModelFacts DEF AcceptedIsRunnable
  <2>2. QED
    BY <2>1 DEF Reachable
<1>5. Cardinality(Ref) \in Nat /\ clock <= Cardinality(Ref)
  <2>1. Cardinality(Ref) \in Nat
    BY RefAssumption, FS_CardinalityType
  <2>2. Cardinality(Finished) <= Cardinality(Ref)
    BY <1>3, ModelFacts, RefAssumption, FS_Subset
  <2>3. QED
    BY <2>1, <2>2 DEF VInv, ClockCounts
<1>6. \A n \in seen : finished[n] \in 1..Cardinality(Ref)
  <2> SUFFICES ASSUME NEW n \in seen PROVE finished[n] \in 1..Cardinality(Ref)
    OBVIOUS
  <2>1. finished[n] \in Nat /\ finished[n] <= clock /\ clock \in Nat
    BY ModelFacts DEF IInv, TypeOK, AcceptedIsRunnable
  <2>2. finished[n] > 0
    BY <1>3 DEF VInv, ClockCounts
  <2>3. QED
    BY <1>5, <2>1, <2>2
<1> DEFINE rank == [n \in Ref |-> IF n \in seen THEN finished[n] ELSE 1]
<1>7. rank \in [Ref -> 1..Cardinality(Ref)]
  <2> SUFFICES ASSUME NEW n \in Ref PROVE 1 \in 1..Cardinality(Ref)
    BY <1>6
  <2>1. Cardinality(Ref) # 0
    BY RefAssumption, FS_EmptySet
  <2>2. QED
    BY <1>5, <2>1
<1>8. Ranks(model, rank, Reachable(model))
  <2> SUFFICES ASSUME NEW n \in Reachable(model), NEW p \in Elements(model.links[n])
               PROVE  rank[p] < rank[n]
    BY DEF Ranks
  <2>1. n \in seen /\ n \in Ref
    BY <1>4, ModelFacts
  <2>2. p \in seen /\ p \in Ref /\ finished[p] < finished[n]
    BY <1>3, <2>1, ModelFacts DEF IInv, FinishedClosed
  <2>3. QED
    BY <2>1, <2>2
<1>9. Acyclic(model, Reachable(model))
  BY <1>7, <1>8 DEF Acyclic
<1>10. Reachable(model) \subseteq model.nodes
  BY <1>4 DEF IInv, TypeOK
<1>11. QED
  BY <1>2, <1>9, <1>10 DEF Sound, Complete

(* kc_flow_validate_model reports exactly what is there: it accepts the    *)
(* complete files all of whose reachable links are declared and follow no  *)
(* cycle, and no other; what it reports of the others is a fault they have,*)
(* "Unknown link" and "Cycle detected" one in reach of the entry links.    *)
THEOREM VerdictIsExact == Spec => []VerdictIsRight
<1>1. IInv /\ VInv /\ AcceptedIsRunnable => VerdictIsRight
  <2> SUFFICES ASSUME IInv, VInv, AcceptedIsRunnable PROVE VerdictIsRight
    OBVIOUS
  <2>1. verdict \in Verdicts
    BY DEF IInv, TypeOK
  <2>2. Sound(model) => /\ Complete(model)
                        /\ Reachable(model) \subseteq model.nodes
                        /\ Acyclic(model, Reachable(model) \cap model.nodes)
    BY DEF Sound, Complete, Acyclic, Ranks
  <2>3. verdict = "ok" => Sound(model)
    BY AcceptedMeansSound
  <2>4. verdict # "none" /\ Sound(model) => verdict = "ok"
    BY <2>1, <2>2 DEF Verdicts, VInv, FaultIsThere, Complete
  <2>5. QED
    BY <2>3, <2>4 DEF VInv, FaultIsThere, VerdictIsRight
<1>2. Spec => []VInv
  BY InitHolds, VInitHolds, NextKeeps, VNextKeeps, PTL DEF Spec
<1>3. QED
  BY <1>1, <1>2, Invariance, AcceptedIsSound, PTL
=============================================================================

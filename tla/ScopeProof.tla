----------------------------- MODULE ScopeProof -----------------------------
(***************************************************************************)
(* Scope, for flow files of any size: stores and buffers hold strings, the *)
(* buffer of resolve_template always has room for what is in it, a flow is *)
(* refused for its parameters exactly if they are too many, and a command  *)
(* says, and is given, what ScopeMeaning means by its node's place.        *)
(***************************************************************************)
EXTENDS ScopeMeaning, SequenceFacts, FiniteSetTheorems, TLAPS

Job    == [text : Text, at : Nat, capacity : Nat, result : Text]
Caller == [file : File, flow : Store, node : NodeRec, params : Store]

(* Adding a parameter to a store yields a store.                           *)
LEMMA PutIsStore ==
  ASSUME NEW store \in Store, NEW key \in Text, NEW value \in Text
  PROVE  Put(store, key, value) \in Store
<1> DEFINE P == [key : Text, value : Text]
<1>1. Stored(key, value) \in P
  BY DEF Stored
<1>2. CASE HasKey(store, key)
  <2> DEFINE f == [k \in DOMAIN store |->
                     IF store[k].key = key THEN Stored(key, value) ELSE store[k]]
  <2>1. /\ Len(store) \in Nat /\ DOMAIN store = 1..Len(store)
        /\ \A k \in 1..Len(store) : store[k] \in P
    BY LenProperties, ElementOfSeq DEF Store
  <2>2. f \in [1..Len(store) -> P]
    BY <1>1, <2>1
  <2>3. f \in Seq(P)
    BY <2>1, <2>2, SeqDef
  <2>4. QED
    BY <1>2, <2>3 DEF Put, Store
<1>3. CASE ~ HasKey(store, key)
  BY <1>1, <1>3, AppendProperties DEF Put, Store
<1>4. QED
  BY <1>2, <1>3

(* What is found in a store is a string.                                   *)
LEMMA GetIsText ==
  ASSUME NEW store \in Store, NEW key, HasKey(store, key)
  PROVE  Get(store, key) \in Text
<1>1. PICK k \in DOMAIN store : store[k].key = key
  BY DEF HasKey
<1> DEFINE c == CHOOSE l \in DOMAIN store : store[l].key = key
<1>2. c \in DOMAIN store
  BY <1>1
<1>3. store[c] \in [key : Text, value : Text]
  BY <1>2, LenProperties, ElementOfSeq DEF Store
<1>4. QED
  BY <1>3 DEF Get

(* A record of a store has a key and a value.                              *)
LEMMA ParamIsText ==
  ASSUME NEW store \in Store, NEW k \in DOMAIN store
  PROVE  store[k].key \in Text /\ store[k].value \in Text
<1>1. store[k] \in [key : Text, value : Text]
  BY LenProperties, ElementOfSeq DEF Store
<1>2. QED
  BY <1>1

(* A fresh buffer is one larger than the text and holds nothing.           *)
LEMMA FreshJob ==
  ASSUME NEW text \in Text
  PROVE  NewJob(text) \in Job /\ Len(NewJob(text).result) < NewJob(text).capacity
<1>1. Len(text) \in Nat
  BY LenProperties DEF Text
<1>2. <<>> \in Text /\ Len(<<>>) = 0
  BY EmptySeq DEF Text
<1>3. QED
  BY <1>1, <1>2 DEF NewJob, Job

(* The value of a placeholder is a string.                                 *)
LEMMA ValueIsText ==
  ASSUME TypeOK, NEW e \in DOMAIN job.text, Resolves(e)
  PROVE  Value(e) \in Text
<1>1. <<>> \in Store
  BY EmptySeq DEF Store
<1>2. ScopeOf(Name(e)) \in Store
  BY <1>1 DEF ScopeOf, TypeOK
<1>3. QED
  BY <1>2, GetIsText DEF Resolves, Value

----------------------------------------------------------------------------
(* Type correctness, one lemma per loop of the code.                       *)

LEMMA InitTyped == Init => TypeOK /\ BufferFits
<1> SUFFICES ASSUME Init PROVE TypeOK /\ BufferFits
  OBVIOUS
<1>1. <<>> \in Text /\ <<>> \in Store /\ <<>> \in Seq(Caller)
  BY EmptySeq DEF Text, Store
<1>2. job \in Job /\ Len(job.result) < job.capacity
  BY <1>1, FreshJob DEF Init
<1>3. QED
  BY <1>1, <1>2, ScopeAssumption DEF Init, TypeOK, BufferFits, Job, Caller, Filled

LEMMA FailTyped ==
  ASSUME TypeOK, NEW why, Fail(why)
  PROVE  TypeOK'
BY DEF TypeOK, Fail, scope

LEMMA MergeTyped ==
  ASSUME TypeOK, Merge
  PROVE  TypeOK'
<1>1. prog[file].params \in Store
  BY DEF TypeOK
<1>2. Outer \in Store
  <2>1. CASE callers = <<>>
    BY <2>1 DEF Outer, TypeOK
  <2>2. CASE callers # <<>>
    <3>1. Last(callers) \in Caller
      BY <2>2, LastFront DEF Last, TypeOK, Caller
    <3>2. QED
      BY <2>2, <3>1 DEF Outer, Caller
  <2>3. QED
    BY <2>1, <2>2
<1>3. Incoming \in Store
  BY <1>1, <1>2, ConcatProperties DEF Incoming, Store
<1>4. Incoming[i].key \in Text /\ Incoming[i].value \in Text
  BY <1>3, ParamIsText DEF Merge
<1>5. Put(flow, Incoming[i].key, Incoming[i].value) \in Store
  BY <1>4, PutIsStore DEF TypeOK
<1>6. CASE HasRoom(flow, Incoming[i].key)
  BY <1>5, <1>6 DEF Merge, TypeOK
<1>7. CASE ~ HasRoom(flow, Incoming[i].key)
  BY <1>7, FailTyped DEF Merge
<1>8. QED
  BY <1>6, <1>7

(* What a step of resolve_template makes of its locals.                    *)
LEMMA JobStep ==
  ASSUME NEW j \in Job, NEW c \in Nat, NEW r \in Text, NEW p \in Nat
  PROVE  [j EXCEPT !.capacity = c, !.result = r, !.at = p] \in Job
BY DEF Job

LEMMA JobGrown ==
  ASSUME NEW j \in Job, NEW c \in Nat
  PROVE  [j EXCEPT !.capacity = c] \in Job
BY DEF Job

LEMMA JobExpanded ==
  ASSUME NEW j \in Job, NEW r \in Text, NEW p \in Nat
  PROVE  [j EXCEPT !.result = r, !.at = p] \in Job
BY DEF Job

(* The steps of resolve_template change the job only.                      *)
LEMMA TemplateTyped ==
  ASSUME TypeOK, Literal \/ Grow \/ Expand
  PROVE  TypeOK'
<1>1. job \in Job /\ Resolving
  BY DEF TypeOK, Job, Literal, Grow, Expand
<1>2. Len(job.result) \in Nat /\ Len(job.text) \in Nat /\ DOMAIN job.text = 1..Len(job.text)
  BY <1>1, LenProperties DEF Job, Text
<1>3. job' \in Job
  <2>1. CASE Literal
    <3>1. job.text[job.at] \in Char
      BY <1>1, <1>2, ElementOfSeq DEF Job, Text, Resolving
    <3>2. Append(job.result, job.text[job.at]) \in Text
      BY <1>1, <3>1, AppendProperties DEF Job, Text
    <3>3. (IF Len(job.result) + 2 > job.capacity THEN 2 * job.capacity ELSE job.capacity) \in Nat
      BY <1>1, <1>2 DEF Job
    <3>4. job.at + 1 \in Nat
      BY <1>1 DEF Job
    <3>5. QED
      BY <1>1, <2>1, <3>2, <3>3, <3>4, JobStep DEF Literal
  <2>2. CASE Grow
    <3>1. 2 * job.capacity \in Nat
      BY <1>1 DEF Job
    <3>2. QED
      BY <1>1, <2>2, <3>1, JobGrown DEF Grow
  <2>3. CASE Expand
    <3>1. PICK e \in DOMAIN job.text :
            /\ Resolves(e)
            /\ job' = [job EXCEPT !.result = @ \o Value(e), !.at = e + 1]
      BY <2>3 DEF Expand
    <3>2. job.result \o Value(e) \in Text
      BY <1>1, <3>1, ValueIsText, ConcatProperties DEF Job, Text
    <3>3. e + 1 \in Nat
      BY <1>2
    <3>4. QED
      BY <1>1, <3>1, <3>2, <3>3, JobExpanded
  <2>4. QED
    BY <2>1, <2>2, <2>3
<1>4. QED
  BY <1>1, <1>3 DEF TypeOK, Job, Resolving, Literal, Grow, Expand, scope

LEMMA CollectTyped ==
  ASSUME TypeOK, Collect \/ Collected \/ Exec
  PROVE  TypeOK'
<1>1. CASE Collect
  <2>1. node \in NodeRec /\ node.params \in Store
    BY <1>1 DEF Collect, TypeOK, NodeRec, Limited
  <2>2. job' \in Job
    BY <1>1, <2>1, ParamIsText, FreshJob DEF Collect
  <2>3. QED
    BY <1>1, <2>1, <2>2 DEF Collect, TypeOK, Job, scope
<1>2. CASE Collected
  <2>1. node \in NodeRec /\ node.params \in Store
    BY <1>2 DEF Collected, Resolved, TypeOK, NodeRec, Limited
  <2>2. Put(params, node.params[i].key, job.result) \in Store
    BY <1>2, <2>1, ParamIsText, PutIsStore DEF Collected, TypeOK
  <2>3. CASE HasRoom(params, node.params[i].key)
    BY <1>2, <2>1, <2>2, <2>3 DEF Collected, TypeOK
  <2>4. CASE ~ HasRoom(params, node.params[i].key)
    BY <1>2, <2>4, FailTyped DEF Collected
  <2>5. QED
    BY <2>3, <2>4
<1>3. CASE Exec
  <2>1. node \in NodeRec /\ node.exec \in Text
    BY <1>3 DEF Exec, TypeOK, NodeRec
  <2>2. job' \in Job
    BY <1>3, <2>1, FreshJob DEF Exec
  <2>3. QED
    BY <1>3, <2>1, <2>2 DEF Exec, TypeOK, Job, scope
<1>4. QED
  BY <1>1, <1>2, <1>3

LEMMA EnterTyped ==
  ASSUME TypeOK, NEW n \in prog[file].nodes, EnterNode(n)
  PROVE  TypeOK'
<1>1. n \in NodeRec
  BY DEF TypeOK
<1>2. <<>> \in Store
  BY EmptySeq DEF Store
<1>3. QED
  BY <1>1, <1>2 DEF EnterNode, TypeOK

LEMMA ExpandFileTyped ==
  ASSUME TypeOK, ExpandFile
  PROVE  TypeOK'
<1>1. <<>> \in Store
  BY EmptySeq DEF Store
<1>2. node \in NodeRec /\ node.file \in File
  BY DEF ExpandFile, TypeOK
<1>3. [file |-> file, flow |-> flow, node |-> node, params |-> params] \in Caller
  BY <1>2 DEF TypeOK, Caller
<1>4. callers' \in Seq(Caller)
  BY <1>3, AppendProperties DEF ExpandFile, TypeOK, Caller
<1>5. QED
  BY <1>1, <1>2, <1>4 DEF ExpandFile, TypeOK, Caller

LEMMA ReturnTyped ==
  ASSUME TypeOK, Return
  PROVE  TypeOK'
<1>1. Last(callers) \in Caller /\ Front(callers) \in Seq(Caller)
  BY LastFront DEF Return, TypeOK, Caller, Last, Front
<1>2. Last(callers).node \in NodeRec /\ Len(Last(callers).node.params) + 1 \in Nat
  BY <1>1, LenProperties DEF Caller, NodeRec, Limited, Store
<1>3. QED
  BY <1>1, <1>2 DEF Return, TypeOK, Caller

(* The steps that only move to another loop.                               *)
LEMMA MoveTyped ==
  ASSUME TypeOK, Merged \/ Started \/ NoExec \/ \E input \in BOOLEAN : RunCommand(input)
  PROVE  TypeOK'
<1>1. CASE Started
  <2>1. node \in NodeRec /\ node.file \in File \cup {NoFile}
    BY <1>1 DEF Started, TypeOK, NodeRec
  <2>2. QED
    BY <1>1, <2>1 DEF Started, TypeOK, scope
<1>2. CASE \E input \in BOOLEAN : RunCommand(input)
  <2>1. node \in NodeRec
    BY <1>2 DEF RunCommand, Resolved, TypeOK
  <2>2. QED
    BY <1>2, <2>1 DEF RunCommand, TypeOK, scope
<1>3. CASE Merged \/ NoExec
  BY <1>3 DEF Merged, NoExec, TypeOK, scope
<1>4. QED
  BY <1>1, <1>2, <1>3

LEMMA StepTyped == TypeOK /\ [Next]_vars => TypeOK'
<1> SUFFICES ASSUME TypeOK, [Next]_vars PROVE TypeOK'
  OBVIOUS
<1>1. CASE Merge
  BY <1>1, MergeTyped
<1>2. CASE Literal \/ Grow \/ Expand
  BY <1>2, TemplateTyped
<1>3. CASE Collect \/ Collected \/ Exec
  BY <1>3, CollectTyped
<1>4. CASE \E n \in prog[file].nodes : EnterNode(n)
  BY <1>4, EnterTyped
<1>5. CASE ExpandFile
  BY <1>5, ExpandFileTyped
<1>6. CASE Return
  BY <1>6, ReturnTyped
<1>7. CASE Merged \/ Started \/ NoExec \/ \E input \in BOOLEAN : RunCommand(input)
  BY <1>7, MoveTyped
<1>8. CASE Unresolved \/ CommandFails \/ OutOfMemory
  BY <1>8, FailTyped DEF Unresolved, CommandFails, OutOfMemory
<1>9. CASE Over \/ UNCHANGED vars
  BY <1>9 DEF Over, vars, scope, TypeOK
<1>10. QED
  BY <1>1, <1>2, <1>3, <1>4, <1>5, <1>6, <1>7, <1>8, <1>9 DEF Next

(* Whatever is given, merged, resolved or returned to, the stores hold     *)
(* parameters and the locals of each call are those of a node or a flow.   *)
THEOREM TypeCorrect == Spec => []TypeOK
<1>1. Init => TypeOK
  BY InitTyped
<1>2. QED
  BY <1>1, StepTyped, PTL DEF Spec

----------------------------------------------------------------------------
(* The buffer                                                              *)

LEMMA BufferStep == TypeOK /\ BufferFits /\ [Next]_vars => BufferFits'
<1> SUFFICES ASSUME TypeOK, BufferFits, [Next]_vars PROVE BufferFits'
  OBVIOUS
<1>1. job \in Job
  BY DEF TypeOK, Job
<1>2. Len(job.result) \in Nat /\ job.capacity \in Nat /\ Len(job.result) < job.capacity
  BY <1>1, LenProperties DEF Job, Text, BufferFits
<1>3. CASE Literal
  <2>1. job.text[job.at] \in Char
    BY <1>1, <1>3, ElementOfSeq, LenProperties DEF Job, Text, Literal, Resolving
  <2>2. Len(Append(job.result, job.text[job.at])) = Len(job.result) + 1
    BY <1>1, <2>1, AppendProperties DEF Job, Text
  <2>3. /\ job'.result = Append(job.result, job.text[job.at])
        /\ job'.capacity = IF Len(job.result) + 2 > job.capacity THEN 2 * job.capacity
                                                                  ELSE job.capacity
    BY <1>1, <1>3 DEF Job, Literal
  <2>4. QED
    BY <1>2, <2>2, <2>3 DEF BufferFits
<1>4. CASE Grow
  <2>1. job'.result = job.result /\ job'.capacity = 2 * job.capacity
    BY <1>1, <1>4 DEF Job, Grow
  <2>2. QED
    BY <1>2, <2>1 DEF BufferFits
<1>5. CASE Expand
  <2>1. PICK e \in DOMAIN job.text :
          /\ Resolves(e) /\ Fits(Value(e))
          /\ job' = [job EXCEPT !.result = @ \o Value(e), !.at = e + 1]
    BY <1>5 DEF Expand
  <2>2. Value(e) \in Seq(Char)
    BY <2>1, ValueIsText DEF Text
  <2>3. Len(job.result \o Value(e)) = Len(job.result) + Len(Value(e)) /\ Len(Value(e)) \in Nat
    BY <1>1, <2>2, ConcatProperties, LenProperties DEF Job, Text
  <2>4. job'.result = job.result \o Value(e) /\ job'.capacity = job.capacity
    BY <1>1, <2>1 DEF Job
  <2>5. QED
    BY <1>2, <2>1, <2>3, <2>4 DEF BufferFits, Fits
<1>6. CASE Collect
  <2>1. node.params \in Store
    BY <1>6 DEF Collect, TypeOK, NodeRec, Limited
  <2>2. QED
    BY <1>6, <2>1, ParamIsText, FreshJob DEF Collect, BufferFits
<1>7. CASE Exec
  <2>1. node.exec \in Text
    BY <1>7 DEF Exec, TypeOK, NodeRec
  <2>2. QED
    BY <1>7, <2>1, FreshJob DEF Exec, BufferFits
<1>8. CASE job' = job
  BY <1>2, <1>8 DEF BufferFits
<1>9. QED
  <2>1. CASE Merge \/ Merged \/ Unresolved \/ Collected
    BY <1>8, <2>1 DEF Merge, Merged, Unresolved, Collected, Fail
  <2>2. CASE Started \/ ExpandFile \/ Return \/ NoExec \/ CommandFails \/ OutOfMemory
    BY <1>8, <2>2 DEF Started, ExpandFile, Return, NoExec, CommandFails, OutOfMemory, Fail
  <2>3. CASE (\E n \in prog[file].nodes : EnterNode(n)) \/ \E input \in BOOLEAN : RunCommand(input)
    BY <1>8, <2>3 DEF EnterNode, RunCommand
  <2>4. CASE Over \/ UNCHANGED vars
    BY <1>8, <2>4 DEF Over, vars
  <2>5. QED
    BY <1>3, <1>4, <1>5, <1>6, <1>7, <2>1, <2>2, <2>3, <2>4 DEF Next

(* No text, whatever the values and however often it grows, is written past*)
(* the end of its buffer, its terminator included.                         *)
THEOREM NoOverrun == Spec => []BufferFits
<1>1. Init => TypeOK /\ BufferFits
  BY InitTyped
<1>2. TypeOK /\ BufferFits /\ [Next]_vars => (TypeOK /\ BufferFits)'
  BY StepTyped, BufferStep
<1>3. QED
  BY <1>1, <1>2, PTL DEF Spec

----------------------------------------------------------------------------
(* The limit of a store.  A store counts its keys; while a flow is merged  *)
(* it has the keys of the parameters the loop is past; and the flows of the*)
(* callers stay complete until they are returned to.                       *)

Counted(store) ==
  /\ IsFiniteSet(Keys(store)) /\ Cardinality(Keys(store)) = Len(store)
  /\ Len(store) <= MaxOverrides

OuterOf(k)  == IF k = 1 THEN cli ELSE callers[k - 1].params
Given(f, k) == Keys(prog[f].params) \cup Keys(OuterOf(k))

Merging == stage = "merge" =>
  /\ i \in 1..Len(Incoming) + 1
  /\ Keys(flow) = {Incoming[k].key : k \in 1..i - 1}

FlowsComplete ==
  /\ Counted(flow)
  /\ stage \notin {"merge", "failed"} => Keys(flow) = Given(file, Len(callers) + 1)
  /\ \A k \in DOMAIN callers :
       /\ Counted(callers[k].flow)
       /\ Keys(callers[k].flow) = Given(callers[k].file, k)

Collecting ==
  /\ stage \in {"collect", "template"} /\ i <= Len(node.params) => Len(params) < i
  /\ stage \in {"file", "execs"} => i > Len(node.params)
  /\ stage = "collect" => i \in 1..Len(node.params) + 1

Refused ==
  /\ cause # "none" => stage = "failed"
  /\ cause = "full" => Cardinality(Given(file, Len(callers) + 1)) > MaxOverrides

LimitInv == Merging /\ FlowsComplete /\ Collecting /\ Refused

LEMMA KeysAreFinite ==
  ASSUME NEW store \in Store
  PROVE  IsFiniteSet(Keys(store))
<1> DEFINE f == [k \in 1..Len(store) |-> store[k].key]
<1>1. Len(store) \in Nat /\ DOMAIN store = 1..Len(store)
  BY LenProperties DEF Store
<1>2. IsFiniteSet(1..Len(store))
  BY <1>1, FS_Interval
<1>3. f \in Surjection(1..Len(store), Keys(store))
  BY <1>1 DEF Surjection, Keys
<1>4. QED
  BY <1>2, <1>3, FS_Surjection

LEMMA SameInterval ==
  ASSUME NEW m \in Nat, NEW n \in Nat, 1..m = 1..n
  PROVE  m = n
<1>1. CASE m = 0 \/ n = 0
  BY <1>1
<1>2. CASE m # 0 /\ n # 0
  <2>1. m \in 1..n /\ n \in 1..m
    BY <1>2
  <2>2. QED
    BY <2>1
<1>3. QED
  BY <1>1, <1>2

LEMMA PutKeys ==
  ASSUME NEW store \in Store, NEW key \in Text, NEW value \in Text
  PROVE  /\ HasKey(store, key) <=> key \in Keys(store)
         /\ Keys(Put(store, key, value)) = Keys(store) \cup {key}
         /\ Len(Put(store, key, value)) = IF HasKey(store, key) THEN Len(store)
                                                               ELSE Len(store) + 1
<1> DEFINE new == Put(store, key, value)
<1>1. Len(store) \in Nat /\ DOMAIN store = 1..Len(store)
  BY LenProperties DEF Store
<1>2. HasKey(store, key) <=> key \in Keys(store)
  BY DEF HasKey, Keys
<1>3. new \in Store /\ DOMAIN new = 1..Len(new) /\ Len(new) \in Nat
  BY PutIsStore, LenProperties DEF Store
<1>4. Stored(key, value).key = key
  BY DEF Stored
<1>5. CASE HasKey(store, key)
  <2>1. /\ DOMAIN new = DOMAIN store
        /\ \A k \in DOMAIN store : new[k] = IF store[k].key = key THEN Stored(key, value)
                                                                 ELSE store[k]
    BY <1>5 DEF Put
  <2>2. \A k \in DOMAIN store : new[k].key = store[k].key
    BY <1>4, <2>1
  <2>3. Keys(new) = Keys(store)
    BY <2>1, <2>2 DEF Keys
  <2>4. Len(new) = Len(store)
    BY <1>1, <1>3, <2>1, SameInterval
  <2>5. QED
    BY <1>2, <1>5, <2>3, <2>4
<1>6. CASE ~ HasKey(store, key)
  <2>1. new = Append(store, Stored(key, value))
    BY <1>6 DEF Put
  <2>2. Stored(key, value) \in [key : Text, value : Text]
    BY DEF Stored
  <2>3. /\ Len(new) = Len(store) + 1
        /\ \A k \in 1..Len(store) : new[k] = store[k]
        /\ new[Len(store) + 1] = Stored(key, value)
    BY <2>1, <2>2, AppendProperties DEF Store
  <2>4. Keys(new) = Keys(store) \cup {key}
    <3>1. ASSUME NEW k \in DOMAIN new
          PROVE  new[k].key \in Keys(store) \cup {key}
      <4>1. CASE k \in 1..Len(store)
        BY <1>1, <2>3, <4>1 DEF Keys
      <4>2. CASE k = Len(store) + 1
        BY <1>4, <2>3, <4>2
      <4>3. QED
        BY <1>1, <1>3, <2>3, <4>1, <4>2
    <3>2. ASSUME NEW k \in DOMAIN store
          PROVE  store[k].key \in Keys(new)
      BY <1>1, <1>3, <2>3 DEF Keys
    <3>3. key \in Keys(new)
      <4>1. Len(store) + 1 \in DOMAIN new
        BY <1>1, <1>3, <2>3
      <4>2. QED
        BY <1>4, <2>3, <4>1 DEF Keys
    <3>4. QED
      BY <3>1, <3>2, <3>3 DEF Keys
  <2>5. QED
    BY <1>2, <1>6, <2>3, <2>4
<1>7. QED
  BY <1>5, <1>6

LEMMA PutCounted ==
  ASSUME NEW store \in Store, NEW key \in Text, NEW value \in Text,
         Counted(store), HasRoom(store, key)
  PROVE  Counted(Put(store, key, value))
<1>1. Len(store) \in Nat
  BY LenProperties DEF Store
<1>2. /\ IsFiniteSet(Keys(store) \cup {key})
      /\ Cardinality(Keys(store) \cup {key}) = IF key \in Keys(store)
                                               THEN Cardinality(Keys(store))
                                               ELSE Cardinality(Keys(store)) + 1
  BY FS_AddElement DEF Counted
<1>3. /\ HasKey(store, key) <=> key \in Keys(store)
      /\ Keys(Put(store, key, value)) = Keys(store) \cup {key}
      /\ Len(Put(store, key, value)) = IF HasKey(store, key) THEN Len(store)
                                                             ELSE Len(store) + 1
  BY PutKeys
<1>4. Cardinality(Keys(store)) = Len(store) /\ Len(store) <= MaxOverrides
  BY DEF Counted
<1>5. HasKey(store, key) \/ Len(store) < MaxOverrides
  BY DEF HasRoom
<1>6. CASE key \in Keys(store)
  BY <1>2, <1>3, <1>4, <1>6 DEF Counted
<1>7. CASE key \notin Keys(store)
  <2>1. Len(store) + 1 <= MaxOverrides
    BY <1>1, <1>3, <1>5, <1>7, StoreAssumption
  <2>2. QED
    BY <1>2, <1>3, <1>4, <1>7, <2>1 DEF Counted
<1>8. QED
  BY <1>6, <1>7

(* The caller whose parameters a flow is given, and what it is given.      *)
LEMMA CallerFacts ==
  ASSUME TypeOK
  PROVE  /\ Len(callers) \in Nat /\ DOMAIN callers = 1..Len(callers)
         /\ \A k \in DOMAIN callers : callers[k] \in Caller
         /\ Outer = OuterOf(Len(callers) + 1) /\ Outer \in Store
         /\ callers = <<>> <=> Len(callers) = 0
<1>1. /\ Len(callers) \in Nat /\ DOMAIN callers = 1..Len(callers)
      /\ \A k \in DOMAIN callers : callers[k] \in Caller
      /\ callers = <<>> <=> Len(callers) = 0
  <2>1. callers \in Seq(Caller)
    BY DEF TypeOK, Caller
  <2>2. QED
    BY <2>1, LenProperties, ElementOfSeq, EmptySeq
<1>2. CASE callers = <<>>
  BY <1>1, <1>2 DEF Outer, OuterOf, TypeOK
<1>3. CASE callers # <<>>
  <2>1. Last(callers) = callers[Len(callers)] /\ callers[Len(callers)] \in Caller
    BY <1>1, <1>3 DEF Last
  <2>2. QED
    BY <1>1, <1>3, <2>1 DEF Outer, OuterOf, Caller
<1>4. QED
  BY <1>1, <1>2, <1>3

LEMMA IncomingKeys ==
  ASSUME TypeOK
  PROVE  /\ Incoming \in Store /\ Len(Incoming) \in Nat
         /\ DOMAIN Incoming = 1..Len(Incoming)
         /\ {Incoming[k].key : k \in 1..Len(Incoming)} = Given(file, Len(callers) + 1)
         /\ IsFiniteSet(Given(file, Len(callers) + 1))
<1> DEFINE d == prog[file].params
<1>1. /\ d \in Store /\ Outer \in Store /\ Outer = OuterOf(Len(callers) + 1)
      /\ Len(d) \in Nat /\ DOMAIN d = 1..Len(d)
      /\ Len(Outer) \in Nat /\ DOMAIN Outer = 1..Len(Outer)
  BY CallerFacts, LenProperties DEF TypeOK, Store
<1>2. Given(file, Len(callers) + 1) = Keys(d) \cup Keys(Outer)
  BY <1>1 DEF Given
<1> HIDE DEF d
<1>3. /\ d \o Outer \in Store /\ Len(d \o Outer) = Len(d) + Len(Outer)
      /\ \A k \in 1..Len(d) : (d \o Outer)[k] = d[k]
      /\ \A k \in Len(d) + 1..Len(d) + Len(Outer) : (d \o Outer)[k] = Outer[k - Len(d)]
  BY <1>1, ConcatProperties DEF Store
<1>4. DOMAIN (d \o Outer) = 1..Len(d \o Outer)
  BY <1>3, LenProperties DEF Store
<1> DEFINE all == d \o Outer
<1> HIDE DEF all
<1>5. {all[k].key : k \in 1..Len(all)} = Keys(d) \cup Keys(Outer)
  <2>1. ASSUME NEW k \in 1..Len(all)
        PROVE  all[k].key \in Keys(d) \cup Keys(Outer)
    <3>1. CASE k \in 1..Len(d)
      BY <1>1, <1>3, <3>1 DEF Keys, all
    <3>2. CASE k \in Len(d) + 1..Len(d) + Len(Outer)
      <4>1. k - Len(d) \in DOMAIN Outer
        BY <1>1, <3>2
      <4>2. QED
        BY <1>3, <3>2, <4>1 DEF Keys, all
    <3>3. QED
      BY <1>1, <1>3, <3>1, <3>2 DEF all
  <2>2. ASSUME NEW k \in DOMAIN d
        PROVE  d[k].key \in {all[l].key : l \in 1..Len(all)}
    BY <1>1, <1>3 DEF all
  <2>3. ASSUME NEW k \in DOMAIN Outer
        PROVE  Outer[k].key \in {all[l].key : l \in 1..Len(all)}
    <3>1. /\ Len(d) + k \in Len(d) + 1..Len(d) + Len(Outer)
          /\ Len(d) + k \in 1..Len(all)
          /\ Len(d) + k - Len(d) = k
      BY <1>1, <1>3 DEF all
    <3>2. all[Len(d) + k] = Outer[k]
      BY <1>3, <3>1 DEF all
    <3>3. QED
      BY <3>1, <3>2
  <2>4. QED
    BY <2>1, <2>2, <2>3 DEF Keys
<1>6. IsFiniteSet(Keys(d) \cup Keys(Outer))
  BY <1>1, KeysAreFinite, FS_Union
<1>7. Incoming = all
  BY DEF Incoming, d, all
<1>8. all \in Store /\ Len(all) \in Nat /\ DOMAIN all = 1..Len(all)
  BY <1>1, <1>3, <1>4 DEF all
<1>9. QED
  BY <1>2, <1>5, <1>6, <1>7, <1>8

LEMMA InitLimit == Init => LimitInv
<1> SUFFICES ASSUME Init PROVE LimitInv
  OBVIOUS
<1>1. TypeOK
  BY InitTyped
<1>2. Keys(<<>>) = {} /\ Len(<<>>) = 0 /\ DOMAIN <<>> = {}
  BY EmptySeq DEF Keys
<1>3. Counted(<<>>)
  BY <1>2, FS_EmptySet, StoreAssumption DEF Counted
<1>4. i = 1 /\ flow = <<>> /\ callers = <<>> /\ stage = "merge" /\ cause = "none"
  BY DEF Init
<1>5. Merging
  BY <1>1, <1>2, <1>4, IncomingKeys DEF Merging
<1>6. QED
  BY <1>2, <1>3, <1>4, <1>5 DEF LimitInv, FlowsComplete, Collecting, Refused

(* A step that leaves the flows alone and does not begin or end a merge.   *)
LEMMA FlowsKept ==
  ASSUME LimitInv, UNCHANGED <<prog, cli, callers, file, flow>>,
         stage \notin {"merge", "failed"}
  PROVE  FlowsComplete'
BY DEF LimitInv, FlowsComplete, Counted, Given, OuterOf

LEMMA FailLimit ==
  ASSUME LimitInv, NEW why, Fail(why),
         why = "full" => Cardinality(Given(file, Len(callers) + 1)) > MaxOverrides
  PROVE  LimitInv'
<1>1. /\ UNCHANGED <<prog, cli, callers, file, flow>>
      /\ stage' = "failed" /\ cause' = why
  BY DEF Fail, scope
<1>2. FlowsComplete'
  BY <1>1 DEF LimitInv, FlowsComplete, Counted, Given, OuterOf
<1>3. Refused'
  BY <1>1 DEF Refused, Given, OuterOf
<1>4. QED
  BY <1>1, <1>2, <1>3 DEF LimitInv, Merging, Collecting

LEMMA MergeLimit ==
  ASSUME TypeOK, LimitInv, Merge
  PROVE  LimitInv'
<1> DEFINE p == Incoming[i]
<1>1. /\ i \in DOMAIN Incoming /\ i \in Nat /\ i \in 1..Len(Incoming)
      /\ p.key \in Text /\ p.value \in Text
  BY IncomingKeys, ParamIsText DEF Merge, TypeOK
<1>2. Keys(flow) = {Incoming[k].key : k \in 1..i - 1}
  BY DEF LimitInv, Merging, Merge
<1>3. flow \in Store /\ Counted(flow)
  BY DEF TypeOK, LimitInv, FlowsComplete
<1> HIDE DEF p
<1>4. CASE HasRoom(flow, p.key)
  <2>1. /\ flow' = Put(flow, p.key, p.value) /\ i' = i + 1
        /\ UNCHANGED <<prog, cli, callers, file, stage, cause>>
        /\ stage = "merge"
    BY <1>4 DEF Merge, p
  <2>2. Counted(flow')
    BY <1>1, <1>3, <1>4, <2>1, PutCounted
  <2>3. FlowsComplete'
    BY <2>1, <2>2 DEF LimitInv, FlowsComplete, Counted, Given, OuterOf
  <2>4. Incoming' = Incoming
    BY <2>1 DEF Incoming, Outer
  <2>5. Keys(flow') = Keys(flow) \cup {p.key}
    BY <1>1, <1>3, <2>1, PutKeys
  <2>6. 1..i' - 1 = 1..i - 1 \cup {i}
    BY <1>1, <2>1
  <2>7. Keys(flow') = {Incoming[k].key : k \in 1..i' - 1}
    BY <1>2, <2>5, <2>6 DEF p
  <2>8. i' \in 1..Len(Incoming) + 1
    BY <1>1, <2>1, IncomingKeys
  <2>9. Merging'
    BY <2>4, <2>7, <2>8 DEF Merging
  <2>10. QED
    BY <2>1, <2>3, <2>9 DEF LimitInv, Collecting, Refused, Given, OuterOf
<1>5. CASE ~ HasRoom(flow, p.key)
  <2>1. Fail("full")
    BY <1>5 DEF Merge, p
  <2> DEFINE all == Given(file, Len(callers) + 1)
  <2>2. IsFiniteSet(all) /\ {Incoming[k].key : k \in 1..Len(Incoming)} = all
    BY IncomingKeys
  <2>3. Keys(flow) \cup {p.key} \subseteq all
    <3>1. 1..i - 1 \subseteq 1..Len(Incoming) /\ i \in 1..Len(Incoming)
      BY <1>1, IncomingKeys
    <3>2. QED
      BY <1>2, <2>2, <3>1 DEF p
  <2>4. p.key \notin Keys(flow) /\ ~ (Len(flow) < MaxOverrides) /\ Len(flow) \in Nat
    BY <1>1, <1>3, <1>5, PutKeys, LenProperties DEF HasRoom, Store
  <2>5. /\ Cardinality(Keys(flow) \cup {p.key}) = Cardinality(Keys(flow)) + 1
        /\ IsFiniteSet(Keys(flow) \cup {p.key})
    BY <1>3, <2>4, FS_AddElement DEF Counted
  <2>6. Cardinality(Keys(flow) \cup {p.key}) <= Cardinality(all)
    BY <2>2, <2>3, FS_Subset
  <2>7. Cardinality(Keys(flow)) = Len(flow)
    BY <1>3 DEF Counted
  <2>8. Cardinality(all) \in Nat
    BY <2>2, FS_CardinalityType
  <2> HIDE DEF all
  <2>9. Cardinality(all) > MaxOverrides
    BY <2>4, <2>5, <2>6, <2>7, <2>8, StoreAssumption
  <2>10. QED
    BY <2>1, <2>9, FailLimit DEF all
<1>6. QED
  BY <1>4, <1>5

LEMMA MergedLimit ==
  ASSUME TypeOK, LimitInv, Merged
  PROVE  LimitInv'
<1>1. /\ stage = "merge" /\ stage' = "nodes"
      /\ UNCHANGED <<prog, cli, callers, file, flow, cause>>
      /\ i > Len(Incoming)
  BY DEF Merged, scope
<1>2. i \in 1..Len(Incoming) + 1 /\ Keys(flow) = {Incoming[k].key : k \in 1..i - 1}
  BY <1>1 DEF LimitInv, Merging
<1>3. i - 1 = Len(Incoming)
  BY <1>1, <1>2, IncomingKeys
<1>4. Keys(flow) = Given(file, Len(callers) + 1)
  BY <1>2, <1>3, IncomingKeys
<1>5. FlowsComplete'
  BY <1>1, <1>4 DEF LimitInv, FlowsComplete, Counted, Given, OuterOf
<1>6. QED
  BY <1>1, <1>5 DEF LimitInv, Merging, Collecting, Refused

LEMMA NodeLimit ==
  ASSUME TypeOK, LimitInv,
         \/ \E n \in prog[file].nodes : EnterNode(n)
         \/ Collect \/ Started \/ Exec \/ NoExec \/ \E input \in BOOLEAN : RunCommand(input)
  PROVE  LimitInv'
<1>1. /\ UNCHANGED <<prog, cli, callers, file, flow, cause>>
      /\ stage \notin {"merge", "failed"} /\ stage' \notin {"merge", "failed"}
  BY DEF EnterNode, Collect, Started, Exec, NoExec, RunCommand, Resolved, scope
<1>2. FlowsComplete' /\ Merging'
  BY <1>1, FlowsKept DEF Merging
<1>3. Refused'
  BY <1>1 DEF LimitInv, Refused
<1>4. Collecting'
  <2>1. CASE \E n \in prog[file].nodes : EnterNode(n)
    <3>1. PICK n \in prog[file].nodes : EnterNode(n)
      BY <2>1
    <3>2. Len(n.params) \in Nat
      BY LenProperties DEF TypeOK, NodeRec, Limited, Store
    <3>3. QED
      BY <3>1, <3>2, EmptySeq DEF EnterNode, Collecting
  <2>2. CASE Collect
    BY <2>2 DEF Collect, Collecting, LimitInv, scope
  <2>3. CASE Started
    BY <2>3 DEF Started, Collecting, LimitInv, scope
  <2>4. CASE Exec \/ NoExec
    <3>1. node \in NodeRec /\ Len(node.params) \in Nat /\ i \in Nat
      BY <2>4, LenProperties DEF Exec, NoExec, TypeOK, NodeRec, Limited, Store
    <3>2. QED
      BY <2>4, <3>1 DEF Exec, NoExec, Collecting, LimitInv, scope
  <2>5. CASE \E input \in BOOLEAN : RunCommand(input)
    BY <2>5 DEF RunCommand, Collecting, scope
  <2>6. QED
    BY <2>1, <2>2, <2>3, <2>4, <2>5
<1>5. QED
  BY <1>2, <1>3, <1>4 DEF LimitInv

LEMMA TemplateLimit ==
  ASSUME TypeOK, LimitInv, Literal \/ Grow \/ Expand \/ Over \/ UNCHANGED vars
  PROVE  LimitInv'
<1>1. UNCHANGED <<prog, cli, callers, file, flow, node, params, stage, i, cause>>
  BY DEF Literal, Grow, Expand, Over, vars, scope
<1>2. UNCHANGED <<Incoming, Given(file, Len(callers) + 1)>>
  BY <1>1 DEF Incoming, Outer, Given, OuterOf
<1>3. Merging' /\ Collecting' /\ Refused'
  BY <1>1, <1>2 DEF LimitInv, Merging, Collecting, Refused
<1>4. FlowsComplete'
  BY <1>1 DEF LimitInv, FlowsComplete, Counted, Given, OuterOf
<1>5. QED
  BY <1>3, <1>4 DEF LimitInv

(* A node's parameters are no more than the loader let it have.            *)
LEMMA CollectedLimit ==
  ASSUME TypeOK, LimitInv, Collected
  PROVE  LimitInv'
<1>1. /\ stage = "template" /\ i \in DOMAIN node.params
      /\ node \in NodeRec /\ node.params \in Store /\ Len(node.params) <= MaxOverrides
      /\ params \in Store /\ job.result \in Text
  BY DEF Collected, Resolved, TypeOK, NodeRec, Limited
<1>2. /\ Len(node.params) \in Nat /\ i \in 1..Len(node.params)
      /\ Len(params) \in Nat /\ node.params[i].key \in Text
  BY <1>1, LenProperties, ParamIsText DEF Store
<1>3. Len(params) < i
  BY <1>1, <1>2 DEF LimitInv, Collecting
<1>4. HasRoom(params, node.params[i].key)
  BY <1>1, <1>2, <1>3, StoreAssumption DEF HasRoom
<1>5. /\ params' = Put(params, node.params[i].key, job.result)
      /\ stage' = "collect" /\ i' = i + 1
      /\ UNCHANGED <<prog, cli, callers, file, flow, node, cause>>
  BY <1>4 DEF Collected
<1>6. Len(params') <= Len(params) + 1
  BY <1>1, <1>2, <1>5, PutKeys
<1>7. Len(params') \in Nat
  BY <1>1, <1>2, <1>5, PutIsStore, LenProperties DEF Store
<1>8. Collecting'
  BY <1>2, <1>3, <1>5, <1>6, <1>7 DEF Collecting
<1>9. QED
  BY <1>1, <1>5, <1>8, FlowsKept DEF LimitInv, Merging, Refused

LEMMA ExpandFileLimit ==
  ASSUME TypeOK, LimitInv, ExpandFile
  PROVE  LimitInv'
<1> DEFINE c == [file |-> file, flow |-> flow, node |-> node, params |-> params]
<1>1. /\ callers' = Append(callers, c)
      /\ flow' = <<>> /\ stage = "file" /\ stage' = "merge" /\ i' = 1
      /\ UNCHANGED <<prog, cli, cause>>
  BY DEF ExpandFile
<1>2. c \in Caller
  BY DEF ExpandFile, TypeOK, Caller
<1>3. /\ c.file = file /\ c.flow = flow /\ c.params = params
  OBVIOUS
<1> HIDE DEF c
<1> DEFINE n == Len(callers) + 1
<1>4. /\ Len(callers) \in Nat /\ DOMAIN callers = 1..Len(callers)
      /\ callers \in Seq(Caller)
  BY CallerFacts DEF TypeOK, Caller
<1>5. /\ Len(callers') = n /\ callers'[n] = c
      /\ \A k \in 1..Len(callers) : callers'[k] = callers[k]
      /\ DOMAIN callers' = 1..n
  BY <1>1, <1>2, <1>4, AppendProperties
<1>6. Keys(<<>>) = {} /\ Counted(<<>>)
  BY FS_EmptySet, EmptySeq, StoreAssumption DEF Counted, Keys
<1>7. \A k \in 1..n : OuterOf(k)' = OuterOf(k)
  <2> SUFFICES ASSUME NEW k \in 1..n PROVE OuterOf(k)' = OuterOf(k)
    OBVIOUS
  <2>1. k = 1 \/ k - 1 \in 1..Len(callers)
    BY <1>4
  <2>2. QED
    BY <1>1, <1>5, <2>1 DEF OuterOf
<1>8. \A k \in 1..n : Counted(callers'[k].flow) /\ Keys(callers'[k].flow) = Given(callers'[k].file, k)
  <2> SUFFICES ASSUME NEW k \in 1..n
               PROVE  /\ Counted(callers'[k].flow)
                      /\ Keys(callers'[k].flow) = Given(callers'[k].file, k)
    OBVIOUS
  <2>1. CASE k \in 1..Len(callers)
    BY <1>4, <1>5, <2>1 DEF LimitInv, FlowsComplete
  <2>2. CASE k = n
    BY <1>1, <1>3, <1>5, <2>2 DEF LimitInv, FlowsComplete
  <2>3. QED
    BY <1>4, <2>1, <2>2
<1>9. FlowsComplete'
  <2>1. ASSUME NEW k \in DOMAIN callers'
        PROVE  /\ Counted(callers'[k].flow)
               /\ Keys(callers'[k].flow)
                    = Keys(prog'[callers'[k].file].params) \cup Keys(OuterOf(k)')
    BY <1>1, <1>5, <1>7, <1>8, <2>1 DEF Given
  <2>2. QED
    BY <1>1, <1>6, <2>1 DEF FlowsComplete, Counted, Given, OuterOf
<1>10. Merging'
  <2>1. TypeOK'
    BY ExpandFileTyped
  <2>2. (Len(Incoming) \in Nat)'
    BY <2>1, IncomingKeys
  <2>3. i' \in 1..Len(Incoming') + 1
    BY <1>1, <2>2
  <2>4. 1..i' - 1 = {}
    BY <1>1
  <2>5. QED
    BY <1>1, <1>6, <2>3, <2>4 DEF Merging
<1>11. QED
  BY <1>1, <1>9, <1>10 DEF LimitInv, Collecting, Refused

LEMMA ReturnLimit ==
  ASSUME TypeOK, LimitInv, Return
  PROVE  LimitInv'
<1> DEFINE n == Len(callers)
<1>1. /\ n \in Nat \ {0} /\ DOMAIN callers = 1..n /\ callers \in Seq(Caller)
      /\ callers[n] \in Caller
  BY CallerFacts, LastFront DEF Return, TypeOK, Caller
<1>2. /\ callers' = SubSeq(callers, 1, n - 1)
      /\ file' = callers[n].file /\ flow' = callers[n].flow
      /\ node' = callers[n].node
      /\ stage' = "execs" /\ i' = Len(node'.params) + 1
      /\ stage = "nodes" /\ UNCHANGED <<prog, cli, cause>>
  BY DEF Return, Last, Front
<1>3. /\ Len(callers') = n - 1 /\ \A k \in 1..n - 1 : callers'[k] = callers[k]
      /\ DOMAIN callers' = 1..n - 1
  <2>1. n - 1 \in 0..n
    BY <1>1
  <2>2. callers' \in Seq(Caller) /\ Len(callers') = n - 1
    BY <1>1, <1>2, <2>1, PrefixFacts
  <2>3. QED
    BY <1>1, <1>2, <2>1, <2>2, PrefixFacts, LenProperties
<1>4. \A k \in 1..n : OuterOf(k)' = OuterOf(k)
  <2> SUFFICES ASSUME NEW k \in 1..n PROVE OuterOf(k)' = OuterOf(k)
    OBVIOUS
  <2>1. k = 1 \/ k - 1 \in 1..n - 1
    BY <1>1
  <2>2. QED
    BY <1>2, <1>3, <2>1 DEF OuterOf
<1>5. Len(callers') + 1 = n /\ 1..n - 1 \subseteq 1..n /\ n \in 1..n
  BY <1>1, <1>3
<1>6. Counted(flow') /\ Keys(flow') = Given(file', n)
  BY <1>1, <1>2 DEF LimitInv, FlowsComplete
<1>7. ASSUME NEW k \in DOMAIN callers'
      PROVE  /\ Counted(callers'[k].flow)
             /\ Keys(callers'[k].flow)
                  = Keys(prog'[callers'[k].file].params) \cup Keys(OuterOf(k)')
  BY <1>1, <1>2, <1>3, <1>4, <1>5 DEF LimitInv, FlowsComplete, Given
<1>8. FlowsComplete'
  <2>1. OuterOf(Len(callers) + 1)' = OuterOf(n)
    <3>1. n = 1 \/ n - 1 \in 1..n - 1
      BY <1>1
    <3>2. QED
      BY <1>1, <1>2, <1>3, <1>5, <3>1 DEF OuterOf
  <2>2. Keys(flow') = Keys(prog'[file'].params) \cup Keys(OuterOf(Len(callers) + 1)')
    BY <1>2, <1>6, <2>1 DEF Given
  <2>3. QED
    BY <1>6, <1>7, <2>2 DEF FlowsComplete, Counted, Given, OuterOf
<1>9. Collecting'
  <2>1. Len(node'.params) \in Nat
    BY <1>1, <1>2, LenProperties DEF Caller, NodeRec, Limited, Store
  <2>2. QED
    BY <1>2, <2>1 DEF Collecting
<1>10. QED
  BY <1>2, <1>8, <1>9 DEF LimitInv, Merging, Refused

LEMMA StepLimit == TypeOK /\ LimitInv /\ [Next]_vars => LimitInv'
<1> SUFFICES ASSUME TypeOK, LimitInv, [Next]_vars PROVE LimitInv'
  OBVIOUS
<1>1. CASE Merge \/ Merged
  BY <1>1, MergeLimit, MergedLimit
<1>2. CASE \/ \E n \in prog[file].nodes : EnterNode(n)
           \/ Collect \/ Started \/ Exec \/ NoExec
           \/ \E input \in BOOLEAN : RunCommand(input)
  BY <1>2, NodeLimit
<1>3. CASE Literal \/ Grow \/ Expand \/ Over \/ UNCHANGED vars
  BY <1>3, TemplateLimit
<1>4. CASE Collected \/ ExpandFile \/ Return
  BY <1>4, CollectedLimit, ExpandFileLimit, ReturnLimit
<1>5. CASE Unresolved \/ CommandFails \/ OutOfMemory
  BY <1>5, FailLimit DEF Unresolved, CommandFails, OutOfMemory
<1>6. QED
  BY <1>1, <1>2, <1>3, <1>4, <1>5 DEF Next

(* Only too many different keys refuse a flow, at any depth of expansion;  *)
(* where it is not refused, none of them is missing.                       *)
THEOREM RefusedExactlyAtLimit == Spec => []LimitIsExact
<1>1. Init => TypeOK /\ LimitInv
  BY InitTyped, InitLimit
<1>2. TypeOK /\ LimitInv /\ [Next]_vars => (TypeOK /\ LimitInv)'
  BY StepTyped, StepLimit
<1>3. TypeOK /\ LimitInv => LimitIsExact
  <2> SUFFICES ASSUME TypeOK, LimitInv PROVE LimitIsExact
    OBVIOUS
  <2>1. Given(file, Len(callers) + 1) = Keys(prog[file].params) \cup Keys(Outer)
    BY CallerFacts DEF Given
  <2>2. QED
    BY <2>1 DEF LimitInv, FlowsComplete, Counted, Refused, LimitIsExact
<1>4. QED
  BY <1>1, <1>2, <1>3, PTL DEF Spec

----------------------------------------------------------------------------
(* What a command says and what it is given (ScopeMeaning).                *)

(* What a store says, as a function.                                       *)
Assigned == UNION {[K -> Text] : K \in SUBSET Text}

LEMMA AssignedIs ==
  ASSUME NEW s, s = [k \in DOMAIN s |-> s[k]], DOMAIN s \subseteq Text, \A k \in DOMAIN s : s[k] \in Text
  PROVE  s \in Assigned
<1>1. s \in [DOMAIN s -> Text]
  OBVIOUS
<1>2. QED
  BY <1>1 DEF Assigned

LEMMA AssignedText ==
  ASSUME NEW s \in Assigned
  PROVE  DOMAIN s \subseteq Text /\ \A k \in DOMAIN s : s[k] \in Text
<1>1. PICK K \in SUBSET Text : s \in [K -> Text]
  BY DEF Assigned
<1>2. QED
  BY <1>1

LEMMA GetOf ==
  ASSUME NEW store \in Filled, NEW k \in DOMAIN store
  PROVE  Get(store, store[k].key) = store[k].value
<1> DEFINE c == CHOOSE l \in DOMAIN store : store[l].key = store[k].key
<1>1. c \in DOMAIN store /\ store[c].key = store[k].key
  BY Zenon
<1>2. Get(store, store[k].key) = store[c].value
  BY DEF Get
<1> HIDE DEF c
<1>3. c = k
  BY <1>1 DEF Filled
<1>4. QED
  BY <1>2, <1>3

LEMMA ScopedIs ==
  ASSUME NEW store \in Filled
  PROVE  /\ DOMAIN Scoped(store) = Keys(store) /\ Scoped(store) \in Assigned
         /\ \A k \in DOMAIN store : store[k].key \in Keys(store) /\ Scoped(store)[store[k].key] = store[k].value
         /\ \A key : HasKey(store, key) <=> key \in Keys(store)
         /\ \A key \in Keys(store) : Scoped(store)[key] = Get(store, key)
<1>1. store \in Store
  BY DEF Filled
<1>2. DOMAIN Scoped(store) = Keys(store) /\ \A key \in Keys(store) : Scoped(store)[key] = Get(store, key)
  BY DEF Scoped
<1>3. \A k \in DOMAIN store : store[k].key \in Keys(store) /\ Scoped(store)[store[k].key] = store[k].value
  BY <1>2, GetOf DEF Keys
<1>4. \A key : HasKey(store, key) <=> key \in Keys(store)
  BY DEF HasKey, Keys
<1>5. \A key \in Keys(store) : key \in Text /\ Scoped(store)[key] \in Text
  <2>1. \A k \in DOMAIN store : store[k].key \in Text
    BY <1>1, ParamIsText
  <2>2. \A key \in Keys(store) : Get(store, key) \in Text
    BY <1>1, <1>4, GetIsText
  <2>3. QED
    BY <1>2, <2>1, <2>2 DEF Keys
<1>6. Scoped(store) = [k \in Keys(store) |-> Scoped(store)[k]]
  BY DEF Scoped
<1>7. Scoped(store) \in Assigned
  <2> DEFINE s == Scoped(store)
  <2>1. s = [k \in DOMAIN s |-> s[k]] /\ DOMAIN s \subseteq Text /\ \A k \in DOMAIN s : s[k] \in Text
    BY <1>2, <1>5, <1>6
  <2> HIDE DEF s
  <2>2. s \in Assigned
    BY <2>1, AssignedIs
  <2>3. QED
    BY <2>2 DEF s
<1>8. QED
  BY <1>2, <1>3, <1>4, <1>7

LEMMA NoneFilled == <<>> \in Filled /\ Keys(<<>>) = {} /\ DOMAIN Scoped(<<>>) = {}
<1>1. <<>> \in Store /\ DOMAIN <<>> = {}
  BY EmptySeq DEF Store
<1>2. QED
  BY <1>1 DEF Filled, Keys, Scoped

LEMMA PutFilled ==
  ASSUME NEW store \in Filled, NEW key \in Text, NEW value \in Text
  PROVE  /\ Put(store, key, value) \in Filled
         /\ Scoped(Put(store, key, value)) = Bound(Scoped(store), key, value)
<1> DEFINE new == Put(store, key, value)
<1>1. /\ store \in Store /\ Len(store) \in Nat /\ DOMAIN store = 1..Len(store)
      /\ \A k, l \in DOMAIN store : store[k].key = store[l].key => k = l
  BY LenProperties DEF Store, Filled
<1>2. /\ HasKey(store, key) <=> key \in Keys(store)
      /\ Keys(new) = Keys(store) \cup {key} /\ new \in Store
      /\ Len(new) = IF HasKey(store, key) THEN Len(store) ELSE Len(store) + 1
  BY <1>1, PutKeys, PutIsStore
<1>3. DOMAIN new = 1..Len(new)
  BY <1>2, LenProperties DEF Store
<1>4. Stored(key, value).key = key /\ Stored(key, value).value = value
  BY DEF Stored
<1>5. /\ \A k \in DOMAIN new : \/ k \in DOMAIN store /\ store[k].key # key /\ new[k] = store[k]
                              \/ new[k] = Stored(key, value)
      /\ \A k, l \in DOMAIN new : new[k].key = new[l].key => k = l
  <2>1. CASE HasKey(store, key)
    <3>1. /\ DOMAIN new = DOMAIN store
          /\ \A k \in DOMAIN store : new[k] = IF store[k].key = key THEN Stored(key, value)
                                                                   ELSE store[k]
      BY <2>1 DEF Put
    <3>2. \A k \in DOMAIN store : new[k].key = store[k].key
      BY <1>4, <3>1
    <3> HIDE DEF new
    <3>3. QED
      BY <1>1, <3>1, <3>2
  <2>2. CASE ~ HasKey(store, key)
    <3>1. new = Append(store, Stored(key, value))
      BY <2>2 DEF Put
    <3>2. Stored(key, value) \in [key : Text, value : Text]
      BY DEF Stored
    <3>3. /\ \A k \in 1..Len(store) : new[k] = store[k]
          /\ new[Len(store) + 1] = Stored(key, value) /\ Len(new) = Len(store) + 1
      BY <1>1, <3>1, <3>2, AppendProperties DEF Store
    <3> HIDE DEF new
    <3>4. \A k \in DOMAIN new : k \in DOMAIN store \/ k = Len(store) + 1
      BY <1>1, <1>3, <3>3
    <3>5. \A k \in DOMAIN store : store[k].key # key /\ new[k] = store[k]
      BY <1>1, <2>2, <3>3 DEF HasKey
    <3>6. QED
      BY <1>1, <1>4, <3>3, <3>4, <3>5
  <2>3. QED
    BY <2>1, <2>2
<1> HIDE DEF new
<1>6. new \in Filled
  BY <1>2, <1>5 DEF Filled
<1> DEFINE s == Scoped(store)
           t == Scoped(new)
<1>7. /\ DOMAIN t = Keys(new) /\ \A k \in DOMAIN new : t[new[k].key] = new[k].value
      /\ DOMAIN s = Keys(store) /\ \A k \in DOMAIN store : s[store[k].key] = store[k].value
      /\ t = [k \in Keys(new) |-> t[k]]
  BY <1>6, ScopedIs DEF Scoped
<1> HIDE DEF s, t
<1>8. ASSUME NEW k \in DOMAIN new
      PROVE  t[new[k].key] = IF new[k].key = key THEN value ELSE s[new[k].key]
  <2>1. t[new[k].key] = new[k].value
    BY <1>7
  <2>2. CASE k \in DOMAIN store /\ store[k].key # key /\ new[k] = store[k]
    BY <1>7, <2>1, <2>2
  <2>3. CASE new[k] = Stored(key, value)
    BY <1>4, <2>1, <2>3
  <2>4. QED
    BY <1>5, <2>2, <2>3
<1>9. \A l \in Keys(new) : t[l] = IF l = key THEN value ELSE s[l]
  BY <1>8 DEF Keys
<1>10. t = Bound(s, key, value)
  BY <1>2, <1>7, <1>9 DEF Bound
<1>11. QED
  BY <1>6, <1>10 DEF new, s, t

LEMMA BoundAssigned ==
  ASSUME NEW s \in Assigned, NEW key \in Text, NEW value \in Text
  PROVE  Bound(s, key, value) \in Assigned
<1> DEFINE t == Bound(s, key, value)
<1>1. /\ DOMAIN t = DOMAIN s \cup {key}
      /\ \A k \in DOMAIN t : t[k] = IF k = key THEN value ELSE s[k]
      /\ t = [k \in DOMAIN t |-> t[k]]
  BY DEF Bound
<1> HIDE DEF t
<1>2. DOMAIN t \subseteq Text /\ \A k \in DOMAIN t : t[k] \in Text
  BY <1>1, AssignedText
<1>3. t \in Assigned
  BY <1>1, <1>2, AssignedIs
<1>4. QED
  BY <1>3 DEF t

LEMMA InText ==
  ASSUME NEW f \in Assigned, NEW n \in Assigned, NEW name, Known(name, f, n)
  PROVE  In(name, f, n)[Tail(name)] \in Text
<1> DEFINE key == Tail(name)
<1>1. key \in DOMAIN In(name, f, n)
  BY DEF Known
<1> HIDE DEF key
<1>2. DOMAIN <<>> = {}
  BY EmptySeq
<1>3. \/ In(name, f, n) = f \/ In(name, f, n) = n
  BY <1>1, <1>2 DEF In
<1>4. In(name, f, n)[key] \in Text
  BY <1>1, <1>3, AssignedText
<1>5. QED
  BY <1>4 DEF key

LEMMA PieceType ==
  ASSUME NEW text \in Text, NEW f \in Assigned, NEW n \in Assigned,
         NEW at \in 1..Len(text), NEW p \in Here(text, at, f, n)
  PROVE  p.value \in Text /\ p.next \in at + 1..Len(text) + 1
<1>1. Len(text) \in Nat /\ DOMAIN text = 1..Len(text) /\ text[at] \in Char
  BY LenProperties, ElementOfSeq DEF Text
<1>2. CASE text[at] # "<"
  <2>1. p = [value |-> <<text[at]>>, next |-> at + 1]
    BY <1>2 DEF Here
  <2>2. <<text[at]>> \in Text
    BY <1>1 DEF Text
  <2>3. at + 1 \in at + 1..Len(text) + 1
    BY <1>1
  <2>4. QED
    BY <2>1, <2>2, <2>3
<1>3. CASE text[at] = "<"
  <2>1. PICK e \in Marks(text, at, f, n) :
          p = [value |-> In(Named(text, at, e), f, n)[Tail(Named(text, at, e))], next |-> e + 1]
    BY <1>3 DEF Here
  <2>2. e \in 1..Len(text) /\ e > at /\ Known(Named(text, at, e), f, n)
    BY <1>1, <2>1 DEF Marks, Ends
  <2>3. p.value \in Text
    BY <2>1, <2>2, InText
  <2>4. p.next = e + 1 /\ e + 1 \in at + 1..Len(text) + 1
    BY <1>1, <2>1, <2>2
  <2>5. QED
    BY <2>3, <2>4
<1>4. QED
  BY <1>2, <1>3

(* The texts of a set, each after another.                                 *)
After(value, rests) == {value \o rest : rest \in rests}

Goes(m, text, f, n, at) == UNION {After(p.value, m[p.next]) : p \in Here(text, at, f, n)}

(* A table of what a text means from each place on.                        *)
Row(m, text, f, n, at) == m[at] = IF at > Len(text) THEN {<<>>} ELSE Goes(m, text, f, n, at)

LEMMA AfterType ==
  ASSUME NEW value \in Text, NEW rests \in SUBSET Text
  PROVE  After(value, rests) \in SUBSET Text
<1>1. \A rest \in rests : value \o rest \in Text
  BY ConcatProperties DEF Text
<1>2. QED
  BY <1>1 DEF After

LEMMA AfterBoth ==
  ASSUME NEW v \in Text, NEW w \in Text, NEW rests \in SUBSET Text
  PROVE  After(v, After(w, rests)) = After(v \o w, rests)
<1>1. \A rest \in rests : v \o (w \o rest) = (v \o w) \o rest
  <2>1. \A t, u, x \in Seq(Char) : Cat(Cat(t, u), x) = Cat(t, Cat(u, x))
    BY CatAssociative
  <2>2. QED
    BY <2>1 DEF Cat, Text
<1>2. \A x : x \in After(v, After(w, rests)) <=> x \in After(v \o w, rests)
  <2>1. ASSUME NEW x \in After(v, After(w, rests))
        PROVE  x \in After(v \o w, rests)
    <3>1. PICK y \in After(w, rests) : x = v \o y
      BY DEF After
    <3>2. PICK rest \in rests : y = w \o rest
      BY DEF After
    <3>3. x = (v \o w) \o rest
      BY <1>1, <3>1, <3>2
    <3>4. QED
      BY <3>3 DEF After
  <2>2. ASSUME NEW x \in After(v \o w, rests)
        PROVE  x \in After(v, After(w, rests))
    <3>1. PICK rest \in rests : x = (v \o w) \o rest
      BY DEF After
    <3>2. x = v \o (w \o rest) /\ w \o rest \in After(w, rests)
      BY <1>1, <3>1 DEF After
    <3>3. QED
      BY <3>2 DEF After
  <2>3. QED
    BY <2>1, <2>2
<1>3. QED
  BY <1>2 DEF After

LEMMA GoesType ==
  ASSUME NEW text \in Text, NEW f \in Assigned, NEW n \in Assigned,
         NEW at \in 1..Len(text), NEW m, \A k \in at + 1..Len(text) + 1 : m[k] \in SUBSET Text
  PROVE  Goes(m, text, f, n, at) \in SUBSET Text
<1>1. ASSUME NEW p \in Here(text, at, f, n)
      PROVE  After(p.value, m[p.next]) \in SUBSET Text
  <2>1. p.value \in Text /\ p.next \in at + 1..Len(text) + 1
    BY PieceType
  <2>2. m[p.next] \in SUBSET Text
    BY <2>1
  <2>3. QED
    BY <2>1, <2>2, AfterType
<1>2. QED
  BY <1>1 DEF Goes

LEMMA GoesSame ==
  ASSUME NEW text \in Text, NEW f \in Assigned, NEW n \in Assigned,
         NEW at \in 1..Len(text), NEW m, NEW o,
         \A k \in at + 1..Len(text) + 1 : m[k] = o[k]
  PROVE  Goes(m, text, f, n, at) = Goes(o, text, f, n, at)
<1>1. ASSUME NEW p \in Here(text, at, f, n)
      PROVE  m[p.next] = o[p.next]
  <2>1. p.next \in at + 1..Len(text) + 1
    BY PieceType
  <2>2. QED
    BY <2>1
<1>2. QED
  BY <1>1 DEF Goes

LEMMA RowsExist ==
  ASSUME NEW text \in Text, NEW f \in Assigned, NEW n \in Assigned
  PROVE  \E m \in [1..Len(text) + 1 -> SUBSET Text] :
           \A at \in 1..Len(text) + 1 : Row(m, text, f, n, at)
<1> DEFINE l == Len(text)
           Good(j) == \E m \in [1..l + 1 -> SUBSET Text] :
                        \A at \in l + 1 - j..l + 1 : Row(m, text, f, n, at)
           S == {j \in Nat : j <= l => Good(j)}
<1>1. l \in Nat /\ <<>> \in Text
  BY LenProperties, EmptySeq DEF Text
<1>2. Good(0)
  <2> DEFINE m == [at \in 1..l + 1 |-> {<<>>}]
  <2>1. m \in [1..l + 1 -> SUBSET Text]
    BY <1>1
  <2>2. \A at \in l + 1 - 0..l + 1 : at = l + 1 /\ at > l /\ at \in 1..l + 1
    BY <1>1
  <2>3. \A at \in l + 1 - 0..l + 1 : Row(m, text, f, n, at)
    BY <2>2 DEF Row
  <2>4. QED
    BY <2>1, <2>3
<1>3. ASSUME NEW j \in Nat, j + 1 <= l, Good(j)
      PROVE  Good(j + 1)
  <2>1. PICK m \in [1..l + 1 -> SUBSET Text] : \A at \in l + 1 - j..l + 1 : Row(m, text, f, n, at)
    BY <1>3
  <2> DEFINE h == l - j
             x == Goes(m, text, f, n, h)
             o == [at \in 1..l + 1 |-> IF at = h THEN x ELSE m[at]]
  <2>2. h \in 1..l /\ h + 1 = l + 1 - j /\ l + 1 - (j + 1) = h
    BY <1>1, <1>3
  <2>3. \A at \in h + 1..l + 1 : at \in 1..l + 1 /\ at # h
    BY <1>1, <2>2
  <2> HIDE DEF h
  <2>4. x \in SUBSET Text
    <3>1. \A k \in h + 1..l + 1 : m[k] \in SUBSET Text
      BY <2>3
    <3>2. QED
      BY <2>2, <3>1, GoesType
  <2> HIDE DEF x
  <2>5. o \in [1..l + 1 -> SUBSET Text]
    BY <2>4
  <2>6. o[h] = x /\ \A at \in h + 1..l + 1 : o[at] = m[at]
    BY <1>1, <2>2, <2>3
  <2> HIDE DEF o
  <2>7. ASSUME NEW at \in h..l + 1
        PROVE  Row(o, text, f, n, at)
    <3>1. CASE at = h
      <4>1. Goes(o, text, f, n, h) = Goes(m, text, f, n, h)
        BY <2>2, <2>6, GoesSame
      <4>2. ~ (h > l)
        BY <1>1, <2>2
      <4>3. QED
        BY <2>6, <3>1, <4>1, <4>2 DEF Row, x
    <3>2. CASE at # h
      <4>1. at \in h + 1..l + 1 /\ Row(m, text, f, n, at) /\ o[at] = m[at]
        BY <1>1, <2>1, <2>2, <2>6, <3>2
      <4>2. CASE at > l
        BY <4>1, <4>2 DEF Row
      <4>3. CASE ~ (at > l)
        <5>1. at \in 1..l /\ \A k \in at + 1..l + 1 : k \in h + 1..l + 1
          BY <1>1, <2>2, <4>1, <4>3
        <5>2. \A k \in at + 1..l + 1 : o[k] = m[k]
          BY <2>6, <5>1
        <5>3. Goes(o, text, f, n, at) = Goes(m, text, f, n, at)
          BY <5>1, <5>2, GoesSame
        <5>4. QED
          BY <4>1, <4>3, <5>3 DEF Row
      <4>4. QED
        BY <4>2, <4>3
    <3>3. QED
      BY <3>1, <3>2
  <2>8. QED
    BY <2>2, <2>5, <2>7
<1>4. S = Nat
  <2> HIDE DEF Good
  <2>1. 0 \in S /\ S \in SUBSET Nat
    BY <1>2
  <2>2. ASSUME NEW j \in S
        PROVE  j + 1 \in S
    <3>1. j \in Nat /\ (j + 1 <= l => j <= l)
      BY <1>1
    <3>2. QED
      BY <1>3, <3>1
  <2> HIDE DEF S
  <2>3. QED
    BY <2>1, <2>2, FromZero
<1>5. Good(l)
  <2> HIDE DEF Good
  <2>1. QED
    BY <1>1, <1>4
<1>6. l + 1 - l = 1
  BY <1>1
<1>7. QED
  BY <1>5, <1>6

(* So From is one.                                                         *)
LEMMA FromIs ==
  ASSUME NEW text \in Text, NEW f \in Assigned, NEW n \in Assigned
  PROVE  \A at \in 1..Len(text) + 1 : /\ From(text, f, n)[at] \in SUBSET Text
                                      /\ Row(From(text, f, n), text, f, n, at)
<1> DEFINE l == Len(text)
           Table(u) == [at \in 1..l + 1 |->
                          IF at > l THEN {<<>>}
                          ELSE UNION {{p.value \o rest : rest \in u[p.next]} : p \in Here(text, at, f, n)}]
           U == CHOOSE u : u = Table(u)
<1>1. l \in Nat /\ <<>> \in Text
  BY LenProperties, EmptySeq DEF Text
<1>2. PICK m \in [1..l + 1 -> SUBSET Text] : \A at \in 1..l + 1 : Row(m, text, f, n, at)
  BY RowsExist
<1>3. m = Table(m)
  <2>1. m = [at \in 1..l + 1 |-> m[at]]
    OBVIOUS
  <2>2. \A at \in 1..l + 1 : m[at] = IF at > l THEN {<<>>}
          ELSE UNION {{p.value \o rest : rest \in m[p.next]} : p \in Here(text, at, f, n)}
    BY <1>2 DEF Row, Goes, After
  <2> HIDE DEF l
  <2>3. QED
    BY <2>1, <2>2
<1>4. U = Table(U)
  <2> HIDE DEF Table
  <2>1. QED
    BY <1>3, Zenon
<1>5. From(text, f, n) = U
  BY DEF From
<1> HIDE DEF U
<1>6. \A at \in 1..l + 1 : Row(U, text, f, n, at)
  BY <1>4 DEF Row, Goes, After
<1> DEFINE S == {j \in Nat : \A at \in 1..l + 1 : at >= l + 1 - j => U[at] \in SUBSET Text}
<1>7. 0 \in S
  <2>1. ASSUME NEW at \in 1..l + 1, at >= l + 1 - 0
        PROVE  U[at] \in SUBSET Text
    <3>1. at > l
      BY <1>1, <2>1
    <3>2. QED
      BY <1>1, <1>6, <3>1 DEF Row
  <2>2. QED
    BY <2>1
<1>8. ASSUME NEW j \in S
      PROVE  j + 1 \in S
  <2>1. ASSUME NEW at \in 1..l + 1, at >= l + 1 - (j + 1)
        PROVE  U[at] \in SUBSET Text
    <3>1. CASE at > l
      BY <1>1, <1>6, <3>1 DEF Row
    <3>2. CASE ~ (at > l)
      <4>1. at \in 1..l /\ \A k \in at + 1..l + 1 : k \in 1..l + 1 /\ k >= l + 1 - j
        BY <1>1, <2>1, <3>2
      <4>2. \A k \in at + 1..l + 1 : U[k] \in SUBSET Text
        BY <4>1
      <4>3. Goes(U, text, f, n, at) \in SUBSET Text
        BY <4>1, <4>2, GoesType
      <4>4. QED
        BY <1>6, <3>2, <4>3 DEF Row
    <3>3. QED
      BY <3>1, <3>2
  <2>2. QED
    BY <2>1
<1>9. S = Nat
  <2>1. S \in SUBSET Nat
    OBVIOUS
  <2> HIDE DEF S
  <2>2. QED
    BY <1>7, <1>8, <2>1, FromZero
<1>10. \A at \in 1..l + 1 : U[at] \in SUBSET Text
  <2>1. \A at \in 1..l + 1 : at >= l + 1 - l
    BY <1>1
  <2>2. QED
    BY <1>1, <1>9, <2>1
<1>11. QED
  BY <1>5, <1>6, <1>10

(* A text means texts.                                                     *)
LEMMA MeaningType ==
  ASSUME NEW text \in Text, NEW f \in Assigned, NEW n \in Assigned
  PROVE  Meaning(text, f, n) \in SUBSET Text
<1>1. Len(text) \in Nat /\ 1 \in 1..Len(text) + 1
  BY LenProperties DEF Text
<1>2. QED
  BY <1>1, FromIs DEF Meaning

Parameter(p, f, s) == {Bound(s, p.key, v) : v \in Meaning(p.value, f, s)}

(* What parameters mean, so far.                                           *)
LEMMA BindingIs ==
  ASSUME NEW ps \in Store, NEW f \in Assigned
  PROVE  /\ Binding(ps, f)[0] = {Scoped(<<>>)}
         /\ \A k \in 1..Len(ps) :
              Binding(ps, f)[k] = UNION {Parameter(ps[k], f, s) : s \in Binding(ps, f)[k - 1]}
<1> DEFINE n == Len(ps)
           All(k, ss) == UNION {Parameter(ps[k], f, s) : s \in ss}
           T == SUBSET Assigned
           step == [k \in 1..n |-> [ss \in T |-> All(k, ss)]]
           base == {Scoped(<<>>)}
           Table(u) == [k \in 0..n |-> IF k = 0 THEN base
                          ELSE UNION {{Bound(s, ps[k].key, v) : v \in Meaning(ps[k].value, f, s)} : s \in u[k - 1]}]
           U == CHOOSE u : u = Table(u)
<1>1. /\ n \in Nat /\ base \in T
      /\ \A k \in 1..n : ps[k].key \in Text /\ ps[k].value \in Text
  BY LenProperties, NoneFilled, ScopedIs, ParamIsText DEF Store
<1>2. \A k \in 1..n : \A ss \in T : All(k, ss) \in T
  <2> SUFFICES ASSUME NEW k \in 1..n, NEW ss \in T, NEW s \in ss PROVE Parameter(ps[k], f, s) \in T
    OBVIOUS
  <2>1. s \in Assigned /\ ps[k].key \in Text /\ ps[k].value \in Text
    BY <1>1
  <2>2. \A v \in Meaning(ps[k].value, f, s) : v \in Text
    BY <2>1, MeaningType
  <2>3. \A v \in Meaning(ps[k].value, f, s) : Bound(s, ps[k].key, v) \in Assigned
    BY <2>1, <2>2, BoundAssigned
  <2>4. QED
    BY <2>3 DEF Parameter
<1> HIDE DEF All, T, base
<1>3. step \in [1..n -> [T -> T]]
  BY <1>2
<1>4. PICK b \in [0..n -> T] : Rows(n, base, step, b)
  <2> HIDE DEF step, n
  <2>1. QED
    BY <1>1, <1>3, TableExists
<1>5. b[0] = base /\ \A k \in 1..n : b[k] = step[k][b[k - 1]]
  BY <1>4 DEF Rows
<1>6. ASSUME NEW k \in 1..n
      PROVE  b[k] = All(k, b[k - 1])
  <2>1. k - 1 \in 0..n
    BY <1>1
  <2>2. b[k - 1] \in T
    BY <1>4, <2>1
  <2>3. QED
    BY <1>5, <2>2
<1>7. b = Table(b)
  <2>1. \A k \in 0..n : k = 0 \/ k \in 1..n
    BY <1>1
  <2>2. \A k \in 0..n : b[k] = IF k = 0 THEN base
          ELSE UNION {{Bound(s, ps[k].key, v) : v \in Meaning(ps[k].value, f, s)} : s \in b[k - 1]}
    <3>1. ASSUME NEW k \in 1..n
          PROVE  /\ k # 0
                 /\ b[k] = UNION {{Bound(s, ps[k].key, v) : v \in Meaning(ps[k].value, f, s)} : s \in b[k - 1]}
      <4>1. k # 0
        BY <1>1
      <4>2. b[k] = All(k, b[k - 1])
        BY <1>6
      <4>3. \A ss : All(k, ss) = UNION {{Bound(s, ps[k].key, v) : v \in Meaning(ps[k].value, f, s)} : s \in ss}
        BY DEF All, Parameter
      <4> HIDE DEF n
      <4>4. QED
        BY <4>1, <4>2, <4>3
    <3> HIDE DEF n
    <3>2. QED
      BY <1>5, <2>1, <3>1
  <2>3. b = [k \in 0..n |-> b[k]]
    BY <1>4
  <2> HIDE DEF n
  <2>4. QED
    BY <2>2, <2>3
<1>8. U = Table(U)
  <2> HIDE DEF Table
  <2>1. QED
    BY <1>7, Zenon
<1>9. Binding(ps, f) = U
  BY DEF Binding, base
<1> HIDE DEF U
<1>10. \A k \in 1..n : k \in 0..n /\ k # 0
  BY <1>1
<1>11. U[0] = base
  BY <1>1, <1>8
<1>12. ASSUME NEW k \in 1..n
       PROVE  U[k] = UNION {Parameter(ps[k], f, s) : s \in U[k - 1]}
  <2> HIDE DEF n
  <2>1. QED
    BY <1>8, <1>10 DEF Parameter
<1>13. QED
  BY <1>9, <1>11, <1>12 DEF base

(* From a parameter that means nothing on, there is no scope.              *)
LEMMA BindingStops ==
  ASSUME NEW ps \in Store, NEW f \in Assigned, NEW k \in 0..Len(ps), Binding(ps, f)[k] = {}
  PROVE  NodeScope(ps, f) = {}
<1> DEFINE b == Binding(ps, f)
           n == Len(ps)
           S == {m \in Nat : k + m <= n => b[k + m] = {}}
<1>1. n \in Nat /\ k \in Nat
  BY LenProperties DEF Store
<1>2. 0 \in S
  BY <1>1
<1>3. \A l \in 1..n : b[l] = UNION {Parameter(ps[l], f, s) : s \in b[l - 1]}
  BY BindingIs
<1> HIDE DEF b
<1>4. ASSUME NEW m \in S
      PROVE  m + 1 \in S
  <2>1. CASE k + (m + 1) <= n
    <3>1. PICK l \in 1..n : l = k + (m + 1) /\ l - 1 = k + m
      BY <1>1, <2>1
    <3>2. b[l - 1] = {}
      BY <1>1, <2>1, <3>1
    <3>3. b[l] = UNION {Parameter(ps[l], f, s) : s \in {}}
      BY <1>3, <3>2
    <3>4. QED
      BY <3>1, <3>3
  <2>2. QED
    BY <2>1
<1>5. S = Nat
  <2>1. S \in SUBSET Nat
    OBVIOUS
  <2> HIDE DEF S
  <2>2. QED
    BY <1>2, <1>4, <2>1, FromZero
<1>6. PICK m \in Nat : k + m = n
  <2>1. n - k \in Nat /\ k + (n - k) = n
    BY <1>1
  <2>2. QED
    BY <2>1
<1>7. b[n] = {}
  <2>1. k + m <= n => b[k + m] = {}
    BY <1>5
  <2> HIDE DEF S, n
  <2>2. n <= n
    BY <1>1
  <2>3. QED
    BY <1>6, <2>1, <2>2
<1>8. QED
  BY <1>7 DEF b, NodeScope

----------------------------------------------------------------------------
(* What resolve_template finds in the stores is what the scopes say.       *)

LEMMA InScope ==
  ASSUME flow \in Filled, params \in Filled, NEW name
  PROVE  In(name, Scoped(flow), Scoped(params)) = Scoped(ScopeOf(name)) /\ ScopeOf(name) \in Filled
<1>1. Scoped(<<>>) = <<>>
  BY NoneFilled DEF Scoped
<1>2. FlowTag # NodeTag
  BY ScopeAssumption
<1>3. QED
  BY <1>1, <1>2, NoneFilled DEF In, ScopeOf

LEMMA KnownIs ==
  ASSUME flow \in Filled, params \in Filled, NEW name
  PROVE  /\ Known(name, Scoped(flow), Scoped(params))
              <=> Len(name) \in 1..MaxName - 1 /\ HasKey(ScopeOf(name), Tail(name))
         /\ HasKey(ScopeOf(name), Tail(name)) =>
              In(name, Scoped(flow), Scoped(params))[Tail(name)] = Get(ScopeOf(name), Tail(name))
<1> DEFINE store == ScopeOf(name)
<1>1. In(name, Scoped(flow), Scoped(params)) = Scoped(store) /\ store \in Filled
  BY InScope
<1> HIDE DEF store
<1>2. /\ DOMAIN Scoped(store) = Keys(store)
      /\ \A key : HasKey(store, key) <=> key \in Keys(store)
      /\ \A key \in Keys(store) : Scoped(store)[key] = Get(store, key)
  BY <1>1, ScopedIs
<1>3. QED
  BY <1>1, <1>2 DEF Known, store

(* One piece of the text is what one step of the code finds there.         *)
LEMMA PieceFound ==
  ASSUME flow \in Filled, params \in Filled, job.text \in Text, job.at \in Nat \ {0}
  PROVE  LET here == Here(job.text, job.at, Scoped(flow), Scoped(params)) IN
         /\ ~ AtMark => here = {[value |-> <<job.text[job.at]>>, next |-> job.at + 1]}
         /\ \A e \in DOMAIN job.text :
              AtMark /\ Resolves(e) => here = {[value |-> Value(e), next |-> e + 1]}
         /\ AtMark /\ (~ \E e \in DOMAIN job.text : Resolves(e)) => here = {}
<1> DEFINE text == job.text
           at == job.at
           F == Scoped(flow)
           N == Scoped(params)
           here == Here(text, at, F, N)
           marks == Marks(text, at, F, N)
<1>1. Len(text) \in Nat /\ DOMAIN text = 1..Len(text)
  BY LenProperties DEF Text
<1>2. ASSUME NEW e \in DOMAIN text
      PROVE  Closes(e) <=> e \in Ends(text, at) /\ \A x \in Ends(text, at) : e <= x
  <2>1. ASSUME Closes(e), NEW x \in Ends(text, at)
        PROVE  e \in Ends(text, at) /\ e <= x
    BY <1>1, <2>1 DEF Closes, Ends
  <2>2. ASSUME e \in Ends(text, at), \A x \in Ends(text, at) : e <= x
        PROVE  Closes(e)
    <3>1. ASSUME NEW o \in at + 1..e - 1, text[o] = ">"
          PROVE  FALSE
      <4>1. o \in 1..Len(text) /\ o > at /\ ~ (e <= o)
        BY <1>1
      <4>2. QED
        BY <1>1, <2>2, <3>1, <4>1 DEF Ends
    <3>2. QED
      BY <2>2, <3>1 DEF Closes, Ends
  <2>3. Closes(e) => e \in Ends(text, at)
    BY DEF Closes, Ends
  <2>4. QED
    BY <2>1, <2>2, <2>3
<1>3. \A e : Named(text, at, e) = Name(e)
  BY DEF Named, Name
<1>4. ASSUME NEW e \in DOMAIN text
      PROVE  /\ Resolves(e) <=> e \in marks
             /\ Resolves(e) => In(Named(text, at, e), F, N)[Tail(Named(text, at, e))] = Value(e)
  <2> DEFINE name == Name(e)
  <2>1. /\ Known(name, F, N) <=> Len(name) \in 1..MaxName - 1 /\ HasKey(ScopeOf(name), Tail(name))
        /\ HasKey(ScopeOf(name), Tail(name)) =>
              In(name, F, N)[Tail(name)] = Get(ScopeOf(name), Tail(name))
    BY KnownIs
  <2> HIDE DEF F, N
  <2>2. QED
    BY <1>2, <1>3, <2>1 DEF Resolves, Marks, Value
<1>5. \A e, x \in marks : e = x
  <2>1. ASSUME NEW e \in marks, NEW x \in marks
        PROVE  e = x
    <3>1. e \in 1..Len(text) /\ x \in 1..Len(text) /\ e <= x /\ x <= e
      BY <1>1 DEF Marks, Ends
    <3>2. QED
      BY <1>1, <3>1
  <2>2. QED
    BY <2>1
<1>6. marks \subseteq DOMAIN text
  BY DEF Marks, Ends
<1>7. /\ text[at] # "<" => here = {[value |-> <<text[at]>>, next |-> at + 1]}
      /\ text[at] = "<" => here = {[value |-> In(Named(text, at, e), F, N)[Tail(Named(text, at, e))], next |-> e + 1] :
                                     e \in marks}
  BY DEF Here
<1>8. AtMark <=> text[at] = "<"
  BY DEF AtMark
<1> HIDE DEF text, at, F, N, here, marks
<1>9. ASSUME NEW e \in DOMAIN text, text[at] = "<", Resolves(e)
      PROVE  here = {[value |-> Value(e), next |-> e + 1]}
  <2>1. marks = {e}
    BY <1>4, <1>5, <1>9
  <2>2. here = {[value |-> In(Named(text, at, e), F, N)[Tail(Named(text, at, e))], next |-> e + 1]}
    BY <1>7, <1>9, <2>1
  <2>3. QED
    BY <1>4, <1>9, <2>2
<1>10. ASSUME text[at] = "<", ~ \E e \in DOMAIN text : Resolves(e)
       PROVE  here = {}
  <2>1. marks = {}
    BY <1>4, <1>6, <1>10
  <2>2. QED
    BY <1>7, <1>10, <2>1
<1>11. QED
  BY <1>7, <1>8, <1>9, <1>10 DEF text, at, F, N, here

StoresFilled ==
  /\ flow \in Filled /\ params \in Filled /\ cli \in Filled
  /\ prog \in [File -> [params : Filled, nodes : SUBSET NodeRec]]
  /\ \A k \in DOMAIN callers : callers[k].flow \in Filled /\ callers[k].params \in Filled

(* The last of a key among the first n counts.                             *)
Latest(j, n) == \A l \in j + 1..n : Incoming[l].key # Incoming[j].key

MergeMeans == stage = "merge" =>
  \A j \in 1..i - 1 : Latest(j, i - 1) => Scoped(flow)[Incoming[j].key] = Incoming[j].value

FlowMeans == stage \notin {"merge", "failed"} =>
  Scoped(flow) = Under(prog[file].params, Scoped(Outer))

NodeMeans == stage \in {"collect", "template", "file", "execs"} =>
  /\ i \in 1..Len(node.params) + 1
  /\ Binding(node.params, Scoped(flow))[i - 1] = {Scoped(params)}

JobMeans == stage = "template" =>
  LET from == From(job.text, Scoped(flow), Scoped(params)) IN
  /\ job.text = IF i <= Len(node.params) THEN node.params[i].value ELSE node.exec
  /\ job.at \in 1..Len(job.text) + 1
  /\ from[1] = After(job.result, from[job.at])

(* A caller's scopes, of which it gives the second.                        *)
Consistent(c, outer) ==
  /\ Scoped(c.flow) = Under(prog[c.file].params, Scoped(outer))
  /\ NodeScope(c.node.params, Scoped(c.flow)) = {Scoped(c.params)}

CallersMean == \A k \in DOMAIN callers : Consistent(callers[k], OuterOf(k))

MeansInv == StoresFilled /\ MergeMeans /\ FlowMeans /\ NodeMeans /\ JobMeans /\ CallersMean

LEMMA OuterFilled ==
  ASSUME TypeOK, StoresFilled
  PROVE  Outer \in Filled
<1>1. Outer = OuterOf(Len(callers) + 1) /\ DOMAIN callers = 1..Len(callers) /\ Len(callers) \in Nat
  BY CallerFacts
<1>2. CASE Len(callers) = 0
  BY <1>1, <1>2 DEF OuterOf, StoresFilled
<1>3. CASE Len(callers) # 0
  <2>1. Len(callers) + 1 # 1 /\ Len(callers) + 1 - 1 \in DOMAIN callers
    BY <1>1, <1>3
  <2>2. QED
    BY <1>1, <2>1 DEF OuterOf, StoresFilled
<1>4. QED
  BY <1>2, <1>3

(* The elements of the second of two sequences put together.               *)
LEMMA SecondPart ==
  ASSUME NEW S, NEW s \in Seq(S), NEW t \in Seq(S), NEW k \in 1..Len(t)
  PROVE  (s \o t)[Len(s) + k] = t[k]
<1>1. Len(s) \in Nat /\ Len(t) \in Nat
  BY LenProperties
<1>2. \A l \in 1..Len(s) + Len(t) : (s \o t)[l] = IF l <= Len(s) THEN s[l] ELSE t[l - Len(s)]
  BY ConcatProperties
<1>3. /\ Len(s) + k \in 1..Len(s) + Len(t)
      /\ ~ (Len(s) + k <= Len(s)) /\ Len(s) + k - Len(s) = k
  BY <1>1
<1>4. QED
  BY <1>2, <1>3

(* What a flow is given: its defaults, then what its caller gives.         *)
LEMMA IncomingParts ==
  ASSUME TypeOK, NEW d, d = prog[file].params
  PROVE  /\ d \in Store /\ Len(d) \in Nat /\ DOMAIN d = 1..Len(d)
         /\ Outer \in Store /\ Len(Outer) \in Nat /\ DOMAIN Outer = 1..Len(Outer)
         /\ Len(Incoming) = Len(d) + Len(Outer)
         /\ \A k \in DOMAIN d : Incoming[k] = d[k]
         /\ \A k \in DOMAIN Outer : Incoming[Len(d) + k] = Outer[k]
<1>1. /\ d \in Store /\ Outer \in Store
      /\ Len(d) \in Nat /\ DOMAIN d = 1..Len(d)
      /\ Len(Outer) \in Nat /\ DOMAIN Outer = 1..Len(Outer)
  BY CallerFacts, LenProperties DEF TypeOK, Store
<1>2. Incoming = d \o Outer
  BY DEF Incoming
<1>3. /\ Len(d \o Outer) = Len(d) + Len(Outer)
      /\ \A k \in 1..Len(d) : (d \o Outer)[k] = d[k]
      /\ \A k \in Len(d) + 1..Len(d) + Len(Outer) : (d \o Outer)[k] = Outer[k - Len(d)]
  BY <1>1, ConcatProperties DEF Store
<1>4. ASSUME NEW k \in DOMAIN Outer
      PROVE  Incoming[Len(d) + k] = Outer[k]
  <2> DEFINE P == [key : Text, value : Text]
  <2>1. d \in Seq(P) /\ Outer \in Seq(P) /\ k \in 1..Len(Outer)
    BY <1>1 DEF Store
  <2> HIDE DEF P
  <2>2. (d \o Outer)[Len(d) + k] = Outer[k]
    BY <2>1, SecondPart
  <2>3. QED
    BY <1>2, <2>2
<1>5. QED
  BY <1>1, <1>2, <1>3, <1>4

LEMMA MergedMeans ==
  ASSUME TypeOK, LimitInv, StoresFilled, MergeMeans, stage = "merge", i > Len(Incoming)
  PROVE  Scoped(flow) = Under(prog[file].params, Scoped(Outer))
<1> DEFINE d == prog[file].params
           n == Len(Incoming)
<1>1. /\ d \in Filled /\ Outer \in Filled /\ flow \in Filled
      /\ Len(d) \in Nat /\ DOMAIN d = 1..Len(d)
      /\ Len(Outer) \in Nat /\ DOMAIN Outer = 1..Len(Outer)
      /\ n = Len(d) + Len(Outer)
      /\ \A k \in DOMAIN d : Incoming[k] = d[k]
      /\ \A k \in DOMAIN Outer : Incoming[Len(d) + k] = Outer[k]
  BY OuterFilled, IncomingParts DEF StoresFilled, TypeOK
<1>2. i - 1 = n /\ n \in Nat /\ Keys(flow) = {Incoming[k].key : k \in 1..n}
  <2>1. i \in 1..n + 1 /\ i > n /\ Keys(flow) = {Incoming[k].key : k \in 1..i - 1}
    BY DEF LimitInv, Merging
  <2>2. n \in Nat
    BY IncomingKeys
  <2> HIDE DEF n
  <2>3. i - 1 = n
    BY <2>1, <2>2
  <2>4. QED
    BY <2>1, <2>2, <2>3
<1>3. \A j \in 1..n : Latest(j, n) => Scoped(flow)[Incoming[j].key] = Incoming[j].value
  BY <1>2 DEF MergeMeans
<1> HIDE DEF d, n
<1>4. Keys(flow) = Keys(d) \cup Keys(Outer)
  <2>1. {Incoming[k].key : k \in 1..n} = Given(file, Len(callers) + 1)
    BY IncomingKeys DEF n
  <2>2. Given(file, Len(callers) + 1) = Keys(d) \cup Keys(Outer)
    BY CallerFacts DEF Given, d
  <2>3. QED
    BY <1>2, <2>1, <2>2
<1>5. \A l \in 1..n : \/ l \in DOMAIN d
                      \/ l - Len(d) \in DOMAIN Outer /\ Incoming[l] = Outer[l - Len(d)]
  <2>1. ASSUME NEW l \in 1..n, l \notin DOMAIN d
        PROVE  l - Len(d) \in DOMAIN Outer /\ Len(d) + (l - Len(d)) = l
    BY <1>1, <2>1
  <2>2. QED
    BY <1>1, <2>1
<1>6. ASSUME NEW k \in DOMAIN Outer
      PROVE  Scoped(flow)[Outer[k].key] = Outer[k].value
  <2>1. Len(d) + k \in 1..n /\ Incoming[Len(d) + k] = Outer[k]
    BY <1>1
  <2>2. ASSUME NEW l \in Len(d) + k + 1..n
        PROVE  Incoming[l].key # Outer[k].key
    <3>1. l \in 1..n /\ l \notin DOMAIN d /\ l - Len(d) # k
      BY <1>1
    <3>2. l - Len(d) \in DOMAIN Outer /\ Incoming[l] = Outer[l - Len(d)]
      BY <1>5, <3>1
    <3>3. Outer[l - Len(d)].key # Outer[k].key
      BY <1>1, <3>1, <3>2 DEF Filled
    <3>4. QED
      BY <3>2, <3>3
  <2>3. Latest(Len(d) + k, n)
    BY <2>1, <2>2 DEF Latest
  <2>4. QED
    BY <1>3, <2>1, <2>3
<1>7. ASSUME NEW k \in DOMAIN d, d[k].key \notin Keys(Outer)
      PROVE  Scoped(flow)[d[k].key] = d[k].value
  <2>1. k \in 1..n /\ Incoming[k] = d[k]
    BY <1>1
  <2>2. ASSUME NEW l \in k + 1..n
        PROVE  Incoming[l].key # d[k].key
    <3>1. l \in 1..n /\ l # k
      BY <1>1
    <3>2. CASE l \in DOMAIN d
      BY <1>1, <3>1, <3>2 DEF Filled
    <3>3. CASE l \notin DOMAIN d
      BY <1>5, <1>7, <3>1, <3>3 DEF Keys
    <3>4. QED
      BY <3>2, <3>3
  <2>3. Latest(k, n)
    BY <2>1, <2>2 DEF Latest
  <2>4. QED
    BY <1>3, <2>1, <2>3
<1> DEFINE F == Scoped(flow)
           O == Scoped(Outer)
<1>8. /\ DOMAIN F = Keys(flow) /\ F = [l \in Keys(flow) |-> F[l]]
      /\ DOMAIN O = Keys(Outer) /\ \A k \in DOMAIN Outer : O[Outer[k].key] = Outer[k].value
      /\ \A k \in DOMAIN d : Get(d, d[k].key) = d[k].value
  BY <1>1, ScopedIs, GetOf DEF Scoped
<1> HIDE DEF F, O
<1>9. ASSUME NEW l \in Keys(flow)
      PROVE  F[l] = IF l \in DOMAIN O THEN O[l] ELSE Get(d, l)
  <2>1. CASE l \in Keys(Outer)
    <3>1. PICK k \in DOMAIN Outer : l = Outer[k].key
      BY <2>1 DEF Keys
    <3>2. QED
      BY <1>6, <1>8, <2>1, <3>1 DEF F
  <2>2. CASE l \notin Keys(Outer)
    <3>1. PICK k \in DOMAIN d : l = d[k].key
      BY <1>4, <2>2 DEF Keys
    <3>2. QED
      BY <1>7, <1>8, <2>2, <3>1 DEF F
  <2>3. QED
    BY <2>1, <2>2
<1>10. F = Under(d, O)
  BY <1>4, <1>8, <1>9 DEF Under
<1>11. QED
  BY <1>10 DEF F, O, d

LEMMA MergeMean ==
  ASSUME TypeOK, LimitInv, StoresFilled, MergeMeans, Merge, HasRoom(flow, Incoming[i].key)
  PROVE  StoresFilled' /\ MergeMeans'
<1> DEFINE p == Incoming[i]
           F == Scoped(flow)
<1>1. /\ i \in Nat \ {0} /\ i \in DOMAIN Incoming /\ Incoming \in Store /\ stage = "merge"
      /\ flow' = Put(flow, p.key, p.value) /\ i' = i + 1 /\ flow \in Filled
      /\ UNCHANGED <<prog, cli, callers, file, params, stage>>
  BY IncomingKeys DEF Merge, TypeOK, StoresFilled, LimitInv, Merging
<1>2. p.key \in Text /\ p.value \in Text
  BY <1>1, ParamIsText
<1>3. Keys(flow) = {Incoming[k].key : k \in 1..i - 1}
  BY <1>1 DEF LimitInv, Merging
<1>4. Incoming' = Incoming
  BY <1>1 DEF Incoming, Outer
<1>5. \A j \in 1..i - 1 : Latest(j, i - 1) => F[Incoming[j].key] = Incoming[j].value
  BY <1>1 DEF MergeMeans
<1> HIDE DEF p
<1>6. flow' \in Filled /\ Scoped(flow') = Bound(F, p.key, p.value)
  BY <1>1, <1>2, PutFilled
<1>7. DOMAIN F = Keys(flow)
  BY <1>1, ScopedIs
<1> HIDE DEF F
<1>8. \A k \in DOMAIN F \cup {p.key} :
        Bound(F, p.key, p.value)[k] = IF k = p.key THEN p.value ELSE F[k]
  BY DEF Bound
<1>9. ASSUME NEW j \in 1..i, \A l \in j + 1..i : Incoming[l].key # Incoming[j].key
      PROVE  Bound(F, p.key, p.value)[Incoming[j].key] = Incoming[j].value
  <2>1. CASE j = i
    BY <1>8, <2>1 DEF p
  <2>2. CASE j # i
    <3>1. j \in 1..i - 1 /\ i \in j + 1..i /\ \A l \in j + 1..i - 1 : l \in j + 1..i
      BY <1>1, <2>2
    <3>2. Latest(j, i - 1) /\ p.key # Incoming[j].key
      BY <1>9, <3>1 DEF Latest, p
    <3>3. F[Incoming[j].key] = Incoming[j].value /\ Incoming[j].key \in DOMAIN F
      BY <1>3, <1>5, <1>7, <3>1, <3>2
    <3>4. QED
      BY <1>8, <3>2, <3>3
  <2>3. QED
    BY <2>1, <2>2
<1>10. i' - 1 = i
  BY <1>1
<1>11. MergeMeans'
  BY <1>4, <1>6, <1>9, <1>10 DEF MergeMeans, Latest
<1>12. StoresFilled'
  BY <1>1, <1>6 DEF StoresFilled
<1>13. QED
  BY <1>11, <1>12

LEMMA AfterNothing ==
  ASSUME NEW rests \in SUBSET Text
  PROVE  After(<<>>, rests) = rests
<1>1. \A rest \in rests : <<>> \o rest = rest
  <2>1. \A t \in Seq(Char) : Cat(<<>>, t) = t
    BY CatNone
  <2>2. QED
    BY <2>1 DEF Cat, Text
<1>2. QED
  BY <1>1 DEF After

LEMMA TypedNode ==
  ASSUME TypeOK, stage \in {"collect", "template", "file", "execs"}
  PROVE  /\ node \in NodeRec /\ node.params \in Store /\ Len(node.params) \in Nat /\ node.exec \in Text
         /\ DOMAIN node.params = 1..Len(node.params)
         /\ \A k \in 1..Len(node.params) : node.params[k].key \in Text /\ node.params[k].value \in Text
<1>1. node \in NodeRec /\ node.params \in Store /\ node.exec \in Text
  BY DEF TypeOK, NodeRec, Limited
<1>2. QED
  BY <1>1, LenProperties, ParamIsText DEF Store

(* resolve_template begins.                                                *)
LEMMA JobStarts ==
  ASSUME NEW text \in Text, job' = NewJob(text), flow' \in Filled, params' \in Filled,
         text = IF i' <= Len(node'.params) THEN node'.params[i'].value ELSE node'.exec
  PROVE  JobMeans'
<1> DEFINE from == From(text, Scoped(flow'), Scoped(params'))
<1>1. Len(text) \in Nat /\ 1 \in 1..Len(text) + 1
  BY LenProperties DEF Text
<1>2. from[1] \in SUBSET Text
  BY <1>1, ScopedIs, FromIs
<1> HIDE DEF from
<1>3. from[1] = After(<<>>, from[1])
  BY <1>2, AfterNothing
<1>4. job'.text = text /\ job'.at = 1 /\ job'.result = <<>>
  BY DEF NewJob
<1>5. QED
  BY <1>1, <1>3, <1>4 DEF JobMeans, from

(* It goes on by one piece.                                                *)
LEMMA JobMoves ==
  ASSUME TypeOK, StoresFilled, JobMeans, Resolving, NEW v \in Text, NEW e,
         Here(job.text, job.at, Scoped(flow), Scoped(params)) = {[value |-> v, next |-> e]},
         job'.text = job.text, job'.at = e, job'.result = job.result \o v,
         UNCHANGED <<flow, params, node, stage, i>>
  PROVE  JobMeans'
<1> DEFINE text == job.text
           F == Scoped(flow)
           N == Scoped(params)
           from == From(text, F, N)
           at == job.at
           p == [value |-> v, next |-> e]
<1>1. /\ stage = "template" /\ text \in Text /\ job.result \in Text /\ F \in Assigned /\ N \in Assigned
      /\ Len(text) \in Nat /\ DOMAIN text = 1..Len(text) /\ at \in 1..Len(text)
  BY ScopedIs, LenProperties DEF TypeOK, Resolving, StoresFilled, Text
<1>2. from[1] = After(job.result, from[at])
      /\ text = IF i <= Len(node.params) THEN node.params[i].value ELSE node.exec
  BY <1>1 DEF JobMeans
<1>3. Here(text, at, F, N) = {p} /\ p.value = v /\ p.next = e
  OBVIOUS
<1> HIDE DEF text, F, N, at, p
<1>4. e \in at + 1..Len(text) + 1
  BY <1>1, <1>3, PieceType
<1>5. e \in 1..Len(text) + 1 /\ at \in 1..Len(text) + 1 /\ ~ (at > Len(text))
  BY <1>1, <1>4
<1>6. Row(from, text, F, N, at) /\ from[e] \in SUBSET Text
  BY <1>1, <1>5, FromIs
<1> HIDE DEF from
<1>7. from[at] = After(v, from[e])
  BY <1>3, <1>5, <1>6 DEF Row, Goes
<1>8. from[1] = After(job.result \o v, from[e])
  BY <1>1, <1>2, <1>6, <1>7, AfterBoth
<1>9. job'.text = text /\ F = Scoped(flow') /\ N = Scoped(params')
  BY DEF text, F, N
<1>10. QED
  BY <1>2, <1>5, <1>8, <1>9 DEF JobMeans, from

LEMMA TemplateMeans ==
  ASSUME TypeOK, StoresFilled, JobMeans, Literal \/ Grow \/ Expand
  PROVE  JobMeans'
<1>1. /\ Resolving /\ stage = "template" /\ job \in Job /\ job.text \in Text /\ job.result \in Text
      /\ job.at \in Nat \ {0} /\ UNCHANGED <<flow, params, node, stage, i>>
      /\ flow \in Filled /\ params \in Filled
  <2>1. Resolving /\ stage = "template" /\ UNCHANGED <<flow, params, node, stage, i>>
    BY DEF Literal, Grow, Expand, Resolving, scope
  <2>2. job \in Job /\ job.text \in Text /\ job.result \in Text
    BY DEF TypeOK, Job
  <2>3. job.at \in 1..Len(job.text) + 1 /\ Len(job.text) \in Nat
    BY <2>1, <2>2, LenProperties DEF JobMeans, Text
  <2>4. job.at \in Nat \ {0}
    BY <2>3
  <2>5. QED
    BY <2>1, <2>2, <2>4 DEF StoresFilled
<1> DEFINE here == Here(job.text, job.at, Scoped(flow), Scoped(params))
<1>2. /\ ~ AtMark => here = {[value |-> <<job.text[job.at]>>, next |-> job.at + 1]}
      /\ \A e \in DOMAIN job.text :
           AtMark /\ Resolves(e) => here = {[value |-> Value(e), next |-> e + 1]}
  BY <1>1, PieceFound
<1> HIDE DEF here
<1>3. CASE Literal
  <2>1. job.text[job.at] \in Char
    BY <1>1, LenProperties, ElementOfSeq DEF Text, Resolving
  <2>2. <<job.text[job.at]>> \in Text /\ Append(job.result, job.text[job.at]) = job.result \o <<job.text[job.at]>>
    BY <1>1, <2>1, AppendIsConcat DEF Text
  <2>3. /\ job'.text = job.text /\ job'.at = job.at + 1
        /\ job'.result = Append(job.result, job.text[job.at])
    BY <1>1, <1>3 DEF Literal, Job
  <2>4. here = {[value |-> <<job.text[job.at]>>, next |-> job.at + 1]}
    BY <1>2, <1>3 DEF Literal
  <2>5. QED
    BY <1>1, <2>2, <2>3, <2>4, JobMoves DEF here
<1>4. CASE Grow
  <2>1. job'.text = job.text /\ job'.at = job.at /\ job'.result = job.result
    BY <1>1, <1>4 DEF Grow, Job
  <2>2. QED
    BY <1>1, <2>1 DEF JobMeans
<1>5. CASE Expand
  <2>1. PICK e \in DOMAIN job.text :
          /\ Resolves(e) /\ AtMark
          /\ job' = [job EXCEPT !.result = @ \o Value(e), !.at = e + 1]
    BY <1>5 DEF Expand
  <2>2. job'.text = job.text /\ job'.at = e + 1 /\ job'.result = job.result \o Value(e)
    BY <1>1, <2>1 DEF Job
  <2>3. Value(e) \in Text
    BY <2>1, ValueIsText
  <2>4. here = {[value |-> Value(e), next |-> e + 1]}
    BY <1>2, <2>1
  <2>5. QED
    BY <1>1, <2>2, <2>3, <2>4, JobMoves DEF here
<1>6. QED
  BY <1>3, <1>4, <1>5

(* At the end of the text the result is its meaning.                       *)
LEMMA ResolvedMeans ==
  ASSUME TypeOK, StoresFilled, JobMeans, Resolved
  PROVE  Meaning(job.text, Scoped(flow), Scoped(params)) = {job.result}
<1> DEFINE text == job.text
           F == Scoped(flow)
           N == Scoped(params)
           from == From(text, F, N)
<1>1. /\ stage = "template" /\ text \in Text /\ job.result \in Text /\ F \in Assigned /\ N \in Assigned
      /\ Len(text) \in Nat /\ job.at > Len(text)
  BY ScopedIs, LenProperties DEF TypeOK, Resolved, StoresFilled, Text
<1>2. from[1] = After(job.result, from[job.at]) /\ job.at \in 1..Len(text) + 1
  BY <1>1 DEF JobMeans
<1> HIDE DEF text, F, N
<1>3. Row(from, text, F, N, job.at)
  BY <1>1, <1>2, FromIs
<1> HIDE DEF from
<1>4. from[job.at] = {<<>>}
  BY <1>1, <1>3 DEF Row
<1>5. job.result \o <<>> = job.result
  <2>1. Cat(job.result, <<>>) = job.result
    BY <1>1, CatNone DEF Text
  <2>2. QED
    BY <2>1 DEF Cat
<1>6. from[1] = {job.result}
  BY <1>2, <1>4, <1>5 DEF After
<1>7. QED
  BY <1>6 DEF Meaning, from, text, F, N

(* A placeholder that is not found leaves the text without one.            *)
LEMMA UnresolvedMeans ==
  ASSUME TypeOK, StoresFilled, JobMeans, Unresolved
  PROVE  Meaning(job.text, Scoped(flow), Scoped(params)) = {}
<1> DEFINE text == job.text
           F == Scoped(flow)
           N == Scoped(params)
           from == From(text, F, N)
           at == job.at
<1>1. /\ stage = "template" /\ text \in Text /\ F \in Assigned /\ N \in Assigned
      /\ Len(text) \in Nat /\ at \in 1..Len(text)
      /\ flow \in Filled /\ params \in Filled /\ job.at \in Nat \ {0}
  BY ScopedIs, LenProperties DEF TypeOK, Unresolved, Resolving, StoresFilled, Text
<1>2. from[1] = After(job.result, from[at])
  BY <1>1 DEF JobMeans
<1>3. Here(text, at, F, N) = {}
  BY <1>1, PieceFound DEF Unresolved
<1> HIDE DEF text, F, N, at
<1>4. Row(from, text, F, N, at) /\ ~ (at > Len(text))
  BY <1>1, FromIs
<1> HIDE DEF from
<1>5. from[at] = {}
  BY <1>3, <1>4 DEF Row, Goes
<1>6. from[1] = {}
  BY <1>2, <1>5 DEF After
<1>7. QED
  BY <1>6 DEF Meaning, from, text, F, N

LEMMA InitMeans == Init => MeansInv
<1> SUFFICES ASSUME Init PROVE MeansInv
  OBVIOUS
<1>1. /\ prog \in [File -> [params : Filled, nodes : SUBSET NodeRec]] /\ cli \in Filled
      /\ flow = <<>> /\ params = <<>> /\ callers = <<>> /\ stage = "merge" /\ i = 1
  BY ScopeAssumption DEF Init
<1>2. DOMAIN callers = {} /\ 1..i - 1 = {}
  BY <1>1, EmptySeq
<1>3. StoresFilled
  BY <1>1, <1>2, NoneFilled DEF StoresFilled
<1>4. QED
  BY <1>1, <1>2, <1>3 DEF MeansInv, MergeMeans, FlowMeans, NodeMeans, JobMeans, CallersMean

(* Who called is the same, and so is what was given.                       *)
LEMMA SameCallers ==
  ASSUME CallersMean, UNCHANGED <<prog, cli, callers>>
  PROVE  CallersMean'
<1>1. \A c, o : Consistent(c, o)' = Consistent(c, o)
  BY DEF Consistent
<1>2. \A k : OuterOf(k)' = OuterOf(k)
  BY DEF OuterOf
<1>3. QED
  BY <1>1, <1>2 DEF CallersMean, Consistent, OuterOf

(* Within a flow, its scope remains.                                       *)
LEMMA SameFlow ==
  ASSUME FlowMeans, UNCHANGED <<prog, cli, callers, file, flow>>, stage \notin {"merge", "failed"}
  PROVE  FlowMeans'
BY DEF FlowMeans, Outer

LEMMA FailMeans ==
  ASSUME MeansInv, UNCHANGED <<prog, cli, scope>>, stage' = "failed"
  PROVE  MeansInv'
<1>1. UNCHANGED <<prog, cli, callers, file, flow, params>>
  BY DEF scope
<1>2. StoresFilled'
  BY <1>1 DEF MeansInv, StoresFilled
<1>3. CallersMean'
  BY <1>1, SameCallers DEF MeansInv
<1>4. QED
  BY <1>2, <1>3 DEF MeansInv, MergeMeans, FlowMeans, NodeMeans, JobMeans

LEMMA MergesMeans ==
  ASSUME TypeOK, LimitInv, MeansInv, Merge \/ Merged
  PROVE  MeansInv'
<1>1. CASE Merged
  <2>1. /\ UNCHANGED <<prog, cli, callers, file, flow, params>> /\ stage = "merge" /\ stage' = "nodes"
        /\ i > Len(Incoming)
    BY <1>1 DEF Merged, scope
  <2>2. Scoped(flow) = Under(prog[file].params, Scoped(Outer))
    BY <2>1, MergedMeans DEF MeansInv
  <2>3. FlowMeans'
    BY <2>1, <2>2 DEF FlowMeans, Outer
  <2>4. CallersMean' /\ StoresFilled'
    BY <2>1, SameCallers DEF MeansInv, StoresFilled
  <2>5. QED
    BY <2>1, <2>3, <2>4 DEF MeansInv, MergeMeans, NodeMeans, JobMeans
<1>2. CASE Merge
  <2>1. CASE HasRoom(flow, Incoming[i].key)
    <3>1. UNCHANGED <<prog, cli, callers>> /\ stage = "merge" /\ stage' = "merge"
      BY <1>2, <2>1 DEF Merge
    <3>2. MergeMeans' /\ StoresFilled'
      BY <1>2, <2>1, MergeMean DEF MeansInv
    <3>3. CallersMean'
      BY <3>1, SameCallers DEF MeansInv
    <3>4. QED
      BY <3>1, <3>2, <3>3 DEF MeansInv, FlowMeans, NodeMeans, JobMeans
  <2>2. CASE ~ HasRoom(flow, Incoming[i].key)
    <3>1. Fail("full")
      BY <1>2, <2>2 DEF Merge
    <3>2. QED
      BY <3>1, FailMeans DEF Fail
  <2>3. QED
    BY <2>1, <2>2
<1>3. QED
  BY <1>1, <1>2

LEMMA EnterMeans ==
  ASSUME TypeOK, MeansInv, NEW n \in prog[file].nodes, EnterNode(n)
  PROVE  MeansInv'
<1>1. /\ node' = n /\ params' = <<>> /\ stage = "nodes" /\ stage' = "collect" /\ i' = 1
      /\ UNCHANGED <<prog, cli, callers, file, flow>>
  BY DEF EnterNode
<1>2. n.params \in Store /\ Len(n.params) \in Nat
  <2>1. n \in NodeRec
    BY DEF TypeOK
  <2>2. QED
    BY <2>1, LenProperties DEF NodeRec, Limited, Store
<1>3. StoresFilled' /\ flow \in Filled
  BY <1>1, NoneFilled DEF MeansInv, StoresFilled
<1>4. Binding(n.params, Scoped(flow))[0] = {Scoped(<<>>)}
  BY <1>2, <1>3, ScopedIs, BindingIs
<1>5. 1 \in 1..Len(n.params) + 1 /\ 1 - 1 = 0
  BY <1>2
<1>6. NodeMeans'
  BY <1>1, <1>4, <1>5 DEF NodeMeans
<1>7. CallersMean' /\ FlowMeans'
  BY <1>1, SameCallers, SameFlow DEF MeansInv
<1>8. QED
  BY <1>1, <1>3, <1>6, <1>7 DEF MeansInv, MergeMeans, JobMeans

(* Steps of resolve_template, and those that only go to another loop.      *)
LEMMA WithinMeans ==
  ASSUME TypeOK, MeansInv, UNCHANGED <<prog, cli, scope, i>>,
         stage \in {"collect", "template", "file", "execs"},
         stage' \in {"collect", "template", "file", "execs", "nodes"}, JobMeans'
  PROVE  MeansInv'
<1>1. UNCHANGED <<prog, cli, callers, file, flow, node, params, i>>
  BY DEF scope
<1>2. CallersMean' /\ FlowMeans'
  BY <1>1, SameCallers, SameFlow DEF MeansInv
<1>3. StoresFilled' /\ NodeMeans'
  BY <1>1 DEF MeansInv, StoresFilled, NodeMeans
<1>4. QED
  BY <1>2, <1>3 DEF MeansInv, MergeMeans

LEMMA LoopMeans ==
  ASSUME TypeOK, LimitInv, MeansInv,
         \/ Collect \/ Exec \/ Started \/ NoExec \/ Literal \/ Grow \/ Expand
         \/ \E input \in BOOLEAN : RunCommand(input)
  PROVE  MeansInv'
<1>1. CASE Collect
  <2>1. /\ stage = "collect" /\ i \in DOMAIN node.params /\ job' = NewJob(node.params[i].value)
        /\ stage' = "template" /\ UNCHANGED <<prog, cli, scope, i>>
    BY <1>1 DEF Collect
  <2>2. /\ node.params[i].value \in Text /\ i <= Len(node.params)
    BY <2>1, TypedNode
  <2>3. flow' \in Filled /\ params' \in Filled /\ node' = node
    BY <2>1 DEF MeansInv, StoresFilled, scope
  <2>4. JobMeans'
    BY <2>1, <2>2, <2>3, JobStarts
  <2>5. QED
    BY <2>1, <2>4, WithinMeans
<1>2. CASE Exec
  <2>1. /\ stage = "execs" /\ job' = NewJob(node.exec)
        /\ stage' = "template" /\ UNCHANGED <<prog, cli, scope, i>>
    BY <1>2 DEF Exec
  <2>2. node.exec \in Text /\ i > Len(node.params)
    BY <2>1, TypedNode DEF LimitInv, Collecting
  <2>3. ~ (i <= Len(node.params))
    BY <2>1, <2>2, TypedNode DEF TypeOK
  <2>4. flow' \in Filled /\ params' \in Filled /\ node' = node
    BY <2>1 DEF MeansInv, StoresFilled, scope
  <2>5. JobMeans'
    BY <2>1, <2>2, <2>3, <2>4, JobStarts
  <2>6. QED
    BY <2>1, <2>5, WithinMeans
<1>3. CASE Started
  <2>1. /\ stage = "collect" /\ stage' \in {"file", "execs"} /\ UNCHANGED <<prog, cli, scope, i>>
    BY <1>3 DEF Started
  <2>2. QED
    BY <2>1, WithinMeans DEF JobMeans
<1>4. CASE NoExec
  <2>1. /\ stage = "execs" /\ stage' = "nodes" /\ UNCHANGED <<prog, cli, scope, i>>
    BY <1>4 DEF NoExec
  <2>2. QED
    BY <2>1, WithinMeans DEF JobMeans
<1>5. CASE \E input \in BOOLEAN : RunCommand(input)
  <2>1. /\ stage = "template" /\ stage' \in {"nodes", "execs"} /\ UNCHANGED <<prog, cli, scope, i>>
    BY <1>5 DEF RunCommand, Resolved
  <2>2. QED
    BY <2>1, WithinMeans DEF JobMeans
<1>6. CASE Literal \/ Grow \/ Expand
  <2>1. /\ stage = "template" /\ stage' = stage /\ UNCHANGED <<prog, cli, scope, i>>
    BY <1>6 DEF Literal, Grow, Expand, Resolving
  <2>2. JobMeans'
    BY <1>6, TemplateMeans DEF MeansInv
  <2>3. QED
    BY <2>1, <2>2, WithinMeans
<1>7. QED
  BY <1>1, <1>2, <1>3, <1>4, <1>5, <1>6

(* A parameter of the node is resolved and stored.                         *)
LEMMA CollectedMeans ==
  ASSUME TypeOK, MeansInv, Collected
  PROVE  MeansInv'
<1> DEFINE p == node.params[i]
           F == Scoped(flow)
           N == Scoped(params)
           b == Binding(node.params, F)
<1>1. /\ stage = "template" /\ Resolved /\ i \in 1..Len(node.params) /\ i \in Nat
      /\ Len(node.params) \in Nat /\ node.params \in Store /\ p.key \in Text /\ job.result \in Text
      /\ flow \in Filled /\ params \in Filled /\ F \in Assigned
  BY TypedNode, ScopedIs DEF Collected, Resolved, TypeOK, MeansInv, StoresFilled
<1>2. CASE HasRoom(params, p.key)
  <2>1. /\ params' = Put(params, p.key, job.result) /\ stage' = "collect" /\ i' = i + 1
        /\ UNCHANGED <<prog, cli, callers, file, flow, node>>
    BY <1>2 DEF Collected
  <2>2. job.text = p.value
    BY <1>1 DEF MeansInv, JobMeans
  <2>3. Meaning(p.value, F, N) = {job.result}
    BY <1>1, <2>2, ResolvedMeans DEF MeansInv
  <2>4. params' \in Filled /\ Scoped(params') = Bound(N, p.key, job.result)
    BY <1>1, <2>1, PutFilled
  <2>5. b[i - 1] = {N} /\ i \in 1..Len(node.params) + 1
    BY <1>1 DEF MeansInv, NodeMeans
  <2>6. b[i] = UNION {Parameter(p, F, s) : s \in b[i - 1]}
    BY <1>1, BindingIs
  <2> HIDE DEF b, p, F, N
  <2>7. b[i] = Parameter(p, F, N)
    BY <2>5, <2>6
  <2>8. b[i] = {Scoped(params')}
    BY <2>3, <2>4, <2>7 DEF Parameter
  <2>9. i' - 1 = i /\ i' \in 1..Len(node.params) + 1
    BY <1>1, <2>1
  <2>10. NodeMeans'
    BY <2>1, <2>8, <2>9 DEF NodeMeans, b, F
  <2>11. CallersMean' /\ FlowMeans'
    BY <1>1, <2>1, SameCallers, SameFlow DEF MeansInv
  <2>12. StoresFilled'
    BY <2>1, <2>4 DEF MeansInv, StoresFilled
  <2>13. QED
    BY <2>1, <2>10, <2>11, <2>12 DEF MeansInv, MergeMeans, JobMeans
<1>3. CASE ~ HasRoom(params, p.key)
  <2>1. Fail("full")
    BY <1>3 DEF Collected
  <2>2. QED
    BY <2>1, FailMeans DEF Fail
<1>4. QED
  BY <1>2, <1>3

LEMMA ExpandFileMeans ==
  ASSUME TypeOK, LimitInv, MeansInv, ExpandFile
  PROVE  MeansInv'
<1> DEFINE c == [file |-> file, flow |-> flow, node |-> node, params |-> params]
           n == Len(callers) + 1
<1>1. /\ callers' = Append(callers, c)
      /\ flow' = <<>> /\ params' = <<>> /\ stage = "file" /\ stage' = "merge" /\ i' = 1
      /\ UNCHANGED <<prog, cli>>
  BY DEF ExpandFile
<1>2. c \in Caller
  BY DEF ExpandFile, TypeOK, Caller
<1>3. i = Len(node.params) + 1
  <2>1. i > Len(node.params) /\ i \in 1..Len(node.params) + 1 /\ Len(node.params) \in Nat
    BY <1>1, TypedNode DEF LimitInv, Collecting, MeansInv, NodeMeans
  <2>2. QED
    BY <2>1
<1>4. Consistent(c, Outer)
  <2>1. Scoped(flow) = Under(prog[file].params, Scoped(Outer))
    BY <1>1 DEF MeansInv, FlowMeans
  <2>2. i - 1 = Len(node.params)
    BY <1>1, <1>3, TypedNode
  <2>3. NodeScope(node.params, Scoped(flow)) = {Scoped(params)}
    BY <1>1, <2>2 DEF MeansInv, NodeMeans, NodeScope
  <2>4. QED
    BY <2>1, <2>3 DEF Consistent
<1>5. c.flow \in Filled /\ c.params \in Filled
  BY DEF MeansInv, StoresFilled
<1> HIDE DEF c
<1>6. /\ Len(callers) \in Nat /\ DOMAIN callers = 1..Len(callers)
      /\ callers \in Seq(Caller) /\ Outer = OuterOf(n)
  BY CallerFacts DEF TypeOK, Caller
<1>7. /\ Len(callers') = n /\ callers'[n] = c
      /\ \A k \in 1..Len(callers) : callers'[k] = callers[k]
      /\ DOMAIN callers' = 1..n
  BY <1>1, <1>2, <1>6, AppendProperties
<1>8. \A k \in 1..n : OuterOf(k)' = OuterOf(k)
  <2> SUFFICES ASSUME NEW k \in 1..n PROVE OuterOf(k)' = OuterOf(k)
    OBVIOUS
  <2>1. k = 1 \/ k - 1 \in 1..Len(callers)
    BY <1>6
  <2>2. QED
    BY <1>1, <1>7, <2>1 DEF OuterOf
<1>9. \A d, o : Consistent(d, o)' = Consistent(d, o)
  BY <1>1 DEF Consistent
<1>10. \A k \in 1..n : k \in 1..Len(callers) \/ k = n
  BY <1>6
<1>11. ASSUME NEW k \in 1..n
       PROVE  /\ Consistent(callers'[k], OuterOf(k))
              /\ callers'[k].flow \in Filled /\ callers'[k].params \in Filled
  <2>1. CASE k \in 1..Len(callers)
    BY <1>6, <1>7, <2>1 DEF MeansInv, CallersMean, StoresFilled
  <2>2. CASE k = n
    BY <1>4, <1>5, <1>6, <1>7, <2>2
  <2>3. QED
    BY <1>10, <2>1, <2>2
<1>12. CallersMean'
  <2>1. ASSUME NEW k \in 1..n
        PROVE  Consistent(callers[k], OuterOf(k))'
    <3>1. PICK d : d = callers'[k]
      OBVIOUS
    <3>2. PICK o : o = OuterOf(k)
      OBVIOUS
    <3>3. OuterOf(k)' = o
      BY <1>8, <3>2
    <3>4. Consistent(d, o)'
      BY <1>9, <1>11, <3>1, <3>2
    <3>5. QED
      BY <3>1, <3>3, <3>4 DEF Consistent
  <2>2. QED
    BY <1>7, <2>1 DEF CallersMean
<1>13. StoresFilled'
  BY <1>1, <1>7, <1>11, NoneFilled DEF MeansInv, StoresFilled
<1>14. MergeMeans'
  <2>1. 1..i' - 1 = {}
    BY <1>1
  <2>2. QED
    BY <2>1 DEF MergeMeans
<1>15. QED
  BY <1>1, <1>12, <1>13, <1>14 DEF MeansInv, FlowMeans, NodeMeans, JobMeans

LEMMA ReturnMeans ==
  ASSUME TypeOK, MeansInv, Return
  PROVE  MeansInv'
<1> DEFINE n == Len(callers)
           c == callers[n]
<1>1. /\ n \in Nat \ {0} /\ DOMAIN callers = 1..n /\ callers \in Seq(Caller)
      /\ c \in Caller
  BY CallerFacts, LastFront DEF Return, TypeOK, Caller
<1>2. /\ callers' = SubSeq(callers, 1, n - 1)
      /\ file' = c.file /\ flow' = c.flow /\ node' = c.node /\ params' = c.params
      /\ stage' = "execs" /\ i' = Len(node'.params) + 1
      /\ stage = "nodes" /\ UNCHANGED <<prog, cli>>
  BY DEF Return, Last, Front
<1>3. Consistent(c, OuterOf(n)) /\ c.flow \in Filled /\ c.params \in Filled
  BY <1>1 DEF MeansInv, CallersMean, StoresFilled
<1> HIDE DEF c
<1>4. /\ Len(callers') = n - 1 /\ \A k \in 1..n - 1 : callers'[k] = callers[k]
      /\ DOMAIN callers' = 1..n - 1
  <2>1. n - 1 \in 0..n
    BY <1>1
  <2>2. callers' \in Seq(Caller) /\ Len(callers') = n - 1
    BY <1>1, <1>2, <2>1, PrefixFacts
  <2>3. QED
    BY <1>1, <1>2, <2>1, <2>2, PrefixFacts, LenProperties
<1>5. \A k \in 1..n : OuterOf(k)' = OuterOf(k)
  <2> SUFFICES ASSUME NEW k \in 1..n PROVE OuterOf(k)' = OuterOf(k)
    OBVIOUS
  <2>1. k = 1 \/ k - 1 \in 1..n - 1
    BY <1>1
  <2>2. QED
    BY <1>2, <1>4, <2>1 DEF OuterOf
<1>6. Outer' = OuterOf(n)
  <2>1. callers' \in Seq(Caller)
    BY ReturnTyped DEF TypeOK, Caller
  <2>2. CASE n = 1
    <3>1. callers' = <<>>
      BY <1>4, <2>1, <2>2, EmptySeq
    <3>2. QED
      BY <1>2, <2>2, <3>1 DEF Outer, OuterOf
  <2>3. CASE n # 1
    <3>1. callers' # <<>> /\ n - 1 \in 1..n - 1
      BY <1>1, <1>4, <2>3, EmptySeq
    <3>2. Last(callers') = callers[n - 1]
      BY <1>4, <3>1 DEF Last
    <3>3. Outer' = callers[n - 1].params
      BY <3>1, <3>2 DEF Outer
    <3> HIDE DEF n
    <3>4. QED
      BY <2>3, <3>3 DEF OuterOf
  <2>4. QED
    BY <2>2, <2>3
<1>7. FlowMeans'
  BY <1>2, <1>3, <1>6 DEF FlowMeans, Consistent
<1>8. NodeMeans'
  <2>1. Len(c.node.params) \in Nat
    BY <1>1, LenProperties DEF Caller, NodeRec, Limited, Store
  <2>2. i' - 1 = Len(c.node.params) /\ i' \in 1..Len(c.node.params) + 1
    BY <1>2, <2>1
  <2>3. Binding(c.node.params, Scoped(c.flow))[Len(c.node.params)] = {Scoped(c.params)}
    BY <1>3 DEF Consistent, NodeScope
  <2>4. QED
    BY <1>2, <2>2, <2>3 DEF NodeMeans
<1>9. \A d, o : Consistent(d, o)' = Consistent(d, o)
  BY <1>2 DEF Consistent
<1>10. ASSUME NEW k \in 1..n - 1
       PROVE  /\ Consistent(callers[k], OuterOf(k))'
              /\ callers'[k].flow \in Filled /\ callers'[k].params \in Filled
  <2>1. k \in 1..n
    BY <1>1
  <2>2. PICK d : d = callers'[k]
    OBVIOUS
  <2>3. PICK o : o = OuterOf(k)
    OBVIOUS
  <2>4. d = callers[k] /\ OuterOf(k)' = o
    BY <1>4, <1>5, <2>1, <2>2, <2>3
  <2>5. Consistent(d, o) /\ d.flow \in Filled /\ d.params \in Filled
    BY <1>1, <2>1, <2>3, <2>4 DEF MeansInv, CallersMean, StoresFilled
  <2>6. Consistent(d, o)'
    BY <1>9, <2>5
  <2>7. QED
    BY <2>2, <2>4, <2>5, <2>6 DEF Consistent
<1>11. CallersMean'
  BY <1>4, <1>10 DEF CallersMean
<1>12. StoresFilled'
  BY <1>2, <1>3, <1>4, <1>10 DEF MeansInv, StoresFilled
<1>13. QED
  BY <1>2, <1>7, <1>8, <1>11, <1>12 DEF MeansInv, MergeMeans, JobMeans

LEMMA MeansStep == TypeOK /\ LimitInv /\ MeansInv /\ [Next]_vars => MeansInv'
<1> SUFFICES ASSUME TypeOK, LimitInv, MeansInv, [Next]_vars PROVE MeansInv'
  OBVIOUS
<1>1. CASE Merge \/ Merged
  BY <1>1, MergesMeans
<1>2. CASE \E n \in prog[file].nodes : EnterNode(n)
  BY <1>2, EnterMeans
<1>3. CASE \/ Collect \/ Exec \/ Started \/ NoExec \/ Literal \/ Grow \/ Expand
           \/ \E input \in BOOLEAN : RunCommand(input)
  BY <1>3, LoopMeans
<1>4. CASE Collected
  BY <1>4, CollectedMeans
<1>5. CASE ExpandFile \/ Return
  BY <1>5, ExpandFileMeans, ReturnMeans
<1>6. CASE Unresolved \/ CommandFails \/ OutOfMemory
  BY <1>6, FailMeans DEF Unresolved, CommandFails, OutOfMemory, Fail
<1>7. CASE Over \/ UNCHANGED vars
  <2>1. UNCHANGED <<prog, cli, callers, file, flow, node, params, stage, i, job>>
    BY <1>7 DEF Over, vars, scope
  <2>2. StoresFilled' /\ NodeMeans' /\ JobMeans'
    BY <2>1 DEF MeansInv, StoresFilled, NodeMeans, JobMeans
  <2>3. CallersMean'
    BY <2>1, SameCallers DEF MeansInv
  <2>4. FlowMeans' /\ MergeMeans'
    BY <2>1 DEF MeansInv, FlowMeans, MergeMeans, Latest, Incoming, Outer
  <2>5. QED
    BY <2>2, <2>3, <2>4 DEF MeansInv
<1>8. QED
  BY <1>1, <1>2, <1>3, <1>4, <1>5, <1>6, <1>7 DEF Next

(* The way to a command: the nodes whose files led to it, and its own.     *)
LEMMA PathIs ==
  ASSUME TypeOK
  PROVE  LET n == Len(callers) IN
         /\ Len(Path) = n + 1 /\ Last(Path) = [file |-> file, node |-> node]
         /\ \A k \in 1..n : Path[k] = [file |-> callers[k].file, node |-> callers[k].node]
<1> DEFINE n == Len(callers)
           S == [file : File, node : NodeRec \cup {Nothing}]
           p == [k \in DOMAIN callers |-> [file |-> callers[k].file, node |-> callers[k].node]]
           q == <<[file |-> file, node |-> node]>>
<1>1. /\ n \in Nat /\ DOMAIN callers = 1..n /\ file \in File /\ node \in NodeRec \cup {Nothing}
      /\ \A k \in DOMAIN callers : callers[k].file \in File /\ callers[k].node \in NodeRec
  BY CallerFacts DEF TypeOK, Caller
<1>2. p \in Seq(S) /\ Len(p) = n
  <2>1. p \in [1..n -> S]
    BY <1>1
  <2>2. p \in Seq(S)
    BY <1>1, <2>1, SeqDef
  <2>3. p \in [1..Len(p) -> S] /\ Len(p) \in Nat
    BY <2>2, LenProperties
  <2>4. 1..n = 1..Len(p)
    BY <2>1, <2>3
  <2> HIDE DEF n, p
  <2>5. QED
    BY <1>1, <2>2, <2>3, <2>4, SameInterval
<1>3. q \in Seq(S) /\ Len(q) = 1 /\ q[1] = [file |-> file, node |-> node]
  BY <1>1
<1>4. Path = p \o q
  BY DEF Path
<1>5. \A k \in 1..n : p[k] = [file |-> callers[k].file, node |-> callers[k].node]
  BY <1>1
<1> HIDE DEF p, q, n, S
<1>6. /\ Len(p \o q) = Len(p) + Len(q)
      /\ \A k \in 1..Len(p) + Len(q) : (p \o q)[k] = IF k <= Len(p) THEN p[k] ELSE q[k - Len(p)]
  BY <1>2, <1>3, ConcatProperties
<1>7. Len(Path) = n + 1 /\ Path[n + 1] = q[1] /\ \A k \in 1..n : Path[k] = p[k]
  <2>1. /\ n + 1 \in 1..n + 1 /\ ~ (n + 1 <= n) /\ n + 1 - n = 1
        /\ \A k \in 1..n : k \in 1..n + 1 /\ k <= n
    BY <1>1
  <2>2. \A k \in 1..n + 1 : (p \o q)[k] = IF k <= n THEN p[k] ELSE q[k - n]
    BY <1>2, <1>3, <1>6
  <2>3. QED
    BY <1>2, <1>3, <1>4, <1>6, <2>1, <2>2
<1>8. Last(Path) = q[1]
  BY <1>7 DEF Last
<1>9. QED
  BY <1>3, <1>5, <1>7, <1>8 DEF n

(* What a caller passes on, its own caller having given it one of gs.      *)
Passed(place, gs) == UNION {NodeScope(place.node.params, Under(prog[place.file].params, g)) : g \in gs}

(* What the callers pass on is what the last of them has.                  *)
LEMMA GivesOuter ==
  ASSUME TypeOK, CallersMean
  PROVE  Gives(prog, cli, Path)[Len(callers)] = {Scoped(Outer)}
<1> DEFINE n == Len(callers)
           path == Path
           base == {Scoped(cli)}
           Table(u) == [d \in 0..Len(path) |-> IF d = 0 THEN base
                          ELSE UNION {NodeScope(path[d].node.params, Under(prog[path[d].file].params, g)) : g \in u[d - 1]}]
           U == CHOOSE u : u = Table(u)
           has(d) == {Scoped(OuterOf(d + 1))}
           t == [d \in 0..n + 1 |-> IF d = n + 1 THEN Passed(path[d], has(n)) ELSE has(d)]
<1>1. /\ n \in Nat /\ Len(path) = n + 1 /\ DOMAIN callers = 1..n /\ Outer = OuterOf(n + 1)
      /\ \A k \in 1..n : path[k] = [file |-> callers[k].file, node |-> callers[k].node]
  BY CallerFacts, PathIs
<1>2. Gives(prog, cli, Path) = U
  BY DEF Gives
<1> HIDE DEF n, path
<1>3. has(0) = base
  BY DEF OuterOf
<1>4. ASSUME NEW k \in 1..n
      PROVE  Passed(path[k], has(k - 1)) = has(k)
  <2> DEFINE c == callers[k]
  <2>1. path[k].node = c.node /\ path[k].file = c.file
    <3>1. path[k] = [file |-> c.file, node |-> c.node]
      BY <1>1
    <3> HIDE DEF c
    <3>2. QED
      BY <3>1
  <2>2. OuterOf(k - 1 + 1) = OuterOf(k) /\ OuterOf(k + 1) = c.params
    <3>1. k - 1 + 1 = k /\ k + 1 # 1 /\ k + 1 - 1 = k
      BY <1>1
    <3>2. OuterOf(k + 1) = callers[k + 1 - 1].params
      BY <3>1 DEF OuterOf
    <3>3. QED
      BY <3>1, <3>2
  <2>3. /\ Scoped(c.flow) = Under(prog[c.file].params, Scoped(OuterOf(k)))
        /\ NodeScope(c.node.params, Scoped(c.flow)) = {Scoped(c.params)}
    BY <1>1 DEF CallersMean, Consistent
  <2> HIDE DEF c
  <2>4. Passed(path[k], has(k - 1)) = NodeScope(c.node.params, Under(prog[c.file].params, Scoped(OuterOf(k))))
    BY <2>1, <2>2 DEF Passed
  <2>5. QED
    BY <2>2, <2>3, <2>4
<1> HIDE DEF has, base
<1>5. \A d \in 0..n + 1 : d = 0 \/ d \in 1..n \/ d = n + 1
  BY <1>1
<1>6. t = [d \in 0..n + 1 |-> IF d = 0 THEN base ELSE Passed(path[d], t[d - 1])]
  <2>1. /\ DOMAIN t = 0..n + 1 /\ t = [d \in 0..n + 1 |-> t[d]]
        /\ t[n + 1] = Passed(path[n + 1], has(n)) /\ \A d \in 0..n : t[d] = has(d)
    <3>1. n + 1 \in 0..n + 1 /\ \A d \in 0..n : d \in 0..n + 1 /\ d # n + 1
      BY <1>1
    <3>2. QED
      BY <3>1
  <2> HIDE DEF t
  <2>2. ASSUME NEW d \in 0..n + 1
        PROVE  t[d] = IF d = 0 THEN base ELSE Passed(path[d], t[d - 1])
    <3>1. CASE d = 0
      <4>1. 0 \in 0..n
        BY <1>1
      <4>2. QED
        BY <1>3, <2>1, <3>1, <4>1
    <3>2. CASE d \in 1..n
      <4>1. d # 0 /\ d \in 0..n /\ d - 1 \in 0..n
        BY <1>1, <3>2
      <4>2. QED
        BY <1>4, <2>1, <3>2, <4>1
    <3>3. CASE d = n + 1
      <4>1. d # 0 /\ d - 1 = n /\ n \in 0..n
        BY <1>1, <3>3
      <4>2. QED
        BY <2>1, <3>3, <4>1
    <3>4. QED
      BY <1>5, <3>1, <3>2, <3>3
  <2>3. QED
    BY <2>1, <2>2
<1>7. \A u : Table(u) = [d \in 0..n + 1 |-> IF d = 0 THEN base ELSE Passed(path[d], u[d - 1])]
  BY <1>1 DEF Passed
<1> HIDE DEF t
<1>8. t = Table(t)
  <2> HIDE DEF Table
  <2>1. QED
    BY <1>6, <1>7
<1>9. U = Table(U)
  <2> HIDE DEF Table
  <2>1. QED
    BY <1>8, Zenon
<1> HIDE DEF U
<1>10. U = [d \in 0..n + 1 |-> IF d = 0 THEN base ELSE Passed(path[d], U[d - 1])]
  <2> HIDE DEF Table
  <2>1. QED
    BY <1>7, <1>9
<1> DEFINE G == {d \in Nat : d <= n => U[d] = has(d)}
<1>11. 0 \in G
  <2>1. 0 \in 0..n + 1
    BY <1>1
  <2>2. U[0] = base
    BY <1>10, <2>1
  <2>3. QED
    BY <1>3, <2>2
<1>12. ASSUME NEW d \in G
       PROVE  d + 1 \in G
  <2>1. CASE d + 1 <= n
    <3>1. d + 1 \in 0..n + 1 /\ d + 1 # 0 /\ d + 1 - 1 = d /\ d + 1 \in 1..n /\ d <= n
      BY <1>1, <2>1
    <3>2. U[d + 1] = Passed(path[d + 1], U[d])
      <4>1. \A k \in 0..n + 1 : k # 0 => U[k] = Passed(path[k], U[k - 1])
        BY <1>10
      <4>2. PICK k : k = d + 1
        OBVIOUS
      <4>3. U[k] = Passed(path[k], U[k - 1]) /\ k - 1 = d
        BY <3>1, <4>1, <4>2
      <4>4. QED
        BY <4>2, <4>3
    <3>3. U[d] = has(d)
      BY <3>1
    <3>4. Passed(path[d + 1], has(d)) = has(d + 1)
      BY <1>4, <3>1
    <3>5. QED
      BY <3>2, <3>3, <3>4
  <2>2. CASE ~ (d + 1 <= n)
    BY <2>2
  <2>3. QED
    BY <2>1, <2>2
<1>13. U[n] = has(n)
  <2>1. G \in SUBSET Nat
    OBVIOUS
  <2> HIDE DEF G
  <2>2. G = Nat
    BY <1>11, <1>12, <2>1, FromZero
  <2>3. n \in G
    BY <1>1, <2>2
  <2>4. n <= n
    BY <1>1
  <2>5. QED
    BY <2>3, <2>4 DEF G
<1>14. QED
  BY <1>1, <1>2, <1>13 DEF has, n

(* A node being run is in the scope of its flow, and in what its parameters*)
(* mean there.                                                             *)
LEMMA ScopesMean ==
  ASSUME TypeOK, MeansInv, stage \in {"collect", "template", "file", "execs"}
  PROVE  Scopes(prog, cli, Path) = {[flow |-> Scoped(flow), node |-> m] :
                           m \in NodeScope(node.params, Scoped(flow))}
<1> DEFINE d == prog[file].params
           g == Scoped(Outer)
<1>1. Gives(prog, cli, Path)[Len(callers)] = {g}
  BY GivesOuter DEF MeansInv
<1>2. /\ Len(Path) - 1 = Len(callers) /\ Last(Path).file = file /\ Last(Path).node = node
  <2>1. Len(callers) \in Nat
    BY CallerFacts
  <2>2. Len(Path) = Len(callers) + 1 /\ Last(Path) = [file |-> file, node |-> node]
    BY PathIs
  <2>3. QED
    BY <2>1, <2>2
<1>3. Under(d, g) = Scoped(flow)
  BY DEF MeansInv, FlowMeans
<1> HIDE DEF d, g
<1>4. Scopes(prog, cli, Path) = UNION {{[flow |-> Under(d, x), node |-> m] :
                               m \in NodeScope(node.params, Under(d, x))} : x \in {g}}
  BY <1>1, <1>2 DEF Scopes, d
<1>5. QED
  BY <1>3, <1>4

(* The scopes of a command are those of its place.                         *)
LEMMA CommandScopes ==
  ASSUME TypeOK, MeansInv, stage = "template", i > Len(node.params)
  PROVE  Scopes(prog, cli, Path) = {[flow |-> Scoped(flow), node |-> Scoped(params)]}
<1>1. i \in 1..Len(node.params) + 1 /\ Len(node.params) \in Nat
  BY TypedNode DEF MeansInv, NodeMeans
<1>2. i - 1 = Len(node.params)
  BY <1>1
<1>3. NodeScope(node.params, Scoped(flow)) = {Scoped(params)}
  BY <1>2 DEF MeansInv, NodeMeans, NodeScope
<1>4. QED
  BY <1>3, ScopesMean

(* A command that is run says what its text means.                         *)
(* What is said of a command that was run, and of a placeholder at which   *)
(* the run stopped.                                                        *)
TextMeant(files, set, t) == t # Nothing =>
  \E s \in Scopes(files, set, t.path) : t.text \in Meaning(Last(t.path).node.exec, s.flow, s.node)
Stuck(files, set, path, text) ==
  \A s \in Scopes(files, set, path) : Meaning(text, s.flow, s.node) = {}

LEMMA RunMeant ==
  ASSUME TypeOK, LimitInv, MeansInv, NEW input \in BOOLEAN, RunCommand(input)
  PROVE  ResolvesAsMeant'
<1>1. /\ stage = "template" /\ Resolved /\ i > Len(node.params)
      /\ told' = [path |-> Path, text |-> job.result, input |-> input, env |-> Environment(input)]
      /\ UNCHANGED <<prog, cli, cause>>
  BY DEF RunCommand, Resolved
<1>2. cause' # "unresolved"
  BY <1>1 DEF LimitInv, Refused
<1>3. Scopes(prog, cli, Path) = {[flow |-> Scoped(flow), node |-> Scoped(params)]}
  BY <1>1, CommandScopes
<1>4. Meaning(node.exec, Scoped(flow), Scoped(params)) = {job.result}
  <2>1. ~ (i <= Len(node.params))
    BY <1>1, TypedNode DEF TypeOK
  <2>2. job.text = node.exec
    BY <1>1, <2>1 DEF MeansInv, JobMeans
  <2>3. Meaning(job.text, Scoped(flow), Scoped(params)) = {job.result}
    BY <1>1, ResolvedMeans DEF MeansInv
  <2>4. QED
    BY <2>2, <2>3
<1>5. Last(Path).node = node
  BY PathIs
<1>6. TextMeant(prog, cli, told')
  <2> DEFINE t == told'
          s == [flow |-> Scoped(flow), node |-> Scoped(params)]
  <2>1. t.path = Path /\ t.text = job.result
    BY <1>1
  <2>2. s \in Scopes(prog, cli, t.path)
    BY <1>3, <2>1
  <2>3. t.text \in Meaning(Last(t.path).node.exec, s.flow, s.node)
    BY <1>4, <1>5, <2>1
  <2> HIDE DEF s, t
  <2>4. TextMeant(prog, cli, t)
    BY <2>2, <2>3 DEF TextMeant
  <2>5. QED
    BY <2>4 DEF t
<1>7. QED
  BY <1>1, <1>2, <1>6 DEF TextMeant, ResolvesAsMeant

(* A run that stops for a placeholder: it, or an earlier one, means nothing.*)
LEMMA StopMeant ==
  ASSUME TypeOK, LimitInv, MeansInv, Unresolved
  PROVE  Stuck(prog, cli, Path, node.exec)
<1> DEFINE F == Scoped(flow)
           N == Scoped(params)
           p == node.params[i]
<1>1. stage = "template" /\ flow \in Filled /\ params \in Filled
  BY DEF Unresolved, Resolving, MeansInv, StoresFilled
<1>2. /\ Len(node.params) \in Nat /\ node.params \in Store
      /\ i \in 1..Len(node.params) + 1
      /\ Binding(node.params, F)[i - 1] = {N}
      /\ job.text = IF i <= Len(node.params) THEN p.value ELSE node.exec
  BY <1>1, TypedNode DEF MeansInv, NodeMeans, JobMeans
<1>3. Meaning(job.text, F, N) = {}
  BY UnresolvedMeans DEF MeansInv
<1>4. CASE i <= Len(node.params)
  <2>1. i \in 1..Len(node.params) /\ F \in Assigned
    BY <1>1, <1>2, <1>4, ScopedIs
  <2> HIDE DEF F, N
  <2>2. Binding(node.params, F)[i] = UNION {Parameter(p, F, s) : s \in Binding(node.params, F)[i - 1]}
    <3>1. \A k \in 1..Len(node.params) :
            Binding(node.params, F)[k]
              = UNION {Parameter(node.params[k], F, s) : s \in Binding(node.params, F)[k - 1]}
      BY <1>2, <2>1, BindingIs
    <3>2. QED
      BY <2>1, <3>1
  <2> HIDE DEF p
  <2>3. Parameter(p, F, N) = {}
    BY <1>2, <1>3, <1>4 DEF Parameter
  <2>4. Binding(node.params, F)[i] = {}
    BY <1>2, <2>2, <2>3
  <2>5. i \in 0..Len(node.params)
    BY <1>2, <2>1
  <2>6. NodeScope(node.params, F) = {}
    BY <1>2, <2>1, <2>4, <2>5, BindingStops
  <2>7. Scopes(prog, cli, Path) = {}
    BY <1>1, <2>6, ScopesMean DEF F
  <2>8. QED
    BY <2>7 DEF Stuck
<1>5. CASE ~ (i <= Len(node.params))
  <2>1. i > Len(node.params)
    BY <1>2, <1>5
  <2>2. Scopes(prog, cli, Path) = {[flow |-> F, node |-> N]}
    BY <1>1, <2>1, CommandScopes
  <2>3. Meaning(node.exec, F, N) = {}
    BY <1>2, <1>3, <1>5
  <2> HIDE DEF F, N
  <2>4. QED
    BY <2>2, <2>3 DEF Stuck
<1>6. QED
  BY <1>4, <1>5

LEMMA StopsMeant ==
  ASSUME TypeOK, LimitInv, MeansInv, ResolvesAsMeant, Unresolved
  PROVE  ResolvesAsMeant'
<1>1. UNCHANGED <<prog, cli, callers, file, node, told>> /\ Path' = Path
  BY DEF Unresolved, Fail, scope, Path
<1>2. Stuck(prog, cli, Path, node.exec)
  BY StopMeant
<1>3. QED
  BY <1>1, <1>2 DEF Stuck, ResolvesAsMeant

(* Steps that run no command and do not stop at a placeholder.             *)
LEMMA OtherSteps ==
  ASSUME TypeOK, LimitInv, [Next]_vars
  PROVE  \/ \E input \in BOOLEAN : RunCommand(input)
         \/ Unresolved /\ UNCHANGED told
         \/ /\ told' \in {told, Nothing} /\ cause' # "unresolved"
            /\ UNCHANGED <<prog, cli>>
         \/ UNCHANGED <<prog, cli, callers, file, node, told, cause>>
<1>1. cause # "none" => stage = "failed"
  BY DEF LimitInv, Refused
<1>2. CASE \/ Merge \/ Merged \/ Collected
  BY <1>1, <1>2 DEF Merge, Merged, Collected, Resolved, Fail
<1>3. CASE \/ \E n \in prog[file].nodes : EnterNode(n)
           \/ Collect \/ Literal \/ Grow \/ Expand
           \/ Started \/ ExpandFile \/ Return \/ NoExec \/ Exec
  BY <1>1, <1>3 DEF EnterNode, Collect, Literal, Grow, Expand, Resolving, Started,
       ExpandFile, Return, NoExec, Exec
<1>4. CASE CommandFails \/ OutOfMemory
  BY <1>4 DEF CommandFails, OutOfMemory, Fail
<1>5. CASE Unresolved
  BY <1>5 DEF Unresolved, Fail
<1>6. CASE Over \/ UNCHANGED vars
  BY <1>6 DEF Over, vars, scope
<1>7. QED
  BY <1>2, <1>3, <1>4, <1>5, <1>6 DEF Next

LEMMA ResolvesStep ==
  TypeOK /\ LimitInv /\ MeansInv /\ ResolvesAsMeant /\ [Next]_vars => ResolvesAsMeant'
<1> SUFFICES ASSUME TypeOK, LimitInv, MeansInv, ResolvesAsMeant, [Next]_vars
             PROVE  ResolvesAsMeant'
  OBVIOUS
<1>1. CASE \E input \in BOOLEAN : RunCommand(input)
  BY <1>1, RunMeant
<1>2. CASE Unresolved
  BY <1>2, StopsMeant
<1>3. CASE told' \in {told, Nothing} /\ cause' # "unresolved" /\ UNCHANGED <<prog, cli>>
  BY <1>3 DEF ResolvesAsMeant
<1>4. CASE UNCHANGED <<prog, cli, callers, file, node, told, cause>>
  BY <1>4 DEF ResolvesAsMeant, Path
<1>5. QED
  BY <1>1, <1>2, <1>3, <1>4, OtherSteps

(* A command is the text of its node's exec, resolved once, in the scopes  *)
(* of its node and flow, however deep and after whatever expansions; a run *)
(* stops for a placeholder only if one means nothing.                      *)
THEOREM CommandsAreMeant == Spec => []ResolvesAsMeant
<1> DEFINE Inv == TypeOK /\ LimitInv /\ MeansInv /\ ResolvesAsMeant
<1>1. Init => Inv
  BY InitTyped, InitLimit, InitMeans DEF Init, ResolvesAsMeant
<1>2. Inv /\ [Next]_vars => Inv'
  BY StepTyped, StepLimit, MeansStep, ResolvesStep
<1>3. QED
  BY <1>1, <1>2, PTL DEF Spec

(* The variables one family of a store is exported under.                  *)
Variables(family, store) == {<<family, Suffix(k)>> : k \in Keys(store)}

(* An export adds them, each with the value of a parameter of that name.   *)
Adds(e, family, store, env) ==
  /\ DOMAIN e = DOMAIN env \cup Variables(family, store)
  /\ \A v \in Variables(family, store) :
       \E k \in Keys(store) : v = <<family, Suffix(k)>> /\ e[v] = Scoped(store)[k]
  /\ \A v \in DOMAIN env \ Variables(family, store) : e[v] = env[v]

LEMMA ExportIs ==
  ASSUME NEW family, NEW store \in Filled, NEW env
  PROVE  Adds(Exported(family, store, env), family, store, env)
<1> DEFINE variable(k) == <<family, Suffix(store[k].key)>>
           variables == {variable(k) : k \in DOMAIN store}
           of(v) == {k \in DOMAIN store : variable(k) = v}
           e == Exported(family, store, env)
<1>1. /\ Len(store) \in Nat /\ DOMAIN store = 1..Len(store)
      /\ \A k \in DOMAIN store : store[k].key \in Keys(store) /\ Scoped(store)[store[k].key] = store[k].value
  BY LenProperties, ScopedIs DEF Filled, Store
<1>2. variables = Variables(family, store)
  BY DEF Variables, Keys
<1>3. e = [v \in DOMAIN env \cup variables |->
             IF v \in variables THEN store[Max(of(v))].value ELSE env[v]]
  BY DEF Exported
<1>4. ASSUME NEW v \in variables
      PROVE  Max(of(v)) \in DOMAIN store /\ variable(Max(of(v))) = v
  <2>1. of(v) \in SUBSET Nat /\ of(v) # {} /\ \A k \in of(v) : k <= Len(store)
    BY <1>1
  <2> HIDE DEF of
  <2>2. PICK m \in of(v) : \A k \in of(v) : k <= m
    BY <1>1, <2>1, Greatest
  <2>3. Max(of(v)) = m
    BY <2>1, <2>2, MaxIs
  <2>4. Max(of(v)) \in of(v)
    BY <2>2, <2>3
  <2> HIDE DEF variable
  <2>5. QED
    BY <2>4 DEF of
<1> HIDE DEF e, variables, of
<1>5. ASSUME NEW v \in variables
      PROVE  \E k \in Keys(store) : v = <<family, Suffix(k)>> /\ e[v] = Scoped(store)[k]
  <2>1. PICK m : m = Max(of(v))
    OBVIOUS
  <2>2. m \in DOMAIN store /\ v = <<family, Suffix(store[m].key)>>
    BY <1>4, <2>1
  <2>3. e[v] = store[m].value
    BY <1>3, <2>1
  <2>4. QED
    BY <1>1, <2>2, <2>3
<1>6. /\ DOMAIN e = DOMAIN env \cup variables
      /\ \A v \in DOMAIN env \ variables : e[v] = env[v]
  BY <1>3
<1>7. QED
  BY <1>2, <1>5, <1>6 DEF e, Adds

(* A command's environment, in the words of EnvironmentIsOwn.              *)
EnvironmentMeant(files, set, t) == t # Nothing =>
  \E s \in Scopes(files, set, t.path) :
    LET own(family) == IF family = "FLOW_PARAM" THEN s.flow ELSE s.node
        families    == {"FLOW_PARAM", "NODE_PARAM", "PARAM"}
        exported    == UNION {{<<f, Suffix(k)>> : k \in DOMAIN own(f)} : f \in families}
        others      == {FlowFile} \cup (IF t.input THEN {FdIn} ELSE {})
    IN  /\ DOMAIN t.env = DOMAIN Inherited \cup exported \cup others
        /\ t.env[FlowFile] = Last(t.path).file
        /\ t.input => t.env[FdIn] = "own"
        /\ \A v \in exported : \E k \in DOMAIN own(v[1]) :
             Suffix(k) = v[2] /\ t.env[v] = own(v[1])[k]
        /\ \A v \in DOMAIN Inherited \ (exported \cup others) : t.env[v] = Inherited[v]

LEMMA EnvironmentIs ==
  ASSUME flow \in Filled, params \in Filled, NEW input \in BOOLEAN
  PROVE  LET E == Environment(input)
             F == Variables("FLOW_PARAM", flow)
             N == Variables("NODE_PARAM", params) \cup Variables("PARAM", params)
             O == {FlowFile} \cup (IF input THEN {FdIn} ELSE {})
         IN  /\ DOMAIN E = DOMAIN Inherited \cup F \cup N \cup O
             /\ E[FlowFile] = file /\ (input => E[FdIn] = "own")
             /\ \A v \in F : \E k \in Keys(flow) :
                  v = <<"FLOW_PARAM", Suffix(k)>> /\ E[v] = Scoped(flow)[k]
             /\ \A v \in N : \E k \in Keys(params) :
                  v[2] = Suffix(k) /\ E[v] = Scoped(params)[k]
             /\ \A v \in DOMAIN Inherited \ (F \cup N \cup O) : E[v] = Inherited[v]
<1> DEFINE O == {FlowFile} \cup (IF input THEN {FdIn} ELSE {})
           env == [v \in DOMAIN Inherited \cup O |->
                     IF v \notin O THEN Inherited[v] ELSE IF v = FdIn THEN "own" ELSE file]
           a == Exported("FLOW_PARAM", flow, env)
           b == Exported("NODE_PARAM", params, a)
           E == Exported("PARAM", params, b)
           F == Variables("FLOW_PARAM", flow)
           M == Variables("NODE_PARAM", params)
           P == Variables("PARAM", params)
<1>1. Environment(input) = E
  BY DEF Environment
<1>2. /\ FlowFile # FdIn
      /\ DOMAIN env = DOMAIN Inherited \cup O /\ env[FlowFile] = file /\ (input => env[FdIn] = "own")
      /\ \A v \in DOMAIN Inherited \ O : env[v] = Inherited[v]
  BY DEF FlowFile, FdIn
<1>3. /\ \A v \in F : v[1] = "FLOW_PARAM" /\ v = <<v[1], v[2]>>
      /\ \A v \in M : v[1] = "NODE_PARAM"
      /\ \A v \in P : v[1] = "PARAM"
      /\ \A v \in O : v[1] \in {"FILE", "FD_IN"}
  BY DEF Variables, FlowFile, FdIn
<1>4. /\ DOMAIN a = DOMAIN env \cup F /\ DOMAIN b = DOMAIN a \cup M /\ DOMAIN E = DOMAIN b \cup P
      /\ \A v \in F : \E k \in Keys(flow) : v = <<"FLOW_PARAM", Suffix(k)>> /\ a[v] = Scoped(flow)[k]
      /\ \A v \in M : \E k \in Keys(params) : v = <<"NODE_PARAM", Suffix(k)>> /\ b[v] = Scoped(params)[k]
      /\ \A v \in P : \E k \in Keys(params) : v = <<"PARAM", Suffix(k)>> /\ E[v] = Scoped(params)[k]
      /\ \A v \in DOMAIN env \ F : a[v] = env[v]
      /\ \A v \in DOMAIN a \ M : b[v] = a[v]
      /\ \A v \in DOMAIN b \ P : E[v] = b[v]
  <2> HIDE DEF env
  <2>1. Adds(a, "FLOW_PARAM", flow, env)
    BY ExportIs
  <2> HIDE DEF a
  <2>2. Adds(b, "NODE_PARAM", params, a)
    BY ExportIs
  <2> HIDE DEF b
  <2>3. Adds(E, "PARAM", params, b)
    BY ExportIs
  <2> HIDE DEF E
  <2>4. QED
    BY <2>1, <2>2, <2>3 DEF Adds
<1>5. FlowFile \in O /\ (input => FdIn \in O)
  OBVIOUS
<1> HIDE DEF O, env, a, b, E, F, M, P
<1>6. /\ \A v \in F : v \notin M /\ v \notin P
      /\ \A v \in M : v \notin P
      /\ \A v \in O : v \notin F /\ v \notin M /\ v \notin P
  BY <1>3
<1>7. /\ DOMAIN E = DOMAIN Inherited \cup F \cup (M \cup P) \cup O
      /\ E[FlowFile] = file /\ (input => E[FdIn] = "own")
      /\ \A v \in DOMAIN Inherited \ (F \cup (M \cup P) \cup O) : E[v] = Inherited[v]
  BY <1>2, <1>4, <1>5, <1>6
<1>8. \A v \in F : \E k \in Keys(flow) : v = <<"FLOW_PARAM", Suffix(k)>> /\ E[v] = Scoped(flow)[k]
  BY <1>4, <1>6
<1>9. ASSUME NEW v \in M \cup P
      PROVE  \E k \in Keys(params) : v[2] = Suffix(k) /\ E[v] = Scoped(params)[k]
  <2>1. CASE v \in M
    <3>1. PICK k \in Keys(params) : v = <<"NODE_PARAM", Suffix(k)>> /\ b[v] = Scoped(params)[k]
      BY <1>4, <2>1
    <3>2. E[v] = b[v] /\ v[2] = Suffix(k)
      BY <1>4, <1>6, <2>1, <3>1
    <3>3. QED
      BY <3>1, <3>2
  <2>2. CASE v \in P
    <3>1. PICK k \in Keys(params) : v = <<"PARAM", Suffix(k)>> /\ E[v] = Scoped(params)[k]
      BY <1>4, <2>2
    <3>2. QED
      BY <3>1
  <2>3. QED
    BY <2>1, <2>2
<1>10. QED
  BY <1>1, <1>7, <1>8, <1>9 DEF F, M, P, O

(* The environment of a command that is run.                               *)
LEMMA RunOwn ==
  ASSUME TypeOK, LimitInv, MeansInv, NEW input \in BOOLEAN, RunCommand(input)
  PROVE  EnvironmentIsOwn'
<1> DEFINE t == told'
           s == [flow |-> Scoped(flow), node |-> Scoped(params)]
           E == Environment(input)
           own(f) == IF f = "FLOW_PARAM" THEN s.flow ELSE s.node
           families == {"FLOW_PARAM", "NODE_PARAM", "PARAM"}
           exported == UNION {{<<f, Suffix(k)>> : k \in DOMAIN own(f)} : f \in families}
           F == Variables("FLOW_PARAM", flow)
           N == Variables("NODE_PARAM", params) \cup Variables("PARAM", params)
           O == {FlowFile} \cup (IF input THEN {FdIn} ELSE {})
<1>1. /\ stage = "template" /\ i > Len(node.params)
      /\ t.path = Path /\ t.input = input /\ t.env = E
      /\ UNCHANGED <<prog, cli>> /\ flow \in Filled /\ params \in Filled
  BY DEF RunCommand, Resolved, MeansInv, StoresFilled
<1>2. s \in Scopes(prog, cli, t.path) /\ Last(t.path).file = file
  BY <1>1, CommandScopes, PathIs
<1>3. /\ DOMAIN E = DOMAIN Inherited \cup F \cup N \cup O
      /\ E[FlowFile] = file /\ (input => E[FdIn] = "own")
      /\ \A v \in F : \E k \in Keys(flow) :
           v = <<"FLOW_PARAM", Suffix(k)>> /\ E[v] = Scoped(flow)[k]
      /\ \A v \in N : \E k \in Keys(params) :
           v[2] = Suffix(k) /\ E[v] = Scoped(params)[k]
      /\ \A v \in DOMAIN Inherited \ (F \cup N \cup O) : E[v] = Inherited[v]
  <2> HIDE DEF E
  <2>1. QED
    BY <1>1, EnvironmentIs DEF E
<1>4. DOMAIN s.flow = Keys(flow) /\ DOMAIN s.node = Keys(params) /\ s.flow = Scoped(flow) /\ s.node = Scoped(params)
  BY <1>1, ScopedIs
<1> HIDE DEF s, E, t
<1>5. /\ own("FLOW_PARAM") = s.flow /\ own("NODE_PARAM") = s.node /\ own("PARAM") = s.node
      /\ \A v \in F : v[1] = "FLOW_PARAM" /\ own(v[1]) = s.flow
      /\ \A v \in N : v[1] \in {"NODE_PARAM", "PARAM"} /\ own(v[1]) = s.node
  BY DEF Variables
<1>6. exported = F \cup N
  <2>1. /\ F = {<<"FLOW_PARAM", Suffix(k)>> : k \in DOMAIN own("FLOW_PARAM")}
        /\ N = {<<"NODE_PARAM", Suffix(k)>> : k \in DOMAIN own("NODE_PARAM")}
                 \cup {<<"PARAM", Suffix(k)>> : k \in DOMAIN own("PARAM")}
    BY <1>4, <1>5 DEF Variables
  <2> HIDE DEF own, F, N
  <2>2. QED
    BY <2>1
<1>7. ASSUME NEW v \in F \cup N
      PROVE  \E k \in DOMAIN own(v[1]) : Suffix(k) = v[2] /\ E[v] = own(v[1])[k]
  <2> HIDE DEF own, F, N
  <2>1. CASE v \in F
    <3>1. PICK k \in Keys(flow) : v = <<"FLOW_PARAM", Suffix(k)>> /\ E[v] = Scoped(flow)[k]
      BY <1>3, <2>1
    <3>2. own(v[1]) = s.flow /\ v[2] = Suffix(k)
      BY <1>5, <2>1, <3>1
    <3>3. QED
      BY <1>4, <3>1, <3>2
  <2>2. CASE v \in N
    <3>1. PICK k \in Keys(params) : v[2] = Suffix(k) /\ E[v] = Scoped(params)[k]
      BY <1>3, <2>2
    <3>2. own(v[1]) = s.node
      BY <1>5, <2>2
    <3>3. QED
      BY <1>4, <3>1, <3>2
  <2>3. QED
    BY <2>1, <2>2
<1> HIDE DEF F, N
<1>8. /\ DOMAIN t.env = DOMAIN Inherited \cup exported \cup O
      /\ t.env[FlowFile] = Last(t.path).file /\ (t.input => t.env[FdIn] = "own")
      /\ \A v \in exported : \E k \in DOMAIN own(v[1]) : Suffix(k) = v[2] /\ t.env[v] = own(v[1])[k]
      /\ \A v \in DOMAIN Inherited \ (exported \cup O) : t.env[v] = Inherited[v]
  <2> HIDE DEF exported, own, O
  <2>1. QED
    BY <1>1, <1>2, <1>3, <1>6, <1>7
<1>9. O = {FlowFile} \cup (IF t.input THEN {FdIn} ELSE {})
  BY <1>1
<1>10. EnvironmentMeant(prog, cli, t)
  <2> HIDE DEF O
  <2>1. QED
    BY <1>2, <1>8, <1>9 DEF EnvironmentMeant
<1>11. QED
  BY <1>1, <1>10 DEF EnvironmentMeant, EnvironmentIsOwn, t

LEMMA OwnStep ==
  TypeOK /\ LimitInv /\ MeansInv /\ EnvironmentIsOwn /\ [Next]_vars => EnvironmentIsOwn'
<1> SUFFICES ASSUME TypeOK, LimitInv, MeansInv, EnvironmentIsOwn, [Next]_vars
             PROVE  EnvironmentIsOwn'
  OBVIOUS
<1>1. CASE \E input \in BOOLEAN : RunCommand(input)
  BY <1>1, RunOwn
<1>2. CASE told' \in {told, Nothing} /\ UNCHANGED <<prog, cli>>
  <2>1. EnvironmentMeant(prog, cli, told)
    BY DEF EnvironmentIsOwn, EnvironmentMeant
  <2>2. EnvironmentMeant(prog', cli', told')
    BY <1>2, <2>1 DEF EnvironmentMeant
  <2>3. QED
    BY <2>2 DEF EnvironmentIsOwn, EnvironmentMeant
<1>3. CASE Unresolved
  <2>1. told' = told /\ UNCHANGED <<prog, cli>>
    BY <1>3 DEF Unresolved, Fail
  <2>2. QED
    BY <1>2, <2>1
<1>4. QED
  BY <1>1, <1>2, <1>3, OtherSteps

(* The variables of a command's parameters are those of its own node and   *)
(* flow, however deep, and every other is as kc-flow was started with it.  *)
THEOREM EnvironmentsAreOwn == Spec => []EnvironmentIsOwn
<1> DEFINE Inv == TypeOK /\ LimitInv /\ MeansInv /\ EnvironmentIsOwn
<1>1. Init => Inv
  BY InitTyped, InitLimit, InitMeans DEF Init, EnvironmentIsOwn
<1>2. Inv /\ [Next]_vars => Inv'
  BY StepTyped, StepLimit, MeansStep, OwnStep
<1>3. QED
  BY <1>1, <1>2, PTL DEF Spec
=============================================================================

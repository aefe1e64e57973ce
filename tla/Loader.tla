------------------------------- MODULE Loader -------------------------------
(***************************************************************************)
(* kc_flow_load_file (load.c) over the stores of model.c: a flow file is   *)
(* read record by record into a model, which is validated at its end; then *)
(* the caller uses the model and frees it.  Any allocation can fail, and   *)
(* every store has a limit.                                                *)
(*                                                                         *)
(* A record is what a trimmed line says, strings are members of small sets *)
(* and the heap is the number of live strings: what the model owns is      *)
(* counted from the model, so the two differ when a string is lost or      *)
(* freed twice.                                                            *)
(***************************************************************************)
EXTENDS FlowGraph, ParamStore, SequencesExt, FiniteSetsExt

CONSTANTS
  Key,            \* parameter names
  Text,           \* values of id, file, exec and parameters, not empty
  NoText,         \* the empty string
  Null,           \* the null pointer
  MaxNodes,       \* KC_FLOW_MAX_NODES
  MaxLinks,       \* KC_FLOW_MAX_LINKS
  Files           \* files to load

(* "invalid" has no '=' or no key; "unknown" a key of no scope; "bad_ref"  *)
(* a node key without a reference or field, or with too long a reference;  *)
(* "bad_field" a node key with an unknown field.                           *)
NodeKinds == {"file", "exec", "link", "node_param", "bad_field"}
Kinds == {"blank", "invalid", "unknown", "bad_ref", "id", "entry", "param"} \cup NodeKinds

Value == Text \cup {NoText}

Record ==
  {r \in [kind : Kinds, ref : Ref \cup {Null}, key : Key \cup {Null}, value : Value \cup Ref] :
     /\ r.kind \in NodeKinds => r.ref \in Ref
     /\ r.kind \in {"entry", "link"} => r.value \in Ref
     /\ r.kind \in {"param", "node_param"} => r.key \in Key
     /\ r.kind \in {"id", "file", "exec", "param", "node_param"} => r.value \in Value}

ASSUME LoaderAssumption ==
  /\ MaxNodes \in Nat \ {0} /\ MaxLinks \in Nat \ {0}
  /\ NoText \notin Text /\ Null \notin Value \cup Ref
  /\ \A f \in Files : f \in Seq(Record)

VARIABLES
  file,      \* the records of the file
  pos,       \* the record read next
  model,     \* kc_flow_model
  half,      \* strings of a parameter that is not yet in its store
  live,      \* strings allocated and not freed
  verdict,   \* the phase, then "ok", "invalid" (validation) or "failed"
  error,     \* the caller's buffer: "unset", "text", or text read after free
  fault,     \* history: which failure of the environment the load met
  caller     \* "none" until the load returned, then who had called it

vars == <<file, pos, model, half, live, verdict, error, fault, caller>>

NewNode(ref) ==
  [ref |-> ref, file |-> Null, exec |-> Null, params |-> <<>>, links |-> <<>>]

Empty == [id |-> Null, params |-> <<>>, entry |-> <<>>, nodes |-> <<>>]

Init ==
  /\ file \in Files /\ pos = 1
  /\ model = Empty /\ half = 0 /\ live = 0
  /\ verdict = "opening" /\ error = "unset"
  /\ fault = "none" /\ caller = "none"

----------------------------------------------------------------------------
(* The stores (model.c)                                                    *)

(* How many strings more it leaves allocated.                              *)
Strings(store, key) == IF HasKey(store, key) THEN 0 ELSE 2

(* How many it has got when strdup fails: of a new key and its value the   *)
(* other may have been copied.                                             *)
Got(store, key) == IF HasKey(store, key) THEN {0} ELSE {0, 1}

(* free of the old string, strdup of the new one.                          *)
Replaced(old) == IF old = Null THEN 1 ELSE 0

Declared(ref) == \E k \in DOMAIN model.nodes : model.nodes[k].ref = ref

(* kc_flow_model_ensure_node: the nodes with ref among them.               *)
Ensured(ref) ==
  IF Declared(ref) THEN model.nodes ELSE Append(model.nodes, NewNode(ref))
Created(ref) == IF Declared(ref) THEN 0 ELSE 1
CanEnsure(ref) == Declared(ref) \/ Len(model.nodes) < MaxNodes
Find(nodes, ref) == CHOOSE k \in DOMAIN nodes : nodes[k].ref = ref

(* What kc_flow_model_free frees.                                          *)
Set(string) == IF string = Null THEN 0 ELSE 1

InNode(n) ==
  Set(n.ref) + Set(n.file) + Set(n.exec) + 2 * Len(n.params) + Len(n.links)

InNodes(nodes) ==
  LET upTo[k \in 0..Len(nodes)] == IF k = 0 THEN 0 ELSE upTo[k - 1] + InNode(nodes[k])
  IN  upTo[Len(nodes)]

Owned(m) == Set(m.id) + 2 * Len(m.params) + Len(m.entry) + InNodes(m.nodes)

----------------------------------------------------------------------------
(* The loop over the lines                                                 *)

Opened ==
  /\ verdict = "opening"
  /\ verdict' = "reading"
  /\ UNCHANGED <<file, pos, model, half, live, error, fault, caller>>

CannotOpen ==
  /\ verdict = "opening"
  /\ verdict' = "failed" /\ error' = "text"
  /\ fault' = "open"
  /\ UNCHANGED <<file, pos, model, half, live, caller>>

Reading == verdict = "reading" /\ pos \in DOMAIN file
Line == file[pos]

(* The limits a record meets in the model, and then in its node.           *)
Room ==
  CASE Line.kind = "entry"      -> Len(model.entry) < MaxLinks
    [] Line.kind = "param"      -> HasRoom(model.params, Line.key)
    [] Line.kind \in NodeKinds  -> CanEnsure(Line.ref)
    [] OTHER                    -> TRUE

(* kc_flow_model_ensure_node: the node is created at its first field.      *)
Ensuring == Reading /\ Line.kind \in NodeKinds /\ Room
Nodes    == Ensured(Line.ref)
Target   == Nodes[Find(Nodes, Line.ref)]

(* mistake: the last link that fits is refused *)
NodeRoomBelow ==
  CASE Line.kind = "link"       -> Len(Target.links) + 1 < MaxLinks
    [] Line.kind = "node_param" -> HasRoom(Target.params, Line.key)
    [] OTHER                    -> TRUE

NodeRoom ==
  CASE Line.kind = "link"       -> Len(Target.links) < MaxLinks
    [] Line.kind = "node_param" -> HasRoom(Target.params, Line.key)
    [] OTHER                    -> TRUE

(* The record is stored: the model becomes m, with `more` strings more.    *)
Store(m, more) ==
  /\ model' = m
  /\ live' = live + more
  /\ pos' = pos + 1
  /\ UNCHANGED <<file, half, verdict, error, fault, caller>>

Blank == Reading /\ Line.kind = "blank" /\ Store(model, 0)

SetId ==
  /\ Reading /\ Line.kind = "id"
  /\ Store([model EXCEPT !.id = Line.value], Replaced(model.id))

AddEntry ==
  /\ Reading /\ Line.kind = "entry" /\ Room
  /\ Store([model EXCEPT !.entry = Append(@, Line.value)], 1)

AddParam ==
  /\ Reading /\ Line.kind = "param" /\ Room
  /\ Store([model EXCEPT !.params = Put(@, Line.key, Line.value)],
           Strings(model.params, Line.key))

(* kc_flow_parse_node_field                                                *)
WithNode(n) == [model EXCEPT !.nodes = [Nodes EXCEPT ![Find(Nodes, Line.ref)] = n]]
StoreNode(n, more) == Store(WithNode(n), Created(Line.ref) + more)

NodeFile ==
  /\ Ensuring /\ Line.kind = "file"
  /\ StoreNode([Target EXCEPT !.file = Line.value], Replaced(Target.file))

NodeExec ==
  /\ Ensuring /\ Line.kind = "exec"
  /\ StoreNode([Target EXCEPT !.exec = Line.value], Replaced(Target.exec))

NodeLink ==
  /\ Ensuring /\ Line.kind = "link" /\ NodeRoom
  /\ StoreNode([Target EXCEPT !.links = Append(@, Line.value)], 1)

NodeParam ==
  /\ Ensuring /\ Line.kind = "node_param" /\ NodeRoom
  /\ StoreNode([Target EXCEPT !.params = Put(@, Line.key, Line.value)],
               Strings(Target.params, Line.key))

----------------------------------------------------------------------------
(* Failures                                                                *)

(* The record cannot be stored: it leaves the model m, with `more` strings *)
(* more, and `got` strings that are in no store.                           *)
Fail(m, more, got, text) ==
  /\ model' = m /\ half' = got
  /\ live' = live + more + got
  /\ verdict' = "failing"
  /\ error' = text
  /\ UNCHANGED <<file, pos, caller>>

FailNode(n, more, got, text) == Fail(WithNode(n), Created(Line.ref) + more, got, text)

(* Records of no known form.  The messages of the first two quote the line *)
(* after it has been freed.                                                *)
Malformed ==
  /\ Reading
  /\ \/ Line.kind \in {"invalid", "unknown"} /\ Fail(model, 0, 0, "freed")
     \/ Line.kind = "bad_ref" /\ Fail(model, 0, 0, "text")
     \/ Ensuring /\ Line.kind = "bad_field" /\ FailNode(Target, 0, 0, "text")
  /\ UNCHANGED fault

(* The failing stores of parse_node_field return without a message.        *)
TooMany ==
  /\ Reading
  /\ \/ ~ Room /\ Fail(model, 0, 0, "text")
     \/ Ensuring /\ ~ NodeRoom /\ FailNode(Target, 0, 0, error)
  /\ UNCHANGED fault

(* strdup fails.  The string that was to be replaced is already freed, and *)
(* a node is counted before it has its reference.                          *)
NoString ==
  /\ Reading /\ Room
  /\ \/ Line.kind = "id" /\ Fail([model EXCEPT !.id = Null], - Set(model.id), 0, "text")
     \/ Line.kind = "entry" /\ Fail(model, 0, 0, "text")
     \/ /\ Line.kind = "param"
        /\ \E got \in Got(model.params, Line.key) : Fail(model, 0, got, "text")
     \/ /\ Ensuring /\ ~ Declared(Line.ref)
        /\ Fail([model EXCEPT !.nodes = Append(@, NewNode(Null))], 0, 0, "text")
  /\ fault' = "memory"

NoNodeString ==
  /\ Ensuring /\ NodeRoom
  /\ \/ /\ Line.kind = "file"
        /\ FailNode([Target EXCEPT !.file = Null], - Set(Target.file), 0, error)
     \/ /\ Line.kind = "exec"
        /\ FailNode([Target EXCEPT !.exec = Null], - Set(Target.exec), 0, error)
     \/ Line.kind = "link" /\ FailNode(Target, 0, 0, error)
     \/ /\ Line.kind = "node_param"
        /\ \E got \in Got(Target.params, Line.key) : FailNode(Target, 0, got, error)
  /\ fault' = "memory"

(* mistake: the one string that was copied is lost *)
HalfLost ==
  /\ verdict = "failing" /\ half # 0
  /\ half' = 0
  /\ UNCHANGED <<file, pos, model, live, verdict, error, fault, caller>>

(* kc_flow_overrides_add frees what it got of the key and the value.       *)
FreeHalf ==
  /\ verdict = "failing" /\ half # 0
  /\ live' = live - half /\ half' = 0
  /\ UNCHANGED <<file, pos, model, verdict, error, fault, caller>>

(* Then kc_flow_model_free in kc_flow_load_file, on every path.            *)
FreeLoaded ==
  /\ verdict = "failing" /\ half = 0
  /\ live' = live - Owned(model) /\ model' = Empty
  /\ verdict' = "failed"
  /\ UNCHANGED <<file, pos, half, error, fault, caller>>

(* What is read of a line up to an error, and what may be left behind it.  *)
Plain(kind) == [kind |-> kind, ref |-> Null, key |-> Null, value |-> NoText]

Cut(r) ==
  CASE r.kind = "blank" -> {r}
    [] r.kind \in {"invalid", "unknown", "bad_ref", "bad_field"} ->
         {r, Plain("blank"), Plain("invalid")}
    [] OTHER ->
         {Plain("blank"), Plain("invalid")} \cup
         {[r EXCEPT !.value = v] : v \in IF r.kind \in {"entry", "link"} THEN Ref ELSE Value}

Behind == {Plain(kind) : kind \in {"blank", "invalid", "unknown"}}

(* kc_flow_read_line takes a read error for the end of the file, and ends  *)
(* the loop if it has read nothing of the line or its buffer cannot grow.  *)
(* Otherwise what it has read counts as a line; the next call fails again, *)
(* or it reads on behind the cut.  The file is from there on what was read *)
(* of it.  One error a load.                                               *)
ReadFails ==
  /\ Reading /\ fault = "none"
  /\ fault' = "read"
  /\ \/ verdict' = "validating" /\ file' = file
     \/ /\ verdict' = verdict
        /\ \E r \in Cut(Line) :
             \/ file' = Append(SubSeq(file, 1, pos - 1), r)
             \/ \E b \in Behind :
                  file' = SubSeq(file, 1, pos - 1) \o <<r, b>> \o SubSeq(file, pos + 1, Len(file))
  /\ UNCHANGED <<pos, model, half, live, error, caller>>

EndOfFile ==
  /\ verdict = "reading" /\ pos > Len(file)
  /\ verdict' = "validating"
  /\ UNCHANGED <<file, pos, model, half, live, error, fault, caller>>

(* The model as kc_flow_validate_model sees it.                            *)
Graph(m) ==
  LET known(r) == {k \in DOMAIN m.nodes : m.nodes[k].ref = r}
      set(s) == s \notin {Null, NoText}
  IN  [id    |-> set(m.id),
       entry |-> m.entry,
       nodes |-> {m.nodes[k].ref : k \in DOMAIN m.nodes},
       links |-> [r \in Ref |-> IF known(r) = {} THEN <<>>
                                ELSE m.nodes[Find(m.nodes, r)].links],
       work  |-> {m.nodes[k].ref :
                    k \in {l \in DOMAIN m.nodes : set(m.nodes[l].file) \/ set(m.nodes[l].exec)}}]

Validated ==
  /\ verdict = "validating"
  /\ IF Sound(Graph(model)) THEN verdict' = "ok" /\ error' = error
                            ELSE verdict' = "invalid" /\ error' = "text"
  /\ UNCHANGED <<file, pos, model, half, live, fault, caller>>

----------------------------------------------------------------------------
(* The callers                                                             *)

Returned == verdict \in {"ok", "invalid", "failed"} /\ caller = "none"

(* main frees the model whatever the load returned.                        *)
MainFrees ==
  /\ Returned
  /\ caller' = "main"
  /\ live' = live - Owned(model)
  /\ model' = Empty
  /\ UNCHANGED <<file, pos, half, verdict, error, fault>>

(* run_child_flow frees it after a run of the child, but after a failed    *)
(* load only the record that held it.                                      *)
ChildFlowFrees ==
  /\ Returned
  /\ caller' = "child"
  /\ live' = IF verdict = "ok" THEN live - Owned(model) ELSE live
  /\ model' = Empty
  /\ UNCHANGED <<file, pos, half, verdict, error, fault>>

Done == caller # "none" /\ UNCHANGED vars

Next ==
  \/ Opened \/ CannotOpen \/ Blank \/ SetId \/ AddEntry \/ AddParam
  \/ NodeFile \/ NodeExec \/ NodeLink \/ NodeParam
  \/ Malformed \/ TooMany \/ NoString \/ NoNodeString \/ FreeHalf \/ FreeLoaded
  \/ ReadFails \/ EndOfFile \/ Validated
  \/ MainFrees \/ ChildFlowFrees \/ Done

Spec == Init /\ [][Next]_vars

----------------------------------------------------------------------------
(* Properties.  What a file means is stated on its records, whatever their *)
(* order, and compared with the model the loop has built.  Each piece of it*)
(* is given by some of the first n records.                                *)

Of(kind, n)          == {k \in 1..n : file[k].kind = kind}
OfNode(ref, kind, n) == {k \in Of(kind, n) : file[k].ref = ref}
WithKey(P, key)      == {k \in P : file[k].key = key}

LastValue(P) == IF P = {} THEN Null ELSE file[Max(P)].value
Nth(P, k)    == CHOOSE p \in P : Cardinality({l \in P : l <= p}) = k
Values(P)    == [k \in 1..Cardinality(P) |-> file[Nth(P, k)].value]
KeysAt(P)    == {file[k].key : k \in P}
NodeRefs(n)  == {file[k].ref : k \in {l \in 1..n : file[l].kind \in NodeKinds}}

(* Each key once, in the order the keys are first given, with the value it *)
(* is given last: parameters of a node see the ones before them.           *)
IsScope(store, P) ==
  /\ Keys(store) = KeysAt(P)
  /\ \A k, l \in DOMAIN store :
       k < l => Min(WithKey(P, store[k].key)) < Min(WithKey(P, store[l].key))
  /\ \A k \in DOMAIN store : store[k].value = LastValue(WithKey(P, store[k].key))

IsNode(node, n) ==
  /\ node.file = LastValue(OfNode(node.ref, "file", n))
  /\ node.exec = LastValue(OfNode(node.ref, "exec", n))
  /\ node.links = Values(OfNode(node.ref, "link", n))
  /\ IsScope(node.params, OfNode(node.ref, "node_param", n))

Describes(m, n) ==
  /\ m.id = LastValue(Of("id", n))
  /\ m.entry = Values(Of("entry", n))
  /\ IsScope(m.params, Of("param", n))
  /\ {m.nodes[k].ref : k \in DOMAIN m.nodes} = NodeRefs(n)
  /\ Len(m.nodes) = Cardinality(NodeRefs(n))
  /\ \A k \in DOMAIN m.nodes : IsNode(m.nodes[k], n)

(* The first n records have a known form and exceed no limit.              *)
Storable(n) ==
  /\ \A k \in 1..n : file[k].kind \notin {"invalid", "unknown", "bad_ref", "bad_field"}
  /\ Cardinality(NodeRefs(n)) <= MaxNodes
  /\ Cardinality(Of("entry", n)) <= MaxLinks
  /\ Cardinality(KeysAt(Of("param", n))) <= MaxOverrides
  /\ \A r \in NodeRefs(n) :
       /\ Cardinality(OfNode(r, "link", n)) <= MaxLinks
       /\ Cardinality(KeysAt(OfNode(r, "node_param", n))) <= MaxOverrides

(* The graph the first n records describe.                                 *)
Described(n) ==
  LET set(P) == LastValue(P) \notin {Null, NoText}
  IN  [id    |-> set(Of("id", n)),
       entry |-> Values(Of("entry", n)),
       nodes |-> NodeRefs(n),
       links |-> [r \in Ref |-> Values(OfNode(r, "link", n))],
       work  |-> {r \in NodeRefs(n) : set(OfNode(r, "file", n)) \/ set(OfNode(r, "exec", n))}]

Acceptable == Storable(Len(file)) /\ Sound(Described(Len(file)))

Scope == Seq([key : Key, value : Value])

NodeType ==
  [ref : Ref \cup {Null}, file : Value \cup {Null}, exec : Value \cup {Null},
   params : Scope, links : Seq(Ref)]

(* Every variable has its type, no store runs over its array, and a node is*)
(* without a reference only in a load that is failing.                     *)
TypeOK ==
  /\ file \in Seq(Record) /\ pos \in Nat \ {0}
  /\ model \in [id : Value \cup {Null}, params : Scope,
                entry : Seq(Ref), nodes : Seq(NodeType)]
  /\ Len(model.params) <= MaxOverrides /\ Len(model.entry) <= MaxLinks
  /\ Len(model.nodes) <= MaxNodes
  /\ \A k \in DOMAIN model.nodes :
       /\ Len(model.nodes[k].params) <= MaxOverrides
       /\ Len(model.nodes[k].links) <= MaxLinks
       /\ model.nodes[k].ref = Null => verdict = "failing"
  /\ half \in Nat /\ live \in Nat
  /\ verdict \in {"opening", "reading", "failing", "validating", "ok", "invalid", "failed"}
  /\ error \in {"unset", "text", "freed"}
  /\ fault \in {"none", "open", "memory", "read"}
  /\ caller \in {"none", "main", "child"}

(* What a caller is given is the file: the last id, file and exec, every   *)
(* link in its order, every parameter in the place it first had with the   *)
(* value it had last, and each node once however its fields are scattered. *)
(* After a read error it is what was read of the file, a cut record among  *)
(* it, so that this need not hold.                                         *)
LoadedIsTheFile ==
  verdict = "ok" /\ fault = "none" /\ caller = "none" => Describes(model, Len(file))

(* A load that meets no failure of the environment succeeds exactly when   *)
(* the file is acceptable: in whatever order the records come and however  *)
(* often one is repeated, no limit is met early and none late.             *)
AcceptsExactly ==
  verdict \in {"ok", "invalid", "failed"} /\ fault = "none" =>
    (verdict = "ok" <=> Acceptable)

(* Every string is owned exactly once at every record and at every step of *)
(* a failing one: wherever strdup fails, a string is in the model or among *)
(* those overrides_add still has to free, never lost and never freed with a*)
(* pointer left to it.  The caller's clean-up frees the rest; main cleans  *)
(* up after a failed load a second time, and that frees nothing twice.  The*)
(* exception is a child flow that validation rejects: nobody frees it.     *)
StringsOwnedOnce ==
  ~ (caller = "child" /\ verdict = "invalid") => live = Owned(model) + half

(* event.c:157: the message of an event is an "Error or detail message.";  *)
(* main passes it the buffer a failed load should have written.            *)
FailureHasMessage ==
  verdict \in {"failed", "invalid"} /\ fault = "none" => error = "text"
=============================================================================

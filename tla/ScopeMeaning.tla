---------------------------- MODULE ScopeMeaning ----------------------------
(***************************************************************************)
(* What a placeholder means, by recursion over the files that led to it and*)
(* with functions for scopes: no stores, buffers, order of merging, or     *)
(* limits.  Scope is held against it.  What may have no meaning is a set,  *)
(* which is empty then and has one element otherwise.                      *)
(***************************************************************************)
EXTENDS Scope

Scoped(store) == [k \in Keys(store) |-> Get(store, k)]

(* What stands at a place of a text, in flow scope f and node scope n, and *)
(* where the text goes on: a character, or all up to the next '>'.         *)
Ends(text, at)    == {e \in DOMAIN text : e > at /\ text[e] = ">"}
In(name, f, n)    == IF name[1] = FlowTag THEN f ELSE IF name[1] = NodeTag THEN n ELSE <<>>
Known(name, f, n) == Len(name) \in 1..MaxName - 1 /\ Tail(name) \in DOMAIN In(name, f, n)
Named(text, at, e) == SubSeq(text, at + 1, e - 1)

Marks(text, at, f, n) ==
  {e \in Ends(text, at) : /\ \A x \in Ends(text, at) : e <= x
                          /\ Known(Named(text, at, e), f, n)}

Here(text, at, f, n) ==
  IF text[at] # "<" THEN {[value |-> <<text[at]>>, next |-> at + 1]}
  ELSE {[value |-> In(Named(text, at, e), f, n)[Tail(Named(text, at, e))], next |-> e + 1] :
          e \in Marks(text, at, f, n)}

(* The rest of a text with its placeholders replaced.                      *)
From(text, f, n) ==
  LET from[at \in 1..Len(text) + 1] ==
        IF at > Len(text) THEN {<<>>}
        ELSE UNION {{p.value \o rest : rest \in from[p.next]} : p \in Here(text, at, f, n)}
  IN  from

Meaning(text, f, n) == From(text, f, n)[1]

(* A node parameter sees the ones before it.                               *)
Bound(s, key, value) ==
  [k \in DOMAIN s \cup {key} |-> IF k = key THEN value ELSE s[k]]

Binding(ps, f) ==
  LET first[k \in 0..Len(ps)] ==
        IF k = 0 THEN {Scoped(<<>>)}
        ELSE UNION {{Bound(s, ps[k].key, v) : v \in Meaning(ps[k].value, f, s)} : s \in first[k - 1]}
  IN  first

NodeScope(ps, f) == Binding(ps, f)[Len(ps)]

(* The defaults of a file under what its caller gives.                     *)
Under(defaults, given) ==
  [k \in Keys(defaults) \cup DOMAIN given |->
     IF k \in DOMAIN given THEN given[k] ELSE Get(defaults, k)]

(* What each node of a path of expansions gives to the next; the first file*)
(* is given what --set says.                                               *)
Gives(files, set, path) ==
  LET gives[d \in 0..Len(path)] ==
        IF d = 0 THEN {Scoped(set)}
        ELSE UNION {NodeScope(path[d].node.params, Under(files[path[d].file].params, g)) : g \in gives[d - 1]}
  IN  gives

(* The scopes of the last node of a path.                                  *)
Scopes(files, set, path) ==
  UNION {{[flow |-> Under(files[Last(path).file].params, g), node |-> n] :
            n \in NodeScope(Last(path).node.params, Under(files[Last(path).file].params, g))} :
         g \in Gives(files, set, path)[Len(path) - 1]}

(* A command is the text of its node's exec, resolved once, in the scopes  *)
(* of that node and its file, also when a file was expanded before it; and *)
(* a run stops for a placeholder only where it means nothing.              *)
ResolvesAsMeant ==
  /\ told # Nothing =>
       \E s \in Scopes(prog, cli, told.path) : told.text \in Meaning(Last(told.path).node.exec, s.flow, s.node)
  /\ cause = "unresolved" =>
       \A s \in Scopes(prog, cli, Path) : Meaning(node.exec, s.flow, s.node) = {}

(* A command's environment shows, under the name of every parameter of its *)
(* node and flow, a parameter of that name and nothing of another node or  *)
(* flow of the run: every other variable is as kc-flow was started, and so *)
(* is KC_FLOW_FD_IN when the branch has no input.                          *)
EnvironmentIsOwn ==
  told # Nothing =>
  \E s \in Scopes(prog, cli, told.path) :
    LET own(family) == IF family = "FLOW_PARAM" THEN s.flow ELSE s.node
        families    == {"FLOW_PARAM", "NODE_PARAM", "PARAM"}
        exported    == UNION {{<<f, Suffix(k)>> : k \in DOMAIN own(f)} : f \in families}
        others      == {FlowFile} \cup (IF told.input THEN {FdIn} ELSE {})
    IN  /\ DOMAIN told.env = DOMAIN Inherited \cup exported \cup others
        /\ told.env[FlowFile] = Last(told.path).file
        /\ told.input => told.env[FdIn] = "own"
        /\ \A v \in exported : \E k \in DOMAIN own(v[1]) :
             Suffix(k) = v[2] /\ told.env[v] = own(v[1])[k]
        /\ \A v \in DOMAIN Inherited \ (exported \cup others) : told.env[v] = Inherited[v]
=============================================================================

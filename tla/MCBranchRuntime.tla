-------------------------- MODULE MCBranchRuntime --------------------------
(***************************************************************************)
(* Flow files small enough to enumerate.  The main file has the nodes a and*)
(* b, the child file c and d, the leaf file e.  Links go from a to b and   *)
(* from c to d, once or twice; a and b may include the child, c the leaf.  *)
(* Together they give sequences, fan-out, fan-out after an expansion,      *)
(* expansions in expansions, diamonds and repeated entries.                *)
(***************************************************************************)
EXTENDS FlowBranches, SupervisedRun

CONSTANTS a, b, c, d, e, main, child, leaf

MCNode  == {a, b, c, d, e}
MCFlow  == {main, child, leaf}
MCOwner == (a :> main @@ b :> main @@ c :> child @@ d :> child @@ e :> leaf)

Std      == {0, 1}
NoInput  == [fd_in |-> NoFd, seekable |-> TRUE, foreign |-> Std]
FileIn   == [fd_in |-> 0, seekable |-> TRUE, foreign |-> Std]
PipeIn   == [fd_in |-> 0, seekable |-> FALSE, foreign |-> Std]
ClosedIn == [fd_in |-> 3, seekable |-> TRUE, foreign |-> Std]
NoneLeft == [fd_in |-> 0, seekable |-> TRUE, foreign |-> Fds]

GoodCfgs == {NoInput, FileIn}
AllCfgs  == {NoInput, FileIn, PipeIn, ClosedIn, NoneLeft}

Small(entries, childEntries, as, cs) ==
  {[entry |-> (main :> em @@ child :> ec @@ leaf :> <<e>>),
    links |-> (a :> la @@ b :> <<>> @@ c :> lc @@ d :> <<>> @@ e :> <<>>),
    file  |-> (a :> fa @@ b :> fb @@ c :> fc @@ d :> NoFile @@ e :> NoFile),
    exec  |-> [n \in Node |-> n \in {d, e} \/ n \in x]] :
     em \in entries, ec \in childEntries, la \in as, lc \in cs,
     fa \in {NoFile, child}, fb \in {NoFile, child}, fc \in {NoFile, leaf},
     x \in SUBSET {a, b, c}}

NoVoidNode(p) ==
  \A n \in Node : p.file[n] # NoFile \/ p.exec[n] \/ p.links[n] # <<>>

(* Every shape the header names.                                           *)
MCPrograms ==
  {p \in Small({<<a>>, <<b, a>>, <<a, a>>}, {<<c>>, <<c, d>>},
               {<<>>, <<b>>, <<b, b>>}, {<<>>, <<d>>}) :
     NoVoidNode(p)}

(* The ones failures are injected into.                                    *)
FaultyPrograms ==
  {p \in Small({<<a>>, <<b, a>>}, {<<c>>, <<c, d>>}, {<<>>, <<b, b>>}, {<<>>, <<d>>}) :
     NoVoidNode(p)}

(* A file that includes itself through its child.                          *)
CyclicPrograms ==
  {[p EXCEPT !.file[c] = main] : p \in FaultyPrograms}

(* The other programs are such as OutputIsTheFlow (BranchRuntimeProof) is  *)
(* about.                                                                  *)
ASSUME NestedAssumption == \A p \in Programs \ CyclicPrograms : Nested(p)
============================================================================

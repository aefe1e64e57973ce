------------------------------ MODULE MCScope ------------------------------
(***************************************************************************)
(* A main file whose node has up to two parameters, expands a child file   *)
(* and may run a command after it; the child's node runs a command.  Keys  *)
(* a, b, A and aa, of which all but b have the same environment name, and  *)
(* aa is too long for a placeholder; values long enough for the buffer to  *)
(* be doubled twice; two parameters fit a store.                           *)
(***************************************************************************)
EXTENDS ScopeMeaning

MCChar  == {"<", ">", "f", "n", "a", "b", "A", "x", "y", "_"}
MCUpper == [c \in MCChar |-> CASE c \in {"a", "A"} -> "A" [] c = "b" -> "B"
                               [] c = "x" -> "X" [] c = "y" -> "Y"
                               [] c = "f" -> "F" [] c = "n" -> "N" [] OTHER -> "_"]

a == <<"a">>
b == <<"b">>
A == <<"A">>
aa == <<"a", "a">>
Ref(tag, key) == <<"<", tag>> \o key \o <<">">>

Long == [k \in 1..9 |-> "y"]

Stores(values) ==
  {<<>>} \cup {<<Stored(a, v)>> : v \in values}
         \cup {<<Stored(b, v), Stored(a, <<"x">>)>> : v \in values}

Templates ==
  {<<>>, Long, <<"x">> \o Ref("f", a) \o <<"x">>, Ref("n", b) \o Ref("f", a)}

Odd ==
  {<<"<", "f", "a">>, <<"<", ">">>, Ref("x", a), Ref("f", aa),
   Ref("f", <<"<">>), <<">">> \o Ref("f", b)}

MainNodes ==
  [params : Stores(Templates) \cup {<<Stored(a, <<"x">>), Stored(A, Ref("n", a))>>},
   file : {"child"}, exec : {<<>>, Ref("f", a) \o Ref("n", a)}]

ChildNodes ==
  [params : {<<>>, <<Stored(b, Ref("f", a) \o Ref("f", a))>>},
   file : {NoFile}, exec : {Ref("f", a) \o <<"x">> \o Ref("n", b)} \cup Odd]

MCPrograms ==
  {[f \in {"main", "child"} |->
      IF f = "main" THEN [params |-> d, nodes |-> {n}] ELSE [params |-> e, nodes |-> {m}]] :
   d \in {<<>>, <<Stored(a, Long)>>},
   e \in {<<>>, <<Stored(a, Ref("n", b))>>, <<Stored(A, Long), Stored(a, <<"y">>)>>,
         <<Stored(aa, <<"x">>), Stored(a, <<"y">>)>>},
   n \in MainNodes, m \in ChildNodes}

MCCli == {<<>>, <<Stored(a, <<"x", "x">>)>>, <<Stored(b, <<>>), Stored(a, Long)>>}

MCInherited == (FdIn :> "outer") @@ (<<"NODE_PARAM", <<"B">>>> :> <<"x">>)
                 @@ (<<"FLOW_PARAM", <<"X">>>> :> <<"x">>)
=============================================================================

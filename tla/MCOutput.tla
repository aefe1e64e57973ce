------------------------------ MODULE MCOutput ------------------------------
(***************************************************************************)
(* Three kinds of run of a flow.  Refused: a parameter of the first node   *)
(* fails, with messages of all kinds of characters, one of them too long   *)
(* for a line.  Broken: a node fails; its node.finished is one byte too    *)
(* long.  Copied: a node too long for any line, and two or three branches, *)
(* one of them longer than the buffer of the copy.                         *)
(***************************************************************************)
EXTENDS Received

Chars == {"a", "n", "\\", "\n", " ", "="}
Texts == {<<c>> : c \in Chars}
         \cup {<<c, d>> : c \in {"n", "\\"}, d \in {"n", "\\", " "}}
         \cup {<<"=", "a", "=">>}

a == <<"a">>
Long == [c \in 1..9 |-> "a"]

Run(events, branches, fails, message) ==
  [events |-> <<RunEvent("run.started", a, a, <<>>, <<>>)>> \o events,
   branches |-> branches, fails |-> fails, id |-> a, path |-> a, message |-> message]

NodeStarted(n)        == NodeEvent("node.started", n, a, <<>>, <<>>)
NodeFinished(n, s, m) == NodeEvent("node.finished", n, a, s, m)

Refused == {Run(<<>>, <<>>, TRUE, m) : m \in Texts}
Broken  == {Run(<<NodeStarted(a), NodeFinished(a, <<"error">>, a)>>, <<>>, TRUE, a)}
Copied  == {Run(<<NodeStarted(Long), NodeFinished(Long, <<"ok">>, <<>>)>>, b, FALSE, a) :
              b \in {<< <<"x", "y", "\n">>, Absent, <<"z">> >>, << <<>>, <<"x", "y">> >>}}

MCPid  == <<"p">>
MCRuns == Refused \cup Broken \cup Copied

Sinks == Permutations(Sink)

MCByte == Chars \cup {"x", "y", "z", "p", "s", "e", "ok", "error", "flow", "node",
                      "run.started", "node.started", "node.finished", "run.finished"} \cup ToSet(FieldKeys)
=============================================================================

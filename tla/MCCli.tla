-------------------------------- MODULE MCCli --------------------------------
(***************************************************************************)
(* Command lines of up to three options with any of the values below, with *)
(* and without a file to run, some with a value missing or --help at an    *)
(* end; and of four overrides, which the store of two does not always hold.*)
(***************************************************************************)
EXTENDS Cli

MCDigit == "0" :> 0 @@ "1" :> 1 @@ "2" :> 2 @@ "4" :> 4 @@ "6" :> 6 @@ "9" :> 9
MCChar  == DOMAIN MCDigit \cup Option
             \cup {"--help", "flow.param.", "param.", "=", "a", "b", "-"}

Assignments ==
  {<<"a", "=", "1">>, <<"param.", "a", "=", "2">>, <<"flow.param.", "a", "=", "a", "=">>,
   <<"flow.param.", "param.", "b", "=">>, <<"b", "=", "1">>}

NotAssignments == {<<>>, <<"a">>, <<"=", "a">>, <<"param.", "a", "a", "b", "=">>}

(* 64 wraps to 0 workers; 96 does not fit an int.                          *)
Counts == {<<"0">>, <<"2">>, <<"6", "4">>, <<"-", "1">>}
Fds    == {<<>>, <<"2">>, <<"0", "4">>, <<"9", "6">>, <<"2", "a">>}

Pairs ==
  [o : {<<"--set">>}, v : Assignments \cup NotAssignments]
    \cup [o : {<<"--workers">>}, v : Counts]
    \cup [o : {<<"--fd-out">>}, v : Fds]
    \cup [o : {<<"--fd-in">>, <<"--fd-status">>}, v : {<<"4">>, <<"9", "6">>}]
    \cup [o : {<<"--run">>}, v : {<<"b">>, <<"--help">>, <<"--set">>}]
    \cup [o : {<<"a">>}, v : {<<"--run">>}]

Flatten(ps) == FoldLeft(LAMBDA s, p : s \o <<p.o, p.v>>, <<>>, ps)

Run     == <<<<"--run">>, <<"a">>>>
Lines   == {Flatten(ps) : ps \in BoundedSeq(Pairs, 2)}
             \cup {Flatten(<<p, q, [o |-> <<"--fd-status">>, v |-> <<"2">>]>>) :
                     p \in Pairs, q \in Pairs}
Sets    == {Flatten(ps) : ps \in BoundedSeq([o : {<<"--set">>}, v : Assignments], 4)}
Cut     == {Front(l) : l \in Lines \ {<<>>}}
MCArgvs == Lines \cup Cut \cup {Run \o l : l \in Lines \cup Cut} \cup {l \o Run : l \in Sets}
=============================================================================

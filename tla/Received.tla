------------------------------ MODULE Received ------------------------------
(***************************************************************************)
(* The streams of Output as their readers see them: a line ends at a new   *)
(* line, fields are apart by blanks, the first '=' ends a key, and a       *)
(* character after a backslash stands for what the format says.            *)
(***************************************************************************)
EXTENDS Output, FiniteSetsExt

Split(text, mark) ==
  FoldLeft(LAMBDA ps, c : IF c = mark THEN Append(ps, <<>>)
                                      ELSE [ps EXCEPT ![Len(ps)] = Append(@, c)],
           << <<>> >>, text)

Unescaped(text) ==
  LET plain(c) == IF \E d \in DOMAIN Letter : Letter[d] = c
                    THEN CHOOSE d \in DOMAIN Letter : Letter[d] = c ELSE c
      step(s, c) == IF s.marked THEN [text |-> Append(s.text, plain(c)), marked |-> FALSE]
                    ELSE IF c = "\\" THEN [s EXCEPT !.marked = TRUE]
                    ELSE [s EXCEPT !.text = Append(@, c)]
  IN  FoldLeft(step, [text |-> <<>>, marked |-> FALSE], text).text

FieldsRead(line) ==
  {LET p == Split(f, "=") IN <<p[1], IF Len(p) = 2 THEN Unescaped(p[2]) ELSE <<>> >> :
     f \in ToSet(Split(line, " "))}

(* What an event says, and how many bytes it takes to say it.              *)
Used(event)      == {key \in DOMAIN event : event[key] # <<>>}
FieldsOf(event)  == {<< <<key>>, event[key]>> : key \in Used(event)}
Cost(text)       == Len(text) + Cardinality({c \in DOMAIN text : text[c] \in DOMAIN Letter})
Fits(event)      == MapThenSumSet(LAMBDA key : Cost(event[key]) + 3, Used(event)) < LineSize

Events  == run.events \o <<Ended(run, rc)>>
Fitting == {e \in DOMAIN Events : Fits(Events[e])}
InOrder(indices) == SetToSortSeq(indices, <)

(* In the midst of a write nothing has to hold that has not to hold of a   *)
(* run that is killed there.                                               *)
OwnStatus == statusTo \in Sink \ {outTo}

(* A supervisor reads back exactly what was reported, whatever characters  *)
(* ids, paths and messages are made of, and misses only the events that are*)
(* too long for a line.                                                    *)
StatusReadsBack ==
  OwnStatus /\ failed = {} /\ ~ Writing =>
    LET lines == Split(streams[statusTo], "\n")
        due   == InOrder(Fitting)
        whole == Len(lines) - 1
    IN  /\ whole <= Len(due)
        /\ \A e \in 1..whole : FieldsRead(lines[e]) = FieldsOf(Events[due[e]])
        /\ stage = "over" => whole = Len(due) /\ lines[whole + 1] = <<>>

(* An event whose write failed part way may spoil the one after it, which  *)
(* is then on the same line; all others are lines of their own, in order.  *)
DamageIsLocal ==
  OwnStatus /\ stage = "over" /\ ~ Writing =>
    LET lines == Split(streams[statusTo], "\n")
        due   == InOrder(Fitting \ failed)
        last(e) == {f \in Fitting : f < e /\ \A g \in Fitting : g < e => g <= f}
    IN  /\ Len(lines) = Len(due) + 1
        /\ \A e \in DOMAIN due :
             \/ lines[e] = Front(Line(Events[due[e]]))
             \/ IsSuffix(Front(Line(Events[due[e]])), lines[e]) /\ last(due[e]) \subseteq failed

(* What the first n of a list of texts come to, without those missing.     *)
Bytes(texts, missing, n) ==
  FlattenSeq([e \in 1..n |-> IF texts[e] = missing THEN <<>> ELSE texts[e]])

Lines         == [e \in DOMAIN run.events |-> Line(run.events[e])]
Reported(n)   == Bytes(Lines, Dropped, n)
OutBytes(n)     == IF run.fails THEN <<>> ELSE Bytes(run.branches, Absent, n)
EndReported   == Bytes(<<Line(Ended(run, rc))>>, Dropped, 1)

Asked(option, s, text) == IF option = s THEN text ELSE <<>>

(* All that a place is to get, when n bytes of the branches are copied.    *)
Due(s, n) ==
  Asked(statusTo, s, Reported(Len(run.events)))
    \o Asked(outTo, s, SubSeq(OutBytes(Len(run.branches)), 1, n))
    \o Asked(statusTo, s, EndReported)

(* What arrives anywhere are the events, then the branches, then           *)
(* run.finished, each for the option that asks for it and also when both   *)
(* ask for the same place; a failure cuts the branches off at some byte,   *)
(* and a run that reports ok has written them all.                         *)
DeliveredInOrder ==
  ~ Writing => \A s \in {t \in Sink : t # statusTo \/ failed = {}} :
    \E n \in 0..Len(OutBytes(Len(run.branches))) :
      /\ IsPrefix(streams[s], Due(s, n))
      /\ stage = "over" => streams[s] = Due(s, n)
      /\ rc = "ok" => n = Len(OutBytes(Len(run.branches)))
=============================================================================

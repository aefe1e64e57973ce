----------------------------- MODULE StatusLine -----------------------------
(***************************************************************************)
(* A status event as one line of key=value fields (event.c), built piece by*)
(* piece in a buffer of fixed size; an event that does not fit is dropped. *)
(* A text is a sequence of characters; a field's key, which has none of the*)
(* special ones, is one character.                                         *)
(***************************************************************************)
EXTENDS Integers, Sequences, SequencesExt

CONSTANTS
  LineSize,   \* size of buffer[] in kc_flow_status_emit
  Pid,        \* this process' id, as text
  Dropped     \* no line

ASSUME LineAssumption == LineSize \in Nat \ {0} /\ Pid # <<>>

FieldKeys == <<"event", "pid", "kind", "id", "path", "node",
               "target_kind", "target_path", "status", "message">>

(* kc_flow_status_write_run_event and _node_event; <<>> is an absent value.*)
Event(name, kind) ==
  [k \in ToSet(FieldKeys) |-> CASE k = "event" -> <<name>> [] k = "pid" -> Pid
                                [] k = "kind" -> <<kind>> [] OTHER -> <<>>]
RunEvent(name, id, path, status, message) ==
  [Event(name, "flow") EXCEPT !["id"] = id, !["path"] = path,
                              !["status"] = status, !["message"] = message]
NodeEvent(name, node, path, status, message) ==
  [Event(name, "node") EXCEPT !["node"] = node, !["target_kind"] = <<"node">>,
                              !["target_path"] = path,
                              !["status"] = status, !["message"] = message]

Letter == [c \in {"\\", "\n", "\r", "\t", " ", "="} |->
             CASE c = "\\" -> "\\" [] c = "\n" -> "n" [] c = "\r" -> "r"
               [] c = "\t" -> "t"  [] c = " "  -> "s" [] c = "="  -> "e"]

(* mistake: the escape character itself is not escaped *)
EscapedLess(c) == IF c \in DOMAIN Letter \ {"\\"} THEN <<"\\", Letter[c]>> ELSE <<c>>

Escaped(c) == IF c \in DOMAIN Letter THEN <<"\\", Letter[c]>> ELSE <<c>>

(* A piece is added if it leaves room for a terminator.                    *)
Add(line, piece) ==
  IF line = Dropped THEN Dropped
  ELSE IF Len(line) + Len(piece) >= LineSize THEN Dropped ELSE line \o piece

AppendText(line, text) == FoldLeft(LAMBDA l, c : Add(l, Escaped(c)), line, text)

AppendField(line, key, value) ==
  IF value = <<>> THEN line
  ELSE AppendText(Add(line, (IF line = <<>> THEN <<>> ELSE <<" ">>) \o <<key, "=">>), value)

(* kc_flow_status_emit                                                     *)
Line(event) ==
  Add(FoldLeft(LAMBDA l, k : AppendField(l, k, event[k]), <<>>, FieldKeys), <<"\n">>)
=============================================================================

------------------------------ MODULE MCLoader ------------------------------
(***************************************************************************)
(* Files over three references and three parameter names, with limits small*)
(* enough to be met: two of nodes, links and parameters.  A file is a head *)
(* that makes it nearly complete, or nothing, and then any records; or it  *)
(* is complete and then has any parameters.                                *)
(***************************************************************************)
EXTENDS Loader

CONSTANTS x, y, z, p, q, s, v, w

MCRef == {x, y, z}

Rec(kind, ref, key, value) == [kind |-> kind, ref |-> ref, key |-> key, value |-> value]

Id(t)             == Rec("id", Null, Null, t)
Entry(n)          == Rec("entry", Null, Null, n)
Param(k, t)       == Rec("param", Null, k, t)
File(n, t)        == Rec("file", n, Null, t)
Exec(n, t)        == Rec("exec", n, Null, t)
Link(n, m)        == Rec("link", n, Null, m)
NParam(n, k, t)   == Rec("node_param", n, k, t)
Other(kind, n)    == Rec(kind, n, Null, NoText)

Params ==
  {Param(p, v), Param(p, w), Param(q, v), Param(s, v),
   NParam(x, p, v), NParam(x, p, w), NParam(x, q, v), NParam(x, s, v)}

Records == Params \cup
  {Id(v), Id(NoText), Entry(x), Entry(y),
   File(x, v), Exec(x, v), Exec(x, NoText), Exec(y, v), Exec(z, v),
   Link(x, y), Link(y, x), Link(x, x),
   Other("blank", Null), Other("invalid", Null), Other("unknown", Null),
   Other("bad_ref", Null), Other("bad_field", x), Other("bad_field", z)}

Heads ==
  {<<>>, <<Id(v), Entry(x)>>, <<Exec(y, v), Id(v), Entry(x), Link(x, y)>>,
   <<Link(x, y), Entry(y), Exec(y, v), Entry(x), Link(x, y)>>}

Short == UNION {[1..k -> Records] : k \in 0..2}
Tails == [1..3 -> Records \ (Params \cup {Other("unknown", Null), Other("bad_ref", Null), File(x, v),
                                         Link(x, x)})]

MCFiles ==
  {h \o t : h \in Heads, t \in Short}
    \cup {<<Id(v), Entry(x)>> \o t : t \in Tails}
    \cup {<<Id(v), Entry(x), Exec(x, v)>> \o t : t \in [1..3 -> Params]}
=============================================================================

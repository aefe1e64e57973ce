----------------------------- MODULE MCValidate -----------------------------
(***************************************************************************)
(* Files over three references, each declared or not, with up to two links *)
(* per node in either order or to the same node twice: self-loops, cycles  *)
(* of two and three, diamonds, cycles nothing reaches, undeclared links.   *)
(***************************************************************************)
EXTENDS Validate

CONSTANTS x, y, z

MCRef == {x, y, z}

LinkLists == {<<>>} \cup {<<m>> : m \in MCRef} \cup {<<m, n>> : m \in MCRef, n \in MCRef}

MCModels ==
  [id    : {TRUE},
   entry : {<<x>>, <<x, y>>, <<y, x>>, <<z, z>>},
   nodes : {MCRef, {x, y}},
   links : [MCRef -> LinkLists],
   work  : {MCRef}]
  \cup
  [id    : BOOLEAN,
   entry : {<<>>, <<x>>},
   nodes : SUBSET MCRef,
   links : [MCRef -> {<<>>, <<x>>, <<y, z>>}],
   work  : {{}, {x}, MCRef}]
=============================================================================

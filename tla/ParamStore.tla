----------------------------- MODULE ParamStore -----------------------------
(***************************************************************************)
(* kc_flow_overrides (model.c): an ordered store of parameters with a      *)
(* limit.  Flow files, nodes, flow scopes and --set all use it.            *)
(***************************************************************************)
EXTENDS Integers, Sequences

CONSTANT MaxOverrides   \* KC_FLOW_MAX_OVERRIDES

ASSUME StoreAssumption == MaxOverrides \in Nat \ {0}

Stored(key, value) == [key |-> key, value |-> value]

Keys(store) == {store[k].key : k \in DOMAIN store}

HasKey(store, key) == \E k \in DOMAIN store : store[k].key = key

(* kc_flow_overrides_get, of a key that is there.                          *)
Get(store, key) == store[CHOOSE k \in DOMAIN store : store[k].key = key].value

(* mistake: the limit is off by one *)
HasRoomAbove(store, key) == HasKey(store, key) \/ Len(store) <= MaxOverrides

HasRoom(store, key) == HasKey(store, key) \/ Len(store) < MaxOverrides

(* mistake: a key that is already there is stored once more *)
PutTwice(store, key, value) == Append(store, Stored(key, value))

(* kc_flow_overrides_add: a known key keeps its place and gets the value.  *)
Put(store, key, value) ==
  IF HasKey(store, key)
    THEN [k \in DOMAIN store |-> IF store[k].key = key THEN Stored(key, value) ELSE store[k]]
    ELSE Append(store, Stored(key, value))
=============================================================================

----------------------------- MODULE LoaderProof -----------------------------
(***************************************************************************)
(* Loader, for files of any length: the model is at every record what the  *)
(* records read so far describe, a load that meets no failure of the       *)
(* environment succeeds exactly for an acceptable file, and every string is*)
(* owned once.                                                             *)
(***************************************************************************)
EXTENDS Loader, SequenceFacts, FiniteSetTheorems, TLAPS

----------------------------------------------------------------------------
(* Places                                                                  *)

(* A place after all others adds its value at the end of the list, is the  *)
(* last of them, and no other is.                                          *)
LEMMA OneMoreFacts ==
  ASSUME NEW n \in Nat \ {0}, NEW P \in SUBSET (1..n - 1)
  PROVE  /\ IsFiniteSet(P) /\ Cardinality(P) \in Nat
         /\ IsFiniteSet(P \cup {n}) /\ Cardinality(P \cup {n}) = Cardinality(P) + 1
         /\ Max(P \cup {n}) = n
<1>1. IsFiniteSet(1..n - 1)
  BY FS_Interval
<1>2. IsFiniteSet(P)
  BY <1>1, FS_Subset
<1>3. n \notin P /\ P \cup {n} \in SUBSET Int /\ \A x \in P \cup {n} : x <= n
  OBVIOUS
<1>4. Cardinality(P) \in Nat
  BY <1>2, FS_CardinalityType
<1>5. IsFiniteSet(P \cup {n}) /\ Cardinality(P \cup {n}) = Cardinality(P) + 1
  BY <1>2, <1>3, FS_AddElement
<1>6. Max(P \cup {n}) = n
  <2> DEFINE S == P \cup {n}
  <2>1. n \in S /\ S \in SUBSET Int /\ \A x \in S : x <= n
    BY <1>3
  <2> HIDE DEF S
  <2>2. Max(S) = n
    BY <2>1, MaxIs
  <2>3. QED
    BY <2>2 DEF S
<1>7. QED
  BY <1>2, <1>4, <1>5, <1>6

LEMMA LastValueOfMore ==
  ASSUME NEW n \in Nat \ {0}, NEW P \in SUBSET (1..n - 1)
  PROVE  LastValue(P \cup {n}) = file[n].value
BY OneMoreFacts DEF LastValue

(* Its place is the last, and the others keep theirs.                      *)
LEMMA NthOfMore ==
  ASSUME NEW n \in Nat \ {0}, NEW P \in SUBSET (1..n - 1)
  PROVE  /\ Nth(P \cup {n}, Cardinality(P) + 1) = n
         /\ \A k \in 1..Cardinality(P) : Nth(P \cup {n}, k) = Nth(P, k)
<1> DEFINE c == Cardinality(P)
           Q == P \cup {n}
           Below(S, p) == {l \in S : l <= p}
<1>1. c \in Nat /\ IsFiniteSet(P) /\ Cardinality(Q) = c + 1 /\ IsFiniteSet(Q)
  BY OneMoreFacts
<1>2. \A p \in P : Below(Q, p) = Below(P, p) /\ p # n
  OBVIOUS
<1>3. Below(Q, n) = Q
  <2>1. \A l \in Q : l <= n
    OBVIOUS
  <2> HIDE DEF Q
  <2>2. QED
    BY <2>1
<1>4. \A p \in P : Cardinality(Below(P, p)) \in Nat /\ Cardinality(Below(P, p)) <= c
  <2>1. \A p \in P : Below(P, p) \in SUBSET P
    OBVIOUS
  <2> HIDE DEF Below
  <2>2. QED
    BY <1>1, <2>1, FS_Subset, FS_CardinalityType
<1> HIDE DEF Below, c, Q
<1>5. Nth(Q, c + 1) = n
  <2>1. \A p \in Q : Cardinality(Below(Q, p)) = c + 1 <=> p = n
    BY <1>1, <1>2, <1>3, <1>4 DEF Q
  <2>2. Nth(Q, c + 1) = CHOOSE p \in Q : Cardinality(Below(Q, p)) = c + 1
    BY DEF Nth, Below
  <2> DEFINE d == c + 1
             t == CHOOSE p \in Q : Cardinality(Below(Q, p)) = d
  <2>3. \E p \in Q : Cardinality(Below(Q, p)) = d
    BY <2>1 DEF Q
  <2> HIDE DEF d
  <2>4. t \in Q /\ Cardinality(Below(Q, t)) = d
    BY <2>3, Zenon
  <2> HIDE DEF t
  <2>5. QED
    BY <2>1, <2>2, <2>4 DEF d, t
<1>6. ASSUME NEW k \in 1..c
      PROVE  Nth(Q, k) = Nth(P, k)
  <2>1. \A p : p \in Q /\ Cardinality(Below(Q, p)) = k <=> p \in P /\ Cardinality(Below(P, p)) = k
    <3>1. Cardinality(Below(Q, n)) # k
      BY <1>1, <1>3
    <3>2. \A p : p \in Q <=> p \in P \/ p = n
      BY DEF Q
    <3>3. \A p \in P : Cardinality(Below(Q, p)) = Cardinality(Below(P, p))
      BY <1>2
    <3>4. QED
      BY <3>1, <3>2, <3>3
  <2>2. Nth(Q, k) = CHOOSE p : p \in Q /\ Cardinality(Below(Q, p)) = k
    BY DEF Nth, Below
  <2>3. Nth(P, k) = CHOOSE p : p \in P /\ Cardinality(Below(P, p)) = k
    BY DEF Nth, Below
  <2>4. QED
    BY <2>1, <2>2, <2>3
<1>7. QED
  BY <1>5, <1>6 DEF c, Q

LEMMA ValuesOfMore ==
  ASSUME NEW n \in Nat \ {0}, NEW P \in SUBSET (1..n - 1)
  PROVE  /\ Len(Values(P)) = Cardinality(P)
         /\ Values(P \cup {n}) = Append(Values(P), file[n].value)
<1> DEFINE c == Cardinality(P)
           Q == P \cup {n}
<1>1. c \in Nat /\ IsFiniteSet(P) /\ Cardinality(Q) = c + 1 /\ IsFiniteSet(Q)
  BY OneMoreFacts
<1>2. Nth(Q, c + 1) = n /\ \A k \in 1..c : Nth(Q, k) = Nth(P, k)
  BY NthOfMore
<1> HIDE DEF c, Q
<1> DEFINE v == Values(P)
           w == Values(Q)
<1>3. v = [k \in 1..c |-> file[Nth(P, k)].value] /\ w = [k \in 1..c + 1 |-> file[Nth(Q, k)].value]
  BY <1>1 DEF Values, c
<1>4. w = [k \in 1..c + 1 |-> IF k <= c THEN v[k] ELSE file[n].value]
  <2>1. \A k \in 1..c + 1 : file[Nth(Q, k)].value = IF k <= c THEN v[k] ELSE file[n].value
    <3>1. ASSUME NEW k \in 1..c + 1
          PROVE  file[Nth(Q, k)].value = IF k <= c THEN v[k] ELSE file[n].value
      <4>1. CASE k <= c
        BY <1>1, <1>2, <1>3, <4>1
      <4>2. CASE k = c + 1
        BY <1>1, <1>2, <4>2
      <4>3. QED
        BY <1>1, <4>1, <4>2
    <3>2. QED
      BY <3>1
  <2> HIDE DEF v
  <2>2. QED
    BY <1>3, <2>1
<1>5. Len(v) = c
  BY <1>1, <1>3
<1> HIDE DEF v, w
<1>6. w = Append(v, file[n].value)
  <2>1. v = [k \in 1..c |-> v[k]]
    BY <1>3
  <2>2. Append(v, file[n].value) = [k \in 1..c + 1 |-> IF k <= c THEN v[k] ELSE file[n].value]
    BY <1>1, <1>5, <2>1
  <2>3. QED
    BY <1>4, <2>2
<1>7. QED
  BY <1>5, <1>6 DEF v, w, c, Q

(* The k-th place is one of them.                                          *)
LEMMA NthInPlace ==
  ASSUME NEW n \in Nat, NEW P \in SUBSET (1..n), NEW k \in 1..Cardinality(P)
  PROVE  Nth(P, k) \in P
<1> DEFINE In(m) == \A R \in SUBSET (1..m) : \A i \in 1..Cardinality(R) : Nth(R, i) \in R
           S == {m \in Nat : In(m)}
<1>1. 0 \in S
  <2>1. ASSUME NEW R \in SUBSET (1..0)
        PROVE  \A i \in 1..Cardinality(R) : Nth(R, i) \in R
    <3>1. R = {}
      OBVIOUS
    <3>2. 1..Cardinality(R) = {}
      BY <3>1, FS_EmptySet
    <3>3. QED
      BY <3>2
  <2>2. QED
    BY <2>1
<1>2. ASSUME NEW m \in S
      PROVE  m + 1 \in S
  <2>1. ASSUME NEW R \in SUBSET (1..m + 1), NEW i \in 1..Cardinality(R)
        PROVE  Nth(R, i) \in R
    <3> DEFINE B == R \ {m + 1}
    <3>1. m \in Nat /\ B \in SUBSET (1..m) /\ B \in SUBSET (1..(m + 1) - 1) /\ m + 1 \in Nat \ {0}
      OBVIOUS
    <3>2. \A l \in 1..Cardinality(B) : Nth(B, l) \in B
      BY <3>1
    <3>3. CASE R = B
      BY <3>2, <3>3
    <3>4. CASE R = B \cup {m + 1}
      <4> HIDE DEF B, S
      <4>1. /\ Nth(R, Cardinality(B) + 1) = m + 1
            /\ \A l \in 1..Cardinality(B) : Nth(R, l) = Nth(B, l)
        BY <3>1, <3>4, NthOfMore
      <4>2. Cardinality(R) = Cardinality(B) + 1 /\ Cardinality(B) \in Nat
        BY <3>1, <3>4, OneMoreFacts
      <4>3. i \in 1..Cardinality(B) \/ i = Cardinality(B) + 1
        BY <4>2
      <4>4. QED
        BY <3>2, <3>4, <4>1, <4>3
    <3>5. QED
      BY <3>3, <3>4
  <2>2. QED
    BY <2>1
<1>3. S = Nat
  <2>1. S \in SUBSET Nat
    OBVIOUS
  <2> HIDE DEF S
  <2>2. QED
    BY <1>1, <1>2, <2>1, FromZero
<1>4. In(n)
  <2>1. n \in S
    BY <1>3
  <2>2. QED
    BY <2>1
<1>5. QED
  BY <1>4

(* The last place is one of them.                                          *)
LEMMA LastInPlace ==
  ASSUME NEW n \in Nat, NEW P \in SUBSET (1..n), P # {}
  PROVE  Max(P) \in P
<1>1. P \in SUBSET Nat /\ P \in SUBSET Int /\ \A k \in P : k <= n
  OBVIOUS
<1>2. PICK m \in P : \A k \in P : k <= m
  BY <1>1, Greatest
<1>3. QED
  BY <1>1, <1>2, MaxIs

LEMMA NoPlace ==
  /\ LastValue({}) = Null /\ Values({}) = <<>> /\ KeysAt({}) = {}
  /\ Cardinality({}) = 0 /\ IsFiniteSet({})
<1>1. Cardinality({}) = 0 /\ IsFiniteSet({})
  BY FS_EmptySet
<1>2. Values({}) = <<>>
  BY <1>1 DEF Values
<1>3. QED
  BY <1>1, <1>2 DEF LastValue, KeysAt
----------------------------------------------------------------------------
(* Stores                                                                  *)

(* Put leaves every key in its place; a new one comes last.                *)
LEMMA PutFields ==
  ASSUME NEW store \in Scope, NEW key \in Key, NEW value \in Value
  PROVE  LET new == Put(store, key, value) IN
         /\ Len(store) \in Nat /\ DOMAIN store = 1..Len(store) /\ new \in Scope
         /\ HasKey(store, key) =>
              /\ DOMAIN new = DOMAIN store /\ Len(new) = Len(store)
              /\ \A k \in DOMAIN store :
                   /\ new[k].key = store[k].key
                   /\ new[k].value = IF store[k].key = key THEN value ELSE store[k].value
         /\ ~ HasKey(store, key) =>
              /\ DOMAIN new = 1..Len(store) + 1 /\ Len(new) = Len(store) + 1
              /\ \A k \in DOMAIN store : new[k] = store[k]
              /\ new[Len(store) + 1] = Stored(key, value)
<1> DEFINE new == Put(store, key, value)
           Item == [key : Key, value : Value]
<1>1. Len(store) \in Nat /\ DOMAIN store = 1..Len(store) /\ Stored(key, value) \in Item
  BY LenProperties DEF Scope, Stored
<1>2. \A k \in DOMAIN store : store[k] \in Item
  BY <1>1, ElementOfSeq DEF Scope
<1> HIDE DEF Item
<1>3. ASSUME HasKey(store, key)
      PROVE  /\ DOMAIN new = DOMAIN store /\ Len(new) = Len(store) /\ new \in Seq(Item)
             /\ \A k \in DOMAIN store :
                  /\ new[k].key = store[k].key
                  /\ new[k].value = IF store[k].key = key THEN value ELSE store[k].value
  <2>1. new = [k \in 1..Len(store) |->
                 IF store[k].key = key THEN Stored(key, value) ELSE store[k]]
    BY <1>1, <1>3 DEF Put
  <2>2. DOMAIN new = 1..Len(store) /\ Len(new) = Len(store)
    BY <1>1, <2>1
  <2>3. new \in Seq(Item)
    BY <1>1, <1>2, <2>1
  <2>4. QED
    BY <1>1, <2>1, <2>2, <2>3 DEF Stored
<1>4. ASSUME ~ HasKey(store, key)
      PROVE  /\ DOMAIN new = 1..Len(store) + 1 /\ Len(new) = Len(store) + 1 /\ new \in Seq(Item)
             /\ \A k \in DOMAIN store : new[k] = store[k]
             /\ new[Len(store) + 1] = Stored(key, value)
  <2>1. new = Append(store, Stored(key, value))
    BY <1>4 DEF Put
  <2>2. store \in Seq(Item)
    BY DEF Scope, Item
  <2>3. QED
    BY <1>1, <2>1, <2>2, AppendProperties
<1>5. QED
  BY <1>1, <1>3, <1>4 DEF Scope, Item

(* A store has one key more, or the same keys.                             *)
LEMMA KeysOfPut ==
  ASSUME NEW store \in Scope, NEW key \in Key, NEW value \in Value,
         IsFiniteSet(Keys(store)), Len(store) = Cardinality(Keys(store))
  PROVE  LET new == Put(store, key, value) IN
         /\ HasKey(store, key) <=> key \in Keys(store)
         /\ Keys(new) = Keys(store) \cup {key}
         /\ IsFiniteSet(Keys(new)) /\ Len(new) = Cardinality(Keys(new))
<1> DEFINE new == Put(store, key, value)
<1>1. HasKey(store, key) <=> key \in Keys(store)
  BY DEF HasKey, Keys
<1>2. CASE HasKey(store, key)
  <2>1. /\ DOMAIN new = DOMAIN store /\ Len(new) = Len(store)
        /\ \A k \in DOMAIN store : new[k].key = store[k].key
    BY <1>2, PutFields
  <2> HIDE DEF new
  <2>2. Keys(new) = Keys(store) /\ key \in Keys(store)
    BY <1>1, <1>2, <2>1 DEF Keys
  <2>3. QED
    BY <1>1, <2>1, <2>2 DEF new
<1>3. CASE ~ HasKey(store, key)
  <2>1. /\ DOMAIN new = 1..Len(store) + 1 /\ Len(new) = Len(store) + 1
        /\ \A k \in DOMAIN store : new[k] = store[k]
        /\ new[Len(store) + 1] = Stored(key, value)
        /\ Len(store) \in Nat /\ DOMAIN store = 1..Len(store)
    BY <1>3, PutFields
  <2> HIDE DEF new
  <2>2. \A k : k \in DOMAIN new <=> k \in DOMAIN store \/ k = Len(store) + 1
    BY <2>1
  <2>3. Keys(new) = Keys(store) \cup {key}
    <3>1. new[Len(store) + 1].key = key
      BY <2>1 DEF Stored
    <3>2. \A x : x \in Keys(new) <=> \E k \in DOMAIN new : x = new[k].key
      BY DEF Keys
    <3>3. \A x : x \in Keys(store) <=> \E k \in DOMAIN store : x = store[k].key
      BY DEF Keys
    <3>4. \A x : x \in Keys(new) <=> x \in Keys(store) \/ x = key
      BY <2>1, <2>2, <3>1, <3>2, <3>3
    <3>5. QED
      BY <3>4
  <2>4. /\ IsFiniteSet(Keys(store) \cup {key})
        /\ Cardinality(Keys(store) \cup {key}) = Cardinality(Keys(store)) + 1
    BY <1>1, <1>3, FS_AddElement
  <2>5. QED
    BY <1>1, <2>1, <2>3, <2>4 DEF new
<1>4. QED
  BY <1>2, <1>3

(* A store that holds what the records at places P say.                    *)
Holds(store, P) ==
  /\ store \in Scope /\ IsScope(store, P)
  /\ IsFiniteSet(KeysAt(P)) /\ Len(store) = Cardinality(KeysAt(P))

(* A parameter goes where its key was given first, with its last value.    *)
LEMMA HoldsMore ==
  ASSUME NEW n \in Nat \ {0}, NEW P \in SUBSET (1..n - 1), NEW store, Holds(store, P),
         file[n].key \in Key, file[n].value \in Value
  PROVE  /\ Holds(Put(store, file[n].key, file[n].value), P \cup {n})
         /\ KeysAt(P \cup {n}) = KeysAt(P) \cup {file[n].key}
         /\ HasKey(store, file[n].key) <=> file[n].key \in KeysAt(P)
<1> DEFINE key == file[n].key
           value == file[n].value
           new == Put(store, key, value)
           Q == P \cup {n}
           old(x) == WithKey(P, x)
<1>1. store \in Scope /\ Keys(store) = KeysAt(P) /\ key \in Key /\ value \in Value
  BY DEF Holds, IsScope
<1>2. KeysAt(Q) = KeysAt(P) \cup {key}
  BY DEF KeysAt
<1>3. WithKey(Q, key) = old(key) \cup {n} /\ \A x : x # key => WithKey(Q, x) = old(x)
  BY DEF WithKey
<1>4. LastValue(WithKey(Q, key)) = value
  <2>1. old(key) \in SUBSET (1..n - 1)
    BY DEF WithKey
  <2>2. QED
    BY <1>3, <2>1, LastValueOfMore
<1>5. /\ \A k, l \in DOMAIN store : k < l => Min(old(store[k].key)) < Min(old(store[l].key))
      /\ \A k \in DOMAIN store : store[k].value = LastValue(old(store[k].key))
  BY DEF Holds, IsScope
<1> HIDE DEF key, value
<1>6. /\ Keys(new) = Keys(store) \cup {key} /\ (HasKey(store, key) <=> key \in Keys(store))
      /\ IsFiniteSet(Keys(new)) /\ Len(new) = Cardinality(Keys(new))
  BY <1>1, KeysOfPut DEF Holds
<1>7. ASSUME NEW x
      PROVE  old(x) \in SUBSET Nat /\ \A k \in old(x) : k < n
  <2>1. \A k \in P : k \in Nat /\ k < n
    OBVIOUS
  <2>2. \A k \in old(x) : k \in P
    BY DEF WithKey
  <2>3. QED
    BY <2>1, <2>2
<1>8. ASSUME NEW x \in KeysAt(P)
      PROVE  old(x) # {}
  <2>1. PICK k \in P : x = file[k].key
    BY DEF KeysAt
  <2>2. k \in old(x)
    BY <2>1 DEF WithKey
  <2>3. QED
    BY <2>2
<1>9. ASSUME NEW x, x \notin KeysAt(P)
      PROVE  old(x) = {}
  <2>1. \A k \in P : file[k].key # x
    BY <1>9 DEF KeysAt
  <2>2. QED
    BY <2>1 DEF WithKey
<1> HIDE DEF old, Q
<1>10. ASSUME NEW x \in KeysAt(P)
       PROVE  Min(old(x)) < n /\ Min(WithKey(Q, x)) = Min(old(x))
  <2> DEFINE S == old(x)
  <2>1. S \in SUBSET Nat /\ S # {} /\ n \in Nat /\ \A k \in S : k < n
    BY <1>7, <1>8
  <2>2. WithKey(Q, x) = S \/ WithKey(Q, x) = S \cup {n}
    BY <1>3
  <2> HIDE DEF S
  <2>3. Min(S) < n /\ Min(S \cup {n}) = Min(S)
    BY <2>1, MinKept
  <2>4. QED
    BY <2>2, <2>3 DEF S
<1>11. \A k \in DOMAIN store : store[k].key \in KeysAt(P)
  BY <1>1 DEF Keys
<1>12. CASE HasKey(store, key)
  <2>1. /\ DOMAIN new = DOMAIN store /\ new \in Scope
        /\ \A k \in DOMAIN store :
             /\ new[k].key = store[k].key
             /\ new[k].value = IF store[k].key = key THEN value ELSE store[k].value
    BY <1>1, <1>12, PutFields
  <2> HIDE DEF new
  <2>2. \A k, l \in DOMAIN new :
          k < l => Min(WithKey(Q, new[k].key)) < Min(WithKey(Q, new[l].key))
    BY <1>5, <1>10, <1>11, <2>1
  <2>3. ASSUME NEW k \in DOMAIN new
        PROVE  new[k].value = LastValue(WithKey(Q, new[k].key))
    <3>1. CASE store[k].key = key
      BY <1>4, <2>1, <3>1
    <3>2. CASE store[k].key # key
      BY <1>3, <1>5, <2>1, <3>2
    <3>3. QED
      BY <3>1, <3>2
  <2>4. Keys(new) = KeysAt(Q)
    BY <1>1, <1>2, <1>6
  <2>5. Holds(new, Q)
    BY <1>6, <2>1, <2>2, <2>3, <2>4 DEF Holds, IsScope
  <2>6. QED
    BY <1>1, <1>2, <1>6, <2>5 DEF new, key, value, Q
<1>13. CASE ~ HasKey(store, key)
  <2> DEFINE m == Len(store)
  <2>1. /\ m \in Nat /\ DOMAIN store = 1..m /\ DOMAIN new = 1..m + 1 /\ new \in Scope
        /\ \A k \in DOMAIN store : new[k] = store[k]
        /\ new[m + 1] = Stored(key, value)
    BY <1>1, <1>13, PutFields
  <2> HIDE DEF new, m
  <2>2. \A k \in DOMAIN new : k \in DOMAIN store \/ k = m + 1
    BY <2>1
  <2>3. new[m + 1].key = key /\ new[m + 1].value = value
    BY <2>1 DEF Stored
  <2>4. Min(WithKey(Q, key)) = n
    <3>1. n \in {n} /\ {n} \in SUBSET Int /\ \A x \in {n} : n <= x
      OBVIOUS
    <3>2. Min({n}) = n
      BY <3>1, MinIs
    <3>3. old(key) = {}
      BY <1>1, <1>6, <1>9, <1>13
    <3>4. QED
      BY <1>3, <3>2, <3>3
  <2>5. ASSUME NEW k \in DOMAIN new, NEW l \in DOMAIN new, k < l
        PROVE  Min(WithKey(Q, new[k].key)) < Min(WithKey(Q, new[l].key))
    <3>1. k \in DOMAIN store
      BY <2>1, <2>5
    <3>2. CASE l \in DOMAIN store
      BY <1>5, <1>10, <1>11, <2>1, <2>5, <3>1, <3>2
    <3>3. CASE l = m + 1
      BY <1>10, <1>11, <2>1, <2>3, <2>4, <3>1, <3>3
    <3>4. QED
      BY <2>2, <3>2, <3>3
  <2>6. ASSUME NEW k \in DOMAIN new
        PROVE  new[k].value = LastValue(WithKey(Q, new[k].key))
    <3>1. CASE k \in DOMAIN store
      <4>1. store[k].key # key
        BY <1>13, <3>1 DEF HasKey
      <4>2. QED
        BY <1>3, <1>5, <2>1, <3>1, <4>1
    <3>2. CASE k = m + 1
      BY <1>4, <2>3, <3>2
    <3>3. QED
      BY <2>2, <3>1, <3>2
  <2>7. Keys(new) = KeysAt(Q)
    BY <1>1, <1>2, <1>6
  <2>8. Holds(new, Q)
    BY <1>6, <2>1, <2>5, <2>6, <2>7 DEF Holds, IsScope
  <2>9. QED
    BY <1>1, <1>2, <1>6, <2>8 DEF new, key, value, Q
<1>14. QED
  BY <1>12, <1>13

(* No parameter, no key.                                                   *)
LEMMA HoldsNone == Holds(<<>>, {})
<1>1. <<>> \in Scope /\ DOMAIN <<>> = {} /\ Len(<<>>) = 0
  BY EmptySeq DEF Scope
<1>2. Keys(<<>>) = {}
  BY <1>1 DEF Keys
<1>3. QED
  BY <1>1, <1>2, NoPlace DEF Holds, IsScope

----------------------------------------------------------------------------
(* What the first n records say, from what the records before them do      *)

LEMMA OfMore ==
  ASSUME NEW n \in Nat \ {0}, NEW kind
  PROVE  /\ Of(kind, n - 1) \in SUBSET (1..n - 1)
         /\ file[n].kind = kind => Of(kind, n) = Of(kind, n - 1) \cup {n}
         /\ file[n].kind # kind => Of(kind, n) = Of(kind, n - 1)
<1>1. \A k : k \in 1..n <=> k \in 1..n - 1 \/ k = n
  OBVIOUS
<1>2. QED
  BY <1>1 DEF Of

LEMMA OfNodeMore ==
  ASSUME NEW n \in Nat \ {0}, NEW kind, NEW ref
  PROVE  /\ OfNode(ref, kind, n - 1) \in SUBSET (1..n - 1)
         /\ file[n].kind = kind /\ file[n].ref = ref =>
              OfNode(ref, kind, n) = OfNode(ref, kind, n - 1) \cup {n}
         /\ file[n].kind # kind \/ file[n].ref # ref =>
              OfNode(ref, kind, n) = OfNode(ref, kind, n - 1)
<1> DEFINE A == Of(kind, n)
           B == Of(kind, n - 1)
<1>1. /\ B \in SUBSET (1..n - 1)
      /\ file[n].kind = kind => A = B \cup {n}
      /\ file[n].kind # kind => A = B
  BY OfMore
<1>2. /\ OfNode(ref, kind, n) = {k \in A : file[k].ref = ref}
      /\ OfNode(ref, kind, n - 1) = {k \in B : file[k].ref = ref}
  BY DEF OfNode
<1> HIDE DEF A, B
<1>3. QED
  BY <1>1, <1>2

LEMMA NodeRefsMore ==
  ASSUME NEW n \in Nat \ {0}
  PROVE  /\ file[n].kind \in NodeKinds => NodeRefs(n) = NodeRefs(n - 1) \cup {file[n].ref}
         /\ file[n].kind \notin NodeKinds => NodeRefs(n) = NodeRefs(n - 1)
<1> DEFINE A(i) == {l \in 1..i : file[l].kind \in NodeKinds}
<1>1. \A k : k \in 1..n <=> k \in 1..n - 1 \/ k = n
  OBVIOUS
<1>2. /\ file[n].kind \in NodeKinds => A(n) = A(n - 1) \cup {n}
      /\ file[n].kind \notin NodeKinds => A(n) = A(n - 1)
  BY <1>1
<1>3. \A i : NodeRefs(i) = {file[k].ref : k \in A(i)}
  BY DEF NodeRefs
<1> HIDE DEF A
<1>4. QED
  BY <1>2, <1>3

(* No record, no place.                                                    *)
LEMMA NoRecord ==
  /\ \A kind : Of(kind, 0) = {}
  /\ \A ref, kind : OfNode(ref, kind, 0) = {}
  /\ NodeRefs(0) = {}
<1>1. 1..0 = {}
  OBVIOUS
<1>2. \A kind : Of(kind, 0) = {}
  BY <1>1 DEF Of
<1>3. \A ref, kind : OfNode(ref, kind, 0) = {}
  BY <1>2 DEF OfNode
<1>4. NodeRefs(0) = {}
  BY <1>1 DEF NodeRefs
<1>5. QED
  BY <1>2, <1>3, <1>4

(* A node nobody has named has no field.                                   *)
LEMMA NoField ==
  ASSUME NEW n \in Nat, NEW kind \in NodeKinds, NEW ref, ref \notin NodeRefs(n)
  PROVE  OfNode(ref, kind, n) = {}
<1>1. SUFFICES ASSUME NEW k \in OfNode(ref, kind, n)
               PROVE  FALSE
  BY Zenon
<1>2. k \in 1..n /\ file[k].kind = kind /\ file[k].ref = ref
  BY DEF OfNode, Of
<1>3. ref \in NodeRefs(n)
  BY <1>2 DEF NodeRefs
<1>4. QED
  BY <1>3

(* Fields of a record of the file.                                         *)
LEMMA RecordFacts ==
  ASSUME NEW r \in Record
  PROVE  /\ r.kind \in Kinds
         /\ r.kind \in NodeKinds => r.ref \in Ref
         /\ r.kind \in {"entry", "link"} => r.value \in Ref
         /\ r.kind \in {"param", "node_param"} => r.key \in Key
         /\ r.kind \in {"id", "file", "exec", "param", "node_param"} => r.value \in Value
<1> DEFINE T == [kind : Kinds, ref : Ref \cup {Null}, key : Key \cup {Null}, value : Value \cup Ref]
<1>1. r \in T
  BY DEF Record
<1>2. r.kind \in Kinds
  BY <1>1
<1>3. QED
  BY <1>2 DEF Record

LEMMA RefsAreFinite ==
  ASSUME NEW n \in Nat, \A k \in 1..n : file[k] \in Record
  PROVE  NodeRefs(n) \in SUBSET Ref /\ IsFiniteSet(NodeRefs(n))
<1>1. NodeRefs(n) \in SUBSET Ref
  BY RecordFacts DEF NodeRefs
<1>2. QED
  BY <1>1, RefAssumption, FS_Subset

(* The keys at finitely many places are finitely many.                     *)
LEMMA KeysAreFinite ==
  ASSUME NEW P, IsFiniteSet(P)
  PROVE  IsFiniteSet(KeysAt(P))
<1> DEFINE f == [k \in P |-> file[k].key]
<1>1. f \in [P -> KeysAt(P)] /\ \A x \in KeysAt(P) : \E k \in P : f[k] = x
  BY DEF KeysAt
<1>2. f \in Surjection(P, KeysAt(P))
  BY <1>1 DEF Surjection
<1> HIDE DEF f
<1>3. QED
  BY <1>2, FS_Surjection

(* A file that can be stored can be stored up to any record of it.         *)
LEMMA StorableBefore ==
  ASSUME NEW m \in Nat, NEW n \in 0..m, \A k \in 1..m : file[k] \in Record, Storable(m)
  PROVE  Storable(n)
<1>1. n \in Nat /\ 1..n \subseteq 1..m /\ IsFiniteSet(1..m)
  BY FS_Interval
<1>2. \A kind : Of(kind, n) \in SUBSET Of(kind, m) /\ Of(kind, m) \in SUBSET (1..m)
  BY <1>1 DEF Of
<1>3. \A ref, kind : /\ OfNode(ref, kind, n) \in SUBSET OfNode(ref, kind, m)
                     /\ OfNode(ref, kind, m) \in SUBSET (1..m)
  BY <1>2 DEF OfNode
<1>4. NodeRefs(n) \in SUBSET NodeRefs(m)
  BY <1>1 DEF NodeRefs
<1>5. ASSUME NEW P, NEW Q, P \in SUBSET Q, Q \in SUBSET (1..m)
      PROVE  /\ Cardinality(P) <= Cardinality(Q)
             /\ Cardinality(KeysAt(P)) <= Cardinality(KeysAt(Q))
             /\ Cardinality(P) \in Nat /\ Cardinality(Q) \in Nat
             /\ Cardinality(KeysAt(P)) \in Nat /\ Cardinality(KeysAt(Q)) \in Nat
  <2>1. IsFiniteSet(Q) /\ IsFiniteSet(P)
    BY <1>1, <1>5, FS_Subset
  <2>2. KeysAt(P) \in SUBSET KeysAt(Q)
    BY <1>5 DEF KeysAt
  <2>3. IsFiniteSet(KeysAt(Q)) /\ IsFiniteSet(KeysAt(P))
    BY <2>1, KeysAreFinite
  <2>4. QED
    BY <1>5, <2>1, <2>2, <2>3, FS_Subset, FS_CardinalityType
<1>6. \A k \in 1..n : file[k].kind \notin {"invalid", "unknown", "bad_ref", "bad_field"}
  BY <1>1 DEF Storable
<1>7. Cardinality(NodeRefs(n)) <= MaxNodes
  <2>1. IsFiniteSet(NodeRefs(m))
    BY RefsAreFinite
  <2>2. IsFiniteSet(NodeRefs(n)) /\ Cardinality(NodeRefs(n)) <= Cardinality(NodeRefs(m))
    BY <1>4, <2>1, FS_Subset
  <2>3. Cardinality(NodeRefs(n)) \in Nat /\ Cardinality(NodeRefs(m)) \in Nat
    BY <2>1, <2>2, FS_CardinalityType
  <2>4. Cardinality(NodeRefs(m)) <= MaxNodes
    BY DEF Storable
  <2>5. QED
    BY <2>2, <2>3, <2>4, LoaderAssumption
<1>8. MaxLinks \in Nat /\ MaxOverrides \in Nat
  BY LoaderAssumption, StoreAssumption
<1>9. Cardinality(Of("entry", n)) <= MaxLinks
  <2>1. Cardinality(Of("entry", m)) <= MaxLinks
    BY DEF Storable
  <2>2. QED
    BY <1>2, <1>5, <1>8, <2>1
<1>10. Cardinality(KeysAt(Of("param", n))) <= MaxOverrides
  <2>1. Cardinality(KeysAt(Of("param", m))) <= MaxOverrides
    BY DEF Storable
  <2>2. QED
    BY <1>2, <1>5, <1>8, <2>1
<1>11. ASSUME NEW r \in NodeRefs(n)
       PROVE  /\ Cardinality(OfNode(r, "link", n)) <= MaxLinks
              /\ Cardinality(KeysAt(OfNode(r, "node_param", n))) <= MaxOverrides
  <2>1. /\ Cardinality(OfNode(r, "link", m)) <= MaxLinks
        /\ Cardinality(KeysAt(OfNode(r, "node_param", m))) <= MaxOverrides
    BY <1>4 DEF Storable
  <2>2. QED
    BY <1>3, <1>5, <1>8, <2>1
<1>12. QED
  BY <1>6, <1>7, <1>9, <1>10, <1>11 DEF Storable

----------------------------------------------------------------------------
(* The strings a model owns                                                *)

LEMMA NodeFields ==
  ASSUME NEW node \in NodeType
  PROVE  /\ node.ref \in Ref \cup {Null}
         /\ node.file \in Value \cup {Null} /\ node.exec \in Value \cup {Null}
         /\ node.params \in Scope /\ node.links \in Seq(Ref)
         /\ Len(node.params) \in Nat /\ Len(node.links) \in Nat
         /\ InNode(node) \in Nat
<1>1. /\ node.ref \in Ref \cup {Null}
      /\ node.file \in Value \cup {Null} /\ node.exec \in Value \cup {Null}
      /\ node.params \in Scope /\ node.links \in Seq(Ref)
  BY DEF NodeType
<1>2. Len(node.params) \in Nat /\ Len(node.links) \in Nat
  BY <1>1, LenProperties DEF Scope
<1>3. Set(node.ref) \in Nat /\ Set(node.file) \in Nat /\ Set(node.exec) \in Nat
  BY DEF Set
<1>4. InNode(node) \in Nat
  BY <1>2, <1>3, SMTT(30) DEF InNode
<1>5. QED
  BY <1>1, <1>2, <1>4

(* The strings of the first nodes, for every number of them.               *)
Sums(nodes, f) ==
  /\ f \in [0..Len(nodes) -> Nat] /\ f[0] = 0
  /\ \A k \in 1..Len(nodes) : f[k] = f[k - 1] + InNode(nodes[k])

LEMMA InNodesTable ==
  ASSUME NEW nodes \in Seq(NodeType)
  PROVE  \E f : Sums(nodes, f) /\ InNodes(nodes) = f[Len(nodes)]
<1> DEFINE n == Len(nodes)
           step == [k \in 1..n |-> [x \in Nat |-> x + InNode(nodes[k])]]
           Table(u) == [k \in 0..n |-> IF k = 0 THEN 0 ELSE u[k - 1] + InNode(nodes[k])]
           U == CHOOSE u : u = Table(u)
<1>1. n \in Nat /\ \A k \in 1..n : InNode(nodes[k]) \in Nat
  BY LenProperties, ElementOfSeq, NodeFields
<1>2. step \in [1..n -> [Nat -> Nat]]
  BY <1>1
<1>3. PICK f \in [0..n -> Nat] : Rows(n, 0, step, f)
  <2> HIDE DEF step, n
  <2>1. 0 \in Nat
    OBVIOUS
  <2>2. QED
    BY <1>1, <1>2, <2>1, TableExists
<1>4. f[0] = 0 /\ \A k \in 1..n : f[k] = step[k][f[k - 1]]
  BY <1>3 DEF Rows
<1>5. f = Table(f)
  <2>1. \A k \in 1..n : step[k][f[k - 1]] = f[k - 1] + InNode(nodes[k])
    <3>1. ASSUME NEW k \in 1..n
          PROVE  f[k - 1] \in Nat
      <4> HIDE DEF step, n
      <4>1. k - 1 \in 0..n
        BY <1>1
      <4>2. QED
        BY <1>3, <4>1
    <3>2. QED
      BY <3>1
  <2>2. \A k \in 0..n : k = 0 \/ k \in 1..n
    BY <1>1
  <2> HIDE DEF step, n
  <2>3. \A k \in 0..n : f[k] = IF k = 0 THEN 0 ELSE f[k - 1] + InNode(nodes[k])
    BY <1>4, <2>1, <2>2
  <2>4. f = [k \in 0..n |-> f[k]]
    OBVIOUS
  <2>5. QED
    BY <2>3, <2>4
<1>6. U = Table(U)
  <2> HIDE DEF Table
  <2>1. QED
    BY <1>5, Zenon
<1>7. InNodes(nodes) = U[n]
  BY DEF InNodes
<1> HIDE DEF U
<1>8. U[0] = 0 /\ \A k \in 1..n : U[k] = U[k - 1] + InNode(nodes[k])
  BY <1>1, <1>6
<1> DEFINE S == {m \in Nat : m <= n => U[m] \in Nat}
<1>9. 0 \in S
  BY <1>8
<1>10. ASSUME NEW m \in S
       PROVE  m + 1 \in S
  <2>1. CASE m + 1 <= n
    <3>1. m + 1 \in 1..n /\ m + 1 - 1 = m /\ U[m] \in Nat
      BY <1>1, <2>1
    <3>2. U[m + 1] = U[m] + InNode(nodes[m + 1])
      BY <1>8, <3>1
    <3>3. QED
      BY <1>1, <3>1, <3>2
  <2>2. QED
    BY <2>1
<1>11. S = Nat
  <2>1. S \in SUBSET Nat
    OBVIOUS
  <2> HIDE DEF S
  <2>2. QED
    BY <1>9, <1>10, <2>1, FromZero
<1>12. U \in [0..n -> Nat]
  <2>1. \A k \in 0..n : U[k] \in Nat
    BY <1>1, <1>11
  <2>2. DOMAIN U = 0..n /\ U = [k \in 0..n |-> U[k]]
    BY <1>6
  <2>3. QED
    BY <2>1, <2>2
<1>13. QED
  BY <1>7, <1>8, <1>12 DEF Sums

(* Two tables whose steps agree but at place j.                            *)
Apart(f, g, n, j, d) ==
  /\ f[0] = g[0]
  /\ \A k \in 1..n : f[k] - f[k - 1] = g[k] - g[k - 1] + (IF k = j THEN d ELSE 0)

LEMMA SumsDiffer ==
  ASSUME NEW n \in Nat, NEW f \in [0..n -> Nat], NEW g \in [0..n -> Nat],
         NEW j \in Nat \ {0}, NEW d \in Int, Apart(f, g, n, j, d)
  PROVE  f[n] = g[n] + (IF j <= n THEN d ELSE 0)
<1> DEFINE S == {m \in Nat : m <= n => f[m] = g[m] + (IF j <= m THEN d ELSE 0)}
<1>1. 0 \in S
  BY DEF Apart
<1>2. ASSUME NEW m \in S
      PROVE  m + 1 \in S
  <2>1. CASE m + 1 <= n
    <3>1. m + 1 \in 1..n /\ m + 1 - 1 = m /\ m \in 0..n /\ m + 1 \in 0..n
      BY <2>1
    <3>2. /\ f[m] \in Nat /\ g[m] \in Nat /\ f[m + 1] \in Nat /\ g[m + 1] \in Nat
          /\ f[m + 1] - f[m] = g[m + 1] - g[m] + (IF m + 1 = j THEN d ELSE 0)
          /\ f[m] = g[m] + (IF j <= m THEN d ELSE 0)
      BY <3>1, SMTT(30) DEF Apart
    <3> DEFINE a == f[m]
               b == g[m]
               x == f[m + 1]
               y == g[m + 1]
    <3>3. /\ a \in Nat /\ b \in Nat /\ x \in Nat /\ y \in Nat
          /\ x - a = y - b + (IF m + 1 = j THEN d ELSE 0)
          /\ a = b + (IF j <= m THEN d ELSE 0)
      BY <3>2
    <3> HIDE DEF a, b, x, y
    <3>4. m \in Nat
      OBVIOUS
    <3>5. x = y + (IF j <= m + 1 THEN d ELSE 0)
      <4> HIDE DEF S
      <4>1. CASE m + 1 = j
        BY <3>3, <3>4, <4>1
      <4>2. CASE m + 1 # j
        BY <3>3, <3>4, <4>2
      <4>3. QED
        BY <4>1, <4>2
    <3>6. QED
      BY <3>4, <3>5 DEF x, y
  <2>2. QED
    BY <2>1
<1>3. S = Nat
  <2>1. S \in SUBSET Nat
    OBVIOUS
  <2> HIDE DEF S
  <2>2. QED
    BY <1>1, <1>2, <2>1, FromZero
<1>4. n \in S
  <2> HIDE DEF S
  <2>1. QED
    BY <1>3
<1>5. QED
  BY <1>4

LEMMA InNodesOfMore ==
  ASSUME NEW nodes \in Seq(NodeType), NEW node \in NodeType
  PROVE  /\ InNodes(nodes) \in Nat
         /\ InNodes(Append(nodes, node)) = InNodes(nodes) + InNode(node)
<1> DEFINE n == Len(nodes)
           new == Append(nodes, node)
<1>1. /\ n \in Nat /\ new \in Seq(NodeType) /\ Len(new) = n + 1 /\ new[n + 1] = node
      /\ \A k \in 1..n : new[k] = nodes[k]
  BY LenProperties, AppendProperties
<1> HIDE DEF new
<1>2. PICK g : Sums(nodes, g) /\ InNodes(nodes) = g[n]
  BY InNodesTable
<1>3. PICK f : Sums(new, f) /\ InNodes(new) = f[n + 1]
  BY <1>1, InNodesTable
<1> HIDE DEF n
<1>4. /\ g \in [0..n -> Nat] /\ g[0] = 0
      /\ \A k \in 1..n : g[k] = g[k - 1] + InNode(nodes[k])
  BY <1>2 DEF Sums, n
<1>5. /\ f \in [0..n + 1 -> Nat] /\ f[0] = 0
      /\ \A k \in 1..n + 1 : f[k] = f[k - 1] + InNode(new[k])
  BY <1>1, <1>3 DEF Sums
<1> DEFINE h == [k \in 0..n |-> f[k]]
<1>6. h \in [0..n -> Nat] /\ h[0] = 0 /\ h[n] = f[n]
  BY <1>1, <1>5
<1>7. \A k \in 1..n : h[k] - h[k - 1] = g[k] - g[k - 1] + (IF k = n + 1 THEN 0 ELSE 0)
  <2>1. ASSUME NEW k \in 1..n
        PROVE  h[k] - h[k - 1] = g[k] - g[k - 1] + (IF k = n + 1 THEN 0 ELSE 0)
    <3>1. k \in 0..n /\ k - 1 \in 0..n /\ k \in 1..n + 1 /\ h[k] = f[k] /\ h[k - 1] = f[k - 1]
      BY <1>1
    <3>2. f[k] = f[k - 1] + InNode(nodes[k]) /\ g[k] = g[k - 1] + InNode(nodes[k])
      BY <1>1, <1>4, <1>5, <3>1
    <3>3. InNode(nodes[k]) \in Nat /\ f[k - 1] \in Nat /\ g[k - 1] \in Nat
      <4>1. nodes[k] \in NodeType
        BY ElementOfSeq DEF n
      <4>2. InNode(nodes[k]) \in Nat
        BY <4>1, NodeFields
      <4>3. QED
        BY <1>1, <1>4, <1>5, <3>1, <4>2
    <3>4. QED
      BY <3>1, <3>2, <3>3
  <2>2. QED
    BY <2>1
<1> HIDE DEF h
<1>8. Apart(h, g, n, n + 1, 0)
  BY <1>4, <1>6, <1>7 DEF Apart
<1>9. h[n] = g[n]
  <2>1. n + 1 \in Nat \ {0} /\ 0 \in Int
    BY <1>1
  <2>2. h[n] = g[n] + (IF n + 1 <= n THEN 0 ELSE 0)
    BY <1>1, <1>4, <1>6, <1>8, <2>1, SumsDiffer
  <2>3. g[n] \in Nat
    BY <1>1, <1>4
  <2>4. QED
    BY <2>2, <2>3
<1>10. f[n + 1] = f[n] + InNode(node) /\ g[n] \in Nat
  <2>1. n + 1 \in 1..n + 1 /\ n + 1 - 1 = n /\ n \in 0..n
    BY <1>1
  <2>2. f[n + 1] = f[n + 1 - 1] + InNode(new[n + 1])
    BY <1>5, <2>1
  <2>3. new[n + 1] = node
    BY <1>1
  <2>4. g[n] \in Nat
    BY <1>4, <2>1
  <2>5. QED
    BY <2>1, <2>2, <2>3, <2>4
<1>11. QED
  BY <1>2, <1>3, <1>6, <1>9, <1>10 DEF new

LEMMA InNodesOfChanged ==
  ASSUME NEW nodes \in Seq(NodeType), NEW j \in DOMAIN nodes, NEW node \in NodeType
  PROVE  InNodes([nodes EXCEPT ![j] = node]) = InNodes(nodes) + InNode(node) - InNode(nodes[j])
<1> DEFINE n == Len(nodes)
           new == [nodes EXCEPT ![j] = node]
           d == InNode(node) - InNode(nodes[j])
<1>1. /\ n \in Nat /\ j \in 1..n /\ new \in Seq(NodeType) /\ Len(new) = n
      /\ \A k \in 1..n : new[k] = IF k = j THEN node ELSE nodes[k]
  BY LenProperties, ExceptSeq
<1>2. \A k \in 1..n : InNode(nodes[k]) \in Nat
  BY ElementOfSeq, NodeFields
<1>3. InNode(node) \in Nat /\ InNode(nodes[j]) \in Nat /\ d \in Int
  BY <1>1, <1>2, NodeFields
<1> HIDE DEF new
<1>4. PICK g : Sums(nodes, g) /\ InNodes(nodes) = g[n]
  BY InNodesTable
<1>5. PICK f : Sums(new, f) /\ InNodes(new) = f[n]
  BY <1>1, InNodesTable
<1> HIDE DEF n
<1>6. /\ g \in [0..n -> Nat] /\ g[0] = 0
      /\ \A k \in 1..n : g[k] = g[k - 1] + InNode(nodes[k])
  BY <1>4 DEF Sums, n
<1>7. /\ f \in [0..n -> Nat] /\ f[0] = 0
      /\ \A k \in 1..n : f[k] = f[k - 1] + InNode(new[k])
  BY <1>1, <1>5 DEF Sums
<1>8. ASSUME NEW k \in 1..n
      PROVE  f[k] - f[k - 1] = g[k] - g[k - 1] + (IF k = j THEN d ELSE 0)
  <2>1. f[k - 1] \in Nat /\ g[k - 1] \in Nat
    <3>1. k - 1 \in 0..n
      BY <1>1
    <3>2. QED
      BY <1>6, <1>7, <3>1
  <2>2. f[k] = f[k - 1] + InNode(new[k]) /\ g[k] = g[k - 1] + InNode(nodes[k])
    BY <1>6, <1>7
  <2>3. CASE k = j
    <3>1. new[k] = node /\ nodes[k] = nodes[j]
      BY <1>1, <2>3
    <3>2. QED
      BY <1>3, <2>1, <2>2, <2>3, <3>1, SMTT(30)
  <2>4. CASE k # j
    <3>1. new[k] = nodes[k] /\ InNode(nodes[k]) \in Nat
      BY <1>1, <1>2, <2>4
    <3>2. QED
      BY <2>1, <2>2, <2>4, <3>1
  <2>5. QED
    BY <2>3, <2>4
<1> HIDE DEF d
<1>9. j \in Nat \ {0} /\ j <= n
  BY <1>1
<1>10. f[n] = g[n] + (IF j <= n THEN d ELSE 0)
  <2>1. Apart(f, g, n, j, d)
    BY <1>6, <1>7, <1>8 DEF Apart
  <2>2. QED
    BY <1>1, <1>3, <1>6, <1>7, <1>9, <2>1, SumsDiffer, ZenonT(60)
<1>11. g[n] \in Nat
  BY <1>1, <1>6
<1>12. QED
  BY <1>3, <1>4, <1>5, <1>9, <1>10, <1>11 DEF new, d

(* A model that owns nothing.                                              *)
LEMMA EmptyOwnsNothing == Owned(Empty) = 0
<1>1. <<>> \in Seq(NodeType) /\ Len(<<>>) = 0
  BY EmptySeq
<1>2. PICK f : Sums(<<>>, f) /\ InNodes(<<>>) = f[Len(<<>>)]
  BY <1>1, InNodesTable
<1>3. InNodes(<<>>) = 0
  BY <1>1, <1>2 DEF Sums
<1>4. QED
  BY <1>1, <1>3 DEF Owned, Empty, Set

----------------------------------------------------------------------------
(* The model the first n records build                                     *)

(* No limit is exceeded.                                                   *)
Fits(node) == Len(node.params) <= MaxOverrides /\ Len(node.links) <= MaxLinks

ModelRecord ==
  [id : Value \cup {Null}, params : Scope, entry : Seq(Ref), nodes : Seq(NodeType)]

ModelFits(m) ==
  /\ m \in ModelRecord
  /\ Len(m.params) <= MaxOverrides /\ Len(m.entry) <= MaxLinks
  /\ Len(m.nodes) <= MaxNodes
  /\ \A k \in DOMAIN m.nodes : Fits(m.nodes[k])

(* Records of a known form.                                                *)
Bad      == {"invalid", "unknown", "bad_ref", "bad_field"}
Known(n) == \A k \in 1..n : file[k].kind \notin Bad

NodeHolds(node, n) ==
  IsNode(node, n) /\ Holds(node.params, OfNode(node.ref, "node_param", n))

(* Nodes for refs, each once, that hold what the first n records say.      *)
NodesHold(nodes, refs, n) ==
  /\ {nodes[k].ref : k \in DOMAIN nodes} = refs
  /\ \A k, l \in DOMAIN nodes : nodes[k].ref = nodes[l].ref => k = l
  /\ Len(nodes) = Cardinality(refs)
  /\ \A k \in DOMAIN nodes : NodeHolds(nodes[k], n)

Built(m, n) ==
  /\ m.id = LastValue(Of("id", n))
  /\ m.entry = Values(Of("entry", n))
  /\ Holds(m.params, Of("param", n))
  /\ NodesHold(m.nodes, NodeRefs(n), n)

Good(m, n) == ModelFits(m) /\ Built(m, n) /\ Known(n)

LEMMA BuiltIsDescribed ==
  ASSUME NEW m, NEW n, Built(m, n)
  PROVE  Describes(m, n)
<1>1. IsScope(m.params, Of("param", n))
  BY DEF Built, Holds
<1>2. \A k \in DOMAIN m.nodes : IsNode(m.nodes[k], n)
  BY DEF Built, NodesHold, NodeHolds
<1>3. /\ {m.nodes[k].ref : k \in DOMAIN m.nodes} = NodeRefs(n)
      /\ Len(m.nodes) = Cardinality(NodeRefs(n))
  BY DEF Built, NodesHold
<1>4. m.id = LastValue(Of("id", n)) /\ m.entry = Values(Of("entry", n))
  BY DEF Built
<1>5. QED
  BY <1>1, <1>2, <1>3, <1>4 DEF Describes

LEMMA PlacesAreFinite ==
  ASSUME NEW n \in Nat
  PROVE  /\ \A kind : /\ Of(kind, n) \in SUBSET (1..n) /\ IsFiniteSet(Of(kind, n))
                      /\ Cardinality(Of(kind, n)) \in Nat
         /\ \A ref, kind : /\ OfNode(ref, kind, n) \in SUBSET (1..n)
                           /\ IsFiniteSet(OfNode(ref, kind, n))
                           /\ Cardinality(OfNode(ref, kind, n)) \in Nat
<1>1. IsFiniteSet(1..n)
  BY FS_Interval
<1>2. \A kind : Of(kind, n) \in SUBSET (1..n)
  BY DEF Of
<1>3. \A ref, kind : OfNode(ref, kind, n) \in SUBSET (1..n)
  BY <1>2 DEF OfNode
<1>4. \A S \in SUBSET (1..n) : IsFiniteSet(S) /\ Cardinality(S) \in Nat
  BY <1>1, FS_Subset, FS_CardinalityType
<1>5. QED
  BY <1>2, <1>3, <1>4

LEMMA ValuesLength ==
  ASSUME NEW n \in Nat, NEW P \in SUBSET (1..n)
  PROVE  Len(Values(P)) = Cardinality(P)
<1> DEFINE i == n + 1
<1>1. i \in Nat \ {0} /\ i - 1 = n
  OBVIOUS
<1> HIDE DEF i
<1>2. P \in SUBSET (1..i - 1)
  BY <1>1
<1>3. QED
  BY <1>1, <1>2, ValuesOfMore

(* What has been built could be stored.                                    *)
LEMMA BuiltIsStorable ==
  ASSUME NEW n \in Nat, NEW m, Good(m, n)
  PROVE  Storable(n)
<1>1. \A k \in 1..n : file[k].kind \notin {"invalid", "unknown", "bad_ref", "bad_field"}
  BY DEF Good, Known, Bad
<1>2. /\ m.entry = Values(Of("entry", n)) /\ Holds(m.params, Of("param", n))
      /\ NodesHold(m.nodes, NodeRefs(n), n)
  BY DEF Good, Built
<1>3. /\ Len(m.params) <= MaxOverrides /\ Len(m.entry) <= MaxLinks
      /\ Len(m.nodes) <= MaxNodes /\ \A k \in DOMAIN m.nodes : Fits(m.nodes[k])
  BY DEF Good, ModelFits
<1>4. Cardinality(NodeRefs(n)) <= MaxNodes
  BY <1>2, <1>3 DEF NodesHold
<1>5. Cardinality(Of("entry", n)) <= MaxLinks
  BY <1>2, <1>3, PlacesAreFinite, ValuesLength
<1>6. Cardinality(KeysAt(Of("param", n))) <= MaxOverrides
  BY <1>2, <1>3 DEF Holds
<1>7. ASSUME NEW r \in NodeRefs(n)
      PROVE  /\ Cardinality(OfNode(r, "link", n)) <= MaxLinks
             /\ Cardinality(KeysAt(OfNode(r, "node_param", n))) <= MaxOverrides
  <2>1. PICK k \in DOMAIN m.nodes : m.nodes[k].ref = r
    BY <1>2 DEF NodesHold
  <2> DEFINE node == m.nodes[k]
  <2>2. node.ref = r /\ NodeHolds(node, n) /\ Fits(node)
    BY <1>2, <1>3, <2>1 DEF NodesHold
  <2> HIDE DEF node
  <2>3. node.links = Values(OfNode(r, "link", n)) /\ Holds(node.params, OfNode(r, "node_param", n))
    BY <2>2 DEF NodeHolds, IsNode
  <2>4. Len(node.links) = Cardinality(OfNode(r, "link", n))
    BY <2>3, PlacesAreFinite, ValuesLength
  <2>5. Len(node.params) = Cardinality(KeysAt(OfNode(r, "node_param", n)))
    BY <2>3 DEF Holds
  <2>6. QED
    BY <2>2, <2>4, <2>5 DEF Fits
<1>8. QED
  BY <1>1, <1>4, <1>5, <1>6, <1>7 DEF Storable

LEMMA KnownMore ==
  ASSUME NEW n \in Nat \ {0}, Known(n - 1), file[n].kind \notin Bad
  PROVE  Known(n)
<1>1. \A k : k \in 1..n => k \in 1..n - 1 \/ k = n
  OBVIOUS
<1>2. QED
  BY <1>1 DEF Known

(* A record leaves the nodes alone that it does not name.                  *)
LEMMA NodeSame ==
  ASSUME NEW n \in Nat \ {0}, NEW node, NodeHolds(node, n - 1),
         file[n].kind \notin NodeKinds \/ file[n].ref # node.ref
  PROVE  NodeHolds(node, n)
<1>1. ASSUME NEW kind \in NodeKinds
      PROVE  OfNode(node.ref, kind, n) = OfNode(node.ref, kind, n - 1)
  <2>1. file[n].kind # kind \/ file[n].ref # node.ref
    OBVIOUS
  <2>2. QED
    BY <2>1, OfNodeMore
<1>2. {"file", "exec", "link", "node_param"} \subseteq NodeKinds
  BY DEF NodeKinds
<1>3. /\ OfNode(node.ref, "file", n) = OfNode(node.ref, "file", n - 1)
      /\ OfNode(node.ref, "exec", n) = OfNode(node.ref, "exec", n - 1)
      /\ OfNode(node.ref, "link", n) = OfNode(node.ref, "link", n - 1)
      /\ OfNode(node.ref, "node_param", n) = OfNode(node.ref, "node_param", n - 1)
  BY <1>1, <1>2
<1>4. QED
  BY <1>3 DEF NodeHolds, IsNode

LEMMA NodesSame ==
  ASSUME NEW n \in Nat \ {0}, NEW nodes, NodesHold(nodes, NodeRefs(n - 1), n - 1),
         file[n].kind \notin NodeKinds
  PROVE  NodesHold(nodes, NodeRefs(n), n)
<1>1. NodeRefs(n) = NodeRefs(n - 1)
  BY NodeRefsMore
<1>2. \A k \in DOMAIN nodes : NodeHolds(nodes[k], n)
  BY NodeSame DEF NodesHold
<1>3. QED
  BY <1>1, <1>2 DEF NodesHold

----------------------------------------------------------------------------
(* One record more                                                         *)

LEMMA OwnedFacts ==
  ASSUME NEW m \in ModelRecord
  PROVE  /\ Owned(m) \in Nat /\ Set(m.id) \in 0..1 /\ Len(m.params) \in Nat
         /\ Len(m.entry) \in Nat /\ InNodes(m.nodes) \in Nat /\ Len(m.nodes) \in Nat
         /\ DOMAIN m.nodes = 1..Len(m.nodes)
         /\ m.id \in Value \cup {Null} /\ m.params \in Scope /\ m.entry \in Seq(Ref)
         /\ m.nodes \in Seq(NodeType)
<1>1. /\ m.id \in Value \cup {Null} /\ m.params \in Scope /\ m.entry \in Seq(Ref)
      /\ m.nodes \in Seq(NodeType)
  BY DEF ModelRecord
<1>2. /\ Len(m.params) \in Nat /\ Len(m.entry) \in Nat /\ Len(m.nodes) \in Nat
      /\ DOMAIN m.nodes = 1..Len(m.nodes)
  BY <1>1, LenProperties DEF Scope
<1>3. Set(m.id) \in 0..1
  BY DEF Set
<1>4. InNodes(m.nodes) \in Nat
  <2>1. PICK f : Sums(m.nodes, f) /\ InNodes(m.nodes) = f[Len(m.nodes)]
    BY <1>1, InNodesTable
  <2>2. QED
    BY <1>2, <2>1 DEF Sums
<1>5. Owned(m) \in Nat
  BY <1>2, <1>3, <1>4, SMTT(30) DEF Owned
<1>6. QED
  BY <1>1, <1>2, <1>3, <1>4, <1>5

LEMMA BlankStep ==
  ASSUME NEW n \in Nat \ {0}, NEW m, Good(m, n - 1), file[n].kind = "blank"
  PROVE  Good(m, n)
<1>1. \A kind : kind # "blank" => Of(kind, n) = Of(kind, n - 1)
  BY OfMore
<1>2. file[n].kind \notin NodeKinds /\ file[n].kind \notin Bad
  BY DEF NodeKinds, Bad
<1>3. NodesHold(m.nodes, NodeRefs(n), n)
  BY <1>2, NodesSame DEF Good, Built
<1>4. Built(m, n)
  BY <1>1, <1>3 DEF Good, Built
<1>5. Known(n)
  BY <1>2, KnownMore DEF Good
<1>6. QED
  BY <1>4, <1>5 DEF Good

LEMMA IdStep ==
  ASSUME NEW n \in Nat \ {0}, NEW m, Good(m, n - 1), file[n] \in Record, file[n].kind = "id"
  PROVE  LET new == [m EXCEPT !.id = file[n].value] IN
         Good(new, n) /\ Owned(new) = Owned(m) + Replaced(m.id)
<1> DEFINE new == [m EXCEPT !.id = file[n].value]
<1>1. \A kind : kind # "id" => Of(kind, n) = Of(kind, n - 1)
  BY OfMore
<1>2. LastValue(Of("id", n)) = file[n].value
  <2>1. Of("id", n - 1) \in SUBSET (1..n - 1) /\ Of("id", n) = Of("id", n - 1) \cup {n}
    BY OfMore
  <2>2. QED
    BY <2>1, LastValueOfMore
<1>3. file[n].kind \notin NodeKinds /\ file[n].kind \notin Bad
  BY DEF NodeKinds, Bad
<1>4. NodesHold(m.nodes, NodeRefs(n), n)
  BY <1>3, NodesSame DEF Good, Built
<1>5. file[n].value \in Value
  BY RecordFacts
<1>6. m \in ModelRecord
  BY DEF Good, ModelFits
<1>7. /\ new \in ModelRecord /\ new.id = file[n].value
      /\ new.params = m.params /\ new.entry = m.entry /\ new.nodes = m.nodes
  BY <1>5, <1>6 DEF ModelRecord
<1> HIDE DEF new
<1>8. Built(new, n)
  BY <1>1, <1>2, <1>4, <1>7 DEF Good, Built
<1>9. Known(n)
  BY <1>3, KnownMore DEF Good
<1>10. ModelFits(new)
  BY <1>7 DEF Good, ModelFits
<1>11. Owned(new) = Owned(m) + Replaced(m.id)
  <2>1. Set(new.id) = Set(m.id) + Replaced(m.id)
    BY <1>5, <1>7, LoaderAssumption DEF Set, Replaced
  <2>2. Set(m.id) \in Nat /\ Replaced(m.id) \in Nat
    BY DEF Set, Replaced
  <2>3. Owned(new) = Set(new.id) + 2 * Len(m.params) + Len(m.entry) + InNodes(m.nodes)
    BY <1>7 DEF Owned
  <2>4. Owned(m) = Set(m.id) + 2 * Len(m.params) + Len(m.entry) + InNodes(m.nodes)
    BY DEF Owned
  <2>5. Len(m.params) \in Nat /\ Len(m.entry) \in Nat /\ InNodes(m.nodes) \in Nat
    BY <1>6, OwnedFacts
  <2>6. QED
    BY <2>1, <2>2, <2>3, <2>4, <2>5, SMTT(30)
<1>12. QED
  BY <1>8, <1>9, <1>10, <1>11 DEF Good, new

LEMMA EntryStep ==
  ASSUME NEW n \in Nat \ {0}, NEW m, Good(m, n - 1), file[n] \in Record, file[n].kind = "entry",
         Len(m.entry) < MaxLinks
  PROVE  LET new == [m EXCEPT !.entry = Append(m.entry, file[n].value)] IN
         Good(new, n) /\ Owned(new) = Owned(m) + 1
<1> DEFINE new == [m EXCEPT !.entry = Append(m.entry, file[n].value)]
<1>1. \A kind : kind # "entry" => Of(kind, n) = Of(kind, n - 1)
  BY OfMore
<1>2. Values(Of("entry", n)) = Append(Values(Of("entry", n - 1)), file[n].value)
  BY OfMore, ValuesOfMore
<1>3. file[n].kind \notin NodeKinds /\ file[n].kind \notin Bad
  BY DEF NodeKinds, Bad
<1>4. NodesHold(m.nodes, NodeRefs(n), n)
  BY <1>3, NodesSame DEF Good, Built
<1>5. file[n].value \in Ref
  BY RecordFacts
<1>6. m \in ModelRecord /\ m.entry \in Seq(Ref) /\ Len(m.entry) \in Nat
  BY OwnedFacts DEF Good, ModelFits
<1>7. Append(m.entry, file[n].value) \in Seq(Ref) /\ Len(Append(m.entry, file[n].value)) = Len(m.entry) + 1
  BY <1>5, <1>6, AppendProperties
<1>8. /\ new \in ModelRecord /\ new.entry = Append(m.entry, file[n].value)
      /\ new.params = m.params /\ new.id = m.id /\ new.nodes = m.nodes
  BY <1>6, <1>7 DEF ModelRecord
<1> HIDE DEF new
<1>9. Built(new, n)
  BY <1>1, <1>2, <1>4, <1>8 DEF Good, Built
<1>10. Known(n)
  BY <1>3, KnownMore DEF Good
<1>11. ModelFits(new)
  BY <1>6, <1>7, <1>8, LoaderAssumption DEF Good, ModelFits
<1>12. Owned(new) = Owned(m) + 1
  <2>1. Owned(new) = Set(m.id) + 2 * Len(m.params) + (Len(m.entry) + 1) + InNodes(m.nodes)
    BY <1>7, <1>8 DEF Owned
  <2>2. Owned(m) = Set(m.id) + 2 * Len(m.params) + Len(m.entry) + InNodes(m.nodes)
    BY DEF Owned
  <2>3. Set(m.id) \in Nat /\ Len(m.params) \in Nat /\ InNodes(m.nodes) \in Nat
    BY <1>6, OwnedFacts
  <2>4. QED
    BY <1>6, <2>1, <2>2, <2>3
<1>13. QED
  BY <1>9, <1>10, <1>11, <1>12 DEF Good, new

(* A new key takes two strings, a known one none.                          *)
LEMMA PutOwns ==
  ASSUME NEW store \in Scope, NEW key \in Key, NEW value \in Value, HasRoom(store, key),
         Len(store) <= MaxOverrides
  PROVE  /\ 2 * Len(Put(store, key, value)) = 2 * Len(store) + Strings(store, key)
         /\ Len(Put(store, key, value)) <= MaxOverrides /\ Put(store, key, value) \in Scope
<1>1. CASE HasKey(store, key)
  <2>1. Len(Put(store, key, value)) = Len(store) /\ Strings(store, key) = 0
    BY <1>1, PutFields DEF Strings
  <2>2. QED
    BY <2>1, PutFields
<1>2. CASE ~ HasKey(store, key)
  <2>1. /\ Len(Put(store, key, value)) = Len(store) + 1 /\ Strings(store, key) = 2
        /\ Len(store) < MaxOverrides /\ Len(store) \in Nat
    BY <1>2, PutFields DEF Strings, HasRoom
  <2>2. QED
    BY <2>1, PutFields, StoreAssumption
<1>3. QED
  BY <1>1, <1>2

LEMMA ParamStep ==
  ASSUME NEW n \in Nat \ {0}, NEW m, Good(m, n - 1), file[n] \in Record, file[n].kind = "param",
         HasRoom(m.params, file[n].key)
  PROVE  LET new == [m EXCEPT !.params = Put(m.params, file[n].key, file[n].value)] IN
         Good(new, n) /\ Owned(new) = Owned(m) + Strings(m.params, file[n].key)
<1> DEFINE store == Put(m.params, file[n].key, file[n].value)
           new == [m EXCEPT !.params = store]
<1>1. \A kind : kind # "param" => Of(kind, n) = Of(kind, n - 1)
  BY OfMore
<1>2. file[n].key \in Key /\ file[n].value \in Value
  BY RecordFacts
<1>3. file[n].kind \notin NodeKinds /\ file[n].kind \notin Bad
  BY DEF NodeKinds, Bad
<1>4. NodesHold(m.nodes, NodeRefs(n), n)
  BY <1>3, NodesSame DEF Good, Built
<1>5. m \in ModelRecord /\ Len(m.params) <= MaxOverrides
  BY DEF Good, ModelFits
<1>6. m.params \in Scope
  BY <1>5, OwnedFacts
<1>7. Holds(store, Of("param", n))
  <2>1. Holds(m.params, Of("param", n - 1))
    BY DEF Good, Built
  <2>2. Of("param", n - 1) \in SUBSET (1..n - 1) /\ Of("param", n) = Of("param", n - 1) \cup {n}
    BY OfMore
  <2> DEFINE P == Of("param", n - 1)
  <2> HIDE DEF store
  <2>3. /\ P \in SUBSET (1..n - 1) /\ Holds(m.params, P) /\ Of("param", n) = P \cup {n}
    BY <2>1, <2>2
  <2> HIDE DEF P
  <2>4. Holds(Put(m.params, file[n].key, file[n].value), P \cup {n})
    BY <1>2, <2>3, HoldsMore
  <2>5. QED
    BY <2>3, <2>4 DEF store
<1>8. /\ 2 * Len(store) = 2 * Len(m.params) + Strings(m.params, file[n].key)
      /\ Len(store) <= MaxOverrides /\ store \in Scope
  BY <1>2, <1>5, <1>6, PutOwns
<1> HIDE DEF store
<1>9. /\ new \in ModelRecord /\ new.params = store
      /\ new.entry = m.entry /\ new.id = m.id /\ new.nodes = m.nodes
  BY <1>5, <1>8 DEF ModelRecord
<1> HIDE DEF new
<1>10. Built(new, n)
  BY <1>1, <1>4, <1>7, <1>9 DEF Good, Built
<1>11. Known(n)
  BY <1>3, KnownMore DEF Good
<1>12. ModelFits(new)
  BY <1>8, <1>9 DEF Good, ModelFits
<1>13. Owned(new) = Owned(m) + Strings(m.params, file[n].key)
  <2>1. Strings(m.params, file[n].key) \in Nat
    BY DEF Strings
  <2>2. Owned(new) = Set(m.id) + 2 * Len(store) + Len(m.entry) + InNodes(m.nodes)
    BY <1>9 DEF Owned
  <2>3. Owned(m) = Set(m.id) + 2 * Len(m.params) + Len(m.entry) + InNodes(m.nodes)
    BY DEF Owned
  <2>4. /\ Set(m.id) \in Nat /\ Len(m.params) \in Nat /\ Len(m.entry) \in Nat
        /\ InNodes(m.nodes) \in Nat
    BY <1>5, OwnedFacts
  <2> DEFINE x == 2 * Len(store)
             y == 2 * Len(m.params)
             d == Strings(m.params, file[n].key)
  <2>5. x \in Nat /\ y \in Nat /\ x = y + d
    BY <1>8, <2>4, LenProperties DEF Scope
  <2> HIDE DEF x, y, d
  <2>6. Owned(new) = Set(m.id) + x + Len(m.entry) + InNodes(m.nodes)
    BY <2>2 DEF x
  <2>7. Owned(m) = Set(m.id) + y + Len(m.entry) + InNodes(m.nodes)
    BY <2>3 DEF y
  <2>8. Owned(new) = Owned(m) + d
    <3>1. d \in Nat
      BY <2>1 DEF d
    <3> DEFINE a == Set(m.id)
               b == Len(m.entry)
               c == InNodes(m.nodes)
    <3>2. a \in Nat /\ b \in Nat /\ c \in Nat
      BY <2>4
    <3> HIDE DEF a, b, c
    <3>3. a + x + b + c = (a + y + b + c) + d
      BY <2>5, <3>1, <3>2
    <3>4. QED
      BY <2>6, <2>7, <3>3 DEF a, b, c
  <2>9. QED
    BY <2>8 DEF d
<1>14. QED
  BY <1>10, <1>11, <1>12, <1>13 DEF Good, new, store

----------------------------------------------------------------------------
(* A record for a node                                                     *)

(* A node is created with nothing in it, which is what was said of it.     *)
LEMMA NewNodeHolds ==
  ASSUME NEW n \in Nat, NEW ref \in Ref, ref \notin NodeRefs(n)
  PROVE  /\ NewNode(ref) \in NodeType /\ NewNode(ref).ref = ref /\ Fits(NewNode(ref))
         /\ NodeHolds(NewNode(ref), n) /\ InNode(NewNode(ref)) = 1
<1> DEFINE node == NewNode(ref)
<1>1. /\ node.ref = ref /\ node.file = Null /\ node.exec = Null
      /\ node.params = <<>> /\ node.links = <<>>
  BY DEF NewNode
<1>2. <<>> \in Scope /\ <<>> \in Seq(Ref) /\ Len(<<>>) = 0
  BY EmptySeq DEF Scope
<1>3. node \in NodeType /\ ref # Null
  BY <1>2, LoaderAssumption DEF NewNode, NodeType
<1>4. Fits(node)
  BY <1>1, <1>2, LoaderAssumption, StoreAssumption DEF Fits
<1>5. InNode(node) = 1
  BY <1>1, <1>2, <1>3 DEF InNode, Set
<1> HIDE DEF node
<1>6. \A kind \in NodeKinds : OfNode(ref, kind, n) = {}
  BY NoField
<1>7. {"file", "exec", "link", "node_param"} \subseteq NodeKinds
  BY DEF NodeKinds
<1>8. /\ OfNode(ref, "file", n) = {} /\ OfNode(ref, "exec", n) = {}
      /\ OfNode(ref, "link", n) = {} /\ OfNode(ref, "node_param", n) = {}
  BY <1>6, <1>7
<1>9. Holds(node.params, OfNode(ref, "node_param", n))
  BY <1>1, <1>8, HoldsNone
<1>10. IsNode(node, n)
  <2>1. IsScope(node.params, OfNode(ref, "node_param", n))
    BY <1>9 DEF Holds
  <2>2. QED
    BY <1>1, <1>8, <2>1, NoPlace DEF IsNode
<1>11. NodeHolds(node, n)
  BY <1>1, <1>9, <1>10 DEF NodeHolds
<1>12. QED
  BY <1>1, <1>3, <1>4, <1>5, <1>11 DEF node

(* kc_flow_model_ensure_node finds the node or adds it.                    *)
Ensures(nodes, ref, n) ==
  /\ nodes \in Seq(NodeType) /\ Len(nodes) <= MaxNodes
  /\ \A k \in DOMAIN nodes : Fits(nodes[k])
  /\ NodesHold(nodes, NodeRefs(n), n - 1)
  /\ Find(nodes, ref) \in DOMAIN nodes /\ nodes[Find(nodes, ref)].ref = ref

LEMMA EnsuredHolds ==
  ASSUME NEW n \in Nat \ {0}, Good(model, n - 1), \A k \in 1..n : file[k] \in Record,
         file[n].kind \in NodeKinds, CanEnsure(file[n].ref)
  PROVE  /\ Ensures(Ensured(file[n].ref), file[n].ref, n)
         /\ InNodes(Ensured(file[n].ref)) = InNodes(model.nodes) + Created(file[n].ref)
<1> DEFINE ref == file[n].ref
           old == model.nodes
           new == Ensured(ref)
<1>1. ref \in Ref /\ n - 1 \in Nat /\ n \in 1..n
  BY RecordFacts
<1>2. NodeRefs(n) = NodeRefs(n - 1) \cup {ref}
  BY NodeRefsMore
<1>3. /\ old \in Seq(NodeType) /\ Len(old) \in Nat /\ DOMAIN old = 1..Len(old)
      /\ Len(old) <= MaxNodes /\ \A k \in DOMAIN old : Fits(old[k])
  <2>1. model \in ModelRecord
    BY DEF Good, ModelFits
  <2>2. QED
    BY <2>1, OwnedFacts DEF Good, ModelFits
<1>4. /\ {old[k].ref : k \in DOMAIN old} = NodeRefs(n - 1)
      /\ \A k, l \in DOMAIN old : old[k].ref = old[l].ref => k = l
      /\ Len(old) = Cardinality(NodeRefs(n - 1))
      /\ \A k \in DOMAIN old : NodeHolds(old[k], n - 1)
  BY DEF Good, Built, NodesHold
<1>5. Declared(ref) <=> ref \in NodeRefs(n - 1)
  BY <1>4 DEF Declared
<1>6. ASSUME \E k \in DOMAIN new : new[k].ref = ref
      PROVE  Find(new, ref) \in DOMAIN new /\ new[Find(new, ref)].ref = ref
  <2> DEFINE f == CHOOSE k \in DOMAIN new : new[k].ref = ref
  <2>1. f \in DOMAIN new /\ new[f].ref = ref
    BY <1>6, Zenon
  <2>2. Find(new, ref) = f
    BY DEF Find
  <2> HIDE DEF f
  <2>3. QED
    BY <2>1, <2>2
<1> HIDE DEF ref
<1>7. CASE Declared(ref)
  <2>1. new = old /\ Created(ref) = 0 /\ NodeRefs(n) = NodeRefs(n - 1)
    BY <1>2, <1>5, <1>7 DEF Ensured, Created
  <2>2. \E k \in DOMAIN new : new[k].ref = ref
    BY <1>7, <2>1 DEF Declared
  <2>3. NodesHold(new, NodeRefs(n), n - 1)
    BY <1>4, <2>1 DEF NodesHold
  <2>4. InNodes(old) \in Nat
    BY <1>3, OwnedFacts DEF Good, ModelFits
  <2>5. QED
    BY <1>3, <1>6, <2>1, <2>2, <2>3, <2>4, SMTT(30) DEF Ensures, ref
<1>8. CASE ~ Declared(ref)
  <2> DEFINE node == NewNode(ref)
             len == Len(old)
  <2>1. /\ node \in NodeType /\ node.ref = ref /\ Fits(node) /\ NodeHolds(node, n - 1)
        /\ InNode(node) = 1
    BY <1>1, <1>5, <1>8, NewNodeHolds
  <2> HIDE DEF node
  <2>2. new = Append(old, node) /\ Created(ref) = 1 /\ Len(old) < MaxNodes
    BY <1>8 DEF Ensured, Created, CanEnsure, ref, node
  <2>3. /\ new \in Seq(NodeType) /\ Len(new) = len + 1 /\ new[len + 1] = node
        /\ \A k \in 1..len : new[k] = old[k]
    BY <1>3, <2>1, <2>2, AppendProperties
  <2>4. InNodes(new) = InNodes(old) + 1
    BY <1>3, <2>1, <2>2, InNodesOfMore
  <2> HIDE DEF new
  <2>5. DOMAIN new = 1..len + 1 /\ len \in Nat
    BY <1>3, <2>3, LenProperties
  <2> HIDE DEF len
  <2>6. \A k : k \in DOMAIN new <=> k \in DOMAIN old \/ k = len + 1
    BY <1>3, <2>5 DEF len
  <2>7. \A k \in DOMAIN old : new[k] = old[k]
    BY <1>3, <2>3 DEF len
  <2>8. {new[k].ref : k \in DOMAIN new} = NodeRefs(n)
    <3>1. \A x : (\E k \in DOMAIN new : x = new[k].ref) <=> (\E k \in DOMAIN old : x = old[k].ref) \/ x = ref
      BY <2>1, <2>3, <2>6, <2>7
    <3>2. \A x : x \in NodeRefs(n - 1) <=> \E k \in DOMAIN old : x = old[k].ref
      BY <1>4
    <3>3. \A x : x \in {new[k].ref : k \in DOMAIN new} <=> \E k \in DOMAIN new : x = new[k].ref
      OBVIOUS
    <3>4. \A x : x \in {new[k].ref : k \in DOMAIN new} <=> x \in NodeRefs(n)
      BY <1>2, <3>1, <3>2, <3>3
    <3>5. QED
      BY <3>4
  <2>9. \A k \in DOMAIN old : old[k].ref # ref
    BY <1>8 DEF Declared
  <2>10. \A k, l \in DOMAIN new : new[k].ref = new[l].ref => k = l
    BY <1>4, <2>1, <2>3, <2>6, <2>7, <2>9
  <2>11. Len(new) = Cardinality(NodeRefs(n))
    <3>1. IsFiniteSet(NodeRefs(n - 1))
      BY <1>1, RefsAreFinite
    <3>2. Cardinality(NodeRefs(n - 1) \cup {ref}) = Cardinality(NodeRefs(n - 1)) + 1
      BY <1>5, <1>8, <3>1, FS_AddElement
    <3>3. QED
      BY <1>2, <1>4, <2>3, <3>2 DEF len
  <2>12. \A k \in DOMAIN new : NodeHolds(new[k], n - 1) /\ Fits(new[k])
    BY <1>3, <1>4, <2>1, <2>3, <2>6, <2>7
  <2>13. \E k \in DOMAIN new : new[k].ref = ref
    BY <2>1, <2>3, <2>6
  <2>14. Find(new, ref) \in DOMAIN new /\ new[Find(new, ref)].ref = ref
    BY <1>6, <2>13 DEF new
  <2>15. Len(new) <= MaxNodes
    BY <2>2, <2>3, <2>5, LoaderAssumption DEF len
  <2>16. NodesHold(new, NodeRefs(n), n - 1)
    BY <2>8, <2>10, <2>11, <2>12 DEF NodesHold
  <2>17. Ensures(new, ref, n)
    BY <2>3, <2>12, <2>14, <2>15, <2>16 DEF Ensures
  <2>18. QED
    BY <2>2, <2>4, <2>17 DEF new, ref
<1>9. QED
  BY <1>7, <1>8

(* The node stored back holds the record too, and the others are the same; *)
(* one that is stored back without it still fits.                          *)
StoredNode(n, node) ==
  [model EXCEPT !.nodes =
     [Ensured(file[n].ref) EXCEPT ![Find(Ensured(file[n].ref), file[n].ref)] = node]]

LEMMA NodeKept ==
  ASSUME NEW n \in Nat \ {0}, Good(model, n - 1), \A k \in 1..n : file[k] \in Record,
         file[n].kind \in NodeKinds, CanEnsure(file[n].ref),
         NEW node \in NodeType, Fits(node)
  PROVE  LET ref == file[n].ref
             old == Ensured(ref)[Find(Ensured(ref), ref)]
         IN  /\ ModelFits(StoredNode(n, node))
             /\ Owned(StoredNode(n, node))
                  = Owned(model) + Created(ref) + (InNode(node) - InNode(old))
<1> DEFINE ref == file[n].ref
           nodes == Ensured(ref)
           j == Find(nodes, ref)
           new == [nodes EXCEPT ![j] = node]
           m == StoredNode(n, node)
<1>1. /\ nodes \in Seq(NodeType) /\ Len(nodes) <= MaxNodes
      /\ \A k \in DOMAIN nodes : Fits(nodes[k])
      /\ j \in DOMAIN nodes
      /\ InNodes(nodes) = InNodes(model.nodes) + Created(ref)
  BY EnsuredHolds DEF Ensures
<1>2. m = [model EXCEPT !.nodes = new]
  BY DEF StoredNode
<1> HIDE DEF ref, nodes, j, m
<1>3. Len(nodes) \in Nat /\ DOMAIN nodes = 1..Len(nodes)
  BY <1>1, LenProperties
<1>4. /\ new \in Seq(NodeType) /\ Len(new) = Len(nodes)
      /\ \A k \in 1..Len(nodes) : new[k] = IF k = j THEN node ELSE nodes[k]
  BY <1>1, <1>3, ExceptSeq
<1>5. InNodes(new) = InNodes(nodes) + InNode(node) - InNode(nodes[j])
  BY <1>1, InNodesOfChanged
<1> HIDE DEF new
<1>6. \A k \in DOMAIN new : Fits(new[k])
  BY <1>1, <1>3, <1>4, LenProperties
<1>7. model \in ModelRecord
  BY DEF Good, ModelFits
<1>8. /\ m \in ModelRecord /\ m.nodes = new
      /\ m.id = model.id /\ m.params = model.params /\ m.entry = model.entry
  BY <1>2, <1>4, <1>7 DEF ModelRecord
<1>9. ModelFits(m)
  BY <1>1, <1>4, <1>6, <1>8 DEF Good, ModelFits
<1>10. Owned(m) = Owned(model) + Created(ref) + (InNode(node) - InNode(nodes[j]))
  <2> DEFINE a == Set(model.id) + 2 * Len(model.params) + Len(model.entry)
             b == InNodes(model.nodes)
             c == Created(ref)
             x == InNode(node)
             y == InNode(nodes[j])
  <2>1. Owned(m) = a + InNodes(new) /\ Owned(model) = a + b
    BY <1>8 DEF Owned
  <2>2. a \in Nat /\ b \in Nat /\ c \in Nat /\ x \in Nat /\ y \in Nat
    <3>1. nodes[j] \in NodeType
      BY <1>1, <1>3, ElementOfSeq
    <3>2. x \in Nat /\ y \in Nat
      BY <3>1, NodeFields
    <3>3. /\ Set(model.id) \in Nat /\ Len(model.params) \in Nat /\ Len(model.entry) \in Nat
          /\ b \in Nat
      BY <1>7, OwnedFacts
    <3>4. a \in Nat
      BY <3>3
    <3>5. c \in Nat
      BY DEF Created
    <3>6. QED
      BY <3>2, <3>3, <3>4, <3>5
  <2>3. InNodes(new) = b + c + x - y
    BY <1>1, <1>5
  <2> HIDE DEF a, b, c, x, y
  <2>4. a + (b + c + x - y) = (a + b) + c + (x - y)
    BY <2>2
  <2>5. Owned(m) = Owned(model) + c + (x - y)
    BY <2>1, <2>3, <2>4
  <2>6. QED
    BY <2>5 DEF c, x, y
<1>11. QED
  BY <1>9, <1>10 DEF m, nodes, j, ref

LEMMA NodeStored ==
  ASSUME NEW n \in Nat \ {0}, Good(model, n - 1), \A k \in 1..n : file[k] \in Record,
         file[n].kind \in NodeKinds \ Bad, CanEnsure(file[n].ref),
         NEW node \in NodeType, node.ref = file[n].ref, NodeHolds(node, n), Fits(node)
  PROVE  LET ref == file[n].ref
             old == Ensured(ref)[Find(Ensured(ref), ref)]
         IN  /\ Good(StoredNode(n, node), n)
             /\ Owned(StoredNode(n, node))
                  = Owned(model) + Created(ref) + (InNode(node) - InNode(old))
<1> DEFINE ref == file[n].ref
           nodes == Ensured(ref)
           j == Find(nodes, ref)
           new == [nodes EXCEPT ![j] = node]
           m == StoredNode(n, node)
<1>1. /\ nodes \in Seq(NodeType)
      /\ NodesHold(nodes, NodeRefs(n), n - 1)
      /\ j \in DOMAIN nodes /\ nodes[j].ref = ref
  BY EnsuredHolds DEF Ensures
<1>2. /\ ModelFits(m)
      /\ Owned(m) = Owned(model) + Created(ref) + (InNode(node) - InNode(nodes[j]))
  BY NodeKept
<1>3. m = [model EXCEPT !.nodes = new]
  BY DEF StoredNode
<1> HIDE DEF ref, nodes, j, m
<1>4. Len(nodes) \in Nat /\ DOMAIN nodes = 1..Len(nodes)
  BY <1>1, LenProperties
<1>5. /\ new \in Seq(NodeType) /\ Len(new) = Len(nodes)
      /\ \A k \in 1..Len(nodes) : new[k] = IF k = j THEN node ELSE nodes[k]
  BY <1>1, <1>4, ExceptSeq
<1> HIDE DEF new
<1>6. DOMAIN new = DOMAIN nodes /\ node.ref = ref
  BY <1>4, <1>5, LenProperties DEF ref
<1>7. /\ {nodes[k].ref : k \in DOMAIN nodes} = NodeRefs(n)
      /\ \A k, l \in DOMAIN nodes : nodes[k].ref = nodes[l].ref => k = l
      /\ Len(nodes) = Cardinality(NodeRefs(n))
      /\ \A k \in DOMAIN nodes : NodeHolds(nodes[k], n - 1)
  BY <1>1 DEF NodesHold
<1>8. \A k \in DOMAIN nodes : new[k].ref = nodes[k].ref
  BY <1>1, <1>4, <1>5, <1>6
<1>9. ASSUME NEW k \in DOMAIN nodes
      PROVE  NodeHolds(new[k], n)
  <2>1. CASE k = j
    BY <1>4, <1>5, <2>1
  <2>2. CASE k # j
    <3>1. new[k] = nodes[k] /\ file[n].ref # nodes[k].ref
      BY <1>1, <1>4, <1>5, <1>7, <2>2 DEF ref
    <3>2. NodeHolds(nodes[k], n)
      BY <1>7, <3>1, NodeSame
    <3>3. QED
      BY <3>1, <3>2
  <2>3. QED
    BY <2>1, <2>2
<1>10. NodesHold(new, NodeRefs(n), n)
  <2>1. {new[k].ref : k \in DOMAIN new} = NodeRefs(n)
    BY <1>6, <1>7, <1>8
  <2>2. \A k, l \in DOMAIN new : new[k].ref = new[l].ref => k = l
    BY <1>6, <1>7, <1>8
  <2>3. QED
    BY <1>5, <1>6, <1>7, <1>9, <2>1, <2>2 DEF NodesHold
<1>11. model \in ModelRecord
  BY DEF Good, ModelFits
<1>12. /\ m.nodes = new
       /\ m.id = model.id /\ m.params = model.params /\ m.entry = model.entry
  BY <1>3, <1>5, <1>11 DEF ModelRecord
<1>13. \A kind : kind # file[n].kind => Of(kind, n) = Of(kind, n - 1)
  BY OfMore
<1>14. file[n].kind \notin {"id", "entry", "param"}
  BY DEF NodeKinds
<1>15. Built(m, n)
  BY <1>10, <1>12, <1>13, <1>14 DEF Good, Built
<1>16. Known(n)
  BY KnownMore DEF Good
<1>17. QED
  BY <1>2, <1>15, <1>16 DEF Good, m, nodes, j, ref

----------------------------------------------------------------------------
(* The fields of a node (kc_flow_parse_node_field)                         *)

LEMMA FileField ==
  ASSUME NEW n \in Nat \ {0}, NEW node \in NodeType, NodeHolds(node, n - 1), Fits(node),
         file[n] \in Record, file[n].kind = "file", file[n].ref = node.ref
  PROVE  LET new == [node EXCEPT !.file = file[n].value] IN
         /\ new \in NodeType /\ new.ref = node.ref /\ NodeHolds(new, n) /\ Fits(new)
         /\ InNode(new) - InNode(node) = Replaced(node.file)
<1> DEFINE new == [node EXCEPT !.file = file[n].value]
<1>1. file[n].value \in Value
  BY RecordFacts
<1>2. /\ new \in NodeType /\ new.ref = node.ref /\ new.file = file[n].value
      /\ new.exec = node.exec /\ new.params = node.params /\ new.links = node.links
  BY <1>1 DEF NodeType
<1> HIDE DEF new
<1>3. LastValue(OfNode(node.ref, "file", n)) = file[n].value
  <2>1. /\ OfNode(node.ref, "file", n - 1) \in SUBSET (1..n - 1)
        /\ OfNode(node.ref, "file", n) = OfNode(node.ref, "file", n - 1) \cup {n}
    BY OfNodeMore
  <2>2. QED
    BY <2>1, LastValueOfMore
<1>4. \A kind : kind # "file" => OfNode(node.ref, kind, n) = OfNode(node.ref, kind, n - 1)
  BY OfNodeMore
<1>5. NodeHolds(new, n)
  BY <1>2, <1>3, <1>4 DEF NodeHolds, IsNode
<1>6. Fits(new)
  BY <1>2 DEF Fits
<1>7. InNode(new) - InNode(node) = Replaced(node.file)
  <2> DEFINE a == Set(node.file)
             b == Set(node.exec)
             c == 2 * Len(node.params)
             d == Len(node.links)
             e == Set(node.ref)
             r == Replaced(node.file)
  <2>1. Set(new.file) = a + r /\ a \in Nat /\ b \in Nat /\ e \in Nat /\ r \in Nat
    BY <1>1, <1>2, LoaderAssumption DEF Set, Replaced
  <2>2. c \in Nat /\ d \in Nat
    BY NodeFields
  <2>3. InNode(node) = e + a + b + c + d
    BY DEF InNode
  <2>4. InNode(new) = e + (a + r) + b + c + d
    BY <1>2, <2>1 DEF InNode
  <2> HIDE DEF a, b, c, d, e, r
  <2>5. InNode(new) - InNode(node) = r
    BY <2>1, <2>2, <2>3, <2>4
  <2>6. QED
    BY <2>5 DEF r
<1>8. QED
  BY <1>2, <1>5, <1>6, <1>7 DEF new

LEMMA ExecField ==
  ASSUME NEW n \in Nat \ {0}, NEW node \in NodeType, NodeHolds(node, n - 1), Fits(node),
         file[n] \in Record, file[n].kind = "exec", file[n].ref = node.ref
  PROVE  LET new == [node EXCEPT !.exec = file[n].value] IN
         /\ new \in NodeType /\ new.ref = node.ref /\ NodeHolds(new, n) /\ Fits(new)
         /\ InNode(new) - InNode(node) = Replaced(node.exec)
<1> DEFINE new == [node EXCEPT !.exec = file[n].value]
<1>1. file[n].value \in Value
  BY RecordFacts
<1>2. /\ new \in NodeType /\ new.ref = node.ref /\ new.exec = file[n].value
      /\ new.file = node.file /\ new.params = node.params /\ new.links = node.links
  BY <1>1 DEF NodeType
<1> HIDE DEF new
<1>3. LastValue(OfNode(node.ref, "exec", n)) = file[n].value
  <2>1. /\ OfNode(node.ref, "exec", n - 1) \in SUBSET (1..n - 1)
        /\ OfNode(node.ref, "exec", n) = OfNode(node.ref, "exec", n - 1) \cup {n}
    BY OfNodeMore
  <2>2. QED
    BY <2>1, LastValueOfMore
<1>4. \A kind : kind # "exec" => OfNode(node.ref, kind, n) = OfNode(node.ref, kind, n - 1)
  BY OfNodeMore
<1>5. NodeHolds(new, n)
  BY <1>2, <1>3, <1>4 DEF NodeHolds, IsNode
<1>6. Fits(new)
  BY <1>2 DEF Fits
<1>7. InNode(new) - InNode(node) = Replaced(node.exec)
  <2> DEFINE a == Set(node.exec)
             b == Set(node.file)
             c == 2 * Len(node.params)
             d == Len(node.links)
             e == Set(node.ref)
             r == Replaced(node.exec)
  <2>1. Set(new.exec) = a + r /\ a \in Nat /\ b \in Nat /\ e \in Nat /\ r \in Nat
    BY <1>1, <1>2, LoaderAssumption DEF Set, Replaced
  <2>2. c \in Nat /\ d \in Nat
    BY NodeFields
  <2>3. InNode(node) = e + b + a + c + d
    BY DEF InNode
  <2>4. InNode(new) = e + b + (a + r) + c + d
    BY <1>2, <2>1 DEF InNode
  <2> HIDE DEF a, b, c, d, e, r
  <2>5. InNode(new) - InNode(node) = r
    BY <2>1, <2>2, <2>3, <2>4
  <2>6. QED
    BY <2>5 DEF r
<1>8. QED
  BY <1>2, <1>5, <1>6, <1>7 DEF new

LEMMA LinkField ==
  ASSUME NEW n \in Nat \ {0}, NEW node \in NodeType, NodeHolds(node, n - 1), Fits(node),
         file[n] \in Record, file[n].kind = "link", file[n].ref = node.ref,
         Len(node.links) < MaxLinks
  PROVE  LET new == [node EXCEPT !.links = Append(node.links, file[n].value)] IN
         /\ new \in NodeType /\ new.ref = node.ref /\ NodeHolds(new, n) /\ Fits(new)
         /\ InNode(new) - InNode(node) = 1
<1> DEFINE links == Append(node.links, file[n].value)
           new == [node EXCEPT !.links = links]
<1>1. file[n].value \in Ref /\ node.links \in Seq(Ref) /\ Len(node.links) \in Nat
  BY RecordFacts, NodeFields
<1>2. links \in Seq(Ref) /\ Len(links) = Len(node.links) + 1
  BY <1>1, AppendProperties
<1>3. /\ new \in NodeType /\ new.ref = node.ref /\ new.file = node.file
      /\ new.exec = node.exec /\ new.params = node.params /\ new.links = links
  BY <1>2 DEF NodeType
<1>4. Values(OfNode(node.ref, "link", n)) = links
  <2>1. /\ OfNode(node.ref, "link", n - 1) \in SUBSET (1..n - 1)
        /\ OfNode(node.ref, "link", n) = OfNode(node.ref, "link", n - 1) \cup {n}
    BY OfNodeMore
  <2>2. Values(OfNode(node.ref, "link", n - 1)) = node.links
    BY DEF NodeHolds, IsNode
  <2> HIDE DEF new
  <2>3. QED
    BY <2>1, <2>2, ValuesOfMore
<1> HIDE DEF new, links
<1>5. \A kind : kind # "link" => OfNode(node.ref, kind, n) = OfNode(node.ref, kind, n - 1)
  BY OfNodeMore
<1>6. NodeHolds(new, n)
  BY <1>3, <1>4, <1>5 DEF NodeHolds, IsNode
<1>7. Fits(new)
  BY <1>1, <1>2, <1>3, LoaderAssumption DEF Fits
<1>8. InNode(new) - InNode(node) = 1
  <2> DEFINE a == Set(node.ref) + Set(node.file) + Set(node.exec) + 2 * Len(node.params)
             d == Len(node.links)
  <2>1. InNode(node) = a + d /\ InNode(new) = a + (d + 1)
    BY <1>2, <1>3 DEF InNode
  <2>2. a \in Nat /\ d \in Nat
    <3>1. Set(node.ref) \in Nat /\ Set(node.file) \in Nat /\ Set(node.exec) \in Nat
      BY DEF Set
    <3>2. QED
      BY <1>1, <3>1, NodeFields
  <2> HIDE DEF a, d
  <2>3. QED
    BY <2>1, <2>2
<1>9. QED
  BY <1>3, <1>6, <1>7, <1>8 DEF new, links

LEMMA ParamField ==
  ASSUME NEW n \in Nat \ {0}, NEW node \in NodeType, NodeHolds(node, n - 1), Fits(node),
         file[n] \in Record, file[n].kind = "node_param", file[n].ref = node.ref,
         HasRoom(node.params, file[n].key)
  PROVE  LET new == [node EXCEPT !.params = Put(node.params, file[n].key, file[n].value)] IN
         /\ new \in NodeType /\ new.ref = node.ref /\ NodeHolds(new, n) /\ Fits(new)
         /\ InNode(new) - InNode(node) = Strings(node.params, file[n].key)
<1> DEFINE store == Put(node.params, file[n].key, file[n].value)
           new == [node EXCEPT !.params = store]
<1>1. file[n].key \in Key /\ file[n].value \in Value /\ node.params \in Scope
  BY RecordFacts, NodeFields
<1>2. /\ 2 * Len(store) = 2 * Len(node.params) + Strings(node.params, file[n].key)
      /\ Len(store) <= MaxOverrides /\ store \in Scope
  BY <1>1, PutOwns DEF Fits
<1>3. /\ new \in NodeType /\ new.ref = node.ref /\ new.file = node.file
      /\ new.exec = node.exec /\ new.links = node.links /\ new.params = store
  <2> HIDE DEF store
  <2>1. QED
    BY <1>2 DEF NodeType
<1> HIDE DEF new
<1>4. Holds(store, OfNode(node.ref, "node_param", n))
  <2> DEFINE P == OfNode(node.ref, "node_param", n - 1)
  <2>1. P \in SUBSET (1..n - 1) /\ OfNode(node.ref, "node_param", n) = P \cup {n}
    BY OfNodeMore
  <2>2. Holds(node.params, P)
    BY DEF NodeHolds
  <2> HIDE DEF P, store
  <2>3. Holds(Put(node.params, file[n].key, file[n].value), P \cup {n})
    BY <1>1, <2>1, <2>2, HoldsMore
  <2>4. QED
    BY <2>1, <2>3 DEF store
<1> HIDE DEF store
<1>5. \A kind : kind # "node_param" => OfNode(node.ref, kind, n) = OfNode(node.ref, kind, n - 1)
  BY OfNodeMore
<1>6. IsScope(store, OfNode(node.ref, "node_param", n))
  BY <1>4 DEF Holds
<1>7. NodeHolds(new, n)
  BY <1>3, <1>4, <1>5, <1>6 DEF NodeHolds, IsNode
<1>8. Fits(new)
  BY <1>2, <1>3 DEF Fits
<1>9. InNode(new) - InNode(node) = Strings(node.params, file[n].key)
  <2> DEFINE a == Set(node.ref) + Set(node.file) + Set(node.exec)
             b == Len(node.links)
             x == 2 * Len(store)
             y == 2 * Len(node.params)
             r == Strings(node.params, file[n].key)
  <2>1. InNode(node) = a + y + b /\ InNode(new) = a + x + b
    BY <1>3 DEF InNode
  <2>2. a \in Nat /\ b \in Nat /\ y \in Nat /\ r \in Nat /\ x = y + r
    <3>1. Set(node.ref) \in Nat /\ Set(node.file) \in Nat /\ Set(node.exec) \in Nat
      BY DEF Set
    <3>2. Len(node.params) \in Nat /\ b \in Nat
      BY NodeFields
    <3>3. y \in Nat /\ r \in Nat
      BY <3>2 DEF Strings
    <3>4. QED
      BY <1>2, <3>1, <3>2, <3>3
  <2> HIDE DEF a, b, x, y, r
  <2>3. InNode(new) - InNode(node) = r
    BY <2>1, <2>2
  <2>4. QED
    BY <2>3 DEF r
<1>10. QED
  BY <1>3, <1>7, <1>8, <1>9 DEF new, store

----------------------------------------------------------------------------
(* The loop at a record                                                    *)

AtRecord ==
  /\ pos \in Nat \ {0} /\ Len(file) \in Nat /\ pos <= Len(file)
  /\ \A k \in 1..Len(file) : file[k] \in Record
  /\ Good(model, pos - 1)

LEMMA AtRecordFacts ==
  ASSUME AtRecord
  PROVE  /\ pos \in Nat \ {0} /\ Good(model, pos - 1) /\ Line = file[pos] /\ Line \in Record
         /\ \A k \in 1..pos : file[k] \in Record
         /\ Storable(Len(file)) => Storable(pos)
<1>1. /\ pos \in Nat \ {0} /\ Len(file) \in Nat /\ pos <= Len(file) /\ Good(model, pos - 1)
      /\ \A k \in 1..Len(file) : file[k] \in Record
  BY DEF AtRecord
<1>2. pos \in 0..Len(file) /\ pos \in 1..Len(file) /\ \A k \in 1..pos : k \in 1..Len(file)
  BY <1>1
<1>3. Storable(Len(file)) => Storable(pos)
  BY <1>1, <1>2, StorableBefore
<1>4. QED
  BY <1>1, <1>2, <1>3 DEF Line

(* A record of no known form, or one that meets a limit, is part of no     *)
(* file that can be stored.                                                *)
LEMMA BadRecord ==
  ASSUME AtRecord, Line.kind \in Bad
  PROVE  ~ Storable(Len(file))
<1>1. pos \in 1..Len(file) /\ file[pos].kind \in Bad
  BY DEF AtRecord, Line
<1>2. QED
  BY <1>1 DEF Storable, Bad

LEMMA NoRoom ==
  ASSUME AtRecord, ~ Room
  PROVE  ~ Storable(Len(file))
<1>1. SUFFICES ASSUME Storable(pos)
               PROVE  FALSE
  BY AtRecordFacts
<1> DEFINE n == pos
<1>2. /\ n \in Nat \ {0} /\ Good(model, n - 1) /\ Line = file[n] /\ Line \in Record
      /\ \A k \in 1..n : file[k] \in Record /\ n - 1 \in Nat
  BY AtRecordFacts
<1>3. MaxLinks \in Nat /\ MaxNodes \in Nat /\ MaxOverrides \in Nat /\ model \in ModelRecord
  BY <1>2, LoaderAssumption, StoreAssumption DEF Good, ModelFits
<1>4. CASE Line.kind = "entry"
  <2>1. ~ (Len(model.entry) < MaxLinks)
    BY <1>4 DEF Room, NodeKinds
  <2> DEFINE P == Of("entry", n - 1)
  <2>2. P \in SUBSET (1..n - 1) /\ Of("entry", n) = P \cup {n}
    BY <1>2, <1>4, OfMore
  <2>3. model.entry = Values(P)
    BY <1>2 DEF Good, Built
  <2> HIDE DEF P
  <2>4. Len(model.entry) = Cardinality(P) /\ Cardinality(P \cup {n}) = Cardinality(P) + 1
    BY <1>2, <2>2, <2>3, ValuesOfMore, OneMoreFacts
  <2>5. Cardinality(P) \in Nat
    BY <1>2, <2>2, OneMoreFacts
  <2>6. Cardinality(P \cup {n}) <= MaxLinks
    BY <1>1, <2>2 DEF Storable
  <2>7. QED
    BY <1>3, <2>1, <2>4, <2>5, <2>6
<1>5. CASE Line.kind = "param"
  <2>1. ~ HasKey(model.params, file[n].key) /\ ~ (Len(model.params) < MaxOverrides)
    BY <1>2, <1>5 DEF Room, HasRoom, NodeKinds
  <2> DEFINE P == Of("param", n - 1)
  <2>2. P \in SUBSET (1..n - 1) /\ Of("param", n) = P \cup {n}
    BY <1>2, <1>5, OfMore
  <2>3. Holds(model.params, P)
    BY <1>2 DEF Good, Built
  <2>4. file[n].key \in Key /\ file[n].value \in Value
    BY <1>2, <1>5, RecordFacts
  <2> HIDE DEF P
  <2>5. KeysAt(P \cup {n}) = KeysAt(P) \cup {file[n].key} /\ file[n].key \notin KeysAt(P)
    BY <1>2, <2>1, <2>2, <2>3, <2>4, HoldsMore
  <2>6. IsFiniteSet(KeysAt(P)) /\ Len(model.params) = Cardinality(KeysAt(P))
    BY <2>3 DEF Holds
  <2>7. /\ Cardinality(KeysAt(P \cup {n})) = Cardinality(KeysAt(P)) + 1
        /\ Cardinality(KeysAt(P)) \in Nat
    BY <2>5, <2>6, FS_AddElement, FS_CardinalityType
  <2>8. Cardinality(KeysAt(P \cup {n})) <= MaxOverrides
    BY <1>1, <2>2 DEF Storable
  <2>9. QED
    BY <1>3, <2>1, <2>6, <2>7, <2>8
<1>6. CASE Line.kind \in NodeKinds
  <2>1. ~ Declared(Line.ref) /\ ~ (Len(model.nodes) < MaxNodes)
    <3>1. Line.kind # "entry" /\ Line.kind # "param"
      BY <1>6 DEF NodeKinds
    <3>2. ~ CanEnsure(Line.ref)
      BY <1>6, <3>1 DEF Room
    <3>3. QED
      BY <3>2 DEF CanEnsure
  <2>2. NodeRefs(n) = NodeRefs(n - 1) \cup {file[n].ref}
    BY <1>2, <1>6, NodeRefsMore
  <2>3. /\ {model.nodes[k].ref : k \in DOMAIN model.nodes} = NodeRefs(n - 1)
        /\ Len(model.nodes) = Cardinality(NodeRefs(n - 1))
    BY <1>2 DEF Good, Built, NodesHold
  <2>4. file[n].ref \notin NodeRefs(n - 1)
    BY <1>2, <2>1, <2>3 DEF Declared
  <2>5. \A k \in 1..n - 1 : file[k] \in Record
    BY <1>2
  <2>6. IsFiniteSet(NodeRefs(n - 1))
    BY <1>2, <2>5, RefsAreFinite
  <2>7. /\ Cardinality(NodeRefs(n)) = Cardinality(NodeRefs(n - 1)) + 1
        /\ Cardinality(NodeRefs(n - 1)) \in Nat
    BY <2>2, <2>4, <2>6, FS_AddElement, FS_CardinalityType
  <2>8. Cardinality(NodeRefs(n)) <= MaxNodes
    BY <1>1 DEF Storable
  <2>9. QED
    BY <1>3, <2>1, <2>3, <2>7, <2>8
<1>7. QED
  BY <1>4, <1>5, <1>6 DEF Room

(* The node a field is stored in.                                          *)
LEMMA TargetFacts ==
  ASSUME AtRecord, Line.kind \in NodeKinds, Room
  PROVE  /\ CanEnsure(Line.ref) /\ Nodes = Ensured(Line.ref)
         /\ Target \in NodeType /\ Target.ref = Line.ref /\ Line.ref \in NodeRefs(pos)
         /\ NodeHolds(Target, pos - 1) /\ Fits(Target)
<1>1. /\ pos \in Nat \ {0} /\ Good(model, pos - 1) /\ Line = file[pos] /\ Line \in Record
      /\ \A k \in 1..pos : file[k] \in Record
  BY AtRecordFacts
<1>2. CanEnsure(Line.ref)
  <2>1. Line.kind # "entry" /\ Line.kind # "param"
    BY DEF NodeKinds
  <2>2. QED
    BY <2>1 DEF Room
<1>3. Nodes = Ensured(Line.ref) /\ Target = Nodes[Find(Nodes, Line.ref)]
  BY DEF Nodes, Target
<1>4. Ensures(Nodes, Line.ref, pos)
  BY <1>1, <1>2, <1>3, EnsuredHolds
<1> DEFINE j == Find(Nodes, Line.ref)
<1>5. /\ Nodes \in Seq(NodeType) /\ j \in DOMAIN Nodes /\ Nodes[j].ref = Line.ref
      /\ Fits(Nodes[j]) /\ NodeHolds(Nodes[j], pos - 1)
  BY <1>4 DEF Ensures, NodesHold
<1> HIDE DEF j
<1>6. Nodes[j] \in NodeType
  BY <1>5, LenProperties, ElementOfSeq
<1>7. Line.ref \in NodeRefs(pos)
  BY <1>1, NodeRefsMore
<1>8. QED
  BY <1>2, <1>3, <1>5, <1>6, <1>7 DEF j

LEMMA NoNodeRoom ==
  ASSUME AtRecord, Line.kind \in NodeKinds, Room, ~ NodeRoom
  PROVE  ~ Storable(Len(file))
<1>1. SUFFICES ASSUME Storable(pos)
               PROVE  FALSE
  BY AtRecordFacts
<1> DEFINE n == pos
           ref == Line.ref
<1>2. /\ n \in Nat \ {0} /\ Line = file[n] /\ Line \in Record
  BY AtRecordFacts
<1>3. /\ Target \in NodeType /\ Target.ref = ref /\ ref \in NodeRefs(n)
      /\ NodeHolds(Target, n - 1) /\ Fits(Target)
  BY TargetFacts
<1>4. MaxLinks \in Nat /\ MaxOverrides \in Nat
  BY LoaderAssumption, StoreAssumption
<1>5. CASE Line.kind = "link"
  <2>1. ~ (Len(Target.links) < MaxLinks)
    BY <1>5 DEF NodeRoom
  <2> DEFINE P == OfNode(ref, "link", n - 1)
  <2>2. P \in SUBSET (1..n - 1) /\ OfNode(ref, "link", n) = P \cup {n}
    BY <1>2, <1>5, OfNodeMore
  <2>3. Target.links = Values(P)
    BY <1>3 DEF NodeHolds, IsNode
  <2> HIDE DEF P
  <2>4. Len(Target.links) = Cardinality(P) /\ Cardinality(P \cup {n}) = Cardinality(P) + 1
    BY <1>2, <2>2, <2>3, ValuesOfMore, OneMoreFacts
  <2>5. Cardinality(P) \in Nat
    BY <1>2, <2>2, OneMoreFacts
  <2>6. Cardinality(P \cup {n}) <= MaxLinks
    BY <1>1, <1>3, <2>2 DEF Storable
  <2>7. QED
    BY <1>4, <2>1, <2>4, <2>5, <2>6
<1>6. CASE Line.kind = "node_param"
  <2>1. ~ HasKey(Target.params, file[n].key) /\ ~ (Len(Target.params) < MaxOverrides)
    BY <1>2, <1>6 DEF NodeRoom, HasRoom
  <2> DEFINE P == OfNode(ref, "node_param", n - 1)
  <2>2. P \in SUBSET (1..n - 1) /\ OfNode(ref, "node_param", n) = P \cup {n}
    BY <1>2, <1>6, OfNodeMore
  <2>3. Holds(Target.params, P)
    BY <1>3 DEF NodeHolds
  <2>4. file[n].key \in Key /\ file[n].value \in Value
    BY <1>2, <1>6, RecordFacts
  <2> HIDE DEF P
  <2>5. KeysAt(P \cup {n}) = KeysAt(P) \cup {file[n].key} /\ file[n].key \notin KeysAt(P)
    BY <1>2, <2>1, <2>2, <2>3, <2>4, HoldsMore
  <2>6. IsFiniteSet(KeysAt(P)) /\ Len(Target.params) = Cardinality(KeysAt(P))
    BY <2>3 DEF Holds
  <2>7. /\ Cardinality(KeysAt(P \cup {n})) = Cardinality(KeysAt(P)) + 1
        /\ Cardinality(KeysAt(P)) \in Nat
    BY <2>5, <2>6, FS_AddElement, FS_CardinalityType
  <2>8. Cardinality(KeysAt(P \cup {n})) <= MaxOverrides
    BY <1>1, <1>3, <2>2 DEF Storable
  <2>9. QED
    BY <1>4, <2>1, <2>6, <2>7, <2>8
<1>7. QED
  BY <1>5, <1>6 DEF NodeRoom

(* A record that cannot be stored leaves a model that fits, and owns what  *)
(* the failing step has counted.                                           *)
LEMMA TargetKept ==
  ASSUME AtRecord, Line.kind \in NodeKinds, Room, NEW node \in NodeType, Fits(node)
  PROVE  /\ ModelFits(WithNode(node))
         /\ Owned(WithNode(node))
              = Owned(model) + Created(Line.ref) + (InNode(node) - InNode(Target))
<1>1. /\ pos \in Nat \ {0} /\ Good(model, pos - 1) /\ Line = file[pos]
      /\ \A k \in 1..pos : file[k] \in Record
  BY AtRecordFacts
<1>2. CanEnsure(Line.ref) /\ Nodes = Ensured(Line.ref)
  BY TargetFacts
<1>3. WithNode(node) = StoredNode(pos, node)
  BY <1>1, <1>2 DEF WithNode, StoredNode
<1>4. Target = Ensured(Line.ref)[Find(Ensured(Line.ref), Line.ref)]
  BY <1>2 DEF Target
<1>5. QED
  BY <1>1, <1>2, <1>3, <1>4, NodeKept

LEMMA IdCleared ==
  ASSUME ModelFits(model)
  PROVE  LET m == [model EXCEPT !.id = Null] IN
         ModelFits(m) /\ Owned(m) = Owned(model) + (- Set(model.id))
<1> DEFINE m == [model EXCEPT !.id = Null]
<1>1. model \in ModelRecord
  BY DEF ModelFits
<1>2. /\ m \in ModelRecord /\ m.id = Null
      /\ m.params = model.params /\ m.entry = model.entry /\ m.nodes = model.nodes
  BY <1>1 DEF ModelRecord
<1> HIDE DEF m
<1>3. ModelFits(m)
  BY <1>2 DEF ModelFits
<1>4. Owned(m) = Owned(model) + (- Set(model.id))
  <2> DEFINE a == Set(model.id)
             b == 2 * Len(model.params)
             c == Len(model.entry)
             d == InNodes(model.nodes)
  <2>1. Owned(m) = 0 + b + c + d /\ Owned(model) = a + b + c + d
    BY <1>2 DEF Owned, Set
  <2>2. a \in Nat /\ b \in Nat /\ c \in Nat /\ d \in Nat
    BY <1>1, OwnedFacts
  <2> HIDE DEF a, b, c, d
  <2>3. Owned(m) = Owned(model) + (- a)
    BY <2>1, <2>2
  <2>4. QED
    BY <2>3 DEF a
<1>5. QED
  BY <1>3, <1>4 DEF m

LEMMA NamelessNode ==
  ASSUME ModelFits(model), Len(model.nodes) < MaxNodes
  PROVE  LET m == [model EXCEPT !.nodes = Append(model.nodes, NewNode(Null))] IN
         ModelFits(m) /\ Owned(m) = Owned(model) + 0
<1> DEFINE node == NewNode(Null)
           new == Append(model.nodes, node)
           m == [model EXCEPT !.nodes = new]
<1>1. /\ model \in ModelRecord /\ model.nodes \in Seq(NodeType) /\ Len(model.nodes) \in Nat
      /\ DOMAIN model.nodes = 1..Len(model.nodes)
  BY OwnedFacts DEF ModelFits
<1>2. node \in NodeType /\ Fits(node) /\ InNode(node) = 0
  <2>1. <<>> \in Scope /\ <<>> \in Seq(Ref) /\ Len(<<>>) = 0
    BY EmptySeq DEF Scope
  <2>2. /\ node.ref = Null /\ node.file = Null /\ node.exec = Null
        /\ node.params = <<>> /\ node.links = <<>>
    BY DEF NewNode
  <2>3. node \in NodeType
    BY <2>1 DEF NewNode, NodeType
  <2>4. QED
    BY <2>1, <2>2, <2>3, LoaderAssumption, StoreAssumption DEF Fits, InNode, Set
<1> HIDE DEF node
<1>3. /\ new \in Seq(NodeType) /\ Len(new) = Len(model.nodes) + 1
      /\ new[Len(model.nodes) + 1] = node
      /\ \A k \in 1..Len(model.nodes) : new[k] = model.nodes[k]
  BY <1>1, <1>2, AppendProperties
<1>4. InNodes(new) = InNodes(model.nodes) + 0
  BY <1>1, <1>2, InNodesOfMore
<1> HIDE DEF new
<1>5. \A k \in DOMAIN new : Fits(new[k])
  <2>1. DOMAIN new = 1..Len(model.nodes) + 1
    BY <1>3, LenProperties
  <2>2. \A k \in DOMAIN new : k \in DOMAIN model.nodes \/ k = Len(model.nodes) + 1
    BY <1>1, <2>1
  <2>3. QED
    BY <1>1, <1>2, <1>3, <2>2 DEF ModelFits
<1>6. /\ m \in ModelRecord /\ m.nodes = new
      /\ m.id = model.id /\ m.params = model.params /\ m.entry = model.entry
  BY <1>1, <1>3 DEF ModelRecord
<1> HIDE DEF m
<1>7. ModelFits(m)
  BY <1>1, <1>3, <1>5, <1>6, LoaderAssumption DEF ModelFits
<1>8. Owned(m) = Owned(model) + 0
  <2>1. Owned(m) = Set(model.id) + 2 * Len(model.params) + Len(model.entry) + InNodes(new)
    BY <1>6 DEF Owned
  <2>2. Owned(model) = Set(model.id) + 2 * Len(model.params) + Len(model.entry) + InNodes(model.nodes)
    BY DEF Owned
  <2>3. Owned(model) \in Nat /\ InNodes(model.nodes) \in Nat
    BY <1>1, OwnedFacts
  <2>4. InNodes(new) = InNodes(model.nodes)
    BY <1>4, <2>3
  <2>5. QED
    BY <2>1, <2>2, <2>3, <2>4
<1>9. QED
  BY <1>7, <1>8 DEF m, new, node

(* What validation sees is what the file describes: nodes that are linked  *)
(* to and never given a field have no links.                               *)
LEMMA GraphIsDescribed ==
  ASSUME NEW n \in Nat, Good(model, n)
  PROVE  Graph(model) = Described(n)
<1> DEFINE nodes == model.nodes
           Full(s) == s \notin {Null, NoText}
           Works(r) == \/ Full(LastValue(OfNode(r, "file", n)))
                       \/ Full(LastValue(OfNode(r, "exec", n)))
           links == [r \in Ref |-> IF {k \in DOMAIN nodes : nodes[k].ref = r} = {}
                                     THEN <<>> ELSE nodes[Find(nodes, r)].links]
           work == {nodes[k].ref : k \in {l \in DOMAIN nodes : Full(nodes[l].file) \/ Full(nodes[l].exec)}}
<1>1. /\ model.id = LastValue(Of("id", n)) /\ model.entry = Values(Of("entry", n))
      /\ {nodes[k].ref : k \in DOMAIN nodes} = NodeRefs(n)
      /\ \A k \in DOMAIN nodes : IsNode(nodes[k], n)
  BY DEF Good, Built, NodesHold, NodeHolds
<1>2. Graph(model) = [id |-> Full(model.id), entry |-> model.entry,
                      nodes |-> {nodes[k].ref : k \in DOMAIN nodes}, links |-> links, work |-> work]
  BY DEF Graph
<1>3. Described(n) = [id |-> Full(LastValue(Of("id", n))), entry |-> Values(Of("entry", n)),
                      nodes |-> NodeRefs(n),
                      links |-> [r \in Ref |-> Values(OfNode(r, "link", n))],
                      work |-> {r \in NodeRefs(n) : Works(r)}]
  BY DEF Described
<1>4. links = [r \in Ref |-> Values(OfNode(r, "link", n))]
  <2>1. ASSUME NEW r \in Ref
        PROVE  links[r] = Values(OfNode(r, "link", n))
    <3>1. CASE \E k \in DOMAIN nodes : nodes[k].ref = r
      <4> DEFINE f == CHOOSE k \in DOMAIN nodes : nodes[k].ref = r
      <4>1. f \in DOMAIN nodes /\ nodes[f].ref = r
        BY <3>1, Zenon
      <4>2. Find(nodes, r) = f
        BY DEF Find
      <4>3. links[r] = nodes[Find(nodes, r)].links
        BY <3>1
      <4> HIDE DEF f, links
      <4>4. links[r] = nodes[f].links
        BY <4>2, <4>3
      <4>5. nodes[f].links = Values(OfNode(r, "link", n))
        BY <1>1, <4>1 DEF IsNode
      <4>6. QED
        BY <4>4, <4>5
    <3>2. CASE ~ \E k \in DOMAIN nodes : nodes[k].ref = r
      <4>1. links[r] = <<>>
        BY <3>2
      <4>2. r \notin NodeRefs(n)
        BY <1>1, <3>2
      <4> HIDE DEF links
      <4>3. "link" \in NodeKinds
        BY DEF NodeKinds
      <4>4. OfNode(r, "link", n) = {}
        BY <4>2, <4>3, NoField
      <4>5. QED
        BY <4>1, <4>4, NoPlace
    <3>3. QED
      BY <3>1, <3>2
  <2>2. links = [r \in Ref |-> links[r]]
    OBVIOUS
  <2> HIDE DEF links
  <2>3. QED
    BY <2>1, <2>2
<1>5. work = {r \in NodeRefs(n) : Works(r)}
  <2>1. \A k \in DOMAIN nodes : (Full(nodes[k].file) \/ Full(nodes[k].exec)) <=> Works(nodes[k].ref)
    BY <1>1 DEF IsNode
  <2>2. \A r : r \in work <=> \E k \in DOMAIN nodes : (Full(nodes[k].file) \/ Full(nodes[k].exec)) /\ r = nodes[k].ref
    OBVIOUS
  <2>3. \A r : r \in NodeRefs(n) <=> \E k \in DOMAIN nodes : r = nodes[k].ref
    BY <1>1
  <2> HIDE DEF work, Works, Full
  <2>4. \A r : r \in work <=> r \in NodeRefs(n) /\ Works(r)
    BY <2>1, <2>2, <2>3
  <2>5. QED
    BY <2>4
<1> HIDE DEF links, work, Works, Full, nodes
<1>6. QED
  BY <1>1, <1>2, <1>3, <1>4, <1>5

----------------------------------------------------------------------------
(* The file is what it was: what its records say stays the same            *)

LEMMA SameFile ==
  ASSUME file' = file
  PROVE  /\ \A m, n : Good(m, n)' <=> Good(m, n)
         /\ \A n : Storable(n)' <=> Storable(n)
         /\ Acceptable' <=> Acceptable
<1>1. \A kind, n : Of(kind, n)' = Of(kind, n)
  BY DEF Of
<1>2. \A ref, kind, n : OfNode(ref, kind, n)' = OfNode(ref, kind, n)
  BY <1>1 DEF OfNode
<1>3. \A P, key : WithKey(P, key)' = WithKey(P, key)
  BY DEF WithKey
<1>4. \A P : LastValue(P)' = LastValue(P)
  BY DEF LastValue
<1>5. \A P : Values(P)' = Values(P)
  BY DEF Values
<1>6. \A P : KeysAt(P)' = KeysAt(P)
  BY DEF KeysAt
<1>7. \A n : NodeRefs(n)' = NodeRefs(n)
  BY DEF NodeRefs
<1>8. \A store, P : IsScope(store, P)' <=> IsScope(store, P)
  BY <1>3, <1>4, <1>6 DEF IsScope
<1>9. \A store, P : Holds(store, P)' <=> Holds(store, P)
  BY <1>6, <1>8 DEF Holds
<1>10. \A node, n : IsNode(node, n)' <=> IsNode(node, n)
  BY <1>2, <1>4, <1>5, <1>8 DEF IsNode
<1>11. \A node, n : NodeHolds(node, n)' <=> NodeHolds(node, n)
  BY <1>2, <1>9, <1>10 DEF NodeHolds
<1>12. \A nodes, refs, n : NodesHold(nodes, refs, n)' <=> NodesHold(nodes, refs, n)
  BY <1>11 DEF NodesHold
<1>13. \A m, n : Built(m, n)' <=> Built(m, n)
  BY <1>1, <1>4, <1>5, <1>7, <1>9, <1>12 DEF Built
<1>14. \A n : Known(n)' <=> Known(n)
  BY DEF Known
<1>15. \A m, n : Good(m, n)' <=> Good(m, n)
  BY <1>13, <1>14 DEF Good
<1>16. \A n : Storable(n)' <=> Storable(n)
  BY <1>1, <1>2, <1>6, <1>7 DEF Storable
<1>17. \A n : Described(n)' = Described(n)
  BY <1>1, <1>2, <1>4, <1>5, <1>7 DEF Described
<1>18. Acceptable' <=> Acceptable
  BY <1>16, <1>17 DEF Acceptable
<1>19. QED
  BY <1>15, <1>16, <1>18

(* What the first n records say depends on no others.                      *)
LEMMA SameRecords ==
  ASSUME NEW n \in Nat, \A k \in 1..n : file'[k] = file[k]
  PROVE  \A m : Good(m, n)' <=> Good(m, n)
<1>1. \A kind : Of(kind, n)' = Of(kind, n) /\ Of(kind, n) \in SUBSET (1..n)
  BY DEF Of
<1>2. \A ref, kind : /\ OfNode(ref, kind, n)' = OfNode(ref, kind, n)
                     /\ OfNode(ref, kind, n) \in SUBSET (1..n)
  BY <1>1 DEF OfNode
<1>3. \A P \in SUBSET (1..n) : \A key : /\ WithKey(P, key)' = WithKey(P, key)
                                        /\ WithKey(P, key) \in SUBSET (1..n)
  BY DEF WithKey
<1>4. \A P \in SUBSET (1..n) : LastValue(P)' = LastValue(P)
  BY LastInPlace DEF LastValue
<1>5. \A P \in SUBSET (1..n) : Values(P)' = Values(P)
  <2>1. \A P \in SUBSET (1..n) : \A k \in 1..Cardinality(P) : file'[Nth(P, k)] = file[Nth(P, k)]
    BY NthInPlace
  <2>2. QED
    BY <2>1 DEF Values
<1>6. \A P \in SUBSET (1..n) : KeysAt(P)' = KeysAt(P)
  BY DEF KeysAt
<1>7. NodeRefs(n)' = NodeRefs(n)
  <2>1. {l \in 1..n : file'[l].kind \in NodeKinds} = {l \in 1..n : file[l].kind \in NodeKinds}
    OBVIOUS
  <2>2. QED
    BY <2>1 DEF NodeRefs
<1>8. \A store : \A P \in SUBSET (1..n) : IsScope(store, P)' <=> IsScope(store, P)
  BY <1>3, <1>4, <1>6 DEF IsScope
<1>9. \A store : \A P \in SUBSET (1..n) : Holds(store, P)' <=> Holds(store, P)
  BY <1>6, <1>8 DEF Holds
<1>10. \A node : IsNode(node, n)' <=> IsNode(node, n)
  BY <1>2, <1>4, <1>5, <1>8 DEF IsNode
<1>11. \A node : NodeHolds(node, n)' <=> NodeHolds(node, n)
  BY <1>2, <1>9, <1>10 DEF NodeHolds
<1>12. \A nodes, refs : NodesHold(nodes, refs, n)' <=> NodesHold(nodes, refs, n)
  BY <1>11 DEF NodesHold
<1>13. \A m : Built(m, n)' <=> Built(m, n)
  BY <1>1, <1>4, <1>5, <1>7, <1>9, <1>12 DEF Built
<1>14. Known(n)' <=> Known(n)
  BY DEF Known
<1>15. QED
  BY <1>13, <1>14 DEF Good

(* A read error leaves a file of records, the ones read so far the same.   *)
LEMMA CutIsRecord ==
  ASSUME NEW r \in Record
  PROVE  Cut(r) \in SUBSET Record /\ Behind \in SUBSET Record
<1> DEFINE T == [kind : Kinds, ref : Ref \cup {Null}, key : Key \cup {Null}, value : Value \cup Ref]
<1>1. r \in T
  BY DEF Record
<1>2. ASSUME NEW kind \in {"blank", "invalid", "unknown"}
      PROVE  Plain(kind) \in Record
  <2>1. kind \in Kinds /\ kind \notin NodeKinds
    BY DEF Kinds, NodeKinds
  <2>2. Plain(kind) \in T /\ Plain(kind).kind = kind
    BY <2>1 DEF Plain, Value
  <2>3. QED
    BY <2>1, <2>2 DEF Record
<1>3. ASSUME NEW v \in Value \cup Ref, v \in Ref \/ r.kind \notin {"entry", "link"},
             v \in Value \/ r.kind \in {"entry", "link"}
      PROVE  [r EXCEPT !.value = v] \in Record
  <2> DEFINE c == [r EXCEPT !.value = v]
  <2>1. c \in T /\ c.kind = r.kind /\ c.ref = r.ref /\ c.key = r.key /\ c.value = v
    BY <1>1
  <2> HIDE DEF c, T
  <2>2. /\ c.kind \in NodeKinds => c.ref \in Ref
        /\ c.kind \in {"param", "node_param"} => c.key \in Key
    BY <2>1, RecordFacts
  <2>3. /\ c.kind \in {"entry", "link"} => c.value \in Ref
        /\ c.kind \in {"id", "file", "exec", "param", "node_param"} => c.value \in Value
    BY <1>3, <2>1
  <2>4. QED
    BY <2>1, <2>2, <2>3 DEF Record, T
<1>4. Behind \in SUBSET Record
  BY <1>2 DEF Behind
<1>5. ASSUME NEW c \in Cut(r)
      PROVE  c \in Record
  <2>1. CASE r.kind = "blank"
    BY <1>5, <2>1 DEF Cut
  <2>2. CASE r.kind \in {"invalid", "unknown", "bad_ref", "bad_field"}
    BY <1>2, <1>5, <2>2 DEF Cut
  <2>3. CASE r.kind \notin {"blank", "invalid", "unknown", "bad_ref", "bad_field"}
    <3>1. \/ c \in {Plain("blank"), Plain("invalid")}
          \/ \E v \in IF r.kind \in {"entry", "link"} THEN Ref ELSE Value : c = [r EXCEPT !.value = v]
      BY <1>5, <2>3 DEF Cut
    <3>2. QED
      BY <1>2, <1>3, <3>1
  <2>4. QED
    BY <2>1, <2>2, <2>3
<1>6. QED
  BY <1>4, <1>5

LEMMA CutFile ==
  ASSUME file \in Seq(Record), pos \in 1..Len(file), ReadFails
  PROVE  /\ file' \in Seq(Record) /\ Len(file') \in Nat /\ pos <= Len(file') + 1
         /\ \A k \in 1..pos - 1 : file'[k] = file[k]
<1> DEFINE n == pos - 1
           before == SubSeq(file, 1, n)
           behind == SubSeq(file, pos + 1, Len(file))
<1>1. /\ Len(file) \in Nat /\ pos \in Nat \ {0} /\ n \in 0..Len(file) /\ n \in Nat
      /\ file[pos] \in Record
  BY LenProperties, ElementOfSeq
<1>2. before \in Seq(Record) /\ Len(before) = n /\ \A k \in 1..n : before[k] = file[k]
  BY <1>1, PrefixFacts
<1>3. behind \in Seq(Record) /\ Len(behind) \in Nat
  <2>1. \A k \in pos + 1..Len(file) : file[k] \in Record
    BY <1>1, ElementOfSeq
  <2>2. behind \in Seq(Record)
    BY <1>1, <2>1, SubSeqProperties
  <2>3. QED
    BY <2>2, LenProperties
<1>4. \/ file' = file
      \/ \E r \in Record : \/ file' = Append(before, r)
                           \/ \E b \in Record : file' = before \o <<r, b>> \o behind
  <2>1. \A r \in Cut(file[pos]) : r \in Record
    BY <1>1, CutIsRecord
  <2>2. \A b \in Behind : b \in Record
    BY <1>1, CutIsRecord
  <2>3. QED
    BY <2>1, <2>2 DEF ReadFails, Line
<1>5. CASE file' = file
  BY <1>1, <1>5
<1> HIDE DEF before, behind, n
<1>6. ASSUME NEW r \in Record, file' = Append(before, r)
      PROVE  /\ file' \in Seq(Record) /\ Len(file') = n + 1
             /\ \A k \in 1..n : file'[k] = file[k]
  BY <1>2, <1>6, AppendProperties
<1>7. ASSUME NEW r \in Record, NEW b \in Record, file' = before \o <<r, b>> \o behind
      PROVE  /\ file' \in Seq(Record) /\ Len(file') = n + 2 + Len(behind)
             /\ \A k \in 1..n : file'[k] = file[k]
  <2> DEFINE two == <<r, b>>
             front == Cat(before, two)
  <2>1. two \in Seq(Record) /\ Len(two) = 2
    OBVIOUS
  <2> HIDE DEF two
  <2>2. /\ front \in Seq(Record) /\ Len(front) = n + 2
        /\ \A k \in 1..n + 2 : front[k] = IF k <= n THEN before[k] ELSE two[k - n]
    <3>1. /\ front \in Seq(Record) /\ Len(front) = Len(before) + Len(two)
          /\ \A k \in 1..Len(before) + Len(two) :
               front[k] = IF k <= Len(before) THEN before[k] ELSE two[k - Len(before)]
      BY <1>2, <2>1, CatFacts
    <3> HIDE DEF front
    <3>2. QED
      BY <1>2, <2>1, <3>1
  <2>3. file' = Cat(front, behind)
    BY <1>7 DEF two, Cat
  <2> HIDE DEF front
  <2>4. /\ file' \in Seq(Record) /\ Len(file') = n + 2 + Len(behind)
        /\ \A k \in 1..n + 2 + Len(behind) :
             file'[k] = IF k <= n + 2 THEN front[k] ELSE behind[k - (n + 2)]
    <3>1. /\ Cat(front, behind) \in Seq(Record)
          /\ Len(Cat(front, behind)) = Len(front) + Len(behind)
          /\ \A k \in 1..Len(front) + Len(behind) :
               Cat(front, behind)[k] = IF k <= Len(front) THEN front[k] ELSE behind[k - Len(front)]
      BY <1>3, <2>2, CatFacts
    <3>2. QED
      BY <2>2, <2>3, <3>1
  <2>5. ASSUME NEW k \in 1..n
        PROVE  file'[k] = file[k]
    <3>1. k \in 1..n + 2 /\ k \in 1..n + 2 + Len(behind) /\ k <= n /\ k <= n + 2
      BY <1>1, <1>3
    <3>2. QED
      BY <1>2, <2>2, <2>4, <3>1
  <2>6. QED
    BY <2>4, <2>5
<1>8. ASSUME file' # file
      PROVE  /\ file' \in Seq(Record) /\ Len(file') \in Nat /\ n + 1 <= Len(file')
             /\ \A k \in 1..n : file'[k] = file[k]
  <2>1. PICK r \in Record : \/ file' = Append(before, r)
                            \/ \E b \in Record : file' = before \o <<r, b>> \o behind
    BY <1>4, <1>8
  <2>2. CASE file' = Append(before, r)
    BY <1>1, <1>6, <2>2
  <2>3. ASSUME NEW b \in Record, file' = before \o <<r, b>> \o behind
        PROVE  /\ file' \in Seq(Record) /\ Len(file') = n + 2 + Len(behind)
               /\ \A k \in 1..n : file'[k] = file[k]
    BY <1>7, <2>3
  <2>4. CASE file' # Append(before, r)
    <3>1. PICK b \in Record : file' = before \o <<r, b>> \o behind
      BY <2>1, <2>4
    <3>2. /\ file' \in Seq(Record) /\ Len(file') = n + 2 + Len(behind)
          /\ \A k \in 1..n : file'[k] = file[k]
      BY <2>3, <3>1
    <3>3. Len(file') \in Nat /\ n + 1 <= Len(file')
      BY <1>1, <1>3, <3>2
    <3>4. QED
      BY <3>2, <3>3
  <2>5. QED
    BY <2>2, <2>4
<1>9. QED
  BY <1>1, <1>5, <1>8 DEF n

----------------------------------------------------------------------------
(* The invariant                                                           *)

Scalars ==
  /\ half \in Nat /\ live \in Nat
  /\ verdict \in {"opening", "reading", "failing", "validating", "ok", "invalid", "failed"}
  /\ error \in {"unset", "text", "freed"}
  /\ fault \in {"none", "open", "memory", "read"}
  /\ caller \in {"none", "main", "child"}

(* A node has its reference, but in a load that is failing.                *)
Named == \A k \in DOMAIN model.nodes : model.nodes[k].ref = Null => verdict = "failing"

LEMMA TypeParts ==
  /\ TypeOK <=> /\ file \in Seq(Record) /\ pos \in Nat \ {0}
                /\ ModelFits(model) /\ Named /\ Scalars
  /\ TypeOK' <=> /\ file' \in Seq(Record) /\ pos' \in Nat \ {0}
                 /\ ModelFits(model)' /\ Named' /\ Scalars'
<1>1. TypeOK <=> /\ file \in Seq(Record) /\ pos \in Nat \ {0}
                 /\ ModelFits(model) /\ Named /\ Scalars
  BY DEF TypeOK, ModelFits, ModelRecord, Fits, Named, Scalars
<1>2. TypeOK' <=> /\ file' \in Seq(Record) /\ pos' \in Nat \ {0}
                  /\ ModelFits(model)' /\ Named' /\ Scalars'
  BY DEF TypeOK, ModelFits, ModelRecord, Fits, Named, Scalars
<1>3. QED
  BY <1>1, <1>2

(* Before the loop there is nothing; in it the model is built from the     *)
(* records before pos; after it from all of them, unless the environment   *)
(* failed; the verdict is what the file deserves.                          *)
Progress ==
  /\ verdict = "opening" => pos = 1 /\ model = Empty
  /\ verdict = "reading" => Good(model, pos - 1)
  /\ verdict \in {"opening", "reading", "failing", "validating"} => caller = "none"
  /\ verdict # "failing" => half = 0

Outcome ==
  /\ verdict \in {"validating", "ok", "invalid"} /\ fault = "none" =>
       /\ Storable(Len(file))
       /\ caller = "none" => Good(model, Len(file))
  /\ verdict = "ok" /\ fault = "none" => Acceptable
  /\ verdict = "invalid" /\ fault = "none" => ~ Acceptable
  /\ verdict = "failed" => model = Empty
  /\ verdict \in {"failing", "failed"} /\ fault = "none" => ~ Storable(Len(file))

Inv == TypeOK /\ pos <= Len(file) + 1 /\ StringsOwnedOnce /\ Progress /\ Outcome

LEMMA EmptyIsGood == ModelFits(Empty) /\ Good(Empty, 0)
<1>1. /\ Empty.id = Null /\ Empty.params = <<>> /\ Empty.entry = <<>> /\ Empty.nodes = <<>>
  BY DEF Empty
<1>2. <<>> \in Scope /\ <<>> \in Seq(Ref) /\ <<>> \in Seq(NodeType) /\ Len(<<>>) = 0 /\ DOMAIN <<>> = {}
  BY EmptySeq DEF Scope
<1>3. Empty \in ModelRecord
  BY <1>2 DEF Empty, ModelRecord
<1>4. ModelFits(Empty)
  BY <1>1, <1>2, <1>3, LoaderAssumption, StoreAssumption DEF ModelFits
<1>5. NodesHold(<<>>, {}, 0)
  BY <1>2, NoPlace DEF NodesHold
<1>6. Built(Empty, 0)
  BY <1>1, <1>5, NoRecord, NoPlace, HoldsNone DEF Built
<1>7. Known(0)
  BY DEF Known
<1>8. QED
  BY <1>4, <1>6, <1>7 DEF Good

LEMMA InitInv == Init => Inv
<1>1. SUFFICES ASSUME Init
               PROVE  Inv
  OBVIOUS
<1>2. /\ file \in Files /\ pos = 1 /\ model = Empty /\ half = 0 /\ live = 0 /\ verdict = "opening"
      /\ error = "unset" /\ fault = "none" /\ caller = "none"
  BY <1>1 DEF Init
<1>3. file \in Seq(Record) /\ Len(file) \in Nat
  BY <1>2, LoaderAssumption, LenProperties
<1>4. TypeOK
  <2>1. Named
    BY <1>2, EmptySeq DEF Named, Empty
  <2>2. QED
    BY <1>2, <1>3, <2>1, EmptyIsGood, TypeParts DEF Scalars
<1>5. StringsOwnedOnce
  BY <1>2, EmptyOwnsNothing DEF StringsOwnedOnce
<1>6. Progress /\ Outcome
  BY <1>2 DEF Progress, Outcome
<1>7. QED
  BY <1>2, <1>3, <1>4, <1>5, <1>6 DEF Inv

LEMMA InvFacts ==
  ASSUME Inv
  PROVE  /\ file \in Seq(Record) /\ Len(file) \in Nat /\ pos \in Nat \ {0} /\ pos <= Len(file) + 1
         /\ ModelFits(model) /\ model \in ModelRecord /\ Named /\ Scalars /\ Owned(model) \in Nat
         /\ \A k \in 1..Len(file) : file[k] \in Record
         /\ caller = "none" => live = Owned(model) + half
         /\ caller = "none" /\ verdict # "failing" => half = 0 /\ live = Owned(model)
<1>1. /\ file \in Seq(Record) /\ pos \in Nat \ {0} /\ ModelFits(model) /\ Named /\ Scalars
      /\ pos <= Len(file) + 1
  BY TypeParts DEF Inv
<1>2. Len(file) \in Nat /\ \A k \in 1..Len(file) : file[k] \in Record
  BY <1>1, LenProperties, ElementOfSeq
<1>3. model \in ModelRecord
  BY <1>1 DEF ModelFits
<1>4. Owned(model) \in Nat
  BY <1>3, OwnedFacts
<1>5. caller = "none" => live = Owned(model) + half
  BY DEF Inv, StringsOwnedOnce
<1>6. verdict # "failing" => half = 0
  BY DEF Inv, Progress
<1>7. QED
  BY <1>1, <1>2, <1>3, <1>4, <1>5, <1>6

LEMMA ReadingFacts ==
  ASSUME Inv, Reading
  PROVE  /\ AtRecord /\ verdict = "reading" /\ caller = "none" /\ half = 0
         /\ live = Owned(model) /\ pos + 1 <= Len(file) + 1
<1>1. /\ file \in Seq(Record) /\ Len(file) \in Nat /\ pos \in Nat \ {0}
      /\ \A k \in 1..Len(file) : file[k] \in Record
  BY InvFacts
<1>2. verdict = "reading" /\ pos <= Len(file)
  BY <1>1, LenProperties DEF Reading
<1>3. Good(model, pos - 1) /\ caller = "none"
  BY <1>2 DEF Inv, Progress
<1>4. live = Owned(model) /\ half = 0
  BY <1>2, <1>3, InvFacts
<1>5. QED
  BY <1>1, <1>2, <1>3, <1>4 DEF AtRecord

(* Nodes the records name have references.                                 *)
LEMMA GoodIsNamed ==
  ASSUME NEW n \in Nat, NEW m, Good(m, n), \A k \in 1..n : file[k] \in Record
  PROVE  \A k \in DOMAIN m.nodes : m.nodes[k].ref # Null
<1>1. {m.nodes[k].ref : k \in DOMAIN m.nodes} = NodeRefs(n)
  BY DEF Good, Built, NodesHold
<1>2. NodeRefs(n) \in SUBSET Ref
  BY RefsAreFinite
<1>3. \A k \in DOMAIN m.nodes : m.nodes[k].ref \in Ref
  BY <1>1, <1>2
<1>4. QED
  BY <1>3, LoaderAssumption

(* A record stored.                                                        *)
LEMMA StoreKeeps ==
  ASSUME Inv, Reading, NEW more \in Nat,
         file' = file, pos' = pos + 1, half' = half, live' = live + more,
         verdict' = verdict, error' = error, fault' = fault, caller' = caller,
         NEW m, model' = m, Good(m, pos), Owned(m) = Owned(model) + more
  PROVE  Inv'
<1>1. /\ file \in Seq(Record) /\ Len(file) \in Nat /\ pos \in Nat \ {0} /\ Scalars
      /\ verdict = "reading" /\ caller = "none" /\ half = 0 /\ Owned(model) \in Nat
      /\ live = Owned(model) /\ pos + 1 <= Len(file) + 1
  BY InvFacts, ReadingFacts
<1>2. ModelFits(model)' /\ Good(model, pos - 1)'
  <2>1. ModelFits(m)
    BY DEF Good
  <2>2. ModelFits(model)'
    BY <2>1 DEF ModelFits, Fits
  <2>3. pos' - 1 = pos
    BY <1>1
  <2>4. Good(model', pos' - 1)
    BY <2>3
  <2>5. QED
    BY <2>2, <2>4, SameFile
<1>3. TypeOK'
  <2>1. Scalars'
    BY <1>1 DEF Scalars
  <2>2. file' \in Seq(Record) /\ pos' \in Nat \ {0}
    BY <1>1
  <2>3. Named'
    <3>1. \A k \in 1..pos : file[k] \in Record
      BY AtRecordFacts, ReadingFacts
    <3>2. \A k \in DOMAIN m.nodes : m.nodes[k].ref # Null
      BY <1>1, <3>1, GoodIsNamed
    <3>3. QED
      BY <3>2 DEF Named
  <2>4. QED
    BY <1>2, <2>1, <2>2, <2>3, TypeParts
<1>4. StringsOwnedOnce'
  <2>1. live' = Owned(model') + half'
    BY <1>1
  <2>2. QED
    BY <2>1 DEF StringsOwnedOnce
<1>5. Progress'
  BY <1>1, <1>2 DEF Progress
<1>6. Outcome'
  BY <1>1 DEF Outcome
<1>7. pos' <= Len(file)' + 1
  BY <1>1
<1>8. QED
  BY <1>3, <1>4, <1>5, <1>6, <1>7 DEF Inv

(* The records of the model's own fields.                                  *)
LEMMA StoreModelKeeps ==
  ASSUME Inv, Blank \/ SetId \/ AddEntry \/ AddParam
  PROVE  Inv'
<1>1. Reading
  BY DEF Blank, SetId, AddEntry, AddParam
<1>2. /\ AtRecord /\ pos \in Nat \ {0} /\ Good(model, pos - 1) /\ Line = file[pos] /\ file[pos] \in Record
  BY <1>1, ReadingFacts, AtRecordFacts
<1>3. ASSUME NEW m, NEW more \in Nat, Store(m, more), Good(m, pos), Owned(m) = Owned(model) + more
      PROVE  Inv'
  BY <1>1, <1>3, StoreKeeps DEF Store
<1>4. CASE Blank
  <2>1. Store(model, 0) /\ file[pos].kind = "blank"
    BY <1>2, <1>4 DEF Blank
  <2>2. Good(model, pos)
    BY <1>2, <2>1, BlankStep
  <2>3. Owned(model) = Owned(model) + 0 /\ 0 \in Nat
    BY InvFacts
  <2>4. QED
    BY <1>3, <2>1, <2>2, <2>3
<1>5. CASE SetId
  <2> DEFINE m == [model EXCEPT !.id = file[pos].value]
  <2>1. Store(m, Replaced(model.id)) /\ file[pos].kind = "id"
    BY <1>2, <1>5 DEF SetId
  <2>2. Good(m, pos) /\ Owned(m) = Owned(model) + Replaced(model.id)
    BY <1>2, <2>1, IdStep
  <2>3. Replaced(model.id) \in Nat
    BY DEF Replaced
  <2> HIDE DEF m
  <2>4. QED
    BY <1>3, <2>1, <2>2, <2>3
<1>6. CASE AddEntry
  <2> DEFINE m == [model EXCEPT !.entry = Append(model.entry, file[pos].value)]
  <2>1. Store(m, 1) /\ file[pos].kind = "entry" /\ Room
    BY <1>2, <1>6 DEF AddEntry
  <2>2. Len(model.entry) < MaxLinks
    BY <1>2, <2>1 DEF Room, NodeKinds
  <2>3. Good(m, pos) /\ Owned(m) = Owned(model) + 1 /\ 1 \in Nat
    BY <1>2, <2>1, <2>2, EntryStep
  <2> HIDE DEF m
  <2>4. QED
    BY <1>3, <2>1, <2>3
<1>7. CASE AddParam
  <2> DEFINE m == [model EXCEPT !.params = Put(model.params, file[pos].key, file[pos].value)]
             more == Strings(model.params, file[pos].key)
  <2>1. Store(m, more) /\ file[pos].kind = "param" /\ Room
    BY <1>2, <1>7 DEF AddParam
  <2>2. HasRoom(model.params, file[pos].key)
    BY <1>2, <2>1 DEF Room, NodeKinds
  <2>3. Good(m, pos) /\ Owned(m) = Owned(model) + more
    BY <1>2, <2>1, <2>2, ParamStep
  <2>4. more \in Nat
    BY DEF Strings
  <2> HIDE DEF m, more
  <2>5. QED
    BY <1>3, <2>1, <2>3, <2>4
<1>8. QED
  BY <1>4, <1>5, <1>6, <1>7

(* The records of a node.                                                  *)
LEMMA StoreNodeKeeps ==
  ASSUME Inv, NodeFile \/ NodeExec \/ NodeLink \/ NodeParam
  PROVE  Inv'
<1> DEFINE ref == file[pos].ref
<1>1. /\ Reading /\ Line.kind \in NodeKinds \ Bad /\ Line.kind \in NodeKinds /\ Room
  BY DEF NodeFile, NodeExec, NodeLink, NodeParam, Ensuring, NodeKinds, Bad
<1>2. /\ AtRecord /\ pos \in Nat \ {0} /\ Good(model, pos - 1) /\ Line = file[pos]
      /\ file[pos] \in Record /\ \A k \in 1..pos : file[k] \in Record
  BY <1>1, ReadingFacts, AtRecordFacts
<1>3. /\ CanEnsure(ref) /\ Nodes = Ensured(ref) /\ Target \in NodeType /\ Target.ref = ref
      /\ NodeHolds(Target, pos - 1) /\ Fits(Target)
  BY <1>1, <1>2, TargetFacts
<1>4. ASSUME NEW node \in NodeType, NEW more \in Nat, StoreNode(node, more),
             node.ref = ref, NodeHolds(node, pos), Fits(node), InNode(node) - InNode(Target) = more
      PROVE  Inv'
  <2> DEFINE m == StoredNode(pos, node)
             all == Created(ref) + more
  <2>1. Store(m, all)
    BY <1>2, <1>3, <1>4 DEF StoreNode, WithNode, StoredNode
  <2>2. Ensured(ref)[Find(Ensured(ref), ref)] = Target
    BY <1>2, <1>3 DEF Target
  <2>3. /\ Good(m, pos)
        /\ Owned(m) = Owned(model) + Created(ref)
             + (InNode(node) - InNode(Ensured(ref)[Find(Ensured(ref), ref)]))
    BY <1>1, <1>2, <1>3, <1>4, NodeStored
  <2>4. Owned(m) = Owned(model) + Created(ref) + more
    BY <1>4, <2>2, <2>3
  <2>5. Created(ref) \in Nat /\ all \in Nat
    BY DEF Created
  <2> HIDE DEF m
  <2>6. Owned(m) = Owned(model) + all
    BY <2>4, <2>5, InvFacts
  <2> HIDE DEF all
  <2>7. QED
    BY <1>1, <2>1, <2>3, <2>5, <2>6, StoreKeeps DEF Store
<1>5. CASE NodeFile
  <2> DEFINE node == [Target EXCEPT !.file = file[pos].value]
  <2>1. StoreNode(node, Replaced(Target.file)) /\ file[pos].kind = "file"
    BY <1>2, <1>5 DEF NodeFile
  <2>2. /\ node \in NodeType /\ node.ref = ref /\ NodeHolds(node, pos) /\ Fits(node)
        /\ InNode(node) - InNode(Target) = Replaced(Target.file)
    BY <1>2, <1>3, <2>1, FileField
  <2>3. Replaced(Target.file) \in Nat
    BY DEF Replaced
  <2> HIDE DEF node
  <2>4. QED
    BY <1>4, <2>1, <2>2, <2>3
<1>6. CASE NodeExec
  <2> DEFINE node == [Target EXCEPT !.exec = file[pos].value]
  <2>1. StoreNode(node, Replaced(Target.exec)) /\ file[pos].kind = "exec"
    BY <1>2, <1>6 DEF NodeExec
  <2>2. /\ node \in NodeType /\ node.ref = ref /\ NodeHolds(node, pos) /\ Fits(node)
        /\ InNode(node) - InNode(Target) = Replaced(Target.exec)
    BY <1>2, <1>3, <2>1, ExecField
  <2>3. Replaced(Target.exec) \in Nat
    BY DEF Replaced
  <2> HIDE DEF node
  <2>4. QED
    BY <1>4, <2>1, <2>2, <2>3
<1>7. CASE NodeLink
  <2> DEFINE node == [Target EXCEPT !.links = Append(Target.links, file[pos].value)]
  <2>1. StoreNode(node, 1) /\ file[pos].kind = "link" /\ NodeRoom /\ 1 \in Nat
    BY <1>2, <1>7 DEF NodeLink
  <2>2. Len(Target.links) < MaxLinks
    BY <1>2, <2>1 DEF NodeRoom
  <2>3. /\ node \in NodeType /\ node.ref = ref /\ NodeHolds(node, pos) /\ Fits(node)
        /\ InNode(node) - InNode(Target) = 1
    BY <1>2, <1>3, <2>1, <2>2, LinkField
  <2> HIDE DEF node
  <2>4. QED
    BY <1>4, <2>1, <2>3
<1>8. CASE NodeParam
  <2> DEFINE node == [Target EXCEPT !.params = Put(Target.params, file[pos].key, file[pos].value)]
             more == Strings(Target.params, file[pos].key)
  <2>1. StoreNode(node, more) /\ file[pos].kind = "node_param" /\ NodeRoom
    BY <1>2, <1>8 DEF NodeParam
  <2>2. HasRoom(Target.params, file[pos].key)
    BY <1>2, <2>1 DEF NodeRoom
  <2>3. /\ node \in NodeType /\ node.ref = ref /\ NodeHolds(node, pos) /\ Fits(node)
        /\ InNode(node) - InNode(Target) = more
    BY <1>2, <1>3, <2>1, <2>2, ParamField
  <2>4. more \in Nat
    BY DEF Strings
  <2> HIDE DEF node, more
  <2>5. QED
    BY <1>4, <2>1, <2>3, <2>4
<1>9. QED
  BY <1>5, <1>6, <1>7, <1>8

(* A record that cannot be stored.                                         *)
LEMMA FailKeeps ==
  ASSUME Inv, Reading, NEW m, NEW more \in Int, NEW got \in Nat,
         NEW text \in {"unset", "text", "freed"}, Fail(m, more, got, text),
         ModelFits(m), Owned(m) = Owned(model) + more,
         fault' \in {"none", "open", "memory", "read"}, fault' = "none" => ~ Storable(Len(file))
  PROVE  Inv'
<1>1. /\ file \in Seq(Record) /\ Len(file) \in Nat /\ pos \in Nat \ {0}
      /\ caller = "none" /\ Owned(model) \in Nat /\ live = Owned(model) /\ pos <= Len(file) + 1
  BY InvFacts, ReadingFacts
<1>2. /\ file' = file /\ pos' = pos /\ caller' = "none" /\ model' = m /\ half' = got
      /\ verdict' = "failing" /\ error' = text /\ live' = live + more + got
  BY <1>1 DEF Fail
<1>3. Owned(m) \in Nat /\ live' = Owned(m) + got /\ live' \in Nat
  <2>1. Owned(m) \in Nat
    BY OwnedFacts DEF ModelFits
  <2>2. QED
    BY <1>1, <1>2, <2>1
<1>4. TypeOK'
  <2>1. Scalars'
    BY <1>2, <1>3 DEF Scalars
  <2>2. ModelFits(model)'
    BY <1>2 DEF ModelFits, Fits
  <2>3. Named'
    BY <1>2 DEF Named
  <2>4. QED
    BY <1>1, <1>2, <2>1, <2>2, <2>3, TypeParts
<1>5. StringsOwnedOnce'
  <2>1. Owned(model') = Owned(m)
    BY <1>2
  <2>2. QED
    BY <1>2, <1>3, <2>1 DEF StringsOwnedOnce
<1>6. Progress'
  BY <1>2 DEF Progress
<1>7. (~ Storable(Len(file)))' \/ fault' # "none"
  <2>1. Len(file') = Len(file)
    BY <1>2
  <2>2. QED
    BY <1>2, <2>1, SameFile
<1>8. Outcome'
  BY <1>2, <1>7 DEF Outcome
<1>9. QED
  BY <1>1, <1>2, <1>4, <1>5, <1>6, <1>8 DEF Inv

(* A file that is not as it should be.                                     *)
LEMMA RefusedKeeps ==
  ASSUME Inv, Malformed \/ TooMany
  PROVE  Inv'
<1>1. Reading
  BY DEF Malformed, TooMany
<1>2. /\ AtRecord /\ error \in {"unset", "text", "freed"} /\ ModelFits(model) /\ Owned(model) \in Nat
      /\ fault \in {"none", "open", "memory", "read"} /\ fault' = fault
  BY <1>1, ReadingFacts, InvFacts DEF Scalars, Malformed, TooMany
<1>3. Owned(model) = Owned(model) + 0 /\ 0 \in Int /\ 0 \in Nat
  BY <1>2
<1>4. ASSUME NEW text \in {"unset", "text", "freed"}, Fail(model, 0, 0, text), ~ Storable(Len(file))
      PROVE  Inv'
  BY <1>1, <1>2, <1>3, <1>4, FailKeeps
<1>5. ASSUME Ensuring, NEW text \in {"unset", "text", "freed"}, FailNode(Target, 0, 0, text),
             ~ Storable(Len(file))
      PROVE  Inv'
  <2> DEFINE more == Created(Line.ref) + 0
  <2>1. Fail(WithNode(Target), more, 0, text)
    BY <1>5 DEF FailNode
  <2>2. /\ ModelFits(WithNode(Target))
        /\ Owned(WithNode(Target)) = Owned(model) + Created(Line.ref) + (InNode(Target) - InNode(Target))
    BY <1>2, <1>5, TargetFacts, TargetKept DEF Ensuring
  <2>3. more \in Int /\ Owned(WithNode(Target)) = Owned(model) + more
    <3>1. InNode(Target) \in Nat
      BY <1>2, <1>5, TargetFacts, NodeFields DEF Ensuring
    <3>2. Created(Line.ref) \in Nat
      BY DEF Created
    <3>3. QED
      BY <1>2, <2>2, <3>1, <3>2
  <2> HIDE DEF more
  <2>4. QED
    BY <1>1, <1>2, <1>3, <1>5, <2>1, <2>2, <2>3, FailKeeps
<1>6. CASE Malformed
  <2>1. Line.kind \in Bad
    BY <1>6 DEF Malformed, Bad
  <2>2. ~ Storable(Len(file))
    BY <1>2, <2>1, BadRecord
  <2>3. QED
    BY <1>4, <1>5, <1>6, <2>2 DEF Malformed
<1>7. CASE TooMany
  <2>1. \/ ~ Room /\ Fail(model, 0, 0, "text")
        \/ Ensuring /\ ~ NodeRoom /\ FailNode(Target, 0, 0, error)
    BY <1>7 DEF TooMany
  <2>2. ~ Storable(Len(file))
    BY <1>2, <2>1, NoRoom, NoNodeRoom DEF Ensuring
  <2>3. QED
    BY <1>2, <1>4, <1>5, <2>1, <2>2
<1>8. QED
  BY <1>6, <1>7

(* strdup fails for a field of the model, or for the reference of a node.  *)
LEMMA NoStringKeeps ==
  ASSUME Inv, NoString
  PROVE  Inv'
<1>1. Reading /\ Room /\ fault' = "memory"
  BY DEF NoString
<1>2. ModelFits(model) /\ Owned(model) \in Nat /\ Owned(model) = Owned(model) + 0
  BY InvFacts
<1>3. ASSUME NEW m, NEW more \in Int, NEW got \in Nat, Fail(m, more, got, "text"),
             ModelFits(m), Owned(m) = Owned(model) + more
      PROVE  Inv'
  BY <1>1, <1>3, FailKeeps
<1>4. CASE Line.kind = "id" /\ Fail([model EXCEPT !.id = Null], - Set(model.id), 0, "text")
  <2> DEFINE m == [model EXCEPT !.id = Null]
             more == - Set(model.id)
  <2>1. ModelFits(m) /\ Owned(m) = Owned(model) + more
    BY <1>2, IdCleared
  <2>2. more \in Int /\ Fail(m, more, 0, "text")
    BY <1>4 DEF Set
  <2> HIDE DEF m, more
  <2>3. QED
    BY <1>3, <2>1, <2>2
<1>5. CASE Line.kind = "entry" /\ Fail(model, 0, 0, "text")
  BY <1>2, <1>3, <1>5
<1>6. CASE /\ Line.kind = "param"
           /\ \E got \in Got(model.params, Line.key) : Fail(model, 0, got, "text")
  <2>1. PICK got \in Nat : Fail(model, 0, got, "text")
    BY <1>6 DEF Got
  <2>2. QED
    BY <1>2, <1>3, <2>1
<1>7. CASE /\ Ensuring /\ ~ Declared(Line.ref)
           /\ Fail([model EXCEPT !.nodes = Append(@, NewNode(Null))], 0, 0, "text")
  <2> DEFINE m == [model EXCEPT !.nodes = Append(model.nodes, NewNode(Null))]
  <2>1. Len(model.nodes) < MaxNodes
    <3>1. CanEnsure(Line.ref)
      BY <1>1, <1>7, ReadingFacts, TargetFacts DEF Ensuring
    <3>2. QED
      BY <1>7, <3>1 DEF CanEnsure
  <2>2. ModelFits(m) /\ Owned(m) = Owned(model) + 0
    BY <1>2, <2>1, NamelessNode
  <2>3. Fail(m, 0, 0, "text")
    BY <1>7
  <2> HIDE DEF m
  <2>4. QED
    BY <1>3, <2>2, <2>3
<1>8. QED
  BY <1>4, <1>5, <1>6, <1>7 DEF NoString

(* strdup fails for a field of a node, which is there by then.             *)
LEMMA NoNodeStringKeeps ==
  ASSUME Inv, NoNodeString
  PROVE  Inv'
<1>1. Reading /\ Room /\ Line.kind \in NodeKinds /\ fault' = "memory"
  BY DEF NoNodeString, Ensuring
<1>2. AtRecord /\ error \in {"unset", "text", "freed"} /\ Owned(model) \in Nat
  BY <1>1, ReadingFacts, InvFacts DEF Scalars
<1>3. Target \in NodeType /\ Fits(Target)
  BY <1>1, <1>2, TargetFacts
<1>4. /\ Set(Target.ref) \in Nat /\ Set(Target.file) \in Nat /\ Set(Target.exec) \in Nat
      /\ Len(Target.params) \in Nat /\ Len(Target.links) \in Nat
  BY <1>3, NodeFields DEF Set
<1>5. ASSUME NEW node \in NodeType, Fits(node), NEW more \in Int, NEW got \in Nat,
             FailNode(node, more, got, error), InNode(node) - InNode(Target) = more
      PROVE  Inv'
  <2> DEFINE all == Created(Line.ref) + more
             m == WithNode(node)
  <2>1. Fail(m, all, got, error)
    BY <1>5 DEF FailNode
  <2>2. /\ ModelFits(m)
        /\ Owned(m) = Owned(model) + Created(Line.ref) + (InNode(node) - InNode(Target))
    BY <1>1, <1>2, <1>5, TargetKept
  <2>3. Created(Line.ref) \in Nat
    BY DEF Created
  <2> HIDE DEF m
  <2>4. all \in Int /\ Owned(m) = Owned(model) + all
    BY <1>2, <1>5, <2>2, <2>3
  <2> HIDE DEF all
  <2>5. QED
    BY <1>1, <1>2, <1>5, <2>1, <2>2, <2>4, FailKeeps
<1>6. CASE FailNode([Target EXCEPT !.file = Null], - Set(Target.file), 0, error)
  <2> DEFINE node == [Target EXCEPT !.file = Null]
  <2>1. /\ node \in NodeType /\ node.file = Null /\ node.ref = Target.ref
        /\ node.exec = Target.exec /\ node.params = Target.params /\ node.links = Target.links
    BY <1>3 DEF NodeType
  <2>2. FailNode(node, - Set(Target.file), 0, error)
    BY <1>6
  <2> HIDE DEF node
  <2>3. InNode(node) - InNode(Target) = - Set(Target.file) /\ - Set(Target.file) \in Int
    <3>1. Set(node.file) = 0
      BY <2>1 DEF Set
    <3>2. QED
      BY <1>4, <2>1, <3>1, SMTT(30) DEF InNode
  <2>4. Fits(node)
    BY <1>3, <2>1 DEF Fits
  <2>5. QED
    BY <1>5, <2>1, <2>2, <2>3, <2>4
<1>7. CASE FailNode([Target EXCEPT !.exec = Null], - Set(Target.exec), 0, error)
  <2> DEFINE node == [Target EXCEPT !.exec = Null]
  <2>1. /\ node \in NodeType /\ node.exec = Null /\ node.ref = Target.ref
        /\ node.file = Target.file /\ node.params = Target.params /\ node.links = Target.links
    BY <1>3 DEF NodeType
  <2>2. FailNode(node, - Set(Target.exec), 0, error)
    BY <1>7
  <2> HIDE DEF node
  <2>3. InNode(node) - InNode(Target) = - Set(Target.exec) /\ - Set(Target.exec) \in Int
    <3>1. Set(node.exec) = 0
      BY <2>1 DEF Set
    <3>2. QED
      BY <1>4, <2>1, <3>1, SMTT(30) DEF InNode
  <2>4. Fits(node)
    BY <1>3, <2>1 DEF Fits
  <2>5. QED
    BY <1>5, <2>1, <2>2, <2>3, <2>4
<1>8. CASE \E got \in {0, 1} : FailNode(Target, 0, got, error)
  <2>1. PICK got \in Nat : FailNode(Target, 0, got, error)
    BY <1>8
  <2>2. InNode(Target) - InNode(Target) = 0 /\ 0 \in Int
    BY <1>3, NodeFields
  <2>3. QED
    BY <1>3, <1>5, <2>1, <2>2
<1>9. QED
  <2>1. \A store, key : Got(store, key) \in SUBSET {0, 1}
    BY DEF Got
  <2>2. QED
    BY <1>6, <1>7, <1>8, <2>1 DEF NoNodeString

(* The steps that leave the file and the model alone.                      *)
LEMMA SameModel ==
  ASSUME Inv, file' = file, pos' = pos, model' = model, Scalars',
         verdict = "failing" => verdict' = "failing"
  PROVE  /\ TypeOK' /\ pos' <= Len(file)' + 1
         /\ Owned(model)' = Owned(model) /\ Len(file)' = Len(file)
         /\ Good(model, pos - 1)' <=> Good(model, pos - 1)
         /\ Good(model, Len(file))' <=> Good(model, Len(file))
         /\ Storable(Len(file))' <=> Storable(Len(file))
         /\ Acceptable' <=> Acceptable
<1>1. /\ file \in Seq(Record) /\ Len(file) \in Nat /\ pos \in Nat \ {0} /\ ModelFits(model)
      /\ pos <= Len(file) + 1 /\ Named
  BY InvFacts
<1>2. ModelFits(model)' /\ Named'
  BY <1>1 DEF ModelFits, Fits, Named
<1>3. TypeOK'
  BY <1>1, <1>2, TypeParts
<1>4. Owned(model') = Owned(model) /\ Len(file') = Len(file)
  OBVIOUS
<1>5. /\ Good(model, pos - 1)' <=> Good(model, pos - 1)
      /\ Good(model, Len(file))' <=> Good(model, Len(file))
      /\ Storable(Len(file))' <=> Storable(Len(file))
      /\ Acceptable' <=> Acceptable
  BY SameFile
<1>6. QED
  BY <1>1, <1>3, <1>4, <1>5

LEMMA OpenKeeps ==
  ASSUME Inv, Opened \/ CannotOpen
  PROVE  Inv'
<1>1. /\ pos = 1 /\ model = Empty /\ caller = "none" /\ verdict = "opening"
      /\ half = 0 /\ live = Owned(model) + half /\ Scalars
  <2>1. verdict = "opening"
    BY DEF Opened, CannotOpen
  <2>2. pos = 1 /\ model = Empty /\ caller = "none"
    BY <2>1 DEF Inv, Progress
  <2>3. QED
    BY <2>1, <2>2, InvFacts
<1>2. /\ file' = file /\ pos' = pos /\ model' = model /\ half' = half /\ live' = live
      /\ caller' = caller
      /\ \/ verdict' = "reading" /\ error' = error /\ fault' = fault
         \/ verdict' = "failed" /\ error' = "text" /\ fault' = "open"
  BY DEF Opened, CannotOpen
<1>3. Scalars'
  BY <1>1, <1>2 DEF Scalars
<1>4. /\ TypeOK' /\ pos' <= Len(file)' + 1 /\ Owned(model)' = Owned(model)
      /\ Good(model, pos - 1)' <=> Good(model, pos - 1)
  BY <1>1, <1>2, <1>3, SameModel
<1>5. Good(model, pos - 1)'
  <2>1. pos - 1 = 0
    BY <1>1
  <2>2. Good(model, pos - 1)
    BY <1>1, <2>1, EmptyIsGood
  <2>3. QED
    BY <1>4, <2>2
<1>6. StringsOwnedOnce'
  BY <1>1, <1>2, <1>4 DEF StringsOwnedOnce
<1>7. Progress'
  BY <1>1, <1>2, <1>5 DEF Progress
<1>8. Outcome'
  BY <1>1, <1>2 DEF Outcome
<1>9. QED
  BY <1>4, <1>6, <1>7, <1>8 DEF Inv

LEMMA EndKeeps ==
  ASSUME Inv, EndOfFile \/ (ReadFails /\ verdict' = "validating" /\ file' = file)
  PROVE  Inv'
<1>1. verdict = "reading"
  BY DEF ReadFails, EndOfFile, Reading
<1>2. /\ caller = "none" /\ Good(model, pos - 1) /\ half = 0 /\ live = Owned(model) + half
      /\ Scalars /\ pos \in Nat \ {0} /\ Len(file) \in Nat /\ pos <= Len(file) + 1
  <2>1. caller = "none" /\ Good(model, pos - 1)
    BY <1>1 DEF Inv, Progress
  <2>2. QED
    BY <1>1, <2>1, InvFacts
<1>3. /\ file' = file /\ pos' = pos /\ model' = model /\ half' = half /\ live' = live
      /\ caller' = caller /\ verdict' = "validating" /\ error' = error
      /\ fault' = "read" \/ (fault' = fault /\ pos > Len(file))
  BY <1>2 DEF ReadFails, EndOfFile
<1>4. Scalars'
  BY <1>2, <1>3 DEF Scalars
<1>5. /\ TypeOK' /\ pos' <= Len(file)' + 1 /\ Owned(model)' = Owned(model)
      /\ Good(model, Len(file))' <=> Good(model, Len(file))
      /\ Storable(Len(file))' <=> Storable(Len(file))
  BY <1>1, <1>3, <1>4, SameModel
<1>6. pos > Len(file) => Good(model, Len(file)) /\ Storable(Len(file))
  <2>1. pos > Len(file) => pos - 1 = Len(file)
    BY <1>2
  <2>2. QED
    BY <1>2, <2>1, BuiltIsStorable
<1>7. StringsOwnedOnce'
  BY <1>2, <1>3, <1>5 DEF StringsOwnedOnce
<1>8. Progress'
  BY <1>2, <1>3 DEF Progress
<1>9. Outcome'
  BY <1>3, <1>5, <1>6 DEF Outcome
<1>10. QED
  BY <1>5, <1>7, <1>8, <1>9 DEF Inv

(* A line cut by a read error: the model is still built from the records   *)
(* before it.                                                              *)
LEMMA CutKeeps ==
  ASSUME Inv, ReadFails, verdict' = verdict
  PROVE  Inv'
<1>1. Reading
  BY DEF ReadFails
<1>2. /\ verdict = "reading" /\ caller = "none" /\ half = 0 /\ live = Owned(model) + half
      /\ file \in Seq(Record) /\ pos \in Nat \ {0} /\ pos \in 1..Len(file)
      /\ ModelFits(model) /\ Named /\ Scalars /\ Good(model, pos - 1)
  <2>1. AtRecord /\ verdict = "reading" /\ caller = "none"
    BY <1>1, ReadingFacts
  <2>2. QED
    BY <2>1, InvFacts DEF AtRecord
<1>3. /\ pos' = pos /\ model' = model /\ half' = half /\ live' = live /\ error' = error
      /\ caller' = caller /\ fault' = "read"
  BY DEF ReadFails
<1>4. /\ file' \in Seq(Record) /\ pos <= Len(file') + 1
      /\ \A k \in 1..pos - 1 : file'[k] = file[k]
  BY <1>2, CutFile
<1>5. Good(model, pos - 1)'
  <2>1. pos - 1 \in Nat
    BY <1>2
  <2> DEFINE n == pos - 1
  <2>2. PICK i \in Nat : i = n
    BY <2>1
  <2>3. \A k \in 1..i : file'[k] = file[k]
    BY <1>4, <2>2
  <2>4. \A m : Good(m, i)' <=> Good(m, i)
    BY <2>3, SameRecords
  <2>5. Good(model, i)
    BY <1>2, <2>2
  <2>6. model' = model /\ pos' - 1 = i
    BY <1>3, <2>2
  <2>7. QED
    BY <2>4, <2>5, <2>6
<1>6. TypeOK'
  <2>1. Scalars'
    BY <1>2, <1>3 DEF Scalars
  <2>2. ModelFits(model)' /\ Named'
    BY <1>2, <1>3 DEF ModelFits, Fits, Named
  <2>3. QED
    BY <1>2, <1>3, <1>4, <2>1, <2>2, TypeParts
<1>7. StringsOwnedOnce'
  BY <1>2, <1>3 DEF StringsOwnedOnce
<1>8. Progress'
  BY <1>2, <1>3, <1>5 DEF Progress
<1>9. Outcome'
  BY <1>2 DEF Outcome
<1>10. QED
  BY <1>3, <1>4, <1>6, <1>7, <1>8, <1>9 DEF Inv

LEMMA ValidatedKeeps ==
  ASSUME Inv, Validated
  PROVE  Inv'
<1>1. verdict = "validating"
  BY DEF Validated
<1>2. /\ caller = "none" /\ half = 0 /\ live = Owned(model) + half
      /\ Scalars /\ Len(file) \in Nat
  <2>1. caller = "none"
    BY <1>1 DEF Inv, Progress
  <2>2. QED
    BY <1>1, <2>1, InvFacts
<1>3. /\ file' = file /\ pos' = pos /\ model' = model /\ half' = half /\ live' = live
      /\ caller' = caller /\ fault' = fault
      /\ \/ Sound(Graph(model)) /\ verdict' = "ok" /\ error' = error
         \/ ~ Sound(Graph(model)) /\ verdict' = "invalid" /\ error' = "text"
  BY DEF Validated
<1>4. Scalars'
  BY <1>2, <1>3 DEF Scalars
<1>5. /\ TypeOK' /\ pos' <= Len(file)' + 1 /\ Owned(model)' = Owned(model)
      /\ Good(model, Len(file))' <=> Good(model, Len(file))
      /\ Storable(Len(file))' <=> Storable(Len(file))
      /\ Acceptable' <=> Acceptable
  BY <1>1, <1>3, <1>4, SameModel
<1>6. ASSUME fault = "none"
      PROVE  /\ Storable(Len(file)) /\ Good(model, Len(file))
             /\ Acceptable <=> Sound(Graph(model))
  <2>1. Storable(Len(file)) /\ Good(model, Len(file))
    BY <1>1, <1>2, <1>6 DEF Inv, Outcome
  <2>2. Graph(model) = Described(Len(file))
    BY <1>2, <2>1, GraphIsDescribed
  <2>3. QED
    BY <2>1, <2>2 DEF Acceptable
<1>7. StringsOwnedOnce'
  BY <1>2, <1>3, <1>5 DEF StringsOwnedOnce
<1>8. Progress'
  BY <1>2, <1>3 DEF Progress
<1>9. Outcome'
  BY <1>3, <1>5, <1>6 DEF Outcome
<1>10. QED
  BY <1>5, <1>7, <1>8, <1>9 DEF Inv

(* The strings no store has are freed first, then the model.               *)
LEMMA FreeHalfKeeps ==
  ASSUME Inv, FreeHalf
  PROVE  Inv'
<1>1. verdict = "failing" /\ caller = "none"
  BY DEF FreeHalf, Inv, Progress
<1>2. live = Owned(model) + half /\ half \in Nat /\ Owned(model) \in Nat /\ Scalars
  BY <1>1, InvFacts DEF Scalars
<1>3. /\ file' = file /\ pos' = pos /\ model' = model /\ half' = 0 /\ live' = live - half
      /\ verdict' = verdict /\ error' = error /\ fault' = fault /\ caller' = caller
  BY DEF FreeHalf
<1>4. live' = Owned(model) /\ live' \in Nat
  BY <1>2, <1>3
<1>5. Scalars'
  BY <1>2, <1>3, <1>4 DEF Scalars
<1>6. /\ TypeOK' /\ pos' <= Len(file)' + 1 /\ Owned(model)' = Owned(model)
      /\ Storable(Len(file))' <=> Storable(Len(file))
  BY <1>3, <1>5, SameModel
<1>7. StringsOwnedOnce'
  <2>1. live' = Owned(model)' + half'
    BY <1>2, <1>3, <1>4, <1>6
  <2>2. QED
    BY <2>1 DEF StringsOwnedOnce
<1>8. Progress'
  BY <1>1, <1>3 DEF Progress
<1>9. Outcome'
  BY <1>1, <1>3, <1>6 DEF Inv, Outcome
<1>10. QED
  BY <1>6, <1>7, <1>8, <1>9 DEF Inv

LEMMA FreeLoadedKeeps ==
  ASSUME Inv, FreeLoaded
  PROVE  Inv'
<1>1. verdict = "failing" /\ caller = "none" /\ half = 0
  BY DEF FreeLoaded, Inv, Progress
<1>2. /\ live = Owned(model) + half /\ Owned(model) \in Nat /\ file \in Seq(Record)
      /\ pos \in Nat \ {0} /\ pos <= Len(file) + 1
  BY <1>1, InvFacts
<1>3. /\ file' = file /\ pos' = pos /\ model' = Empty /\ half' = 0 /\ live' = live - Owned(model)
      /\ verdict' = "failed" /\ error' = error /\ fault' = fault /\ caller' = caller
  BY <1>1 DEF FreeLoaded
<1>4. live' = 0
  BY <1>1, <1>2, <1>3
<1>5. TypeOK'
  <2>1. Scalars'
    <3>1. Scalars
      BY InvFacts
    <3>2. half' \in Nat /\ live' \in Nat
      BY <1>3, <1>4
    <3>3. QED
      BY <1>3, <3>1, <3>2 DEF Scalars
  <2>2. ModelFits(model)' /\ Named'
    BY <1>3, EmptyIsGood, EmptySeq DEF ModelFits, Fits, Named, Empty
  <2>3. QED
    BY <1>2, <1>3, <2>1, <2>2, TypeParts
<1>6. StringsOwnedOnce'
  <2>1. Owned(model') = 0
    BY <1>3, EmptyOwnsNothing
  <2>2. QED
    BY <1>3, <1>4, <2>1 DEF StringsOwnedOnce
<1>7. Progress'
  BY <1>3 DEF Progress
<1>8. Outcome'
  <2>1. fault = "none" => ~ Storable(Len(file))
    BY <1>1 DEF Inv, Outcome
  <2>2. Len(file') = Len(file)
    BY <1>3
  <2>3. Storable(Len(file))' <=> Storable(Len(file))
    BY <1>3, <2>2, SameFile
  <2>4. QED
    BY <1>3, <2>1, <2>3 DEF Outcome
<1>9. QED
  BY <1>2, <1>3, <1>5, <1>6, <1>7, <1>8 DEF Inv

(* The callers free what there is, but for the model that is not valid.    *)
LEMMA FreeKeeps ==
  ASSUME Inv, MainFrees \/ ChildFlowFrees
  PROVE  Inv'
<1>1. verdict \in {"ok", "invalid", "failed"} /\ caller = "none"
  BY DEF MainFrees, ChildFlowFrees, Returned
<1>2. /\ half = 0 /\ live = Owned(model) /\ Scalars /\ Len(file) \in Nat /\ file \in Seq(Record)
      /\ pos \in Nat \ {0} /\ pos <= Len(file) + 1 /\ Owned(model) \in Nat
  BY <1>1, InvFacts
<1>3. /\ file' = file /\ pos' = pos /\ model' = Empty /\ half' = half /\ verdict' = verdict
      /\ error' = error /\ fault' = fault
      /\ \/ caller' = "main" /\ live' = live - Owned(model)
         \/ caller' = "child" /\ live' = IF verdict = "ok" THEN live - Owned(model) ELSE live
  BY DEF MainFrees, ChildFlowFrees
<1>4. live - Owned(model) = 0 /\ (verdict = "failed" => live = 0)
  <2>1. verdict = "failed" => Owned(model) = 0
    BY EmptyOwnsNothing DEF Inv, Outcome
  <2>2. QED
    BY <1>2, <2>1
<1>5. /\ live' \in Nat /\ caller' \in {"main", "child"}
      /\ ~ (caller' = "child" /\ verdict' = "invalid") => live' = 0
  BY <1>1, <1>2, <1>3, <1>4 DEF Scalars
<1>6. TypeOK'
  <2>1. Scalars'
    BY <1>2, <1>3, <1>5 DEF Scalars
  <2>2. ModelFits(model)' /\ Named'
    BY <1>3, EmptyIsGood, EmptySeq DEF ModelFits, Fits, Named, Empty
  <2>3. QED
    BY <1>2, <1>3, <2>1, <2>2, TypeParts
<1>7. StringsOwnedOnce'
  <2>1. Owned(model') = 0
    BY <1>3, EmptyOwnsNothing
  <2>2. QED
    BY <1>2, <1>3, <1>5, <2>1 DEF StringsOwnedOnce
<1>8. Progress'
  BY <1>1, <1>2, <1>3 DEF Progress
<1>9. Outcome'
  <2>1. Len(file') = Len(file) /\ caller' # "none"
    BY <1>3, <1>5
  <2>2. (Storable(Len(file)))' <=> Storable(Len(file))
    BY <1>3, <2>1, SameFile
  <2>3. Acceptable' <=> Acceptable
    BY <1>3, SameFile
  <2>4. Outcome
    BY DEF Inv
  <2>5. QED
    BY <1>1, <1>3, <2>1, <2>2, <2>3, <2>4 DEF Outcome
<1>10. QED
  BY <1>2, <1>3, <1>6, <1>7, <1>8, <1>9 DEF Inv

LEMMA NothingKeeps ==
  ASSUME Inv, UNCHANGED vars
  PROVE  Inv'
<1>1. /\ file' = file /\ pos' = pos /\ model' = model /\ half' = half /\ live' = live
      /\ verdict' = verdict /\ error' = error /\ fault' = fault /\ caller' = caller
  BY DEF vars
<1>2. Scalars'
  BY <1>1, InvFacts DEF Scalars
<1>3. /\ TypeOK' /\ pos' <= Len(file)' + 1 /\ Owned(model)' = Owned(model)
      /\ Good(model, pos - 1)' <=> Good(model, pos - 1)
      /\ Good(model, Len(file))' <=> Good(model, Len(file))
      /\ Storable(Len(file))' <=> Storable(Len(file))
      /\ Acceptable' <=> Acceptable
  BY <1>1, <1>2, SameModel
<1>4. StringsOwnedOnce'
  BY <1>1, <1>3 DEF Inv, StringsOwnedOnce
<1>5. Progress'
  BY <1>1, <1>3 DEF Inv, Progress
<1>6. Outcome'
  BY <1>1, <1>3 DEF Inv, Outcome
<1>7. QED
  BY <1>3, <1>4, <1>5, <1>6 DEF Inv

LEMMA NextKeeps ==
  ASSUME Inv, [Next]_vars
  PROVE  Inv'
<1>1. CASE UNCHANGED vars
  BY <1>1, NothingKeeps
<1>2. CASE Done
  BY <1>2, NothingKeeps DEF Done
<1>3. CASE Next /\ ~ Done
  <2>1. ReadFails => Inv'
    BY EndKeeps, CutKeeps DEF ReadFails
  <2>2. QED
    BY <1>3, <2>1, OpenKeeps, StoreModelKeeps, StoreNodeKeeps, RefusedKeeps, NoStringKeeps,
       NoNodeStringKeeps, FreeHalfKeeps, FreeLoadedKeeps, EndKeeps, ValidatedKeeps, FreeKeeps DEF Next
<1>4. QED
  BY <1>1, <1>2, <1>3

THEOREM InvHolds == Spec => []Inv
<1>1. Init => Inv
  BY InitInv
<1>2. Inv /\ [Next]_vars => Inv'
  BY NextKeeps
<1>3. QED
  BY <1>1, <1>2, PTL DEF Spec

----------------------------------------------------------------------------
(* The theorems                                                            *)

(* TypeOK for every file: no store of load.c or model.c runs over its      *)
(* array, whatever the order of the records.                               *)
THEOREM TypeCorrect == Spec => []TypeOK
<1>1. Inv => TypeOK
  BY DEF Inv
<1>2. QED
  BY <1>1, InvHolds, PTL

(* LoadedIsTheFile: what kc_flow_load_file gives its caller is what the    *)
(* file says.                                                              *)
THEOREM LoadedModelIsTheFile == Spec => []LoadedIsTheFile
<1>1. Inv => LoadedIsTheFile
  <2>1. SUFFICES ASSUME Inv, verdict = "ok", fault = "none", caller = "none"
                 PROVE  Describes(model, Len(file))
    BY DEF LoadedIsTheFile
  <2>2. Built(model, Len(file))
    BY <2>1 DEF Inv, Outcome, Good
  <2>3. QED
    BY <2>2, BuiltIsDescribed
<1>2. QED
  BY <1>1, InvHolds, PTL

(* AcceptsExactly: a load that meets no failure of the environment         *)
(* succeeds for the acceptable files and no others.                        *)
THEOREM AcceptanceIsExact == Spec => []AcceptsExactly
<1>1. Inv => AcceptsExactly
  <2>1. SUFFICES ASSUME Inv, verdict \in {"ok", "invalid", "failed"}, fault = "none"
                 PROVE  verdict = "ok" <=> Acceptable
    BY DEF AcceptsExactly
  <2>2. verdict = "failed" => ~ Acceptable
    BY <2>1 DEF Inv, Outcome, Acceptable
  <2>3. QED
    BY <2>1, <2>2 DEF Inv, Outcome
<1>2. QED
  BY <1>1, InvHolds, PTL

(* StringsOwnedOnce: on every path of load.c each live string is owned once*)
(* by the model or, while a record fails, by what overrides_add still frees*)
(* of it, until the caller frees the model, but for that of a child flow   *)
(* that is not valid.                                                      *)
THEOREM StringsHaveOneOwner == Spec => []StringsOwnedOnce
<1>1. Inv => StringsOwnedOnce
  BY DEF Inv
<1>2. QED
  BY <1>1, InvHolds, PTL
=============================================================================

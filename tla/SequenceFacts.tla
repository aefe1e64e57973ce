---------------------------- MODULE SequenceFacts ----------------------------
(***************************************************************************)
(* Facts about sequences that the proofs of several modules need and the   *)
(* library does not state.                                                 *)
(***************************************************************************)
EXTENDS SequencesExt, SequenceTheorems, FiniteSetTheorems, TLAPS

(* The first n elements of a sequence.                                     *)
LEMMA PrefixFacts ==
  ASSUME NEW S, NEW s \in Seq(S), NEW n \in 0..Len(s)
  PROVE  /\ SubSeq(s, 1, n) \in Seq(S)
         /\ Len(SubSeq(s, 1, n)) = n
         /\ \A k \in 1..n : SubSeq(s, 1, n)[k] = s[k]
<1>1. n \in Nat /\ \A k \in 1..n : s[k] \in S
  BY LenProperties, ElementOfSeq
<1>2. /\ SubSeq(s, 1, n) \in Seq(S)
      /\ Len(SubSeq(s, 1, n)) = IF 1 <= n THEN n - 1 + 1 ELSE 0
      /\ \A k \in 1..n - 1 + 1 : SubSeq(s, 1, n)[k] = s[1 + k - 1]
  BY <1>1, SubSeqProperties
<1>3. (IF 1 <= n THEN n - 1 + 1 ELSE 0) = n
  BY <1>1
<1>4. ASSUME NEW k \in 1..n
      PROVE  SubSeq(s, 1, n)[k] = s[k]
  <2>1. k \in 1..n - 1 + 1 /\ 1 + k - 1 = k
    BY <1>1
  <2>2. QED
    BY <1>2, <2>1
<1>5. QED
  BY <1>2, <1>3, <1>4

(* Taking the last element off again undoes Append.                        *)
LEMMA AppendUndone ==
  ASSUME NEW S, NEW s \in Seq(S), NEW e \in S
  PROVE  /\ Append(s, e) # <<>>
         /\ Append(s, e)[Len(Append(s, e))] = e
         /\ SubSeq(Append(s, e), 1, Len(Append(s, e)) - 1) = s
<1> DEFINE t == Append(s, e)
<1>1. /\ t \in Seq(S) /\ t # <<>>
      /\ Len(t) = Len(s) + 1
      /\ \A k \in 1..Len(s) : t[k] = s[k]
      /\ t[Len(s) + 1] = e
      /\ Len(s) \in Nat
  BY AppendProperties, LenProperties
<1> HIDE DEF t
<1>2. Len(t) - 1 = Len(s) /\ Len(s) \in 0..Len(t)
  BY <1>1
<1>3. /\ SubSeq(t, 1, Len(s)) \in Seq(S)
      /\ Len(SubSeq(t, 1, Len(s))) = Len(s)
      /\ \A k \in 1..Len(s) : SubSeq(t, 1, Len(s))[k] = t[k]
  BY <1>1, <1>2, PrefixFacts
<1>4. SubSeq(t, 1, Len(s)) = s
  BY <1>1, <1>3, SeqEqual
<1>5. QED
  BY <1>1, <1>2, <1>4 DEF t

(* A sequence that is not empty has a last element and a front.            *)
LEMMA LastFront ==
  ASSUME NEW S, NEW s \in Seq(S), s # <<>>
  PROVE  /\ Len(s) \in Nat \ {0}
         /\ s[Len(s)] \in S
         /\ SubSeq(s, 1, Len(s) - 1) \in Seq(S)
<1>1. Len(s) \in Nat \ {0}
  BY EmptySeq, LenProperties
<1>2. Len(s) \in 1..Len(s) /\ Len(s) - 1 \in 0..Len(s)
  BY <1>1
<1>3. s[Len(s)] \in S
  BY <1>2, ElementOfSeq
<1>4. QED
  BY <1>1, <1>2, <1>3, PrefixFacts

(* Concatenation under a name of its own, which the provers leave alone.   *)
Cat(s, t) == s \o t

LEMMA CatAssociative ==
  ASSUME NEW S, NEW t \in Seq(S), NEW u \in Seq(S), NEW v \in Seq(S)
  PROVE  Cat(Cat(t, u), v) = Cat(t, Cat(u, v))
BY ConcatAssociative DEF Cat

(* The next n elements after the first i, and a part of the last b of p.   *)
LEMMA CopyOn ==
  ASSUME NEW S, NEW w \in Seq(S), NEW d \in Seq(S), NEW i \in Nat, NEW n \in Nat,
         i + n <= Len(d)
  PROVE  Cat(Cat(w, SubSeq(d, 1, i)), SubSeq(d, i + 1, i + n)) = Cat(w, SubSeq(d, 1, i + n))
<1>1. Len(d) \in Nat /\ \A m \in 1..Len(d) : d[m] \in S
  BY LenProperties, ElementOfSeq
<1>2. SubSeq(d, 1, i) \in Seq(S)
  <2>1. \A m \in 1..i : d[m] \in S
    BY <1>1
  <2>2. QED
    BY <2>1, SubSeqProperties
<1>3. SubSeq(d, i + 1, i + n) \in Seq(S)
  <2>1. \A m \in i + 1..i + n : d[m] \in S
    BY <1>1
  <2>2. i + 1 \in Int /\ i + n \in Int
    OBVIOUS
  <2>3. QED
    BY <2>1, <2>2, SubSeqProperties
<1>4. Cat(SubSeq(d, 1, i), SubSeq(d, i + 1, i + n)) = SubSeq(d, 1, i + n)
  <2>1. 1 \in 1..Len(d) + 1 /\ i \in 1 - 1..Len(d) /\ i + n \in i..Len(d)
    BY <1>1
  <2>2. QED
    BY <2>1, ConcatAdjacentSubSeq DEF Cat
<1>5. Cat(Cat(w, SubSeq(d, 1, i)), SubSeq(d, i + 1, i + n))
        = Cat(w, Cat(SubSeq(d, 1, i), SubSeq(d, i + 1, i + n)))
  <2> DEFINE u == SubSeq(d, 1, i)
  <2> DEFINE v == SubSeq(d, i + 1, i + n)
  <2>1. u \in Seq(S) /\ v \in Seq(S)
    BY <1>2, <1>3
  <2> HIDE DEF u, v
  <2>2. Cat(Cat(w, u), v) = Cat(w, Cat(u, v))
    BY <2>1, CatAssociative
  <2>3. QED
    BY <2>2, Zenon DEF u, v
<1>6. QED
  BY <1>4, <1>5, Zenon

LEMMA PartOfRead ==
  ASSUME NEW S, NEW d \in Seq(S), NEW p \in 1..Len(d), NEW b \in 1..p,
         NEW i \in 0..b - 1, NEW n \in 1..b - i
  PROVE  SubSeq(SubSeq(d, p - b + 1, p), i + 1, i + n)
           = SubSeq(d, (p - (b - i)) + 1, (p - (b - i)) + n)
<1>1. Len(d) \in Nat /\ p \in Nat /\ b \in Nat /\ i \in Nat /\ n \in Nat
  BY LenProperties
<1>2. /\ p - b + 1 \in 1..Len(d) /\ p - (p - b + 1) + 1 = b
      /\ i + 1 \in 1..b /\ i + n \in 1..b
  BY <1>1
<1>3. /\ (p - b + 1) + (i + 1) - 1 = (p - (b - i)) + 1
      /\ (p - b + 1) + (i + n) - 1 = (p - (b - i)) + n
  BY <1>1
<1> DEFINE lo == p - b + 1
<1> DEFINE first == i + 1
<1> DEFINE last  == i + n
<1>4. /\ lo \in 1..Len(d) /\ first \in 1..p - lo + 1 /\ last \in 1..p - lo + 1
      /\ lo + first - 1 = (p - (b - i)) + 1 /\ lo + last - 1 = (p - (b - i)) + n
  BY <1>2, <1>3
<1> HIDE DEF lo, first, last
<1>5. SubSeq(SubSeq(d, lo, p), first, last) = SubSeq(d, lo + first - 1, lo + last - 1)
  BY <1>4, SubSeqOfSubSeq
<1>6. QED
  BY <1>4, <1>5 DEF lo, first, last

(* A set of numbers that is not empty has a least one: what induction over *)
(* numbers comes down to here.                                             *)
LEMMA Least ==
  ASSUME NEW S \in SUBSET Nat, S # {}
  PROVE  \E m \in S : \A n \in S : m <= n
<1> DEFINE R == StrictSubsetOrdering(Nat)
           T == {1..n : n \in S}
<1>1. IsWellFoundedOn(R, FiniteSubsetsOf(Nat))
  BY FS_StrictSubsetOrderingWellFounded
<1>2. T \subseteq FiniteSubsetsOf(Nat)
  BY FS_Interval DEF FiniteSubsetsOf
<1>3. \A x, y \in T : <<y, x>> \in R <=> y \subseteq x /\ y # x
  BY DEF StrictSubsetOrdering
<1> HIDE DEF R
<1>4. \E x \in T : \A y \in T : ~ (<<y, x>> \in R)
  <2>1. T # {}
    OBVIOUS
  <2> HIDE DEF T
  <2>2. QED
    BY <1>1, <1>2, <2>1, WFMin
<1>5. PICK m \in S : \A n \in S : ~ (1..n \subseteq 1..m /\ 1..n # 1..m)
  <2>1. PICK x \in T : \A y \in T : ~ (y \subseteq x /\ y # x)
    BY <1>3, <1>4
  <2>2. PICK m \in S : x = 1..m
    BY <2>1
  <2>3. \A n \in S : 1..n \in T
    OBVIOUS
  <2> HIDE DEF T
  <2>4. \A n \in S : ~ (1..n \subseteq 1..m /\ 1..n # 1..m)
    BY <2>1, <2>2, <2>3, Zenon
  <2>5. QED
    BY <2>4
<1>6. ASSUME NEW n \in S, n < m PROVE FALSE
  <2>1. 1..n \subseteq 1..m
    BY <1>6
  <2>2. m \in 1..m /\ m \notin 1..n
    BY <1>6
  <2>3. QED
    BY <1>5, <2>1, <2>2
<1>7. QED
  BY <1>6

(* So has one that has a bound a greatest.                                 *)
LEMMA Greatest ==
  ASSUME NEW S \in SUBSET Nat, S # {}, NEW n \in Nat, \A k \in S : k <= n
  PROVE  \E m \in S : \A k \in S : k <= m
<1> DEFINE T == {n - k : k \in S}
<1>1. T \in SUBSET Nat /\ T # {}
  <2>1. \A k \in S : n - k \in Nat
    OBVIOUS
  <2>2. QED
    BY <2>1
<1>2. PICK t \in T : \A u \in T : t <= u
  <2> HIDE DEF T
  <2>1. QED
    BY <1>1, Least
<1>3. PICK m \in S : t = n - m
  OBVIOUS
<1>4. ASSUME NEW k \in S
      PROVE  k <= m
  <2>1. n - m <= n - k
    BY <1>2, <1>3
  <2>2. QED
    BY <2>1
<1>5. QED
  BY <1>4

(* Induction over numbers, of a set rather than a property.                *)
LEMMA FromZero ==
  ASSUME NEW S \in SUBSET Nat, 0 \in S, \A n \in S : n + 1 \in S
  PROVE  S = Nat
<1> DEFINE Bad == Nat \ S
<1>1. ASSUME NEW m \in Bad, \A n \in Bad : m <= n
      PROVE  FALSE
  <2>1. m \in Nat /\ m \notin S /\ m # 0
    OBVIOUS
  <2>2. m - 1 \in Nat /\ ~ (m <= m - 1) /\ m - 1 + 1 = m
    BY <2>1
  <2>3. m - 1 \in S
    BY <1>1, <2>2
  <2>4. QED
    BY <2>1, <2>2, <2>3
<1>2. Bad \in SUBSET Nat
  OBVIOUS
<1> HIDE DEF Bad
<1>3. Bad = {}
  BY <1>1, <1>2, Least
<1>4. QED
  BY <1>3 DEF Bad

(* The element that is the greatest is Max.                                *)
LEMMA MaxIs ==
  ASSUME NEW S \in SUBSET Int, NEW m \in S, \A x \in S : x <= m
  PROVE  Max(S) = m
<1> DEFINE c == CHOOSE x \in S : \A y \in S : x >= y
<1>1. \E x \in S : \A y \in S : x >= y
  OBVIOUS
<1>2. c \in S /\ \A y \in S : c >= y
  BY <1>1, Zenon
<1>3. Max(S) = c
  BY DEF Max
<1> HIDE DEF c
<1>4. QED
  BY <1>2, <1>3

(* The element that is the least is Min.                                   *)
LEMMA MinIs ==
  ASSUME NEW S \in SUBSET Int, NEW m \in S, \A x \in S : m <= x
  PROVE  Min(S) = m
<1> DEFINE c == CHOOSE x \in S : \A y \in S : x =< y
<1>1. \E x \in S : \A y \in S : x =< y
  OBVIOUS
<1>2. c \in S /\ \A y \in S : c =< y
  BY <1>1, Zenon
<1>3. Min(S) = c
  BY DEF Min
<1> HIDE DEF c
<1>4. QED
  BY <1>2, <1>3

(* A later place does not change which is first.                           *)
LEMMA MinKept ==
  ASSUME NEW S \in SUBSET Nat, S # {}, NEW n \in Nat, \A x \in S : x < n
  PROVE  Min(S \cup {n}) = Min(S) /\ Min(S) < n
<1>1. PICK m \in S : \A x \in S : m <= x
  BY Least
<1>2. S \in SUBSET Int
  OBVIOUS
<1>3. Min(S) = m
  BY <1>1, <1>2, MinIs
<1> DEFINE T == S \cup {n}
<1>4. m \in T /\ T \in SUBSET Int /\ \A x \in T : m <= x
  BY <1>1
<1>5. Min(T) = m
  <2> HIDE DEF T
  <2>1. QED
    BY <1>4, MinIs
<1>6. QED
  BY <1>1, <1>3, <1>5

(* A table of which each row says what the next is exists: what recursion  *)
(* over numbers comes down to.                                             *)
Rows(n, base, step, f) == f[0] = base /\ \A k \in 1..n : f[k] = step[k][f[k - 1]]

LEMMA TableExists ==
  ASSUME NEW n \in Nat, NEW T, NEW base \in T, NEW step \in [1..n -> [T -> T]]
  PROVE  \E f \in [0..n -> T] : Rows(n, base, step, f)
<1> DEFINE Row(f, k) == f[k] = IF k = 0 THEN base ELSE step[k][f[k - 1]]
           Good(m) == \E f \in [0..n -> T] : \A k \in 0..m : Row(f, k)
           S == {m \in Nat : m <= n => Good(m)}
<1>1. Good(0)
  <2>1. [k \in 0..n |-> base] \in [0..n -> T]
    OBVIOUS
  <2>2. \A k \in 0..0 : k = 0
    OBVIOUS
  <2>3. Row([k \in 0..n |-> base], 0)
    OBVIOUS
  <2>4. QED
    BY <2>1, <2>2, <2>3
<1>2. ASSUME NEW m \in Nat, m + 1 <= n, Good(m)
      PROVE  Good(m + 1)
  <2>1. PICK f \in [0..n -> T] : \A k \in 0..m : Row(f, k)
    BY <1>2
  <2> DEFINE x == step[m + 1][f[m]]
             g == [k \in 0..n |-> IF k = m + 1 THEN x ELSE f[k]]
  <2>2. m \in 0..n /\ m + 1 \in 0..n /\ m + 1 \in 1..n
    BY <1>2
  <2>3. x \in T
    BY <2>2
  <2> HIDE DEF x
  <2>4. g \in [0..n -> T] /\ g[m + 1] = x
    BY <2>2, <2>3
  <2>5. \A k \in 0..m : k \in 0..n /\ g[k] = f[k] /\ (k # 0 => k - 1 \in 0..m)
    BY <2>2
  <2> HIDE DEF g
  <2>6. \A k \in 0..m : Row(g, k)
    <3>1. ASSUME NEW k \in 0..m
          PROVE  Row(g, k)
      <4>1. f[k] = IF k = 0 THEN base ELSE step[k][f[k - 1]]
        BY <2>1
      <4>2. k # 0 => g[k - 1] = f[k - 1]
        BY <2>5
      <4>3. g[k] = f[k]
        BY <2>5
      <4>4. CASE k = 0
        BY <4>1, <4>3, <4>4
      <4>5. CASE k # 0
        BY <4>1, <4>2, <4>3, <4>5
      <4>6. QED
        BY <4>4, <4>5
    <3>2. QED
      BY <3>1
  <2>7. Row(g, m + 1)
    <3>1. m \in 0..m /\ m + 1 # 0 /\ m + 1 - 1 = m
      BY <1>2
    <3>2. QED
      BY <2>4, <2>5, <3>1 DEF x
  <2>8. \A k \in 0..m + 1 : k \in 0..m \/ k = m + 1
    BY <1>2
  <2>9. QED
    BY <2>4, <2>6, <2>7, <2>8
<1>3. Good(n)
  <2> HIDE DEF Good
  <2>1. 0 \in S /\ \A m \in S : m + 1 \in S
    BY <1>1, <1>2
  <2>2. S \in SUBSET Nat
    OBVIOUS
  <2> HIDE DEF S
  <2>3. S = Nat
    BY <2>1, <2>2, FromZero
  <2>4. n \in S
    BY <2>3
  <2>5. QED
    BY <2>4 DEF S
<1>4. PICK f \in [0..n -> T] : \A k \in 0..n : Row(f, k)
  BY <1>3
<1>5. f[0] = base
  BY <1>4
<1>6. \A k \in 1..n : k \in 0..n /\ k # 0
  OBVIOUS
<1>7. \A k \in 1..n : f[k] = step[k][f[k - 1]]
  BY <1>4, <1>6
<1>8. QED
  BY <1>5, <1>7 DEF Rows

LEMMA CatFacts ==
  ASSUME NEW S, NEW t \in Seq(S), NEW u \in Seq(S)
  PROVE  /\ Cat(t, u) \in Seq(S) /\ Len(Cat(t, u)) = Len(t) + Len(u)
         /\ \A k \in 1..Len(t) + Len(u) :
              Cat(t, u)[k] = IF k <= Len(t) THEN t[k] ELSE u[k - Len(t)]
BY ConcatProperties DEF Cat

LEMMA CatOne ==
  ASSUME NEW S, NEW e \in S, NEW t \in Seq(S)
  PROVE  <<e>> \in Seq(S) /\ Cat(<<e>>, t) \in Seq(S)
<1>1. <<e>> \in Seq(S)
  OBVIOUS
<1>2. QED
  BY <1>1, CatFacts

LEMMA CatNone ==
  ASSUME NEW S, NEW t \in Seq(S)
  PROVE  Cat(<<>>, t) = t /\ Cat(t, <<>>) = t
BY ConcatEmptySeq DEF Cat

(* The lengths up to which the pieces of ss can be put together. *)
Joins(ss, f, i) == f[i] = IF i = 1 THEN ss[i] ELSE Cat(f[i - 1], ss[i])

LEMMA JoinExists ==
  ASSUME NEW S, NEW ss \in Seq(Seq(S))
  PROVE  \E f \in [1..Len(ss) -> Seq(S)] : \A i \in 1..Len(ss) : Joins(ss, f, i)
<1> DEFINE n == Len(ss)
           Good(m) == \E f \in [1..n -> Seq(S)] : \A i \in 1..m : Joins(ss, f, i)
           Bad == {m \in 0..n : ~ Good(m)}
<1>1. n \in Nat /\ \A i \in 1..n : ss[i] \in Seq(S)
  BY LenProperties, ElementOfSeq
<1>2. Good(0)
  <2>1. [i \in 1..n |-> <<>>] \in [1..n -> Seq(S)]
    BY EmptySeq
  <2>2. QED
    BY <2>1
<1>3. ASSUME NEW m \in 0..n, m # 0, Good(m - 1)
      PROVE  Good(m)
  <2>1. PICK f \in [1..n -> Seq(S)] : \A i \in 1..m - 1 : Joins(ss, f, i)
    BY <1>3
  <2> DEFINE x == IF m = 1 THEN ss[m] ELSE Cat(f[m - 1], ss[m])
             g == [i \in 1..n |-> IF i = m THEN x ELSE f[i]]
  <2>2. m \in 1..n /\ m \in Nat /\ (m # 1 => m - 1 \in 1..n)
    BY <1>1, <1>3
  <2>3. x \in Seq(S)
    BY <1>1, <2>2, CatFacts
  <2> HIDE DEF x
  <2>4. g \in [1..n -> Seq(S)] /\ g[m] = x
    BY <2>2, <2>3
  <2>5. \A i \in 1..m - 1 : i \in 1..n /\ g[i] = f[i] /\ (i # 1 => i - 1 \in 1..n /\ g[i - 1] = f[i - 1])
    BY <1>1, <2>2
  <2>6. m # 1 => g[m - 1] = f[m - 1]
    BY <2>2
  <2> HIDE DEF g
  <2>7. \A i \in 1..m - 1 : Joins(ss, g, i)
    BY <2>1, <2>5 DEF Joins
  <2>8. Joins(ss, g, m)
    BY <2>4, <2>6 DEF Joins, x
  <2>9. \A i \in 1..m : i \in 1..m - 1 \/ i = m
    BY <2>2
  <2>10. QED
    BY <2>4, <2>7, <2>8, <2>9
<1>4. ASSUME Bad # {}
      PROVE  FALSE
  <2>1. Bad \in SUBSET Nat
    BY <1>1
  <2>2. PICK m \in Bad : \A k \in Bad : m <= k
    BY <1>4, <2>1, Least
  <2> HIDE DEF Good
  <2>3. m \in 0..n /\ ~ Good(m)
    OBVIOUS
  <2>4. m # 0
    BY <1>2, <2>3
  <2>5. m - 1 \in 0..n /\ ~ (m <= m - 1)
    BY <1>1, <2>3, <2>4
  <2>6. Good(m - 1)
    BY <2>2, <2>5
  <2>7. QED
    BY <1>3, <2>3, <2>4, <2>6
<1>5. Good(n)
  <2>1. n \in 0..n
    BY <1>1
  <2> HIDE DEF Good, n
  <2>2. QED
    BY <1>4, <2>1
<1>6. QED
  BY <1>5

LEMMA Joined ==
  ASSUME NEW S, NEW ss \in Seq(Seq(S)), ss # <<>>
  PROVE  \E f \in [1..Len(ss) -> Seq(S)] :
           /\ \A i \in 1..Len(ss) : Joins(ss, f, i)
           /\ FlattenSeq(ss) = f[Len(ss)]
<1> DEFINE n == Len(ss)
           Step(f) == [i \in 1..n |-> IF i = 1 THEN ss[i] ELSE Cat(f[i - 1], ss[i])]
           J == CHOOSE f : f = Step(f)
<1>1. n \in Nat \ {0}
  BY EmptySeq
<1>2. PICK f \in [1..n -> Seq(S)] : \A i \in 1..n : Joins(ss, f, i)
  BY JoinExists
<1>3. f = Step(f)
  <2>1. \A i \in 1..n : f[i] = Step(f)[i]
    BY <1>2 DEF Joins
  <2>2. QED
    BY <2>1
<1>4. J = Step(J)
  <2> HIDE DEF Step
  <2>1. QED
    BY <1>3, Zenon
<1>5. FlattenSeq(ss) = J[n]
  BY <1>1 DEF FlattenSeq, Cat
<1> HIDE DEF J
<1>6. \A i \in 1..n : Joins(ss, J, i)
  BY <1>4 DEF Joins
<1>7. \A i \in 1..n : J[i] \in Seq(S)
  <2> DEFINE Bad == {i \in 1..n : J[i] \notin Seq(S)}
  <2>1. ASSUME NEW m \in Bad, \A k \in Bad : m <= k
        PROVE  FALSE
    <3>1. m \in 1..n /\ ss[m] \in Seq(S) /\ m \in Nat
      BY LenProperties, ElementOfSeq
    <3>2. m # 1
      BY <1>6, <2>1, <3>1 DEF Joins
    <3>3. m - 1 \in 1..n /\ ~ (m <= m - 1)
      BY <1>1, <3>1, <3>2
    <3>4. J[m - 1] \in Seq(S)
      BY <2>1, <3>3
    <3>5. J[m] = Cat(J[m - 1], ss[m])
      BY <1>6, <3>1, <3>2 DEF Joins
    <3>6. Cat(J[m - 1], ss[m]) \in Seq(S)
      BY <3>1, <3>4, CatFacts
    <3>7. QED
      BY <2>1, <3>5, <3>6
  <2>2. Bad \in SUBSET Nat
    BY <1>1
  <2> HIDE DEF Bad
  <2>3. Bad = {}
    BY <2>1, <2>2, Least
  <2>4. QED
    BY <2>3 DEF Bad
<1>8. J \in [1..n -> Seq(S)]
  BY <1>4, <1>7
<1>9. QED
  BY <1>5, <1>6, <1>8

LEMMA FlattenNone == FlattenSeq(<<>>) = <<>>
BY EmptySeq DEF FlattenSeq

LEMMA FlattenType ==
  ASSUME NEW S, NEW ss \in Seq(Seq(S))
  PROVE  FlattenSeq(ss) \in Seq(S)
<1>1. CASE ss = <<>>
  BY <1>1, FlattenNone, EmptySeq
<1>2. CASE ss # <<>>
  <2>1. PICK f \in [1..Len(ss) -> Seq(S)] : FlattenSeq(ss) = f[Len(ss)]
    BY <1>2, Joined
  <2>2. Len(ss) \in 1..Len(ss)
    BY <1>2, EmptySeq
  <2>3. QED
    BY <2>1, <2>2
<1>3. QED
  BY <1>1, <1>2

LEMMA FlattenFirst ==
  ASSUME NEW S, NEW s \in Seq(S), NEW ss \in Seq(Seq(S))
  PROVE  FlattenSeq(<<s>> \o ss) = Cat(s, FlattenSeq(ss))
<1> DEFINE n == Len(ss)
           all == <<s>> \o ss
<1>1. n \in Nat /\ \A i \in 1..n : ss[i] \in Seq(S)
  BY LenProperties, ElementOfSeq
<1>2. <<s>> \in Seq(Seq(S)) /\ Len(<<s>>) = 1 /\ <<s>>[1] = s
  OBVIOUS
<1>3. /\ all \in Seq(Seq(S)) /\ Len(all) = n + 1 /\ all # <<>>
      /\ all[1] = s /\ \A i \in 1..n : all[i + 1] = ss[i]
  <2>1. /\ all \in Seq(Seq(S)) /\ Len(all) = 1 + n
        /\ \A i \in 1..1 + n : all[i] = IF i <= 1 THEN <<s>>[i] ELSE ss[i - 1]
    BY <1>2, ConcatProperties
  <2> HIDE DEF all
  <2>2. 1 \in 1..1 + n /\ \A i \in 1..n : i + 1 \in 1..1 + n /\ ~ (i + 1 <= 1) /\ i + 1 - 1 = i
    BY <1>1
  <2>3. all[1] = s /\ \A i \in 1..n : all[i + 1] = ss[i]
    BY <1>2, <2>1, <2>2
  <2>4. QED
    BY <1>1, <2>1, <2>3, EmptySeq
<1> SUFFICES FlattenSeq(all) = Cat(s, FlattenSeq(ss))
  OBVIOUS
<1> HIDE DEF all
<1>4. PICK f \in [1..n + 1 -> Seq(S)] :
        (\A i \in 1..n + 1 : Joins(all, f, i)) /\ FlattenSeq(all) = f[n + 1]
  BY <1>3, Joined
<1>5. f[1] = s
  BY <1>1, <1>3, <1>4 DEF Joins
<1>6. CASE ss = <<>>
  <2>1. n = 0 /\ FlattenSeq(ss) = <<>>
    BY <1>6, FlattenNone, EmptySeq
  <2>2. QED
    BY <1>4, <1>5, <2>1, ConcatEmptySeq DEF Cat
<1>7. CASE ss # <<>>
  <2>1. PICK g \in [1..n -> Seq(S)] :
          (\A i \in 1..n : Joins(ss, g, i)) /\ FlattenSeq(ss) = g[n]
    BY <1>7, Joined
  <2> DEFINE Bad == {i \in 1..n : f[i + 1] # Cat(s, g[i])}
  <2>2. ASSUME NEW m \in Bad, \A k \in Bad : m <= k
        PROVE  FALSE
    <3>1. m \in 1..n /\ m \in Nat /\ f[m + 1] # Cat(s, g[m])
      OBVIOUS
    <3>2. m + 1 \in 1..n + 1 /\ m + 1 # 1 /\ m + 1 - 1 = m
      BY <1>1, <3>1
    <3>3. f[m + 1] = Cat(f[m], ss[m])
      <4>1. Joins(all, f, m + 1) /\ all[m + 1] = ss[m]
        BY <1>3, <1>4, <3>1, <3>2
      <4>2. f[m + 1] = Cat(f[m + 1 - 1], all[m + 1])
        BY <3>1, <3>2, <4>1 DEF Joins
      <4>3. QED
        BY <3>2, <4>1, <4>2, Zenon
    <3>4. CASE m = 1
      BY <1>5, <2>1, <3>1, <3>3, <3>4 DEF Joins
    <3>5. CASE m # 1
      <4>1. m - 1 \in 1..n /\ ~ (m <= m - 1) /\ m - 1 + 1 = m
        BY <1>1, <3>1, <3>5
      <4>2. f[m] = Cat(s, g[m - 1])
        BY <2>2, <4>1
      <4>3. g[m] = Cat(g[m - 1], ss[m])
        BY <2>1, <3>1, <3>5 DEF Joins
      <4>4. g[m - 1] \in Seq(S) /\ ss[m] \in Seq(S)
        BY <1>1, <3>1, <4>1
      <4>5. Cat(Cat(s, g[m - 1]), ss[m]) = Cat(s, Cat(g[m - 1], ss[m]))
        <5>1. \A u, v \in Seq(S) : Cat(Cat(s, u), v) = Cat(s, Cat(u, v))
          BY CatAssociative
        <5>2. QED
          BY <4>4, <5>1
      <4>6. QED
        BY <3>1, <3>3, <4>2, <4>3, <4>5, Zenon
    <3>6. QED
      BY <3>4, <3>5
  <2>3. Bad \in SUBSET Nat
    BY <1>1
  <2> HIDE DEF Bad
  <2>4. Bad = {}
    BY <2>2, <2>3, Least
  <2>5. n \in 1..n
    BY <1>7, EmptySeq
  <2>6. f[n + 1] = Cat(s, g[n])
    BY <2>4, <2>5 DEF Bad
  <2>7. QED
    BY <1>4, <2>1, <2>6
<1>8. QED
  BY <1>6, <1>7

(* Pieces none of which is empty are at most as many as what they make up. *)
Pieces(S, n) == {ss \in Seq(Seq(S)) : Len(ss) = n /\ \A k \in 1..n : Len(ss[k]) >= 1}

LEMMA FlattenLong ==
  ASSUME NEW S, NEW ss \in Seq(Seq(S)), \A k \in 1..Len(ss) : Len(ss[k]) >= 1
  PROVE  Len(FlattenSeq(ss)) \in Nat /\ Len(FlattenSeq(ss)) >= Len(ss)
<1> DEFINE Good == {n \in Nat : \A t \in Pieces(S, n) : Len(FlattenSeq(t)) >= n}
<1>1. 0 \in Good
  <2>1. ASSUME NEW t \in Pieces(S, 0)
        PROVE  Len(FlattenSeq(t)) >= 0
    <3>1. FlattenSeq(t) \in Seq(S)
      BY FlattenType DEF Pieces
    <3>2. QED
      BY <3>1, LenProperties
  <2>2. QED
    BY <2>1
<1>2. ASSUME NEW n \in Good
      PROVE  n + 1 \in Good
  <2>1. n \in Nat /\ \A t \in Pieces(S, n) : Len(FlattenSeq(t)) >= n
    OBVIOUS
  <2>2. ASSUME NEW t \in Pieces(S, n + 1)
        PROVE  Len(FlattenSeq(t)) >= n + 1
    <3> DEFINE r == SubSeq(t, 2, Len(t))
    <3>1. t \in Seq(Seq(S)) /\ Len(t) = n + 1 /\ \A k \in 1..n + 1 : Len(t[k]) >= 1
      BY DEF Pieces
    <3>2. 1 \in 1..Len(t) /\ Len(t) \in 1..Len(t) /\ 1 + 1 = 2
          /\ \A k \in 1..Len(t) : t[k] \in Seq(S)
      BY <2>1, <3>1, LenProperties, ElementOfSeq
    <3>3. t = <<t[1]>> \o r
      <4>1. SubSeq(t, 1, Len(t)) = <<t[1]>> \o SubSeq(t, 1 + 1, Len(t))
        BY <3>1, <3>2, SubSeqRecursiveFirst
      <4>2. SubSeq(t, 1, Len(t)) = t
        BY <3>1, SubSeqFull
      <4>3. QED
        BY <3>2, <4>1, <4>2
    <3>4. /\ r \in Seq(Seq(S)) /\ Len(r) = n
          /\ \A k \in 1..n : r[k] = t[k + 1]
      <4>1. 2 \in Int /\ Len(t) \in Int /\ \A k \in 2..Len(t) : t[k] \in Seq(S)
        BY <2>1, <3>1, <3>2
      <4>2. /\ r \in Seq(Seq(S))
            /\ Len(r) = IF 2 <= Len(t) THEN Len(t) - 2 + 1 ELSE 0
            /\ \A k \in 1..Len(t) - 2 + 1 : r[k] = t[2 + k - 1]
        BY <4>1, SubSeqProperties
      <4> HIDE DEF r
      <4>3. (IF 2 <= Len(t) THEN Len(t) - 2 + 1 ELSE 0) = n /\ Len(t) - 2 + 1 = n
            /\ \A k \in 1..n : 2 + k - 1 = k + 1
        BY <2>1, <3>1
      <4>4. QED
        BY <4>2, <4>3
    <3> HIDE DEF r
    <3>5. r \in Pieces(S, n)
      <4>1. \A k \in 1..n : k + 1 \in 1..n + 1
        BY <2>1
      <4>2. QED
        BY <3>1, <3>4, <4>1 DEF Pieces
    <3>6. FlattenSeq(t) = Cat(t[1], FlattenSeq(r))
      BY <3>2, <3>3, <3>4, FlattenFirst
    <3>7. FlattenSeq(r) \in Seq(S) /\ Len(FlattenSeq(r)) >= n
      <4>1. FlattenSeq(r) \in Seq(S)
        BY <3>4, FlattenType
      <4>2. QED
        BY <2>1, <3>5, <4>1
    <3>8. Len(Cat(t[1], FlattenSeq(r))) = Len(t[1]) + Len(FlattenSeq(r))
      <4>1. t[1] \in Seq(S)
        BY <3>2
      <4>2. \A u, v \in Seq(S) : Len(Cat(u, v)) = Len(u) + Len(v)
        BY CatFacts
      <4>3. QED
        BY <3>7, <4>1, <4>2
    <3>9. Len(t[1]) \in Nat /\ Len(t[1]) >= 1 /\ Len(FlattenSeq(r)) \in Nat
      BY <3>1, <3>2, <3>7, LenProperties
    <3>10. QED
      BY <2>1, <3>6, <3>7, <3>8, <3>9
  <2>3. QED
    BY <2>1, <2>2
<1>3. Good \in SUBSET Nat
  OBVIOUS
<1>4. Len(ss) \in Nat /\ ss \in Pieces(S, Len(ss))
  BY LenProperties DEF Pieces
<1> HIDE DEF Good
<1>5. Len(ss) \in Good
  BY <1>1, <1>2, <1>3, <1>4, FromZero
<1>6. FlattenSeq(ss) \in Seq(S)
  BY FlattenType
<1>7. QED
  BY <1>4, <1>5, <1>6, LenProperties DEF Good

----------------------------------------------------------------------------
(* What sequences begin with                                              *)

(* One sequence more makes the whole longer by it.                         *)
LEMMA FlattenLast ==
  ASSUME NEW S, NEW s \in Seq(S), NEW ss \in Seq(Seq(S))
  PROVE  FlattenSeq(Append(ss, s)) = Cat(FlattenSeq(ss), s)
<1> DEFINE n == Len(ss)
           all == Append(ss, s)
<1>1. n \in Nat /\ \A i \in 1..n : ss[i] \in Seq(S)
  BY LenProperties, ElementOfSeq
<1>2. /\ all \in Seq(Seq(S)) /\ Len(all) = n + 1 /\ all # <<>>
      /\ all[n + 1] = s /\ \A i \in 1..n : all[i] = ss[i]
  BY AppendProperties
<1> SUFFICES FlattenSeq(all) = Cat(FlattenSeq(ss), s)
  OBVIOUS
<1> HIDE DEF all
<1>3. PICK f \in [1..n + 1 -> Seq(S)] :
        (\A i \in 1..n + 1 : Joins(all, f, i)) /\ FlattenSeq(all) = f[n + 1]
  BY <1>2, Joined
<1>4. n + 1 \in 1..n + 1 /\ n + 1 - 1 = n
  BY <1>1
<1>5. CASE ss = <<>>
  <2>1. n = 0 /\ FlattenSeq(ss) = <<>>
    BY <1>5, FlattenNone, EmptySeq
  <2>2. f[n + 1] = s
    BY <1>2, <1>3, <1>4, <2>1 DEF Joins
  <2>3. QED
    BY <1>3, <2>1, <2>2, CatNone
<1>6. CASE ss # <<>>
  <2>1. PICK g \in [1..n -> Seq(S)] :
          (\A i \in 1..n : Joins(ss, g, i)) /\ FlattenSeq(ss) = g[n]
    BY <1>6, Joined
  <2>2. n \in 1..n /\ n + 1 # 1
    BY <1>1, <1>6, EmptySeq
  <2> DEFINE Bad == {i \in 1..n : f[i] # g[i]}
  <2>3. ASSUME NEW m \in Bad, \A k \in Bad : m <= k
        PROVE  FALSE
    <3>1. m \in 1..n /\ m \in 1..n + 1 /\ m \in Nat /\ f[m] # g[m]
      BY <1>1
    <3>2. Joins(all, f, m) /\ Joins(ss, g, m) /\ all[m] = ss[m]
      BY <1>2, <1>3, <2>1, <3>1
    <3>3. CASE m = 1
      BY <3>1, <3>2, <3>3 DEF Joins
    <3>4. CASE m # 1
      <4>1. m - 1 \in 1..n /\ ~ (m <= m - 1)
        BY <1>1, <3>1, <3>4
      <4>2. f[m - 1] = g[m - 1]
        BY <2>3, <4>1
      <4>3. QED
        BY <3>1, <3>2, <3>4, <4>2 DEF Joins
    <3>5. QED
      BY <3>3, <3>4
  <2>4. Bad \in SUBSET Nat
    BY <1>1
  <2> HIDE DEF Bad
  <2>5. Bad = {}
    BY <2>3, <2>4, Least
  <2>6. f[n] = g[n]
    BY <2>2, <2>5 DEF Bad
  <2>7. Joins(all, f, n + 1)
    BY <1>3, <1>4
  <2>8. f[n + 1] = Cat(f[n], s)
    <3>1. f[n + 1] = Cat(f[n + 1 - 1], all[n + 1])
      BY <2>2, <2>7 DEF Joins
    <3>2. QED
      BY <1>2, <1>4, <3>1, Zenon
  <2>9. QED
    BY <1>3, <2>1, <2>6, <2>8
<1>7. QED
  BY <1>5, <1>6

(* Two ways to cut the same sequence: the longer first part takes from the *)
(* second of the other.                                                    *)
LEMMA CutEnd ==
  ASSUME NEW S, NEW a \in Seq(S), NEW b \in Seq(S), NEW c \in Seq(S), NEW d \in Seq(S),
         Cat(a, b) = Cat(c, d), Len(b) <= Len(d)
  PROVE  a = Cat(c, SubSeq(d, 1, Len(d) - Len(b)))
<1>1. Len(a) \in Nat /\ Len(b) \in Nat /\ Len(c) \in Nat /\ Len(d) \in Nat
  BY LenProperties
<1>2. /\ Len(a) + Len(b) = Len(c) + Len(d)
      /\ \A k \in 1..Len(a) + Len(b) : Cat(a, b)[k] = IF k <= Len(a) THEN a[k] ELSE b[k - Len(a)]
      /\ \A k \in 1..Len(c) + Len(d) : Cat(c, d)[k] = IF k <= Len(c) THEN c[k] ELSE d[k - Len(c)]
  <2>1. \A t, u \in Seq(S) :
          /\ Len(Cat(t, u)) = Len(t) + Len(u)
          /\ \A k \in 1..Len(t) + Len(u) :
               Cat(t, u)[k] = IF k <= Len(t) THEN t[k] ELSE u[k - Len(t)]
    BY CatFacts
  <2>2. QED
    BY <2>1
<1> DEFINE m == Len(d) - Len(b)
           e == SubSeq(d, 1, m)
<1>3. m \in 0..Len(d) /\ Len(a) = Len(c) + m
  BY <1>1, <1>2
<1> HIDE DEF m
<1>4. e \in Seq(S) /\ Len(e) = m /\ \A k \in 1..m : e[k] = d[k]
  BY <1>3, PrefixFacts
<1> HIDE DEF e
<1>5. /\ Cat(c, e) \in Seq(S) /\ Len(Cat(c, e)) = Len(c) + m
      /\ \A k \in 1..Len(c) + m : Cat(c, e)[k] = IF k <= Len(c) THEN c[k] ELSE e[k - Len(c)]
  BY <1>4, CatFacts
<1>6. ASSUME NEW k \in 1..Len(a)
      PROVE  a[k] = Cat(c, e)[k]
  <2>1. /\ k \in 1..Len(c) + m /\ k \in 1..Len(a) + Len(b) /\ k \in 1..Len(c) + Len(d)
        /\ k <= Len(a) /\ (~ (k <= Len(c)) => k - Len(c) \in 1..m)
    BY <1>1, <1>3
  <2>2. a[k] = IF k <= Len(c) THEN c[k] ELSE d[k - Len(c)]
    BY <1>2, <2>1
  <2>3. QED
    BY <1>4, <1>5, <2>1, <2>2
<1>7. a = Cat(c, e)
  BY <1>1, <1>3, <1>5, <1>6, SeqEqual
<1>8. QED
  BY <1>7 DEF e, m

(* t begins with s: what IsPrefix says, by what is left.                   *)
Begins(S, s, t) == \E r \in Seq(S) : t = Cat(s, r)

LEMMA BeginsIsPrefix ==
  ASSUME NEW S, NEW s \in Seq(S), NEW t, Begins(S, s, t)
  PROVE  t \in Seq(S) /\ IsPrefix(s, t)
<1>1. PICK r \in Seq(S) : t = Cat(s, r)
  BY DEF Begins
<1>2. /\ t \in Seq(S) /\ Len(t) = Len(s) + Len(r) /\ Len(s) \in Nat /\ Len(r) \in Nat
      /\ \A k \in 1..Len(s) + Len(r) : t[k] = IF k <= Len(s) THEN s[k] ELSE r[k - Len(s)]
  BY <1>1, CatFacts, LenProperties
<1>3. Len(s) \in 0..Len(s) /\ Len(s) \in 0..Len(t) /\ Len(s) <= Len(t)
  BY <1>2
<1>4. /\ SubSeq(t, 1, Len(s)) \in Seq(S) /\ Len(SubSeq(t, 1, Len(s))) = Len(s)
      /\ \A k \in 1..Len(s) : SubSeq(t, 1, Len(s))[k] = t[k]
  BY <1>2, <1>3, PrefixFacts
<1>5. \A k \in 1..Len(s) : s[k] = SubSeq(t, 1, Len(s))[k]
  BY <1>2, <1>4
<1>6. SubSeq(t, 1, Len(s)) = s /\ SubSeq(s, 1, Len(s)) = s
  BY <1>4, <1>5, SeqEqual, SubSeqFull
<1>7. QED
  BY <1>2, <1>3, <1>6 DEF IsPrefix

(* What begins with s still does with more behind it, or the same before   *)
(* both.                                                                   *)
LEMMA BeginsItself ==
  ASSUME NEW S, NEW s \in Seq(S)
  PROVE  Begins(S, s, s)
BY CatNone, EmptySeq DEF Begins

LEMMA BeginsMore ==
  ASSUME NEW S, NEW s \in Seq(S), NEW t \in Seq(S), Begins(S, s, t), NEW u \in Seq(S)
  PROVE  Begins(S, s, Cat(t, u))
<1>1. PICK r \in Seq(S) : t = Cat(s, r)
  BY DEF Begins
<1>2. Cat(Cat(s, r), u) = Cat(s, Cat(r, u)) /\ Cat(r, u) \in Seq(S)
  BY CatAssociative, CatFacts
<1>3. QED
  BY <1>1, <1>2 DEF Begins

LEMMA BeginsPrefixed ==
  ASSUME NEW S, NEW s \in Seq(S), NEW t \in Seq(S), Begins(S, s, t), NEW u \in Seq(S)
  PROVE  Begins(S, Cat(u, s), Cat(u, t))
<1>1. PICK r \in Seq(S) : t = Cat(s, r)
  BY DEF Begins
<1>2. Cat(Cat(u, s), r) = Cat(u, Cat(s, r))
  BY CatAssociative
<1>3. QED
  BY <1>1, <1>2 DEF Begins

(* Beginnings of beginnings.                                               *)
LEMMA BeginsFurther ==
  ASSUME NEW S, NEW s \in Seq(S), NEW t \in Seq(S), NEW u, Begins(S, s, t), Begins(S, t, u)
  PROVE  Begins(S, s, u)
<1>1. PICK r \in Seq(S) : u = Cat(t, r)
  BY DEF Begins
<1>2. QED
  BY <1>1, BeginsMore

(* A sequence begins with its prefixes, and is what they leave more.       *)
LEMMA BeginsPrefix ==
  ASSUME NEW S, NEW s \in Seq(S), NEW n \in 0..Len(s)
  PROVE  SubSeq(s, 1, n) \in Seq(S) /\ Begins(S, SubSeq(s, 1, n), s)
<1>1. Len(s) \in Nat /\ \A i \in 1..Len(s) : s[i] \in S
  BY LenProperties, ElementOfSeq
<1>2. SubSeq(s, 1, n) \in Seq(S) /\ SubSeq(s, n + 1, Len(s)) \in Seq(S)
  <2>1. 1 \in Int /\ n \in Int /\ n + 1 \in Int /\ Len(s) \in Int
        /\ (\A i \in 1..n : s[i] \in S) /\ (\A i \in n + 1..Len(s) : s[i] \in S)
    BY <1>1
  <2>2. QED
    BY <2>1, SubSeqProperties
<1>3. SubSeq(s, 1, n) \o SubSeq(s, n + 1, Len(s)) = SubSeq(s, 1, Len(s))
  <2>1. 1 \in 1..Len(s) + 1 /\ n \in 1 - 1..Len(s) /\ Len(s) \in n..Len(s)
    BY <1>1
  <2>2. QED
    BY <2>1, ConcatAdjacentSubSeq
<1>4. s = Cat(SubSeq(s, 1, n), SubSeq(s, n + 1, Len(s)))
  BY <1>3, SubSeqFull DEF Cat
<1>5. QED
  BY <1>2, <1>4 DEF Begins

(* Of a longer sequence the prefix is the same.                            *)
LEMMA SamePrefix ==
  ASSUME NEW S, NEW s \in Seq(S), NEW t \in Seq(S), Begins(S, s, t), NEW n \in 0..Len(s)
  PROVE  n \in 0..Len(t) /\ SubSeq(t, 1, n) = SubSeq(s, 1, n)
<1>1. PICK r \in Seq(S) : t = Cat(s, r)
  BY DEF Begins
<1>2. /\ Len(t) = Len(s) + Len(r) /\ Len(s) \in Nat /\ Len(r) \in Nat
      /\ \A k \in 1..Len(s) + Len(r) : t[k] = IF k <= Len(s) THEN s[k] ELSE r[k - Len(s)]
  BY <1>1, CatFacts, LenProperties
<1>3. n \in 0..Len(t) /\ \A k \in 1..n : k \in 1..Len(s) + Len(r) /\ k <= Len(s)
  BY <1>2
<1>4. /\ SubSeq(t, 1, n) \in Seq(S) /\ Len(SubSeq(t, 1, n)) = n
      /\ \A k \in 1..n : SubSeq(t, 1, n)[k] = t[k]
  BY <1>3, PrefixFacts
<1>5. /\ SubSeq(s, 1, n) \in Seq(S) /\ Len(SubSeq(s, 1, n)) = n
      /\ \A k \in 1..n : SubSeq(s, 1, n)[k] = s[k]
  BY PrefixFacts
<1>6. \A k \in 1..n : SubSeq(t, 1, n)[k] = SubSeq(s, 1, n)[k]
  BY <1>2, <1>3, <1>4, <1>5
<1>7. QED
  BY <1>3, <1>4, <1>5, <1>6, SeqEqual

(* The rest of a sequence, cut once more.                                  *)
LEMMA RestInParts ==
  ASSUME NEW S, NEW b \in Seq(S), NEW i \in Nat, NEW n \in Nat, i + n <= Len(b)
  PROVE  Cat(SubSeq(b, i + 1, i + n), SubSeq(b, i + n + 1, Len(b))) = SubSeq(b, i + 1, Len(b))
<1> DEFINE m == i + 1
           k == i + n
<1>1. Len(b) \in Nat
  BY LenProperties
<1>2. m \in 1..Len(b) + 1 /\ k \in m - 1..Len(b) /\ Len(b) \in k..Len(b)
  BY <1>1
<1> HIDE DEF m, k
<1>3. SubSeq(b, m, k) \o SubSeq(b, k + 1, Len(b)) = SubSeq(b, m, Len(b))
  BY <1>2, ConcatAdjacentSubSeq
<1>4. QED
  BY <1>3 DEF m, k, Cat
==============================================================================

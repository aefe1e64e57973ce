------------------------------ MODULE CliProof ------------------------------
(***************************************************************************)
(* Cli, for every command line: what is run is what the line says as a     *)
(* whole, no line is refused that is well formed, the exit code and the    *)
(* events agree, and each return of main frees what there is at that point:*)
(* the overrides, a half-made one, the model and what it owns.             *)
(***************************************************************************)
EXTENDS Cli, SequenceFacts, FiniteSetTheorems, TLAPS

Store == Seq([key : Text, value : Text])

(* What there is to be freed when main is at s with the calls c left: o is *)
(* whether the store is empty, h and n the strings of a half-made override *)
(* and of the model m.                                                     *)
Left(s, c, o, h, m, n) ==
  /\ n # 0 => m
  /\ s \in {"start", "options"} => c = <<>> /\ h = 0 /\ ~ m
  /\ s \in {"load", "run"} => c = <<>> /\ h = 0 /\ m
  /\ s = "load" => n = 0
  /\ s = "over" => c = <<>>
  /\ s \in {"leaving", "over"} =>
       \/ c = <<>> /\ o /\ h = 0 /\ ~ m
       \/ c = <<"overrides">> /\ h = 0 /\ ~ m
       \/ c = <<"half", "overrides">> /\ ~ m
       \/ c = <<"model", "overrides">> /\ h = 0 /\ m /\ n = 0
       \/ c = <<"contents", "model", "overrides">> /\ h = 0 /\ m

(* What is allocated is what the overrides, the half-made one and the model*)
(* hold, and the calls that are left free all of it.                       *)
Accounted ==
  /\ argv \in Seq(Text) /\ at \in Nat \ {0}
  /\ overrides \in Store /\ half \in Nat /\ held \in Nat /\ model \in BOOLEAN
  /\ live = 2 * Len(overrides) + half + held
  /\ stage \in {"start", "options", "load", "run", "leaving", "over"}
  /\ stage = "start" => overrides = <<>>
  /\ exit # NoCode <=> stage \in {"leaving", "over"}
  /\ Left(stage, todo, overrides = <<>>, half, model, held)

(* A part of an argument is a text.                                        *)
LEMMA PartIsText ==
  ASSUME NEW text \in Text, NEW a \in 1..Len(text) + 1, NEW b \in 0..Len(text)
  PROVE  SubSeq(text, a, b) \in Text
<1>1. Len(text) \in Nat /\ \A k \in 1..Len(text) : text[k] \in Char
  BY LenProperties, ElementOfSeq DEF Text
<1>2. a \in Int /\ b \in Int /\ \A k \in a..b : text[k] \in Char
  BY <1>1
<1>3. QED
  BY <1>2, SubSeqProperties DEF Text

(* Both sides of an assignment are texts, and the key is not empty.        *)
LEMMA AssignmentIsText ==
  ASSUME NEW text \in Text, IsAssignment(text)
  PROVE  FlowKey(text) \in Text /\ Assigned(text) \in Text
<1> DEFINE e == Equals(text)
<1> DEFINE key == SubSeq(text, 1, e - 1)
<1>1. Len(text) \in Nat /\ DOMAIN text = 1..Len(text)
  BY LenProperties DEF Text
<1>2. e - 1 \in 1..KeySize - 1
  BY DEF IsAssignment
<1>3. e \in 1..Len(text)
  <2>1. \E k \in DOMAIN text : IsEquals(text, k)
    BY DEF IsAssignment
  <2>2. e \in DOMAIN text
    BY <2>1 DEF Equals
  <2>3. QED
    BY <1>1, <2>2
<1> HIDE DEF e
<1>4. e - 1 \in 0..Len(text) /\ e + 1 \in 1..Len(text) + 1
  BY <1>1, <1>3
<1>5. key \in Text /\ Assigned(text) \in Text
  BY <1>1, <1>4, PartIsText DEF Assigned, e
<1>6. key # <<>>
  BY <1>1, <1>2, <1>3, <1>4, SubSeqProperties DEF Text
<1>7. Tail(key) \in Text
  BY <1>5, <1>6 DEF Text
<1>8. QED
  BY <1>5, <1>7 DEF FlowKey, e

(* Storing an override leaves a store.                                     *)
LEMMA PutIsStore ==
  ASSUME NEW store \in Store, NEW key \in Text, NEW value \in Text
  PROVE  Put(store, key, value) \in Store
<1> DEFINE P == [key : Text, value : Text]
<1>1. Stored(key, value) \in P
  BY DEF Stored
<1>2. CASE HasKey(store, key)
  <2> DEFINE f == [k \in DOMAIN store |->
                     IF store[k].key = key THEN Stored(key, value) ELSE store[k]]
  <2>1. /\ Len(store) \in Nat /\ DOMAIN store = 1..Len(store)
        /\ \A k \in 1..Len(store) : store[k] \in P
    BY LenProperties, ElementOfSeq DEF Store
  <2>2. f \in [1..Len(store) -> P]
    BY <1>1, <2>1
  <2>3. f \in Seq(P)
    BY <2>1, <2>2, SeqDef
  <2>4. QED
    BY <1>2, <2>3 DEF Put, Store
<1>3. CASE ~ HasKey(store, key)
  BY <1>1, <1>3, AppendProperties DEF Put, Store
<1>4. QED
  BY <1>2, <1>3

LEMMA Initially == Init => Accounted
<1>1. <<>> \in Store /\ Len(<<>>) = 0
  BY EmptySeq DEF Store
<1> SUFFICES ASSUME Init PROVE Accounted
  OBVIOUS
<1>2. Left(stage, todo, overrides = <<>>, half, model, held)
  BY DEF Init, Left
<1>3. live = 2 * Len(overrides) + half + held
  BY <1>1 DEF Init
<1>4. argv \in Seq(Text) /\ at \in Nat \ {0}
  BY CliAssumption DEF Init
<1>5. /\ overrides \in Store /\ half \in Nat /\ held \in Nat /\ model \in BOOLEAN
      /\ stage = "start" /\ exit = NoCode /\ overrides = <<>>
  BY <1>1 DEF Init
<1>6. QED
  BY <1>2, <1>3, <1>4, <1>5 DEF Accounted

(* The calls of a return, one after the other.                             *)
LEMMA Calls ==
  /\ Head(<<"overrides">>) = "overrides" /\ Tail(<<"overrides">>) = <<>>
  /\ Head(<<"half", "overrides">>) = "half"
  /\ Tail(<<"half", "overrides">>) = <<"overrides">>
  /\ Head(<<"model", "overrides">>) = "model"
  /\ Tail(<<"model", "overrides">>) = <<"overrides">>
  /\ Head(<<"contents", "model", "overrides">>) = "contents"
  /\ Tail(<<"contents", "model", "overrides">>) = <<"model", "overrides">>
OBVIOUS

(* Each return frees what there is where it stands.                        *)
LEMMA ReturnAccounted ==
  ASSUME Accounted, NEW code \in {0, 1}, NEW calls, Return(calls, code),
         half' \in Nat, held' \in Nat, live' = live + half' - half + held' - held,
         Left("leaving", calls, FALSE, half', model, held')
  PROVE  Accounted'
<1>1. Len(overrides) \in Nat /\ overrides' = overrides
  BY LenProperties DEF Accounted, Store, Return, config
<1>2. live' = 2 * Len(overrides') + half' + held'
  BY <1>1, SMTT(30) DEF Accounted
<1>3. /\ stage' = "leaving" /\ todo' = calls /\ exit' = code
      /\ UNCHANGED <<argv, at, model>>
  BY DEF Return
<1>4. Left(stage', todo', overrides' = <<>>, half', model', held')
  BY <1>3 DEF Left
<1>5. exit' # NoCode
  BY <1>3 DEF NoCode
<1>6. QED
  BY <1>1, <1>2, <1>3, <1>4, <1>5 DEF Accounted

(* Each clean-up call frees its own, and leaves the others theirs.         *)
LEMMA FreeingAccounted ==
  ASSUME Accounted, FreeHalf \/ FreeContents \/ FreeModel \/ FreeOverrides
  PROVE  Accounted'
<1>1. <<>> \in Store /\ Len(<<>>) = 0 /\ Len(overrides) \in Nat
  BY EmptySeq, LenProperties DEF Accounted, Store
<1>2. PICK call \in {"half", "contents", "model", "overrides"} : Freeing(call)
  BY DEF FreeHalf, FreeContents, FreeModel, FreeOverrides
<1>3. /\ stage = "leaving" /\ todo # <<>> /\ todo' = Tail(todo) /\ Head(todo) = call
      /\ UNCHANGED <<argv, at, stage, exit>>
  BY <1>2 DEF Freeing
<1>4. /\ overrides' \in Store /\ half' \in Nat /\ held' \in Nat /\ model' \in BOOLEAN
      /\ live' = 2 * Len(overrides') + half' + held'
  <2>1. CASE FreeHalf
    BY <1>1, <2>1 DEF FreeHalf, Accounted
  <2>2. CASE FreeContents
    BY <1>1, <2>2 DEF FreeContents, Accounted
  <2>3. CASE FreeModel
    <3>1. held = 0
      BY <1>3, <2>3, Calls DEF FreeModel, Freeing, Accounted, Left
    <3>2. QED
      BY <1>1, <2>3, <3>1 DEF FreeModel, Accounted
  <2>4. CASE FreeOverrides
    BY <1>1, <2>4 DEF FreeOverrides, Accounted
  <2>5. QED
    BY <2>1, <2>2, <2>3, <2>4
<1>5. Left(stage', todo', overrides' = <<>>, half', model', held')
  <2>1. CASE FreeHalf
    BY <1>3, <2>1, Calls DEF FreeHalf, Freeing, Accounted, Left
  <2>2. CASE FreeContents
    BY <1>3, <2>2, Calls DEF FreeContents, Freeing, Accounted, Left
  <2>3. CASE FreeModel
    BY <1>3, <2>3, Calls DEF FreeModel, Freeing, Accounted, Left
  <2>4. CASE FreeOverrides
    BY <1>3, <2>4, Calls DEF FreeOverrides, Freeing, Accounted, Left
  <2>5. QED
    BY <2>1, <2>2, <2>3, <2>4
<1>6. QED
  BY <1>3, <1>4, <1>5 DEF Accounted

(* The argument after an option is a text.                                 *)
LEMMA GivenIsText ==
  ASSUME Accounted, NEW option, Taking(option)
  PROVE  Given \in Text /\ at + 2 \in Nat \ {0}
<1>1. at + 1 \in DOMAIN argv
  BY DEF Taking
<1>2. argv \in Seq(Text) /\ DOMAIN argv = 1..Len(argv)
  BY LenProperties DEF Accounted
<1>3. QED
  BY <1>1, <1>2, ElementOfSeq DEF Given, Accounted

(* Put leaves every key in its place; a new one comes last.                *)
LEMMA PutFields ==
  ASSUME NEW store \in Store, NEW key, NEW value
  PROVE  LET new == Put(store, key, value) IN
         /\ Len(store) \in Nat /\ DOMAIN store = 1..Len(store)
         /\ HasKey(store, key) =>
              /\ DOMAIN new = DOMAIN store /\ Len(new) = Len(store)
              /\ \A k \in DOMAIN store :
                   /\ new[k].key = store[k].key
                   /\ new[k].value = IF store[k].key = key THEN value ELSE store[k].value
         /\ ~ HasKey(store, key) =>
              /\ DOMAIN new = 1..Len(store) + 1 /\ Len(new) = Len(store) + 1
              /\ \A k \in DOMAIN store : new[k] = store[k]
              /\ new[Len(store) + 1] = Stored(key, value)
<1> DEFINE new == Put(store, key, value)
<1>1. Len(store) \in Nat /\ DOMAIN store = 1..Len(store)
  BY LenProperties DEF Store
<1>2. ASSUME HasKey(store, key)
      PROVE  /\ DOMAIN new = DOMAIN store /\ Len(new) = Len(store)
             /\ \A k \in DOMAIN store :
                  /\ new[k].key = store[k].key
                  /\ new[k].value = IF store[k].key = key THEN value ELSE store[k].value
  <2>1. new = [k \in DOMAIN store |->
                 IF store[k].key = key THEN Stored(key, value) ELSE store[k]]
    BY <1>2 DEF Put
  <2>2. DOMAIN new = 1..Len(store)
    BY <1>1, <2>1
  <2>3. Len(new) = Len(store)
    BY <1>1, <2>1, <2>2
  <2>4. QED
    BY <1>1, <2>1, <2>2, <2>3 DEF Stored
<1>3. ASSUME ~ HasKey(store, key)
      PROVE  /\ DOMAIN new = 1..Len(store) + 1 /\ Len(new) = Len(store) + 1
             /\ \A k \in DOMAIN store : new[k] = store[k]
             /\ new[Len(store) + 1] = Stored(key, value)
  <2>1. new = Append(store, Stored(key, value))
    BY <1>3 DEF Put
  <2>2. store \in Seq([key : Text, value : Text])
    BY DEF Store
  <2>3. QED
    BY <1>1, <2>1, <2>2, AppendProperties
<1>4. QED
  BY <1>1, <1>2, <1>3

LEMMA PutLength ==
  ASSUME NEW store \in Store, NEW key, NEW value
  PROVE  /\ Len(store) \in Nat
         /\ HasKey(store, key) => Len(Put(store, key, value)) = Len(store)
         /\ ~ HasKey(store, key) => Len(Put(store, key, value)) = Len(store) + 1
BY PutFields

LEMMA OverrideAccounted ==
  ASSUME Accounted, SetOverride
  PROVE  Accounted'
<1>1. Given \in Text /\ IsAssignment(Given) /\ at + 2 \in Nat \ {0}
  <2>1. Taking("--set")
    BY DEF SetOverride
  <2>2. Says("--set", Given) = IsAssignment(Given)
    BY DEF Says, FdOption
  <2>3. QED
    BY <2>1, <2>2, GivenIsText DEF Taking
<1>2. overrides' \in Store
  BY <1>1, AssignmentIsText, PutIsStore DEF Accounted, SetOverride
<1>3. /\ Len(overrides) \in Nat
      /\ Len(overrides') = Len(overrides) + IF HasKey(overrides, FlowKey(Given)) THEN 0 ELSE 1
  BY PutFields DEF Accounted, SetOverride
<1>4. stage = "options" /\ at' = at + 2
      /\ UNCHANGED <<argv, half, model, held, stage, todo, exit>>
  BY DEF SetOverride, Taking, Taken
<1>5. live' = 2 * Len(overrides') + half' + held'
  BY <1>3, <1>4 DEF Accounted, SetOverride
<1>6. Left(stage', todo', overrides' = <<>>, half', model', held')
  BY <1>4 DEF Accounted, Left
<1>7. QED
  BY <1>1, <1>2, <1>4, <1>5, <1>6 DEF Accounted

(* Every step keeps the account.                                           *)
LEMMA Step ==
  ASSUME Accounted, [Next]_vars
  PROVE  Accounted'
<1> DEFINE Leaves(calls, code) ==
             /\ Return(calls, code)
             /\ half' \in Nat /\ held' \in Nat
             /\ live' = live + half' - half + held' - held
             /\ Left("leaving", calls, FALSE, half', model, held')
<1>1. CASE Help
  BY <1>1 DEF Accounted, Left, Help, config, heap, NoCode
<1>2. CASE NoHelp
  BY <1>2 DEF Accounted, Left, NoHelp, config, heap
<1>3. ASSUME NEW option, Taking(option), Taken, UNCHANGED <<overrides, live>>
      PROVE  Accounted'
  BY <1>3, GivenIsText DEF Accounted, Taking, Taken
<1>4. CASE SetRun \/ SetWorkers \/ \E option \in FdOption : SetFd(option)
  BY <1>3, <1>4 DEF SetRun, SetWorkers, SetFd
<1>5. CASE SetOverride
  BY <1>5, OverrideAccounted
<1>6. ASSUME NEW calls, NEW code \in {0, 1}, Leaves(calls, code)
      PROVE  Accounted'
  BY <1>6, ReturnAccounted
<1>7. ASSUME UNCHANGED <<half, held, live>>
      PROVE  /\ half' \in Nat /\ held' \in Nat
             /\ live' = live + half' - half + held' - held
  <2>1. live \in Nat
    BY LenProperties DEF Accounted, Store
  <2>2. QED
    BY <1>7, <2>1 DEF Accounted
<1>8. ASSUME stage = "options", Return(<<"overrides">>, 1), UNCHANGED <<half, held, live>>
      PROVE  Accounted'
  <2>1. Left("leaving", <<"overrides">>, FALSE, half', model, held')
    BY <1>8 DEF Accounted, Left
  <2>2. QED
    BY <1>6, <1>7, <1>8, <2>1
<1>9. CASE \/ \E option \in Option : ValueRefused(option)
           \/ OverrideRefused \/ Unknown \/ MissingRun \/ NoModel
  BY <1>8, <1>9 DEF ValueRefused, OverrideRefused, Unknown, MissingRun, NoModel, TooMany,
     Taking, Read
<1>10. CASE OverrideFails
  <2>1. PICK got \in {0, 1} : half' = got /\ live' = live + got
    BY <1>10 DEF OverrideFails
  <2>2. /\ stage = "options" /\ Return(<<"half", "overrides">>, 1) /\ held' = held
    BY <1>10 DEF OverrideFails, Taking
  <2>3. Left("leaving", <<"half", "overrides">>, FALSE, half', model, held')
    BY <2>2 DEF Accounted, Left
  <2>4. half = 0 /\ held \in Nat /\ live \in Nat
    BY <2>2, LenProperties DEF Accounted, Store, Left
  <2>5. half' \in Nat /\ held' \in Nat /\ live' = live + half' - half + held' - held
    BY <2>1, <2>2, <2>4
  <2>6. QED
    BY <1>6, <2>2, <2>3, <2>5
<1>11. CASE NotFound
  <2>1. stage = "load" /\ Return(<<"model", "overrides">>, 1) /\ UNCHANGED <<half, held, live>>
    BY <1>11 DEF NotFound
  <2>2. Left("leaving", <<"model", "overrides">>, FALSE, half', model, held')
    BY <2>1 DEF Accounted, Left
  <2>3. QED
    BY <1>6, <1>7, <2>1, <2>2
<1>12. ASSUME NEW n \in Nat, Loading(n)
       PROVE  /\ half' = 0 /\ held' = n /\ model
              /\ half' \in Nat /\ held' \in Nat
              /\ live' = live + half' - half + held' - held
  <2>1. half = 0 /\ held = 0 /\ model /\ Len(overrides) \in Nat
    BY <1>12, LenProperties DEF Loading, Accounted, Left, Store
  <2>2. QED
    BY <1>12, <2>1 DEF Loading, Accounted
<1>13. ASSUME NEW code \in {0, 1}, Return(<<"contents", "model", "overrides">>, code),
              half' = 0, model, half' \in Nat, held' \in Nat,
              live' = live + half' - half + held' - held
       PROVE  Accounted'
  <2>1. Left("leaving", <<"contents", "model", "overrides">>, FALSE, half', model, held')
    BY <1>13 DEF Left
  <2>2. QED
    BY <1>6, <1>13, <2>1
<1>14. CASE LoadFails
  <2>1. PICK n \in Held \cup {0} : Loading(n)
    BY <1>14 DEF LoadFails
  <2>2. n \in Nat /\ Return(<<"contents", "model", "overrides">>, 1)
    BY <1>14, CliAssumption DEF LoadFails
  <2>3. QED
    BY <1>12, <1>13, <2>1, <2>2
<1>15. CASE Loaded
  <2>1. PICK n \in Held : Loading(n)
    BY <1>15 DEF Loaded
  <2>2. n \in Nat /\ stage = "load" /\ stage' = "run"
        /\ UNCHANGED <<argv, at, overrides, model, todo, exit>>
    BY <1>15, <2>1, CliAssumption DEF Loaded, Loading, config
  <2>3. Left(stage', todo', overrides' = <<>>, half', model', held')
    BY <1>12, <2>1, <2>2 DEF Accounted, Left
  <2>4. live' = 2 * Len(overrides') + half' + held'
    <3>1. half = 0 /\ held \in Nat /\ Len(overrides) \in Nat
      BY <2>2, LenProperties DEF Accounted, Left, Store
    <3>2. QED
      BY <1>12, <2>1, <2>2, <3>1 DEF Accounted
  <2>5. QED
    BY <1>12, <2>1, <2>2, <2>3, <2>4 DEF Accounted
<1>16. CASE NewModel
  <2>1. stage = "options" /\ stage' = "load" /\ model'
        /\ UNCHANGED <<argv, at, overrides, half, held, live, todo, exit>>
    BY <1>16 DEF NewModel, Read, config
  <2>2. Left(stage', todo', overrides' = <<>>, half', model', held')
    BY <2>1 DEF Accounted, Left
  <2>3. QED
    BY <1>16, <2>1, <2>2 DEF Accounted, NewModel
<1>17. ASSUME NEW status \in {"ok", "error"}, RunEnds(status)
       PROVE  Accounted'
  <2> DEFINE code == IF status = "ok" THEN 0 ELSE 1
  <2>1. /\ stage = "run" /\ UNCHANGED <<half, held, live>> /\ code \in {0, 1}
        /\ Return(<<"contents", "model", "overrides">>, code)
    BY <1>17 DEF RunEnds
  <2>2. half' = 0 /\ model
    BY <2>1 DEF Accounted, Left
  <2> HIDE DEF code
  <2>3. QED
    BY <1>7, <1>13, <2>1, <2>2
<1>18. CASE FreeHalf \/ FreeContents \/ FreeModel \/ FreeOverrides
  BY <1>18, FreeingAccounted
<1>19. CASE Ends
  BY <1>19 DEF Accounted, Left, Ends, config, heap
<1>20. CASE UNCHANGED vars
  BY <1>20 DEF Accounted, vars, config, heap
<1>21. QED
  BY <1>1, <1>2, <1>4, <1>5, <1>9, <1>10, <1>11, <1>14, <1>15, <1>16, <1>17, <1>18, <1>19,
     <1>20 DEF Next, Over

(* Whatever is given on the command line, wherever an allocation fails and *)
(* whichever of its returns main takes, it ends with every override, half- *)
(* made or whole, the model and all the model's strings freed, and makes no*)
(* call on a model it has freed.                                           *)
THEOREM EverythingFreed == Spec => []NothingKept
<1>1. Accounted => NothingKept
  <2> SUFFICES ASSUME Accounted PROVE NothingKept
    OBVIOUS
  <2>1. stage = "over" => overrides = <<>> /\ half = 0 /\ ~ model /\ held = 0
    BY DEF Accounted, Left
  <2>2. Len(<<>>) = 0
    BY EmptySeq
  <2>3. stage = "over" => live = 0 /\ ~ model
    BY <2>1, <2>2 DEF Accounted
  <2>4. todo # <<>> /\ Head(todo) \in {"contents", "model"} => model
    BY Calls DEF Accounted, Left
  <2>5. QED
    BY <2>3, <2>4 DEF NothingKept
<1>2. QED
  BY Initially, Step, <1>1, PTL DEF Spec
----------------------------------------------------------------------------
(* Numbers                                                                 *)

(* The value after k digits, as the loop of kc_flow_parse_fd computes it.  *)
Digits(text, f, k) == f[k] = IF k = 0 THEN 0 ELSE 10 * f[k - 1] + Digit[text[k]]

(* The table of these values exists, one row after the other.              *)
LEMMA DigitsExist ==
  ASSUME NEW text \in Text, IsNumber(text)
  PROVE  \E f \in [0..Len(text) -> Nat] : \A k \in 0..Len(text) : Digits(text, f, k)
<1> DEFINE n == Len(text)
           Good(m) == \E f \in [0..n -> Nat] : \A k \in 0..m : Digits(text, f, k)
           S == {m \in Nat : m <= n => Good(m)}
<1>1. n \in Nat /\ \A k \in 1..n : Digit[text[k]] \in 0..9
  BY LenProperties, CliAssumption DEF Text, IsNumber
<1>2. Good(0)
  <2>1. [k \in 0..n |-> 0] \in [0..n -> Nat]
    BY <1>1
  <2>2. \A k \in 0..0 : k = 0
    OBVIOUS
  <2>3. Digits(text, [k \in 0..n |-> 0], 0)
    BY <1>1 DEF Digits
  <2>4. QED
    BY <2>1, <2>2, <2>3
<1>3. ASSUME NEW m \in Nat, m + 1 <= n, Good(m)
      PROVE  Good(m + 1)
  <2>1. PICK f \in [0..n -> Nat] : \A k \in 0..m : Digits(text, f, k)
    BY <1>3
  <2> DEFINE x == 10 * f[m] + Digit[text[m + 1]]
             g == [k \in 0..n |-> IF k = m + 1 THEN x ELSE f[k]]
  <2>2. m \in 0..n /\ m + 1 \in 0..n /\ m + 1 \in 1..n
    BY <1>1, <1>3
  <2>3. x \in Nat
    <3>1. f[m] \in Nat /\ Digit[text[m + 1]] \in Nat
      BY <1>1, <2>2
    <3>2. QED
      BY <3>1
  <2> HIDE DEF x
  <2>4. g \in [0..n -> Nat] /\ g[m + 1] = x
    BY <2>2, <2>3
  <2>5. \A k \in 0..m : k \in 0..n /\ g[k] = f[k] /\ (k # 0 => k - 1 \in 0..m)
    BY <1>1, <2>2
  <2> HIDE DEF g
  <2>6. \A k \in 0..m : Digits(text, g, k)
    <3>1. ASSUME NEW k \in 0..m
          PROVE  Digits(text, g, k)
      <4>1. f[k] = IF k = 0 THEN 0 ELSE 10 * f[k - 1] + Digit[text[k]]
        BY <2>1 DEF Digits
      <4>2. k # 0 => g[k - 1] = f[k - 1]
        BY <2>5
      <4>3. QED
        BY <2>5, <4>1, <4>2 DEF Digits
    <3>2. QED
      BY <3>1
  <2>7. Digits(text, g, m + 1)
    <3>1. m \in 0..m /\ m + 1 # 0 /\ m + 1 - 1 = m
      BY <1>3
    <3>2. QED
      BY <2>4, <2>5, <3>1 DEF Digits, x
  <2>8. \A k \in 0..m + 1 : k \in 0..m \/ k = m + 1
    BY <1>3
  <2>9. QED
    BY <2>4, <2>6, <2>7, <2>8
<1> HIDE DEF Good
<1>4. 0 \in S /\ \A m \in S : m + 1 \in S
  BY <1>1, <1>2, <1>3
<1>5. n \in S
  <2>1. S \in SUBSET Nat
    OBVIOUS
  <2> HIDE DEF S
  <2>2. S = Nat
    BY <1>4, <2>1, FromZero
  <2>3. QED
    BY <1>1, <2>2
<1>6. QED
  BY <1>1, <1>5 DEF Good

(* What digits say is a natural number.                                    *)
LEMMA NumberIsNat ==
  ASSUME NEW text \in Text, IsNumber(text)
  PROVE  Number(text) \in Nat
<1> DEFINE n == Len(text)
           Table(v) == [k \in 0..n |-> IF k = 0 THEN 0 ELSE 10 * v[k - 1] + Digit[text[k]]]
           V == CHOOSE v : v = Table(v)
<1>1. n \in Nat /\ \A k \in 1..n : Digit[text[k]] \in 0..9
  BY LenProperties, CliAssumption DEF Text, IsNumber
<1>2. PICK f \in [0..n -> Nat] : \A k \in 0..n : Digits(text, f, k)
  BY DigitsExist
<1>3. f = Table(f)
  BY <1>2 DEF Digits
<1>4. V = Table(V)
  <2> HIDE DEF Table
  <2>1. QED
    BY <1>3, Zenon
<1>5. Number(text) = V[n]
  BY DEF Number
<1> HIDE DEF V
<1> DEFINE S == {m \in Nat : m <= n => V[m] \in Nat}
<1>6. 0 \in S
  BY <1>1, <1>4
<1>7. ASSUME NEW m \in S
      PROVE  m + 1 \in S
  <2>1. CASE m + 1 <= n
    <3>1. m + 1 \in 1..n /\ m + 1 \in 0..n /\ m + 1 # 0 /\ m + 1 - 1 = m /\ V[m] \in Nat
      BY <1>1, <2>1
    <3>2. V[m + 1] = 10 * V[m] + Digit[text[m + 1]]
      BY <1>4, <3>1
    <3>3. Digit[text[m + 1]] \in Nat
      BY <1>1, <3>1, SMTT(30)
    <3>4. QED
      BY <3>1, <3>2, <3>3
  <2>2. QED
    BY <2>1
<1>8. S = Nat
  <2>1. S \in SUBSET Nat
    OBVIOUS
  <2> HIDE DEF S
  <2>2. QED
    BY <1>6, <1>7, <2>1, FromZero
<1>9. QED
  BY <1>1, <1>5, <1>8

(* A remainder is less than what it was divided by.                        *)
LEMMA Remainder ==
  ASSUME NEW n \in Nat, NEW w \in Nat \ {0}
  PROVE  n % w \in 0..w - 1
BY Z3
----------------------------------------------------------------------------
(* What has been read of the command line                                  *)

(* The options before place n, and the keys they set.                      *)
Before(n, option)     == {k \in Places(option) : k < n}
KeysBefore(n)         == {FlowKey(ValueAt(k)) : k \in Before(n, "--set")}
SettingBefore(n, key) == {k \in Before(n, "--set") : FlowKey(ValueAt(k)) = key}

IsOption(k) == \E o \in Option : argv[k] = <<o>> /\ Says(o, ValueAt(k))

ReadTo(n) ==
  /\ n \in 1..Len(argv) + 1 /\ n % 2 = 1
  /\ \A k \in 1..n - 1 : k % 2 = 1 => IsOption(k)

(* The configuration is what the options before place n say.               *)
PathSaid(n, p) ==
  p = IF Before(n, "--run") = {} THEN NoPath ELSE ValueAt(Max(Before(n, "--run")))

FdsSaid(n, f) ==
  \A o \in FdOption :
    IF Before(n, o) = {} THEN f[o] = IF o = "--fd-out" THEN 1 ELSE NoFd
    ELSE LET text == ValueAt(Max(Before(n, o)))
         IN  Number(text) <= IntMax => f[o] = Number(text)

StoreSaid(n, store) ==
  /\ Keys(store) = KeysBefore(n)
  /\ IsFiniteSet(Keys(store)) /\ Len(store) = Cardinality(Keys(store))
  /\ \A k, l \in DOMAIN store :
       k < l => Min(SettingBefore(n, store[k].key)) < Min(SettingBefore(n, store[l].key))
  /\ \A k \in DOMAIN store :
       store[k].value = Assigned(ValueAt(Max(SettingBefore(n, store[k].key))))

Said(n, p, f, store) ==
  ReadTo(n) /\ PathSaid(n, p) /\ FdsSaid(n, f) /\ StoreSaid(n, store)

(* Taking an option adds its place to those before, and no other.          *)
LEMMA OneMore ==
  ASSUME Accounted, ReadTo(at), NEW option \in Option, Taking(option)
  PROVE  /\ ReadTo(at + 2) /\ Given = ValueAt(at)
         /\ Before(at + 2, option) = Before(at, option) \cup {at}
         /\ \A o \in Option \ {option} : Before(at + 2, o) = Before(at, o)
<1>1. /\ at + 1 \in DOMAIN argv /\ argv[at] = <<option>> /\ Says(option, Given)
      /\ Given = ValueAt(at)
  BY DEF Taking, Given, ValueAt
<1>2. Len(argv) \in Nat /\ DOMAIN argv = 1..Len(argv) /\ at \in 1..Len(argv)
  BY <1>1, LenProperties DEF Accounted
<1>3. at % 2 = 1 /\ (at + 1) % 2 = 0 /\ (at + 2) % 2 = 1 /\ at + 2 \in 1..Len(argv) + 1
  BY <1>1, <1>2 DEF ReadTo
<1>4. IsOption(at)
  BY <1>1 DEF IsOption
<1>5. \A k \in 1..at + 2 - 1 : k \in 1..at - 1 \/ k = at \/ k = at + 1
  BY <1>2
<1>6. ReadTo(at + 2)
  BY <1>3, <1>4, <1>5 DEF ReadTo
<1>7. \A k \in DOMAIN argv : k < at + 2 <=> k < at \/ k = at \/ k = at + 1
  BY <1>2
<1>8. ASSUME NEW o
      PROVE  Before(at + 2, o)
               = Before(at, o) \cup IF argv[at] = <<o>> THEN {at} ELSE {}
  <2>1. \A k : k \in Before(at + 2, o) <=>
                 k \in DOMAIN argv /\ k % 2 = 1 /\ argv[k] = <<o>> /\ k < at + 2
    BY DEF Before, Places
  <2>2. \A k : k \in Before(at, o) <=>
                 k \in DOMAIN argv /\ k % 2 = 1 /\ argv[k] = <<o>> /\ k < at
    BY DEF Before, Places
  <2>3. \A k : k \in Before(at + 2, o) <=> k \in Before(at, o) \/ (k = at /\ argv[at] = <<o>>)
    BY <1>2, <1>3, <1>7, <2>1, <2>2
  <2>4. QED
    BY <2>3
<1>9. \A o \in Option \ {option} : argv[at] # <<o>>
  BY <1>1
<1>10. QED
  BY <1>1, <1>6, <1>8, <1>9

(* The place read now comes after all those before it.                     *)
LEMMA BeforeFacts ==
  ASSUME Accounted, ReadTo(at), NEW o
  PROVE  /\ Before(at, o) \in SUBSET Nat
         /\ \A k \in Before(at, o) : k < at
         /\ \A S \in SUBSET Before(at, o) : Max(S \cup {at}) = at
<1>1. DOMAIN argv \subseteq Nat /\ at \in Nat
  BY LenProperties DEF Accounted
<1>2. Before(at, o) \in SUBSET Nat /\ \A k \in Before(at, o) : k < at
  BY <1>1 DEF Before, Places
<1>3. ASSUME NEW S \in SUBSET Before(at, o)
      PROVE  Max(S \cup {at}) = at
  <2> DEFINE T == S \cup {at}
  <2>1. at \in T /\ T \in SUBSET Int /\ \A x \in T : x <= at
    BY <1>1, <1>2
  <2> HIDE DEF T
  <2>2. Max(T) = at
    BY <2>1, MaxIs
  <2>3. QED
    BY <2>2 DEF T
<1>4. QED
  BY <1>2, <1>3

(* The options differ.                                                     *)
LEMMA OptionsAre ==
  /\ "--run" \in Option /\ "--set" \in Option /\ "--workers" \in Option
  /\ FdOption \subseteq Option
  /\ "--run" \notin FdOption /\ "--set" \notin FdOption /\ "--workers" \notin FdOption
BY DEF Option, FdOption

(* An option other than these leaves what they say.                        *)
LEMMA OthersSaid ==
  ASSUME Accounted, ReadTo(at), NEW option \in Option, Taking(option)
  PROVE  /\ option # "--run" /\ PathSaid(at, path) => PathSaid(at + 2, path)
         /\ option \notin FdOption /\ FdsSaid(at, fds) => FdsSaid(at + 2, fds)
         /\ option # "--set" /\ StoreSaid(at, overrides) => StoreSaid(at + 2, overrides)
<1>1. \A o \in Option \ {option} : Before(at + 2, o) = Before(at, o)
  BY OneMore
<1>2. option # "--run" /\ PathSaid(at, path) => PathSaid(at + 2, path)
  BY <1>1, OptionsAre DEF PathSaid
<1>3. option \notin FdOption /\ FdsSaid(at, fds) => FdsSaid(at + 2, fds)
  BY <1>1, OptionsAre DEF FdsSaid
<1>4. ASSUME option # "--set", StoreSaid(at, overrides)
      PROVE  StoreSaid(at + 2, overrides)
  <2>1. Before(at + 2, "--set") = Before(at, "--set")
    BY <1>1, <1>4, OptionsAre
  <2>2. /\ KeysBefore(at + 2) = KeysBefore(at)
        /\ \A key : SettingBefore(at + 2, key) = SettingBefore(at, key)
    BY <2>1 DEF KeysBefore, SettingBefore
  <2>3. QED
    BY <1>4, <2>2 DEF StoreSaid
<1>5. QED
  BY <1>2, <1>3, <1>4

(* The file named now is the one named last.                               *)
LEMMA RunSaid ==
  ASSUME Accounted, ReadTo(at), Taking("--run")
  PROVE  PathSaid(at + 2, Given)
<1>1. Before(at + 2, "--run") = Before(at, "--run") \cup {at} /\ Given = ValueAt(at)
  BY OneMore, OptionsAre
<1>2. Max(Before(at, "--run") \cup {at}) = at
  BY BeforeFacts
<1>3. QED
  BY <1>1, <1>2 DEF PathSaid

(* The descriptor given now is the one given last, if it is an int.        *)
LEMMA FdSaid ==
  ASSUME Accounted, ReadTo(at), NEW option \in FdOption, Taking(option), FdsSaid(at, fds),
         fds \in [FdOption -> CInt], NEW fd \in Parsed(Given)
  PROVE  FdsSaid(at + 2, [fds EXCEPT ![option] = fd])
<1> DEFINE f == [fds EXCEPT ![option] = fd]
<1>1. f[option] = fd /\ \A o \in FdOption \ {option} : f[o] = fds[o]
  OBVIOUS
<1>2. /\ Before(at + 2, option) = Before(at, option) \cup {at} /\ Given = ValueAt(at)
      /\ \A o \in FdOption \ {option} : Before(at + 2, o) = Before(at, o)
  BY OneMore, OptionsAre
<1>3. Max(Before(at, option) \cup {at}) = at
  BY BeforeFacts
<1>4. Number(Given) <= IntMax => fd = Number(Given)
  BY DEF Parsed
<1> HIDE DEF f
<1>5. ASSUME NEW o \in FdOption
      PROVE  IF Before(at + 2, o) = {} THEN f[o] = IF o = "--fd-out" THEN 1 ELSE NoFd
             ELSE Number(ValueAt(Max(Before(at + 2, o)))) <= IntMax
                    => f[o] = Number(ValueAt(Max(Before(at + 2, o))))
  <2>1. CASE o = option
    BY <1>1, <1>2, <1>3, <1>4, <2>1
  <2>2. CASE o # option
    BY <1>1, <1>2, <2>2 DEF FdsSaid
  <2>3. QED
    BY <2>1, <2>2
<1>6. QED
  BY <1>5 DEF FdsSaid, f
----------------------------------------------------------------------------
(* The store of overrides                                                  *)

(* A store has one key more, or the same keys.                             *)
LEMMA KeysOfPut ==
  ASSUME NEW store \in Store, NEW key, NEW value, IsFiniteSet(Keys(store)),
         Len(store) = Cardinality(Keys(store))
  PROVE  LET new == Put(store, key, value) IN
         /\ Keys(new) = Keys(store) \cup {key}
         /\ IsFiniteSet(Keys(new)) /\ Len(new) = Cardinality(Keys(new))
<1> DEFINE new == Put(store, key, value)
<1>1. CASE HasKey(store, key)
  <2>1. /\ DOMAIN new = DOMAIN store /\ Len(new) = Len(store)
        /\ \A k \in DOMAIN store : new[k].key = store[k].key
    BY <1>1, PutFields
  <2> HIDE DEF new
  <2>2. Keys(new) = Keys(store) /\ key \in Keys(store)
    BY <1>1, <2>1 DEF Keys, HasKey
  <2>3. QED
    BY <2>1, <2>2 DEF new
<1>2. CASE ~ HasKey(store, key)
  <2>1. /\ DOMAIN new = 1..Len(store) + 1 /\ Len(new) = Len(store) + 1
        /\ \A k \in DOMAIN store : new[k] = store[k]
        /\ new[Len(store) + 1] = Stored(key, value)
        /\ Len(store) \in Nat /\ DOMAIN store = 1..Len(store)
    BY <1>2, PutFields
  <2> HIDE DEF new
  <2>2. \A k : k \in DOMAIN new <=> k \in DOMAIN store \/ k = Len(store) + 1
    BY <2>1
  <2>3. Keys(new) = Keys(store) \cup {key} /\ key \notin Keys(store)
    <3>1. new[Len(store) + 1].key = key
      BY <2>1 DEF Stored
    <3>2. \A x : x \in Keys(new) <=> \E k \in DOMAIN new : x = new[k].key
      BY DEF Keys
    <3>3. \A x : x \in Keys(store) <=> \E k \in DOMAIN store : x = store[k].key
      BY DEF Keys
    <3>4. \A x : x \in Keys(new) <=> x \in Keys(store) \/ x = key
      BY <2>1, <2>2, <3>1, <3>2, <3>3
    <3>5. key \notin Keys(store)
      BY <1>2, <3>3 DEF HasKey
    <3>6. QED
      BY <3>4, <3>5
  <2>4. /\ IsFiniteSet(Keys(store) \cup {key})
        /\ Cardinality(Keys(store) \cup {key}) = Cardinality(Keys(store)) + 1
    BY <2>3, FS_AddElement
  <2>5. QED
    BY <2>1, <2>3, <2>4 DEF new
<1>3. QED
  BY <1>1, <1>2

(* An override goes where its key was given first, with its last value.    *)
LEMMA OverrideSaid ==
  ASSUME Accounted, ReadTo(at), Taking("--set"), StoreSaid(at, overrides)
  PROVE  StoreSaid(at + 2, Put(overrides, FlowKey(Given), Assigned(Given)))
<1> DEFINE key == FlowKey(Given)
           value == Assigned(Given)
           new == Put(overrides, key, value)
           old(x) == SettingBefore(at, x)
<1>1. /\ Before(at + 2, "--set") = Before(at, "--set") \cup {at}
      /\ key = FlowKey(ValueAt(at)) /\ value = Assigned(ValueAt(at))
  BY OneMore, OptionsAre
<1>2. /\ overrides \in Store /\ Keys(overrides) = KeysBefore(at)
      /\ IsFiniteSet(Keys(overrides)) /\ Len(overrides) = Cardinality(Keys(overrides))
  BY DEF Accounted, StoreSaid
<1> HIDE DEF key, value
<1>3. /\ Keys(new) = Keys(overrides) \cup {key}
      /\ IsFiniteSet(Keys(new)) /\ Len(new) = Cardinality(Keys(new))
  BY <1>2, KeysOfPut
<1>4. KeysBefore(at + 2) = KeysBefore(at) \cup {key}
  BY <1>1 DEF KeysBefore
<1>5. /\ SettingBefore(at + 2, key) = old(key) \cup {at}
      /\ \A x : x # key => SettingBefore(at + 2, x) = old(x)
  BY <1>1 DEF SettingBefore
<1>6. \A x : old(x) \in SUBSET Before(at, "--set")
  BY DEF SettingBefore
<1>7. at \in Nat /\ \A x : old(x) \in SUBSET Nat /\ \A k \in old(x) : k < at
  BY <1>6, BeforeFacts DEF Accounted
<1>8. Max(SettingBefore(at + 2, key)) = at
  BY <1>5, <1>6, BeforeFacts
<1>9. \A k \in DOMAIN overrides : old(overrides[k].key) # {}
  <2>1. ASSUME NEW k \in DOMAIN overrides
        PROVE  old(overrides[k].key) # {}
    <3>1. overrides[k].key \in KeysBefore(at)
      BY <1>2 DEF Keys
    <3>2. QED
      BY <3>1 DEF KeysBefore, SettingBefore
  <2>2. QED
    BY <2>1
<1> HIDE DEF old
<1>10. \A k \in DOMAIN overrides : Min(old(overrides[k].key)) < at
  <2>1. ASSUME NEW k \in DOMAIN overrides
        PROVE  Min(old(overrides[k].key)) < at
    <3> DEFINE S == old(overrides[k].key)
    <3>1. S \in SUBSET Nat /\ S # {} /\ at \in Nat /\ \A x \in S : x < at
      BY <1>7, <1>9
    <3> HIDE DEF S
    <3>2. Min(S) < at
      BY <3>1, MinKept
    <3>3. QED
      BY <3>2 DEF S
  <2>2. QED
    BY <2>1
<1>11. \A k \in DOMAIN overrides :
         Min(SettingBefore(at + 2, overrides[k].key)) = Min(old(overrides[k].key))
  <2>1. ASSUME NEW k \in DOMAIN overrides, overrides[k].key = key
        PROVE  Min(old(key) \cup {at}) = Min(old(key))
    <3> DEFINE S == old(key)
    <3>1. S \in SUBSET Nat /\ S # {} /\ at \in Nat /\ \A x \in S : x < at
      BY <1>7, <1>9, <2>1
    <3> HIDE DEF S
    <3>2. Min(S \cup {at}) = Min(S)
      BY <3>1, MinKept
    <3>3. QED
      BY <3>2 DEF S
  <2>2. QED
    BY <1>5, <2>1
<1>12. \A k, l \in DOMAIN overrides :
         k < l => Min(old(overrides[k].key)) < Min(old(overrides[l].key))
  BY DEF StoreSaid, old
<1>13. \A k \in DOMAIN overrides :
         overrides[k].value = Assigned(ValueAt(Max(old(overrides[k].key))))
  BY DEF StoreSaid, old
<1>14. CASE HasKey(overrides, key)
  <2>1. /\ DOMAIN new = DOMAIN overrides
        /\ \A k \in DOMAIN overrides :
             /\ new[k].key = overrides[k].key
             /\ new[k].value = IF overrides[k].key = key THEN value ELSE overrides[k].value
    BY <1>2, <1>14, PutFields
  <2> HIDE DEF new
  <2>2. \A k, l \in DOMAIN new : k < l =>
          Min(SettingBefore(at + 2, new[k].key)) < Min(SettingBefore(at + 2, new[l].key))
    BY <1>11, <1>12, <2>1
  <2>3. ASSUME NEW k \in DOMAIN new
        PROVE  new[k].value = Assigned(ValueAt(Max(SettingBefore(at + 2, new[k].key))))
    <3>1. CASE overrides[k].key = key
      BY <1>1, <1>8, <2>1, <3>1
    <3>2. CASE overrides[k].key # key
      BY <1>5, <1>13, <2>1, <3>2
    <3>3. QED
      BY <3>1, <3>2
  <2>4. QED
    BY <1>2, <1>3, <1>4, <2>2, <2>3 DEF StoreSaid, new, key, value
<1>15. CASE ~ HasKey(overrides, key)
  <2> DEFINE n == Len(overrides)
  <2>1. /\ n \in Nat /\ DOMAIN overrides = 1..n /\ DOMAIN new = 1..n + 1
        /\ \A k \in DOMAIN overrides : new[k] = overrides[k]
        /\ new[n + 1] = Stored(key, value)
    BY <1>2, <1>15, PutFields
  <2> HIDE DEF new, n
  <2>2. \A k \in DOMAIN new : k \in DOMAIN overrides \/ k = n + 1
    BY <2>1
  <2>3. new[n + 1].key = key /\ new[n + 1].value = value
    BY <2>1 DEF Stored
  <2>4. old(key) = {}
    BY <1>2, <1>15 DEF HasKey, Keys, KeysBefore, SettingBefore, old
  <2>5. Min(SettingBefore(at + 2, key)) = at
    <3>1. at \in {at} /\ {at} \in SUBSET Int /\ \A x \in {at} : at <= x
      BY <1>7
    <3>2. Min({at}) = at
      BY <3>1, MinIs
    <3>3. QED
      BY <1>5, <2>4, <3>2
  <2>6. ASSUME NEW k \in DOMAIN new, NEW l \in DOMAIN new, k < l
        PROVE  Min(SettingBefore(at + 2, new[k].key)) < Min(SettingBefore(at + 2, new[l].key))
    <3>1. k \in DOMAIN overrides
      BY <2>1, <2>6
    <3>2. CASE l \in DOMAIN overrides
      BY <1>11, <1>12, <2>1, <2>6, <3>1, <3>2
    <3>3. CASE l = n + 1
      BY <1>10, <1>11, <2>1, <2>3, <2>5, <3>1, <3>3
    <3>4. QED
      BY <2>2, <3>2, <3>3
  <2>7. ASSUME NEW k \in DOMAIN new
        PROVE  new[k].value = Assigned(ValueAt(Max(SettingBefore(at + 2, new[k].key))))
    <3>1. CASE k \in DOMAIN overrides
      <4>1. overrides[k].key # key
        BY <1>15, <3>1 DEF HasKey
      <4>2. QED
        BY <1>5, <1>13, <2>1, <3>1, <4>1
    <3>2. CASE k = n + 1
      BY <1>1, <1>8, <2>3, <3>2
    <3>3. QED
      BY <2>2, <3>1, <3>2
  <2>8. QED
    BY <1>2, <1>3, <1>4, <2>6, <2>7 DEF StoreSaid, new, key, value
<1>16. QED
  BY <1>14, <1>15
----------------------------------------------------------------------------
(* The end of the command line                                             *)

(* At the end, what was said before is what the whole line says.           *)
LEMMA AllRead ==
  ASSUME Accounted, ReadTo(at), at \notin DOMAIN argv
  PROVE  /\ \A o : Before(at, o) = Places(o)
         /\ KeysBefore(at) = {FlowKey(ValueAt(k)) : k \in Places("--set")}
         /\ \A key : SettingBefore(at, key) = Setting(key)
         /\ Len(argv) % 2 = 0
         /\ \A k \in DOMAIN argv : k % 2 = 1 => IsOption(k)
<1>1. Len(argv) \in Nat /\ DOMAIN argv = 1..Len(argv) /\ at = Len(argv) + 1 /\ at % 2 = 1
  BY LenProperties DEF Accounted, ReadTo
<1>2. \A k \in DOMAIN argv : k < at /\ k \in 1..at - 1
  BY <1>1
<1>3. \A o : Before(at, o) = Places(o)
  BY <1>2 DEF Before, Places
<1>4. Len(argv) % 2 = 0
  BY <1>1
<1>5. \A k \in DOMAIN argv : k % 2 = 1 => IsOption(k)
  BY <1>2 DEF ReadTo
<1>6. QED
  BY <1>3, <1>4, <1>5 DEF KeysBefore, SettingBefore, Setting

(* So the configuration is then what the whole line says.                  *)
LEMMA EndOfLine ==
  ASSUME Accounted, Said(at, path, fds, overrides), at \notin DOMAIN argv
  PROVE  /\ path = NoPath <=> Places("--run") = {}
         /\ path # NoPath => RunsAsTold
         /\ path # NoPath /\ Len(overrides) <= MaxOverrides => WellFormed
<1>1. /\ \A o : Before(at, o) = Places(o)
      /\ KeysBefore(at) = {FlowKey(ValueAt(k)) : k \in Places("--set")}
      /\ \A key : SettingBefore(at, key) = Setting(key)
      /\ Len(argv) % 2 = 0
      /\ \A k \in DOMAIN argv : k % 2 = 1 => IsOption(k)
  BY AllRead DEF Said
<1>2. path = NoPath <=> Places("--run") = {}
  <2>1. path = IF Places("--run") = {} THEN NoPath ELSE ValueAt(LastPlace("--run"))
    BY <1>1 DEF Said, PathSaid, LastPlace
  <2>2. ASSUME Places("--run") # {}
        PROVE  ValueAt(LastPlace("--run")) # NoPath
    <3> DEFINE S == Places("--run")
    <3>1. Max(S) \in S
      <4>1. S \in SUBSET Nat /\ \A k \in S : k <= Len(argv)
        BY LenProperties DEF Accounted, Places
      <4>2. Len(argv) \in Nat /\ S # {}
        BY <2>2, LenProperties DEF Accounted
      <4> HIDE DEF S
      <4>3. PICK m \in S : \A k \in S : k <= m
        BY <4>1, <4>2, Greatest
      <4>4. S \in SUBSET Int
        BY <4>1
      <4>5. Max(S) = m
        BY <4>3, <4>4, MaxIs
      <4>6. QED
        BY <4>3, <4>5
    <3>2. \A k \in S : ValueAt(k) \in Text
      <4>1. ASSUME NEW k \in S
            PROVE  ValueAt(k) \in Text
        <5>1. k \in DOMAIN argv /\ k % 2 = 1
          BY DEF Places
        <5>2. Len(argv) \in Nat /\ DOMAIN argv = 1..Len(argv)
          BY LenProperties DEF Accounted
        <5>3. k + 1 \in 1..Len(argv)
          BY <1>1, <5>1, <5>2
        <5>4. QED
          BY <5>3, ElementOfSeq DEF ValueAt, Accounted
      <4>2. QED
        BY <4>1
    <3>3. QED
      BY <3>1, <3>2, CliAssumption DEF LastPlace
  <2>3. QED
    BY <2>1, <2>2
<1>3. ASSUME path # NoPath
      PROVE  RunsAsTold
  <2>1. path = ValueAt(LastPlace("--run"))
    BY <1>1, <1>2, <1>3 DEF Said, PathSaid, LastPlace
  <2>2. /\ Keys(overrides) = {FlowKey(ValueAt(k)) : k \in Places("--set")}
        /\ Len(overrides) = Cardinality(Keys(overrides))
        /\ InFirstOrder(overrides)
        /\ \A k \in DOMAIN overrides :
             overrides[k].value = Assigned(ValueAt(Max(Setting(overrides[k].key))))
    BY <1>1 DEF Said, StoreSaid, InFirstOrder
  <2>3. \A o \in FdOption :
          IF Places(o) = {} THEN fds[o] = IF o = "--fd-out" THEN 1 ELSE NoFd
          ELSE LET text == ValueAt(LastPlace(o))
               IN  Number(text) <= IntMax => fds[o] = Number(text)
    BY <1>1 DEF Said, FdsSaid, LastPlace
  <2>4. QED
    BY <2>1, <2>2, <2>3 DEF RunsAsTold
<1>4. ASSUME path # NoPath, Len(overrides) <= MaxOverrides
      PROVE  WellFormed
  <2>1. Cardinality({FlowKey(ValueAt(k)) : k \in Places("--set")}) <= MaxOverrides
    BY <1>1, <1>4 DEF Said, StoreSaid
  <2>2. QED
    BY <1>1, <1>2, <1>4, <2>1 DEF WellFormed, IsOption
<1>5. QED
  BY <1>2, <1>3, <1>4

(* The keys of a line are finitely many.                                   *)
LEMMA FiniteKeys ==
  ASSUME Accounted
  PROVE  IsFiniteSet({FlowKey(ValueAt(k)) : k \in Places("--set")})
<1> DEFINE P == Places("--set")
           T == {FlowKey(ValueAt(k)) : k \in P}
           f == [k \in P |-> FlowKey(ValueAt(k))]
<1>1. IsFiniteSet(P)
  <2>1. Len(argv) \in Nat /\ P \in SUBSET (1..Len(argv))
    BY LenProperties DEF Accounted, Places
  <2>2. IsFiniteSet(1..Len(argv))
    BY <2>1, FS_Interval
  <2> HIDE DEF P
  <2>3. QED
    BY <2>1, <2>2, FS_Subset
<1> HIDE DEF P
<1>2. f \in Surjection(P, T)
  BY DEF Surjection
<1>3. QED
  <2> HIDE DEF f, T
  <2>1. IsFiniteSet(T)
    BY <1>1, <1>2, FS_Surjection
  <2>2. QED
    BY <2>1 DEF T, P

(* A line that is refused is not well formed.                              *)
Refused ==
  \/ \E option \in Option : ValueRefused(option)
  \/ OverrideRefused \/ Unknown \/ MissingRun

LEMMA RefusedRightly ==
  ASSUME Accounted, Said(at, path, fds, overrides), Refused
  PROVE  ~ WellFormed
<1> SUFFICES ASSUME WellFormed PROVE FALSE
  OBVIOUS
<1>1. ReadTo(at) /\ at % 2 = 1
  BY DEF Said, ReadTo
<1>2. CASE MissingRun
  BY <1>2, EndOfLine DEF MissingRun, Read, WellFormed
<1>3. ASSUME stage = "options", at \in DOMAIN argv, ~ \E option \in Option : Taking(option)
      PROVE  FALSE
  <2>1. PICK o \in Option : argv[at] = <<o>> /\ Says(o, ValueAt(at))
    BY <1>1, <1>3 DEF WellFormed
  <2>2. Len(argv) \in Nat /\ DOMAIN argv = 1..Len(argv) /\ Len(argv) % 2 = 0
    BY LenProperties DEF Accounted, WellFormed
  <2>3. at + 1 \in DOMAIN argv
    BY <1>1, <1>3, <2>2
  <2>4. Taking(o)
    BY <1>3, <2>1, <2>3 DEF Taking, Given, ValueAt
  <2>5. QED
    BY <1>3, <2>4
<1>4. ASSUME TooMany
      PROVE  FALSE
  <2> DEFINE T == {FlowKey(ValueAt(k)) : k \in Places("--set")}
             key == FlowKey(Given)
             U == Keys(overrides) \cup {key}
  <2>1. Taking("--set") /\ ~ HasKey(overrides, key) /\ ~ (Len(overrides) < MaxOverrides)
    BY <1>4 DEF TooMany, HasRoom
  <2>2. at \in Places("--set") /\ key = FlowKey(ValueAt(at))
    <3>1. at \in DOMAIN argv
      BY <2>1, LenProperties DEF Taking, Accounted
    <3>2. QED
      BY <1>1, <2>1, <3>1 DEF Places, Taking, Given, ValueAt
  <2>3. /\ Keys(overrides) = KeysBefore(at) /\ IsFiniteSet(Keys(overrides))
        /\ Len(overrides) = Cardinality(Keys(overrides))
    BY DEF Said, StoreSaid
  <2>4. U \in SUBSET T
    <3>1. KeysBefore(at) \subseteq T
      BY DEF KeysBefore, Before
    <3>2. QED
      BY <2>2, <2>3, <3>1
  <2>5. IsFiniteSet(T) /\ Cardinality(T) <= MaxOverrides
    BY FiniteKeys DEF WellFormed
  <2>6. key \notin Keys(overrides)
    BY <2>1 DEF HasKey, Keys
  <2> HIDE DEF T, key
  <2>7. Cardinality(U) = Cardinality(Keys(overrides)) + 1
    BY <2>3, <2>6, FS_AddElement
  <2> HIDE DEF U
  <2>8. IsFiniteSet(U) /\ Cardinality(U) <= Cardinality(T)
    BY <2>4, <2>5, FS_Subset
  <2>9. Cardinality(U) \in Nat /\ Cardinality(T) \in Nat /\ Cardinality(Keys(overrides)) \in Nat
    BY <2>3, <2>5, <2>8, FS_CardinalityType
  <2>10. QED
    BY <2>1, <2>3, <2>5, <2>7, <2>8, <2>9, StoreAssumption
<1>5. CASE \E option \in Option : ValueRefused(option)
  <2>1. PICK option \in Option : ValueRefused(option)
    BY <1>5
  <2>2. stage = "options" /\ at \in DOMAIN argv /\ argv[at] = <<option>> /\ ~ Taking(option)
    BY <2>1 DEF ValueRefused
  <2>3. \A o \in Option : argv[at] = <<o>> => o = option
    BY <2>2
  <2>4. ~ \E o \in Option : Taking(o)
    BY <2>2, <2>3 DEF Taking
  <2>5. QED
    BY <1>3, <2>2, <2>4
<1>6. CASE Unknown
  BY <1>3, <1>6 DEF Unknown, Taking
<1>7. QED
  BY <1>2, <1>4, <1>5, <1>6 DEF Refused, OverrideRefused
----------------------------------------------------------------------------
(* The invariant of main                                                   *)

Defaults == [o \in FdOption |-> IF o = "--fd-out" THEN 1 ELSE NoFd]

Fit == WellFormed /\ ~ AsksHelp

Began(to)         == [fd |-> to, event |-> "run.started", status |-> "none"]
Ended(to, status) == [fd |-> to, event |-> "run.finished", status |-> status]

(* What is reported of a run that has begun, and of one that is over.      *)
BeginsWith(l, to) == l = IF to < 0 THEN <<>> ELSE <<Began(to)>>

EndsWith(l, to, e, g) ==
  IF to < 0 \/ g \in {"memory", "missing"} \/ ~ Fit THEN l = <<>>
  ELSE /\ e = 0 => l = <<Began(to), Ended(to, "ok")>>
       /\ e # 0 /\ g = "load" => l = <<Ended(to, "error")>>
       /\ e # 0 /\ g # "load" => l = <<Began(to), Ended(to, "error")>>

(* The types that Accounted leaves.                                        *)
Typed ==
  /\ Len(overrides) <= MaxOverrides
  /\ path \in Text \cup {NoPath} /\ workers \in 1..WordSize - 1
  /\ fds \in [FdOption -> CInt]
  /\ exit \in {NoCode, 0, 1}
  /\ fault \in {"none", "memory", "missing", "load", "run"}

(* The configuration is what the line says as far as it was read; then     *)
(* come the file, the run and the events.                                  *)
Told ==
  /\ Accounted /\ Typed
  /\ stage = "start" => at = 1 /\ path = NoPath /\ fds = Defaults
  /\ stage \in {"options", "load", "run"} => ~ AsksHelp /\ Said(at, path, fds, overrides)
  /\ stage \in {"load", "run"} => at \notin DOMAIN argv /\ path # NoPath
  /\ stage \notin {"leaving", "over"} => fault = "none"
  /\ stage \in {"start", "options", "load"} => log = <<>>
  /\ stage = "run" => BeginsWith(log, fds["--fd-status"])
  /\ stage \in {"leaving", "over"} =>
       /\ EndsWith(log, fds["--fd-status"], exit, fault)
       /\ exit = 1 /\ fault = "none" => ~ WellFormed
       /\ exit = 0 => fault = "none"

(* What a line says changes only with the line.                            *)
LEMMA SameLine ==
  ASSUME UNCHANGED argv
  PROVE  /\ AsksHelp' <=> AsksHelp
         /\ WellFormed' <=> WellFormed
         /\ \A n, p, f, store : Said(n, p, f, store)' <=> Said(n, p, f, store)
         /\ \A l, to, e, g : EndsWith(l, to, e, g)' <=> EndsWith(l, to, e, g)
<1>1. \A k : ValueAt(k)' = ValueAt(k)
  BY DEF ValueAt
<1>2. \A o : Places(o)' = Places(o)
  BY DEF Places
<1>3. AsksHelp' <=> AsksHelp
  BY DEF AsksHelp
<1>4. WellFormed' <=> WellFormed
  BY <1>1, <1>2 DEF WellFormed
<1>5. \A n, o : Before(n, o)' = Before(n, o)
  BY <1>2 DEF Before
<1>6. \A n : KeysBefore(n)' = KeysBefore(n)
  BY <1>1, <1>5 DEF KeysBefore
<1>7. \A n, key : SettingBefore(n, key)' = SettingBefore(n, key)
  BY <1>1, <1>5 DEF SettingBefore
<1>8. \A k : IsOption(k)' <=> IsOption(k)
  BY <1>1 DEF IsOption
<1>9. \A n : ReadTo(n)' <=> ReadTo(n)
  BY <1>8 DEF ReadTo
<1>10. \A n, p : PathSaid(n, p)' <=> PathSaid(n, p)
  BY <1>1, <1>5 DEF PathSaid
<1>11. \A n, f : FdsSaid(n, f)' <=> FdsSaid(n, f)
  BY <1>1, <1>5 DEF FdsSaid
<1>12. \A n, store : StoreSaid(n, store)' <=> StoreSaid(n, store)
  BY <1>1, <1>6, <1>7 DEF StoreSaid
<1>13. \A n, p, f, store : Said(n, p, f, store)' <=> Said(n, p, f, store)
  BY <1>9, <1>10, <1>11, <1>12 DEF Said
<1>14. Fit' <=> Fit
  BY <1>3, <1>4 DEF Fit
<1>15. \A l, to, e, g : EndsWith(l, to, e, g)' <=> EndsWith(l, to, e, g)
  BY <1>14 DEF EndsWith
<1>16. QED
  BY <1>3, <1>4, <1>13, <1>15

(* At the start every option has its default.                              *)
LEMMA InitTold == Init => Told
<1> SUFFICES ASSUME Init PROVE Told
  OBVIOUS
<1>1. Accounted
  BY Initially
<1>2. Len(<<>>) = 0 /\ MaxOverrides \in Nat /\ IntMax \in Nat \ {0}
  BY EmptySeq, StoreAssumption, CliAssumption
<1>3. NoFd \in CInt /\ 1 \in CInt
  BY <1>2 DEF NoFd, CInt
<1>4. fds \in [FdOption -> CInt] /\ fds = Defaults
  BY <1>3 DEF Init, Defaults
<1>5. workers \in 1..WordSize - 1 /\ Len(overrides) <= MaxOverrides
  BY <1>2, CliAssumption DEF Init
<1>6. Typed
  BY <1>4, <1>5 DEF Init, Typed
<1>7. QED
  BY <1>1, <1>4, <1>6 DEF Init, Told

(* Before the first argument nothing is said.                              *)
LEMMA NothingSaid ==
  ASSUME Accounted
  PROVE  Said(1, NoPath, Defaults, <<>>)
<1>1. Len(argv) \in Nat /\ DOMAIN argv = 1..Len(argv)
  BY LenProperties DEF Accounted
<1>2. \A o : Before(1, o) = {}
  BY <1>1 DEF Before, Places
<1>3. ReadTo(1)
  BY <1>1 DEF ReadTo
<1>4. PathSaid(1, NoPath) /\ FdsSaid(1, Defaults)
  BY <1>2 DEF PathSaid, FdsSaid, Defaults
<1>5. DOMAIN <<>> = {} /\ Len(<<>>) = 0
  BY EmptySeq
<1>6. Keys(<<>>) = {} /\ KeysBefore(1) = {}
  BY <1>2, <1>5 DEF Keys, KeysBefore
<1>7. StoreSaid(1, <<>>)
  BY <1>5, <1>6, FS_EmptySet DEF StoreSaid
<1>8. QED
  BY <1>3, <1>4, <1>7 DEF Said

(* A step of the loop over the arguments.                                  *)
LEMMA OptionTold ==
  ASSUME Told, Accounted', Typed', NEW option \in Option, Taking(option), Taken,
         PathSaid(at + 2, path'), FdsSaid(at + 2, fds'), StoreSaid(at + 2, overrides')
  PROVE  Told'
<1>1. stage = "options" /\ ~ AsksHelp /\ ReadTo(at) /\ Accounted /\ fault = "none" /\ log = <<>>
  BY DEF Taking, Told, Said
<1>2. at' = at + 2 /\ UNCHANGED <<argv, stage, log, exit, fault>>
  BY DEF Taken
<1>3. ReadTo(at + 2)
  BY <1>1, OneMore
<1>4. Said(at + 2, path', fds', overrides')
  BY <1>3 DEF Said
<1>5. Said(at, path, fds, overrides)' /\ ~ AsksHelp'
  BY <1>1, <1>2, <1>4, SameLine
<1>6. QED
  BY <1>1, <1>2, <1>5 DEF Told

(* The value of an option that is taken is one the option takes.           *)
LEMMA TakingSays ==
  ASSUME Accounted, NEW option \in Option, Taking(option)
  PROVE  /\ Given \in Text
         /\ option = "--workers" => IsNumber(Given) /\ Count(Given) # 0
         /\ option = "--set" => IsAssignment(Given)
         /\ option \in FdOption => IsNumber(Given)
<1>1. Given \in Text /\ Says(option, Given)
  BY GivenIsText DEF Taking
<1>2. QED
  BY <1>1 DEF Says, FdOption

(* The file named last is the one kept.                                    *)
LEMMA SetRunTold ==
  ASSUME Told, Accounted', SetRun
  PROVE  Told'
<1>1. Taking("--run") /\ Taken /\ path' = Given /\ UNCHANGED <<overrides, workers, fds>>
  BY DEF SetRun
<1>2. Accounted /\ Said(at, path, fds, overrides) /\ ReadTo(at)
  BY <1>1 DEF Told, Taking, Said
<1>3. Given \in Text
  BY <1>1, <1>2, TakingSays, OptionsAre
<1>4. PathSaid(at + 2, path')
  BY <1>1, <1>2, RunSaid
<1>5. FdsSaid(at + 2, fds') /\ StoreSaid(at + 2, overrides')
  BY <1>1, <1>2, OthersSaid, OptionsAre DEF Said
<1>6. Typed'
  BY <1>1, <1>3 DEF Told, Typed, Taken
<1>7. QED
  BY <1>1, <1>4, <1>5, <1>6, OptionTold, OptionsAre

(* A count of workers wraps, and is never zero.                            *)
LEMMA SetWorkersTold ==
  ASSUME Told, Accounted', SetWorkers
  PROVE  Told'
<1>1. /\ Taking("--workers") /\ Taken /\ workers' = Count(Given)
      /\ UNCHANGED <<overrides, path, fds>>
  BY DEF SetWorkers
<1>2. Accounted /\ Said(at, path, fds, overrides) /\ ReadTo(at)
  BY <1>1 DEF Told, Taking, Said
<1>3. Given \in Text /\ IsNumber(Given) /\ Count(Given) # 0
  BY <1>1, <1>2, TakingSays, OptionsAre
<1>4. Count(Given) \in 1..WordSize - 1
  <2>1. Number(Given) \in Nat /\ WordSize \in Nat \ {0}
    BY <1>3, NumberIsNat, CliAssumption
  <2>2. Count(Given) = Number(Given) % WordSize
    BY DEF Count
  <2>3. Count(Given) \in 0..WordSize - 1
    BY <2>1, <2>2, Remainder
  <2>4. QED
    BY <1>3, <2>1, <2>3
<1>5. PathSaid(at + 2, path') /\ FdsSaid(at + 2, fds') /\ StoreSaid(at + 2, overrides')
  BY <1>1, <1>2, OthersSaid, OptionsAre DEF Said
<1>6. Typed'
  BY <1>1, <1>4 DEF Told, Typed, Taken
<1>7. QED
  BY <1>1, <1>5, <1>6, OptionTold, OptionsAre

(* A descriptor is an int, whatever the digits.                            *)
LEMMA SetFdTold ==
  ASSUME Told, Accounted', NEW option \in FdOption, SetFd(option)
  PROVE  Told'
<1>1. Taking(option) /\ Taken /\ UNCHANGED <<overrides, path, workers>>
  BY DEF SetFd
<1>2. PICK fd \in Parsed(Given) : fds' = [fds EXCEPT ![option] = fd]
  BY DEF SetFd
<1>3. Accounted /\ Said(at, path, fds, overrides) /\ ReadTo(at) /\ option \in Option
  BY <1>1, OptionsAre DEF Told, Taking, Said
<1>4. fds \in [FdOption -> CInt]
  BY DEF Told, Typed
<1>5. fd \in CInt
  <2>1. Number(Given) \in Nat
    BY <1>1, <1>3, TakingSays, NumberIsNat
  <2>2. IntMax \in Nat
    BY CliAssumption
  <2>3. QED
    BY <2>1, <2>2 DEF Parsed, CInt
<1>6. FdsSaid(at + 2, fds')
  BY <1>1, <1>2, <1>3, <1>4, FdSaid DEF Said
<1>7. PathSaid(at + 2, path') /\ StoreSaid(at + 2, overrides')
  BY <1>1, <1>3, OthersSaid, OptionsAre DEF Said
<1>8. fds' \in [FdOption -> CInt]
  BY <1>2, <1>4, <1>5
<1>9. Typed'
  BY <1>1, <1>8 DEF Told, Typed, Taken
<1>10. QED
  BY <1>1, <1>3, <1>6, <1>7, <1>9, OptionTold

(* The store of overrides stays within its limit.                          *)
LEMMA SetOverrideTold ==
  ASSUME Told, Accounted', SetOverride
  PROVE  Told'
<1> DEFINE key == FlowKey(Given)
           value == Assigned(Given)
<1>1. /\ Taking("--set") /\ Taken /\ UNCHANGED <<path, workers, fds>>
      /\ HasRoom(overrides, key) /\ overrides' = Put(overrides, key, value)
  BY DEF SetOverride
<1>2. Accounted /\ Said(at, path, fds, overrides) /\ ReadTo(at)
  BY <1>1 DEF Told, Taking, Said
<1>3. StoreSaid(at + 2, overrides')
  BY <1>1, <1>2, OverrideSaid DEF Said
<1>4. PathSaid(at + 2, path') /\ FdsSaid(at + 2, fds')
  BY <1>1, <1>2, OthersSaid, OptionsAre DEF Said
<1> HIDE DEF key, value
<1>5. Len(overrides') <= MaxOverrides
  <2>1. /\ Len(overrides) \in Nat
        /\ HasKey(overrides, key) => Len(overrides') = Len(overrides)
        /\ ~ HasKey(overrides, key) => Len(overrides') = Len(overrides) + 1
    <3>1. overrides \in Store
      BY <1>2 DEF Accounted
    <3>2. /\ Len(overrides) \in Nat
          /\ HasKey(overrides, key) => Len(Put(overrides, key, value)) = Len(overrides)
          /\ ~ HasKey(overrides, key) => Len(Put(overrides, key, value)) = Len(overrides) + 1
      BY <3>1, PutLength
    <3>3. QED
      BY <1>1, <3>2
  <2>2. Len(overrides) <= MaxOverrides /\ MaxOverrides \in Nat
    BY StoreAssumption DEF Told, Typed
  <2>3. QED
    BY <1>1, <2>1, <2>2 DEF HasRoom
<1>6. Typed'
  BY <1>1, <1>5 DEF Told, Typed, Taken
<1>7. QED
  BY <1>1, <1>3, <1>4, <1>6, OptionTold, OptionsAre

(* The events, one after the other.                                        *)
LEMMA Reporting ==
  /\ \A to : /\ to = fds["--fd-status"] =>
                  /\ Event("run.started", "none") = Began(to)
                  /\ \A status : Event("run.finished", status) = Ended(to, status)
  /\ \A x, y : Append(<<>>, x) = <<x>> /\ Append(<<x>>, y) = <<x, y>>
<1>1. \A x : Append(<<>>, x) = <<x>>
  OBVIOUS
<1>2. \A x, y : Append(<<x>>, y) = <<x, y>>
  <2> TAKE x, y
  <2> DEFINE s == <<x>>
             t == <<x, y>>
             S == {x, y}
  <2>1. s \in Seq(S) /\ Len(s) = 1 /\ s[1] = x
    OBVIOUS
  <2>2. t \in Seq(S) /\ y \in S /\ Len(t) = 2 /\ t[1] = x /\ t[2] = y
    OBVIOUS
  <2> HIDE DEF s, t, S
  <2>3. /\ Append(s, y) \in Seq(S) /\ Len(Append(s, y)) = Len(s) + 1
        /\ Append(s, y)[Len(s) + 1] = y
        /\ \A k \in 1..Len(s) : Append(s, y)[k] = s[k]
    <3>1. s \in Seq(S)
      BY <2>1
    <3>2. y \in S
      BY <2>2
    <3>3. QED
      BY ONLY <3>1, <3>2, AppendProperties
  <2>4. Len(Append(s, y)) = 2 /\ Append(s, y)[1] = x /\ Append(s, y)[2] = y
    BY <2>1, <2>3
  <2>5. Append(s, y) = t
    <3>1. \A k \in 1..Len(Append(s, y)) : Append(s, y)[k] = t[k]
      <4> SUFFICES ASSUME NEW k \in 1..2 PROVE Append(s, y)[k] = t[k]
        BY <2>4
      <4>1. k = 1 \/ k = 2
        OBVIOUS
      <4>2. QED
        BY <4>1, <2>2, <2>4
    <3>2. QED
      BY <2>2, <2>3, <2>4, <3>1, SeqEqual
  <2>6. QED
    BY <2>5 DEF s, t
<1>3. QED
  BY <1>1, <1>2 DEF Event, Began, Ended

(* Every return of main.                                                   *)
LEMMA ReturnTold ==
  ASSUME Told, Accounted', NEW calls, NEW code \in {0, 1}, Return(calls, code),
         fault' \in {"none", "memory", "missing", "load", "run"},
         EndsWith(log', fds["--fd-status"], code, fault'),
         code = 1 /\ fault' = "none" => ~ WellFormed, code = 0 => fault' = "none"
  PROVE  Told'
<1>1. /\ stage' = "leaving" /\ exit' = code
      /\ UNCHANGED <<argv, at, overrides, path, workers, fds>>
  BY DEF Return, config
<1>2. exit' \in {NoCode, 0, 1} /\ Typed
  BY <1>1 DEF Told
<1>3. Typed'
  BY <1>1, <1>2 DEF Typed
<1>4. EndsWith(log', fds'["--fd-status"], exit', fault')
  BY <1>1
<1>5. EndsWith(log, fds["--fd-status"], exit, fault)'
  BY <1>1, <1>4, SameLine
<1>6. exit' = 1 /\ fault' = "none" => ~ WellFormed'
  BY <1>1, SameLine
<1>7. QED
  BY <1>1, <1>3, <1>5, <1>6 DEF Told

(* Once the file is looked for, the line is known to be well formed.       *)
LEMMA LineIsRead ==
  ASSUME Told, stage \in {"load", "run"}
  PROVE  RunsAsTold /\ WellFormed /\ ~ AsksHelp /\ fault = "none"
BY EndOfLine DEF Told, Typed

(* Every step of main keeps the invariant.                                 *)
LEMMA StepTold ==
  ASSUME Told, [Next]_vars
  PROVE  Told'
<1> DEFINE to == fds["--fd-status"]
<1>1. Accounted'
  BY Step DEF Told
<1>2. to \in Int
  <2>1. IntMax \in Nat /\ to \in CInt
    BY CliAssumption DEF Told, Typed, FdOption
  <2>2. QED
    BY <2>1 DEF CInt
<1>3. CASE Help
  <2>1. /\ stage = "start" /\ AsksHelp /\ stage' = "over" /\ exit' = 0
        /\ UNCHANGED <<argv, at, overrides, path, workers, fds, log, fault>>
    BY <1>3 DEF Help, config
  <2>2. log' = <<>> /\ fault' = "none"
    BY <2>1 DEF Told
  <2>3. EndsWith(log', to, exit', fault')
    BY <2>1, <2>2 DEF Fit, EndsWith
  <2>4. EndsWith(log, fds["--fd-status"], exit, fault)'
    BY <2>1, <2>3, SameLine
  <2>5. Typed'
    BY <1>3 DEF Help, config, Told, Typed
  <2>6. QED
    BY <1>1, <2>1, <2>2, <2>4, <2>5 DEF Told
<1>4. CASE NoHelp
  <2>1. /\ stage = "start" /\ ~ AsksHelp /\ stage' = "options"
        /\ UNCHANGED <<argv, at, overrides, path, workers, fds, log, exit, fault>>
    BY <1>4 DEF NoHelp, config
  <2>2. Said(at, path, fds, overrides)
    BY <2>1, NothingSaid DEF Told, Accounted
  <2>3. Said(at, path, fds, overrides)' /\ ~ AsksHelp'
    BY <2>1, <2>2, SameLine
  <2>4. Typed'
    BY <1>4 DEF NoHelp, config, Told, Typed
  <2>5. QED
    BY <1>1, <2>1, <2>3, <2>4 DEF Told
<1>5. CASE SetRun
  BY <1>1, <1>5, SetRunTold
<1>6. CASE SetWorkers
  BY <1>1, <1>6, SetWorkersTold
<1>7. CASE SetOverride
  BY <1>1, <1>7, SetOverrideTold
<1>8. CASE \E option \in FdOption : SetFd(option)
  BY <1>1, <1>8, SetFdTold
<1>9. CASE Refused
  <2>1. stage = "options" /\ Return(<<"overrides">>, 1) /\ UNCHANGED <<log, fault>>
    BY <1>9 DEF Refused, ValueRefused, OverrideRefused, Unknown, MissingRun, TooMany,
       Taking, Read
  <2>2. ~ WellFormed /\ fault = "none" /\ log = <<>>
    BY <1>9, <2>1, RefusedRightly DEF Told
  <2>3. EndsWith(log', to, 1, fault')
    BY <2>1, <2>2 DEF EndsWith, Fit
  <2>4. QED
    BY <1>1, <2>1, <2>2, <2>3, ReturnTold
<1>10. CASE OverrideFails \/ NoModel
  <2>1. PICK calls : /\ stage = "options" /\ Return(calls, 1)
                     /\ fault' = "memory" /\ UNCHANGED log
    BY <1>10 DEF OverrideFails, NoModel, Taking, Read
  <2>2. EndsWith(log', to, 1, fault')
    BY <2>1 DEF Told, EndsWith, Fit
  <2>3. QED
    BY <1>1, <2>1, <2>2, ReturnTold
<1>11. CASE NewModel
  <2>1. /\ stage = "options" /\ at \notin DOMAIN argv /\ path # NoPath /\ stage' = "load"
        /\ UNCHANGED <<argv, at, overrides, path, workers, fds, log, exit, fault>>
    BY <1>11 DEF NewModel, Read, config
  <2>2. Said(at, path, fds, overrides)' /\ ~ AsksHelp'
    BY <2>1, SameLine DEF Told
  <2>3. Typed'
    BY <1>11 DEF NewModel, config, Told, Typed
  <2>4. QED
    BY <1>1, <2>1, <2>2, <2>3 DEF Told
<1>12. CASE NotFound
  <2>1. /\ stage = "load" /\ Return(<<"model", "overrides">>, 1)
        /\ fault' = "missing" /\ UNCHANGED log
    BY <1>12 DEF NotFound
  <2>2. EndsWith(log', to, 1, fault')
    BY <2>1 DEF Told, EndsWith, Fit
  <2>3. QED
    BY <1>1, <2>1, <2>2, ReturnTold
<1>13. CASE LoadFails
  <2>1. /\ stage = "load" /\ Return(<<"contents", "model", "overrides">>, 1)
        /\ fault' = "load" /\ log' = Reported("run.finished", "error")
    BY <1>13 DEF LoadFails, Loading
  <2>2. log = <<>> /\ WellFormed /\ ~ AsksHelp
    BY <2>1, LineIsRead DEF Told
  <2>3. EndsWith(log', to, 1, fault')
    BY <1>2, <2>1, <2>2, Reporting DEF Reported, EndsWith, Fit
  <2>4. QED
    BY <1>1, <2>1, <2>3, ReturnTold
<1>14. CASE Loaded
  <2>1. /\ stage = "load" /\ log' = Reported("run.started", "none") /\ stage' = "run"
        /\ UNCHANGED <<argv, at, overrides, path, workers, fds, exit, fault>>
    BY <1>14 DEF Loaded, Loading, config
  <2>2. BeginsWith(log', to)
    BY <1>2, <2>1, Reporting DEF Told, Reported, BeginsWith
  <2>3. Said(at, path, fds, overrides)' /\ ~ AsksHelp'
    BY <2>1, SameLine DEF Told
  <2>4. Typed'
    BY <1>14 DEF Loaded, config, Told, Typed
  <2>5. BeginsWith(log, fds["--fd-status"])'
    BY <2>1, <2>2 DEF BeginsWith
  <2>6. QED
    BY <1>1, <2>1, <2>3, <2>4, <2>5 DEF Told
<1>15. ASSUME NEW status \in {"ok", "error"}, RunEnds(status)
       PROVE  Told'
  <2> DEFINE code == IF status = "ok" THEN 0 ELSE 1
  <2>1. /\ stage = "run" /\ Return(<<"contents", "model", "overrides">>, code)
        /\ log' = Reported("run.finished", status)
        /\ fault' = IF status = "ok" THEN "none" ELSE "run"
    BY <1>15 DEF RunEnds
  <2>2. BeginsWith(log, to) /\ WellFormed /\ ~ AsksHelp
    BY <2>1, LineIsRead DEF Told
  <2>3. EndsWith(log', to, code, fault')
    <3>1. CASE status = "ok"
      BY <1>2, <2>1, <2>2, <3>1, Reporting DEF Reported, BeginsWith, EndsWith, Fit
    <3>2. CASE status = "error"
      BY <1>2, <2>1, <2>2, <3>2, Reporting DEF Reported, BeginsWith, EndsWith, Fit
    <3>3. QED
      BY <3>1, <3>2
  <2>4. code \in {0, 1} /\ (code = 1 <=> fault' # "none")
        /\ fault' \in {"none", "memory", "missing", "load", "run"}
    BY <2>1
  <2> HIDE DEF code
  <2>5. QED
    BY <1>1, <2>1, <2>3, <2>4, ReturnTold
<1>16. CASE FreeHalf \/ FreeContents \/ FreeModel \/ FreeOverrides \/ Ends
  <2>1. /\ stage = "leaving" /\ stage' \in {"leaving", "over"}
        /\ UNCHANGED <<argv, at, path, workers, fds, log, exit, fault>>
    BY <1>16 DEF FreeHalf, FreeContents, FreeModel, FreeOverrides, Ends, Freeing, config
  <2>2. overrides' = overrides \/ overrides' = <<>>
    BY <1>16 DEF FreeHalf, FreeContents, FreeModel, FreeOverrides, Ends, config
  <2>3. Len(overrides') <= MaxOverrides
    <3>1. Len(<<>>) = 0 /\ MaxOverrides \in Nat
      BY EmptySeq, StoreAssumption
    <3>2. QED
      BY <2>2, <3>1 DEF Told, Typed
  <2>4. Typed'
    BY <2>1, <2>3 DEF Told, Typed
  <2>5. /\ EndsWith(log, to, exit, fault) /\ (exit = 1 /\ fault = "none" => ~ WellFormed)
        /\ exit = 0 => fault = "none"
    BY <2>1 DEF Told
  <2>6. /\ EndsWith(log, fds["--fd-status"], exit, fault)'
        /\ (exit = 1 /\ fault = "none" => ~ WellFormed)'
        /\ (exit = 0 => fault = "none")'
    BY <2>1, <2>5, SameLine
  <2>7. QED
    BY <1>1, <2>1, <2>4, <2>6 DEF Told
<1>17. CASE UNCHANGED vars
  <2>1. UNCHANGED <<argv, at, overrides, path, workers, fds, stage, log, exit, fault>>
    BY <1>17 DEF vars, config
  <2>2. /\ Said(at, path, fds, overrides)' <=> Said(at, path, fds, overrides)
        /\ AsksHelp' <=> AsksHelp
        /\ WellFormed' <=> WellFormed
        /\ EndsWith(log, fds["--fd-status"], exit, fault)'
           <=> EndsWith(log, fds["--fd-status"], exit, fault)
    BY <2>1, SameLine
  <2>3. Typed' /\ Defaults' = Defaults /\ (BeginsWith(log, to) <=> BeginsWith(log, to)')
    BY <2>1 DEF Told, Typed, Defaults, BeginsWith
  <2>4. QED
    BY <1>1, <2>1, <2>2, <2>3 DEF Told
<1>18. QED
  BY <1>3, <1>4, <1>5, <1>6, <1>7, <1>8, <1>9, <1>10, <1>11, <1>12, <1>13, <1>14,
     <1>15, <1>16, <1>17 DEF Next, Over, Refused

(* So it always holds.                                                     *)
LEMMA AlwaysTold == Spec => []Told
<1>1. Init => Told
  BY InitTold
<1>2. Told /\ [Next]_vars => Told'
  BY StepTold
<1>3. QED
  BY <1>1, <1>2, PTL DEF Spec
----------------------------------------------------------------------------
(* What it means                                                           *)

(* Every option has its type, whatever is written on the command line: no  *)
(* count of workers is zero, no text of digits makes a descriptor that is  *)
(* not an int, and the store of overrides stays within its limit.          *)
THEOREM TypeCorrect == Spec => []TypeOK
<1>1. Told => TypeOK
  <2> SUFFICES ASSUME Told PROVE TypeOK
    OBVIOUS
  <2>1. overrides \in Seq([key : Text, value : Text]) /\ live \in Nat
    BY LenProperties DEF Told, Accounted, Store
  <2>2. todo \in Seq({"half", "contents", "model", "overrides"})
    <3> DEFINE Call == {"half", "contents", "model", "overrides"}
    <3>1. /\ <<>> \in Seq(Call) /\ <<"overrides">> \in Seq(Call)
          /\ <<"half", "overrides">> \in Seq(Call) /\ <<"model", "overrides">> \in Seq(Call)
          /\ <<"contents", "model", "overrides">> \in Seq(Call)
      OBVIOUS
    <3> HIDE DEF Call
    <3>2. todo \in Seq(Call)
      BY <3>1 DEF Told, Accounted, Left
    <3>3. QED
      BY <3>2 DEF Call
  <2>3. QED
    BY <2>1, <2>2 DEF Told, Typed, Accounted, TypeOK
<1>2. QED
  BY <1>1, AlwaysTold, PTL

(* What is run is what the command line says as a whole, however many      *)
(* options it has and whatever they repeat.                                *)
THEOREM LineIsObeyed == Spec => []RunsAsTold
<1>1. Told => RunsAsTold
  <2>1. Told /\ stage \in {"load", "run"} => RunsAsTold
    BY LineIsRead
  <2>2. QED
    BY <2>1 DEF RunsAsTold
<1>2. QED
  BY <1>1, AlwaysTold, PTL

(* A file is looked for only if the command line is well formed, and main  *)
(* refuses no line that is.                                                *)
THEOREM RefusalIsExact == Spec => []RefusedExactly
<1>1. Told => RefusedExactly
  <2> SUFFICES ASSUME Told PROVE RefusedExactly
    OBVIOUS
  <2>1. stage \in {"load", "run"} => WellFormed /\ ~ AsksHelp
    BY LineIsRead
  <2>2. exit = 1 => stage \in {"leaving", "over"}
    BY DEF Told, Accounted, NoCode
  <2>3. exit = 1 /\ fault = "none" => ~ WellFormed
    BY <2>2 DEF Told
  <2>4. QED
    BY <2>1, <2>3 DEF RefusedExactly
<1>2. QED
  BY <1>1, AlwaysTold, PTL

(* The exit code and the events on --fd-status never disagree.             *)
THEOREM ExitAgrees == Spec => []ExitAsReported
<1>1. Told => ExitAsReported
  <2> SUFFICES ASSUME Told, stage = "over" PROVE ExitAsReported
    BY DEF ExitAsReported
  <2> DEFINE to == fds["--fd-status"]
             ok == Event("run.finished", "ok")
             error == Event("run.finished", "error")
             begun == Event("run.started", "none")
  <2>1. EndsWith(log, to, exit, fault) /\ (exit = 0 => fault = "none")
    BY DEF Told
  <2>2. begun = Began(to) /\ ok = Ended(to, "ok") /\ error = Ended(to, "error")
    BY Reporting
  <2> HIDE DEF ok, error, begun, to
  <2>3. IF to < 0 \/ fault \in {"memory", "missing"} \/ AsksHelp \/ ~ WellFormed
          THEN log = <<>>
          ELSE /\ exit = 0 => log = <<begun, ok>>
               /\ exit # 0 /\ fault = "load" => log = <<error>>
               /\ exit # 0 /\ fault # "load" => log = <<begun, error>>
    BY <2>1, <2>2 DEF EndsWith, Fit
  <2> DEFINE told == CASE exit = 0       -> <<begun, ok>>
                       [] fault = "load" -> <<error>>
                       [] OTHER          -> <<begun, error>>
  <2>4. /\ exit = 0 => told = <<begun, ok>>
        /\ exit # 0 /\ fault = "load" => told = <<error>>
        /\ exit # 0 /\ fault # "load" => told = <<begun, error>>
    BY <2>1
  <2> HIDE DEF told
  <2>5. IF to < 0 \/ fault \in {"memory", "missing"} \/ AsksHelp \/ ~ WellFormed
          THEN log = <<>> ELSE log = told
    BY <2>3, <2>4
  <2>6. QED
    BY <2>5 DEF ExitAsReported, told, to, begun, ok, error
<1>2. QED
  BY <1>1, AlwaysTold, PTL
=============================================================================

--------------------------------- MODULE Cli ---------------------------------
(***************************************************************************)
(* main (main.c): the arguments are read into a configuration and a store  *)
(* of overrides, the file is loaded and run, its beginning and its end are *)
(* reported to --fd-status.  Loading is Loader's, the run BranchRuntime's: *)
(* here they end in any way they may.                                      *)
(*                                                                         *)
(* An argument is a sequence of characters, with an option's name and each *)
(* prefix of a key one character.  Integers keep their width, of WordSize  *)
(* values for size_t and from -IntMax - 1 to IntMax for int.               *)
(***************************************************************************)
EXTENDS ParamStore, SequencesExt, FiniteSetsExt

CONSTANTS
  Char,       \* characters, the names and prefixes below among them
  Digit,      \* the value of each character that is a digit
  KeySize,    \* size of key[] in main
  WordSize, IntMax,
  Cores,      \* what sysconf may say
  Held,       \* how many strings a loaded model may own
  NoPath,     \* run_path is NULL
  Argvs       \* the arguments after the program's name

NoFd == -1

Text     == Seq(Char)
FdOption == {"--fd-in", "--fd-out", "--fd-status"}
Option   == FdOption \cup {"--run", "--set", "--workers"}
CInt    == -IntMax - 1..IntMax

ASSUME CliAssumption ==
  /\ DOMAIN Digit \subseteq Char /\ \A c \in DOMAIN Digit : Digit[c] \in 0..9
  /\ KeySize \in Nat \ {0} /\ WordSize \in Nat \ {0} /\ IntMax \in Nat \ {0}
  /\ Cores \subseteq 1..WordSize - 1 /\ Held \subseteq Nat
  /\ NoPath \notin Text /\ Argvs \subseteq Seq(Text)

VARIABLES
  argv, at,    \* the arguments, and the one read next
  overrides, path, workers, fds,   \* what the options said
  half,        \* strings of an override that is not yet in the store
  model, held, \* is the model allocated, and the strings it owns
  live,        \* strings allocated and not freed
  stage,       \* where main is
  todo,        \* the clean-up calls the return that was taken has left
  log,         \* the events of the run, with the descriptor they went to
  exit,        \* the exit code of the return that was taken, or NoCode
  fault        \* history: the failure of the environment that was met

config == <<overrides, path, workers, fds>>
heap   == <<half, model, held, live>>
vars   == <<argv, at, config, heap, stage, todo, log, exit, fault>>

NoCode == -1

Init ==
  /\ argv \in Argvs /\ at = 1
  /\ overrides = <<>> /\ path = NoPath /\ workers \in Cores
  /\ fds = [o \in FdOption |-> IF o = "--fd-out" THEN 1 ELSE NoFd]
  /\ half = 0 /\ model = FALSE /\ held = 0 /\ live = 0
  /\ stage = "start" /\ todo = <<>> /\ log = <<>> /\ exit = NoCode /\ fault = "none"

(* A return of main: the calls it makes to free what is there, and its     *)
(* exit code.                                                              *)
Return(calls, code) ==
  /\ stage' = "leaving" /\ todo' = calls /\ exit' = code
  /\ UNCHANGED <<argv, at, config, model>>

(* kc_flow_status_write_run_event, to a descriptor that is not negative.   *)
Event(name, status) == [fd |-> fds["--fd-status"], event |-> name, status |-> status]
Reported(name, status) ==
  IF fds["--fd-status"] < 0 THEN log ELSE Append(log, Event(name, status))

----------------------------------------------------------------------------
(* What an argument says                                                   *)

AsksHelp == argv = <<>> \/ \E k \in DOMAIN argv : argv[k] = <<"--help">>

IsNumber(text) == text # <<>> /\ \A k \in DOMAIN text : text[k] \in DOMAIN Digit
Number(text) ==
  LET value[k \in 0..Len(text)] == IF k = 0 THEN 0 ELSE 10 * value[k - 1] + Digit[text[k]]
  IN  value[Len(text)]

(* kc_flow_parse_workers computes in size_t, where 0 is refused.           *)
Count(text) == Number(text) % WordSize

(* kc_flow_parse_fd computes in int, where an overflow may yield anything. *)
Parsed(text) == IF Number(text) <= IntMax THEN {Number(text)} ELSE CInt

(* strchr: the text before the first '=', and the text after it.           *)
IsEquals(text, k) == text[k] = "=" /\ \A l \in 1..k - 1 : text[l] # "="
Equals(text)   == CHOOSE k \in DOMAIN text : IsEquals(text, k)
Assigned(text) == SubSeq(text, Equals(text) + 1, Len(text))

(* kc_flow_cli_override_key: one prefix is taken off.                      *)
FlowKey(text) ==
  LET key == SubSeq(text, 1, Equals(text) - 1)
  IN  IF key[1] \in {"flow.param.", "param."} THEN Tail(key) ELSE key

IsAssignment(text) ==
  (\E k \in DOMAIN text : IsEquals(text, k)) /\ Equals(text) - 1 \in 1..KeySize - 1

(* mistake: a count that wraps to zero passes *)
SaysUnwrapped(option, text) ==
  CASE option = "--run"     -> TRUE
    [] option = "--set"     -> IsAssignment(text)
    [] option = "--workers" -> IsNumber(text) /\ Number(text) # 0
    [] option \in FdOption  -> IsNumber(text)

(* Is text a value the option takes?                                       *)
Says(option, text) ==
  CASE option = "--run"     -> TRUE
    [] option = "--set"     -> IsAssignment(text)
    [] option = "--workers" -> IsNumber(text) /\ Count(text) # 0
    [] option \in FdOption  -> IsNumber(text)

----------------------------------------------------------------------------
(* The loop over the arguments.  The argument after an option is its value,*)
(* even if it is the name of an option.                                    *)

Help ==
  /\ stage = "start" /\ AsksHelp
  /\ stage' = "over" /\ exit' = 0
  /\ UNCHANGED <<argv, at, config, heap, todo, log, fault>>

NoHelp ==
  /\ stage = "start" /\ ~ AsksHelp
  /\ stage' = "options"
  /\ UNCHANGED <<argv, at, config, heap, todo, log, exit, fault>>

Given == argv[at + 1]

Taking(option) ==
  /\ stage = "options" /\ at + 1 \in DOMAIN argv
  /\ argv[at] = <<option>> /\ Says(option, Given)

Taken ==
  /\ at' = at + 2
  /\ UNCHANGED <<argv, half, model, held, stage, todo, log, exit, fault>>

SetRun ==
  /\ Taking("--run") /\ Taken
  /\ path' = Given
  /\ UNCHANGED <<overrides, workers, fds, live>>

(* kc_flow_overrides_add: a key and a value more, or a value replaced.     *)
SetOverride ==
  /\ Taking("--set") /\ Taken
  /\ HasRoom(overrides, FlowKey(Given))
  /\ overrides' = Put(overrides, FlowKey(Given), Assigned(Given))
  /\ live' = live + IF HasKey(overrides, FlowKey(Given)) THEN 0 ELSE 2
  /\ UNCHANGED <<path, workers, fds>>

SetWorkers ==
  /\ Taking("--workers") /\ Taken
  /\ workers' = Count(Given)
  /\ UNCHANGED <<overrides, path, fds, live>>

(* mistake: a descriptor that was given already stays *)
SetFdOnce(option) ==
  /\ Taking(option) /\ Taken
  /\ \E fd \in Parsed(Given) :
       fds' = [fds EXCEPT ![option] = IF @ \in {NoFd, 1} THEN fd ELSE @]
  /\ UNCHANGED <<overrides, path, workers, live>>

SetFd(option) ==
  /\ Taking(option) /\ Taken
  /\ \E fd \in Parsed(Given) : fds' = [fds EXCEPT ![option] = fd]
  /\ UNCHANGED <<overrides, path, workers, live>>

(* mistake: a full store takes no new value for a key it has *)
TooManyEarly == Taking("--set") /\ Len(overrides) = MaxOverrides

TooMany == Taking("--set") /\ ~ HasRoom(overrides, FlowKey(Given))

(* The option has no value, or none that it takes.                         *)
ValueRefused(option) ==
  /\ stage = "options" /\ at \in DOMAIN argv
  /\ argv[at] = <<option>> /\ ~ Taking(option)
  /\ Return(<<"overrides">>, 1)
  /\ UNCHANGED <<half, held, live, log, fault>>

OverrideRefused ==
  /\ TooMany
  /\ Return(<<"overrides">>, 1)
  /\ UNCHANGED <<half, held, live, log, fault>>

(* strdup of the key or of the value failed, the other may have not.       *)
OverrideFails ==
  /\ Taking("--set") /\ ~ TooMany
  /\ \E got \in IF HasKey(overrides, FlowKey(Given)) THEN {0} ELSE {0, 1} :
       half' = got /\ live' = live + got
  /\ fault' = "memory"
  /\ Return(<<"half", "overrides">>, 1)
  /\ UNCHANGED <<held, log>>

Unknown ==
  /\ stage = "options" /\ at \in DOMAIN argv
  /\ \A option \in Option : argv[at] # <<option>>
  /\ Return(<<"overrides">>, 1)
  /\ UNCHANGED <<half, held, live, log, fault>>

Read == stage = "options" /\ at \notin DOMAIN argv

MissingRun ==
  /\ Read /\ path = NoPath
  /\ Return(<<"overrides">>, 1)
  /\ UNCHANGED <<half, held, live, log, fault>>

----------------------------------------------------------------------------
(* The run                                                                 *)

NewModel ==
  /\ Read /\ path # NoPath
  /\ model' = TRUE /\ stage' = "load"
  /\ UNCHANGED <<argv, at, config, half, held, live, todo, log, exit, fault>>

NoModel ==
  /\ Read /\ path # NoPath
  /\ fault' = "memory"
  /\ Return(<<"overrides">>, 1)
  /\ UNCHANGED <<half, held, live, log>>

(* mistake: the model is not freed, which is still empty *)
NotFoundKeepingModel ==
  /\ stage = "load"
  /\ fault' = "missing"
  /\ Return(<<"overrides">>, 1)
  /\ UNCHANGED <<half, held, live, log>>

(* kc_flow_file_exists said no: nothing is reported.                       *)
NotFound ==
  /\ stage = "load"
  /\ fault' = "missing"
  /\ Return(<<"model", "overrides">>, 1)
  /\ UNCHANGED <<half, held, live, log>>

(* The load leaves n strings in the model: none if it failed at a record,  *)
(* but those of the whole file if validation rejected it.                  *)
Loading(n) ==
  /\ stage = "load"
  /\ held' = n /\ live' = live + n
  /\ UNCHANGED half

(* kc_flow_load_file failed: the end of a run is reported that never began.*)
LoadFails ==
  /\ \E n \in Held \cup {0} : Loading(n)
  /\ log' = Reported("run.finished", "error")
  /\ fault' = "load"
  /\ Return(<<"contents", "model", "overrides">>, 1)

(* mistake: the run begins unreported *)
LoadedSilently ==
  /\ \E n \in Held : Loading(n)
  /\ stage' = "run"
  /\ UNCHANGED <<argv, at, config, model, todo, log, exit, fault>>

Loaded ==
  /\ \E n \in Held : Loading(n)
  /\ log' = Reported("run.started", "none")
  /\ stage' = "run"
  /\ UNCHANGED <<argv, at, config, model, todo, exit, fault>>

RunEnds(status) ==
  /\ stage = "run"
  /\ log' = Reported("run.finished", status)
  /\ fault' = IF status = "ok" THEN "none" ELSE "run"
  /\ Return(<<"contents", "model", "overrides">>, IF status = "ok" THEN 0 ELSE 1)
  /\ UNCHANGED <<half, held, live>>

----------------------------------------------------------------------------
(* The clean-up calls, in the order the return makes them                  *)

Freeing(call) ==
  /\ stage = "leaving" /\ todo # <<>> /\ Head(todo) = call
  /\ todo' = Tail(todo)
  /\ UNCHANGED <<argv, at, path, workers, fds, stage, log, exit, fault>>

(* In kc_flow_overrides_add, of an override that lacks a string.           *)
FreeHalf ==
  /\ Freeing("half")
  /\ live' = live - half /\ half' = 0
  /\ UNCHANGED <<overrides, model, held>>

(* kc_flow_model_free                                                      *)
FreeContents ==
  /\ Freeing("contents")
  /\ live' = live - held /\ held' = 0
  /\ UNCHANGED <<overrides, half, model>>

(* free(model): strings it still owns are lost.                            *)
FreeModel ==
  /\ Freeing("model")
  /\ model' = FALSE /\ held' = 0
  /\ UNCHANGED <<overrides, half, live>>

(* kc_flow_overrides_free                                                  *)
FreeOverrides ==
  /\ Freeing("overrides")
  /\ live' = live - 2 * Len(overrides) /\ overrides' = <<>>
  /\ UNCHANGED <<half, model, held>>

Ends ==
  /\ stage = "leaving" /\ todo = <<>>
  /\ stage' = "over"
  /\ UNCHANGED <<argv, at, config, heap, todo, log, exit, fault>>

Over == stage = "over" /\ UNCHANGED vars

Next ==
  \/ Help \/ NoHelp
  \/ SetRun \/ SetOverride \/ SetWorkers \/ \E option \in FdOption : SetFd(option)
  \/ \E option \in Option : ValueRefused(option)
  \/ OverrideRefused \/ OverrideFails \/ Unknown \/ MissingRun
  \/ NewModel \/ NoModel \/ NotFound \/ LoadFails \/ Loaded
  \/ \E status \in {"ok", "error"} : RunEnds(status)
  \/ FreeHalf \/ FreeContents \/ FreeModel \/ FreeOverrides \/ Ends
  \/ Over

Spec == Init /\ [][Next]_vars

----------------------------------------------------------------------------
(* Properties.  The meaning of a command line is stated on all of it.      *)

(* Every option is followed by its value, so that an accepted command line *)
(* has its options at the odd places.                                      *)
Places(option)   == {k \in DOMAIN argv : k % 2 = 1 /\ argv[k] = <<option>>}
ValueAt(k)       == argv[k + 1]
LastPlace(option) == Max(Places(option))

(* Each argument is a known option or the value of one.                    *)
WellFormed ==
  /\ Len(argv) % 2 = 0
  /\ \A k \in DOMAIN argv :
       k % 2 = 1 => \E o \in Option : argv[k] = <<o>> /\ Says(o, ValueAt(k))
  /\ Places("--run") # {}
  /\ Cardinality({FlowKey(ValueAt(k)) : k \in Places("--set")}) <= MaxOverrides

(* The value a key is given last, and the place it is given first.         *)
Setting(key)    == {k \in Places("--set") : FlowKey(ValueAt(k)) = key}
InFirstOrder(store) ==
  \A k, l \in DOMAIN store :
    k < l => Min(Setting(store[k].key)) < Min(Setting(store[l].key))

(* The options have their types: a count of workers is never zero, though  *)
(* a large one wraps, and the store of overrides stays within its limit.   *)
TypeOK ==
  /\ argv \in Seq(Text) /\ at \in Nat \ {0}
  /\ overrides \in Seq([key : Text, value : Text]) /\ Len(overrides) <= MaxOverrides
  /\ path \in Text \cup {NoPath} /\ workers \in 1..WordSize - 1
  /\ fds \in [FdOption -> CInt]
  /\ half \in Nat /\ model \in BOOLEAN /\ held \in Nat /\ live \in Nat
  /\ stage \in {"start", "options", "load", "run", "leaving", "over"}
  /\ todo \in Seq({"half", "contents", "model", "overrides"})
  /\ exit \in {NoCode, 0, 1}
  /\ fault \in {"none", "memory", "missing", "load", "run"}

(* What is run is what the command line says as a whole: the file last     *)
(* named, each descriptor last given if it fits an int, and each override  *)
(* in the place its key has first with the value it has last, whatever     *)
(* prefixes it comes with; an option that is not given has its default.    *)
RunsAsTold ==
  stage \in {"load", "run"} =>
    /\ path = ValueAt(LastPlace("--run"))
    /\ Keys(overrides) = {FlowKey(ValueAt(k)) : k \in Places("--set")}
    /\ Len(overrides) = Cardinality(Keys(overrides)) /\ InFirstOrder(overrides)
    /\ \A k \in DOMAIN overrides :
         overrides[k].value = Assigned(ValueAt(Max(Setting(overrides[k].key))))
    /\ \A o \in FdOption :
         IF Places(o) = {} THEN fds[o] = IF o = "--fd-out" THEN 1 ELSE NoFd
         ELSE LET text == ValueAt(LastPlace(o))
              IN  Number(text) <= IntMax => fds[o] = Number(text)

(* The file is only looked for when the command line is well formed, and   *)
(* always then, unless memory runs out; --help runs nothing.               *)
RefusedExactly ==
  /\ stage \in {"load", "run"} => WellFormed /\ ~ AsksHelp
  /\ exit = 1 /\ fault = "none" => ~ WellFormed

(* The exit code and the events agree: a run that began is reported to have*)
(* begun and then ended, with "ok" exactly if the exit code is 0; one that *)
(* was not loaded only ended, and a command that reports nothing either was*)
(* given no descriptor for it or never tried to load a file.               *)
ExitAsReported ==
  LET to    == fds["--fd-status"]
      error == Event("run.finished", "error")
      begun == Event("run.started", "none")
  IN  stage = "over" =>
        IF to < 0 \/ fault \in {"memory", "missing"} \/ AsksHelp \/ ~ WellFormed
          THEN log = <<>>
          ELSE log = CASE exit = 0        -> <<begun, Event("run.finished", "ok")>>
                       [] fault = "load"  -> <<error>>
                       [] OTHER           -> <<begun, error>>

(* Whichever return main takes, and wherever memory ran out before it, the *)
(* calls made there free every string and the model, so that nothing is    *)
(* left when main is over; and no call is made on a model that is not there*)
(* or was freed, nor is the model freed before the strings in it.          *)
NothingKept ==
  /\ stage = "over" => live = 0 /\ ~ model
  /\ todo # <<>> /\ Head(todo) \in {"contents", "model"} => model
=============================================================================

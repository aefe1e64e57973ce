# Verification of kc-flow

kc-flow runs flow files: a flow has entry links to nodes, a node may expand a
child flow (`file`), run a command (`exec`) and open further branches (`link`).
A branch is a file descriptor that travels through nodes. This directory holds
a TLA+ model of that engine and of what surrounds it: command line, loading,
validation, parameters, status events and the output. It has the configurations
TLC checks it with and theorems TLAPS proves about it.

Source paths below are those of the C files, `src/src/*.c`.

## 1. Inventory

| Component | State | Operations | Correct when |
| --- | --- | --- | --- |
| Branch engine (`runtime.c`, `node.c`) | the C call stack; per activation the lists `active`, `next`/`produced`, `outputs` | `run_model`, `run_node`, `run_node_file`, `run_child_flow`, `run_node_execs`, `run_node_links`, the `fd_list` helpers | a run writes the branches the files describe, in order; each descriptor is owned by one list; failures stop the run, spare what is not theirs and leak nothing |
| Descriptors (`artifact.c`, `compat-fd.c`) | the process's descriptor table, offsets of open files | dup and rewind, create, release, copy | numbers handed out again never confuse two branches; shared offsets do not show |
| Loader (`load.c`, `model.c`) | the model being filled, heap strings, the caller's message buffer | record loop, `ensure_node`, `overrides_add`, `strings_add`, `model_free` | what is loaded is what the file says; limits are exact; each string is freed once; a failure has a message |
| Validation (`validate.c`) | `seen[]`, `stack[]`, the recursion | `validate_model`, `validate_node_walk` | accepts exactly the files whose reachable graph is declared and acyclic; ends |
| Scopes and templates (`validate.c`, merges in `runtime.c`, `node.c`) | parameter stores per flow and node | `collect_node_params`, `resolve_template`, merge | a reference resolves to the nearest value of its scope |
| Status events (`event.c`) | none | encode one line, write it | events nest like the calls; a line can be parsed back, and is written whole or not at all |
| Command execution (`process.c`, `compat-process.c`) | none | resolve, fork, export the environment, wait | the command is told of the right descriptors and its result is what is reported |
| Command line (`main.c`) | `cfg`, overrides | parse arguments, load, run, report | what runs is what the command line says; exit code and events agree; numbers are what the text says; all is freed |
| Reference-counted artifacts (`artifact.c:110-237`) | a store nobody creates | store, consume, clean up | unused: no caller, no declaration in `flow.h` |

How they interact: `main` loads and validates the file, writes `run.started`,
calls `run_model` and writes `run.finished`. `run_model` and `run_node` call
each other's loops recursively; `run_child_flow` calls the loader (and so the
validation) again for every active branch of a node with `file`. All share one
descriptor table with the commands, which inherit it by `fork`. There are no
threads and no callbacks: `--workers` is parsed and never read.

What is hard here is therefore not interleaving but

- **partial failure**: every call of a loop inside loops can fail, and each
  level frees its own lists, some of which still name descriptors that were
  released or handed on (`node.c:293`, `runtime.c:62`, `runtime.c:166`);
- **stale names**: descriptor numbers are reused lowest first, so a stale number
  is soon somebody else's (`runtime.c:180`), and `dup` shares its offset
  (`artifact.c:95`);
- **limits**: lists, stores and the descriptor table are bounded, and are full
  in the middle of an operation;
- **long sequences of legal steps**: expansions inside expansions, diamonds,
  repeated entries, records of a file in any order;
- **recursion that must end**: links are checked for cycles, `file` is not;
- **bytes**: reads and writes are short or fail part way, events and output may
  share a stream, and a line has to be parsed back whatever it quotes;
- **names**: parameters pass through stores, templates and an environment that
  fold and cut their names, and a value may look like a template.

`PROJECT.json` lists 40 such hazards at their lines, with the properties that
would catch each; two have none, with the reason.

## 2. Modules

| Module | Models | Extends |
| --- | --- | --- |
| `DescriptorTable` | the kernel's table: numbers to open files, lowest number first | |
| `BranchRuntime` | the branch engine; the central module | `DescriptorTable` |
| `FlowBranches` | what a flow means, by recursion on the files: the reference for the engine's output and its failures | `BranchRuntime` |
| `Supervision` | a run as the program that started it may rely on it: events and output, no descriptors; abstract; and which nodes the events alone say are open | |
| `SupervisedRun` | the refinement mapping from `BranchRuntime` to `Supervision` | `BranchRuntime` |
| `FlowGraph` | a file as validation sees it; reachability, acyclicity and `Sound`, without walking | |
| `Validate` | the depth-first walk of `validate.c` | `FlowGraph` |
| `ParamStore` | `kc_flow_overrides`: an ordered store with a limit | |
| `Loader` | `load.c` over the stores of `model.c`, and its callers' clean-up; validation is its contract `Sound` | `FlowGraph`, `ParamStore` |
| `Scope` | parameters from `--set` and the files to a command's text and environment | `ParamStore` |
| `ScopeMeaning` | what a placeholder means, by recursion on the path of files: the reference for `Scope` | `Scope` |
| `StatusLine` | an event as a line of a buffer, or dropped | |
| `Output` | the bytes of events and branches, read and written in parts that may fail | `StatusLine` |
| `Received` | the streams as their readers parse them: the reference for `Output` | `Output` |
| `Cli` | `main`: options, outcomes, events, exit code, clean-up | `ParamStore` |
| `MCBranchRuntime`, `MCValidate`, `MCLoader`, `MCScope`, `MCOutput`, `MCCli` | the instances TLC checks | |
| `SequenceFacts` | lemmas on prefixes, beginnings, parts, pieces and concatenations of sequences, least and greatest numbers, and functions defined by recursion | |
| `BranchRuntimeProof` | theorems on `BranchRuntime`: who owns which descriptor, the refinement of `Supervision`, that it writes what `FlowBranches` says a flow means, and when a run fails | `SupervisedRun`, `FlowBranches` |
| `SupervisionProof`, `ValidateProof`, `LoaderProof`, `ScopeProof`, `OutputProof`, `CliProof` | theorems on the modules they are named after; `ScopeProof` also on `ScopeMeaning`, `OutputProof` on `Received` | |

The composition is by contract. `Loader` ends with `Sound`; `Validate` shows that
the walk decides `Sound`; `BranchRuntime` assumes of its programs
(`ValidProgram`) what `Sound` gives per file, and nothing across files. `Cli`
lets a load and a run end in every way `Loader` and `BranchRuntime` can end.
`Scope` and `BranchRuntime` divide `run_node` between them: which node runs on
which branch, and with which parameters; neither choice depends on the other
but through failure, which each has as a step (`ParamsFail`, `RunParamsFail`,
`ChildFails`; `CommandFails`). `Output` takes the events and branches that
`BranchRuntime` produces as data and follows their bytes. What joins them is
`Supervision`: the order of events and output that `BranchRuntime` implements is
the order in which `Output` delivers them.

Operators whose comment starts with *mistake* are slips the properties are
tested against (an off-by-one, a missing reset, a release left out). No
specification uses them; each property fails when one of them replaces the
definition it follows.

### BranchRuntime

A frame of `stack` is one activation of `run_node` together with the loop it is
in; the four static functions it calls have no other state than the loop
counters `i`, `j` and the list `next`. The bottom frame is `run_model`.

| Frame field | Code |
| --- | --- |
| `stage` | which part of `run_node` (file, exec, links) or `run_model` (entries, flush) is running; `ok` and `err` are the returns |
| `arg` | `input_fd`, the caller's `branch_fd` |
| `active` | `active` |
| `next` | `next` in `run_node_file` and `run_node_execs`, `produced` in `run_node_links`, `outputs` in `run_model` |
| `i`, `j` | loop over `active` (or over the outputs in the flush); loop over entry links or links |

A step is the code between two calls that can fail or be seen from outside: a
duplicate and the call it is for (`CallBranch`), a command with its artifact and
the release of its input (`ExecBranch`), a return with the frees on its way
(`FinishErr`). Error paths are `Fail`: the loop's list is freed, then the
frame's own `active` when it returns, exactly as far as the code does it.
Lists keep stale entries where the code keeps them, so the double releases of
the code are in the model.

`fdt` maps descriptor numbers to open files, and `files` holds per open file what
was written (as the trail of nodes whose commands it went through) and whether
the offset is at the end. `log` and `flushed` are what a supervisor sees: the
status events and the output.

A command copies its input and adds a mark of its node. That is one
command out of many, and it is the one that shows which branch it was given
and in what state.

### Validate

`walk` is the C recursion, a sequence of activations with their loop counters;
`seen` and `onstack` are the two byte arrays. `clock` and `finished` are
history: in which order the activations returned.

### Loader

A line is the record it says. `live` counts heap strings, changed by exactly the
allocations and frees of each operation; `Owned(model)` is what
`kc_flow_model_free` would free. `error` says what the caller's buffer holds:
nothing, a text, or a text formatted from a freed line. After the load, either
`main` or `run_child_flow` cleans up.

A `strdup` may fail wherever there is one, and leaves what the code leaves there:
the string to be replaced is freed already (`NoString`, `NoNodeString`), a node is
counted before it has its reference, and of a new key and its value one may have
been copied. That one is in no store; `half` counts it until `overrides_add`
frees it (`FreeHalf`). Only then does `kc_flow_model_free` free the rest
(`FreeLoaded`), one pointer at a time and a null one never. In between the load is
`failing`.

A read error (`ReadFails`) is the end of the file if nothing of the line has been
read, and otherwise the end of the line: the record is then what has been read of
it, less of its value or none of its key (`Cut`), and the next call ends the loop or
reads on in the middle of the line (`Behind`). `file` is from there on what was read
of the file. One error is enough: a second would only cut it again.

### Supervision and SupervisedRun

`Supervision` has a bracket of open nodes, a phase, the log and the written
branches. `SupervisedRun` computes the bracket from the call stack (`Started`: the
nodes of the frames past `node.started`) and the phase from the stage of the top
frame (`Phase`: unwinding is `failing`, the flush is `writing`). An instance of
`Supervision` under this mapping is the property `ImplementsSupervision`; steps on
descriptors and lists map to stutters.

### Scope

`callers`, `file`, `flow`, `node` and `params` are the activations of `run_node`
that expand a file, with the two stores each has; `stage` and `i` are the loop
that is running, and `job` holds the locals of `resolve_template`, with the
capacity of its buffer. Every literal, expansion and growth is a step. `told` is
the environment and the text a command was given last. A string is a sequence of
characters; the prefixes `flow.param.` and `node.param.` are one character each.

### StatusLine, Output and Received

`Line` builds an event piece by piece as `event.c` does, each piece checked
against the size of the buffer. `Output` has the buffer of whoever calls
`write_all` and how much of it is `sent`; a write moves any number of bytes, a
read any number up to the size of the buffer, and each may fail. An interrupted
call is repeated by the code, which is no step. `--fd-out` and `--fd-status` lead
to the same sink, to two, or nowhere.

### Cli

`at` is the loop variable of `main`; each option is an action. A `size_t` count is
computed modulo `WordSize`; an `int` that overflows may become any.

Each way to leave has an action of its own, `ValueRefused` (one for each option) to
`RunEnds`, which says in `todo` the clean-up calls that stand before its `return`, in
their order. The calls are actions too: `FreeHalf` in `overrides_add`, `FreeContents` for
`kc_flow_model_free`, `FreeModel` for `free(model)` and `FreeOverrides`. A call frees what
its argument holds when it is made, so a return that lacks one, or has two of them in
the wrong order, leaves something in `live` or `model`. Those say what is allocated,
by the allocations made; `overrides`, `half` and `held` what the program can still
reach. An override that could not be stored has left one of its two strings or
none. A load leaves in the model the strings of a whole file (`Held`), or none.

## 3. Runs

| Run | Question | Result |
| --- | --- | --- |
| `Nominal.cfg` | does the engine compute what the files mean, without losing or sharing a descriptor? | holds, 180 thousand states |
| `Failures.cfg` | what survives when anything fails at any point, with few descriptors and odd inputs? | holds, 96 thousand states |
| `Ends.cfg` | does every run end? | holds |
| `Validation.cfg` | is the verdict right for every small graph, and does validation end? | holds, 87 thousand states |
| `Loading.cfg` | is the loaded model the file, are limits exact, is memory owned once? | holds, 4.3 million states |
| `Scoping.cfg` | do a command's text and environment mean what the files and options say? | holds, 280 thousand states |
| `Output.cfg` | does a reader get back the events and branches, however they are cut? | holds, 288 thousand states |
| `CommandLine.cfg` | does what runs, what is reported and the exit code follow from the command line? | holds, 498 thousand states |
| `ExecInput.cfg` | does `exec` after `file` find its branch? | no |
| `DoubleClose.cfg` | is only what is open released? | no |
| `FileCycle.cfg` | are cycles impossible at run time? | no |
| `LoadErrors.cfg` | does a failed load leave a message? | no |

What the passing runs show:

- `OutputIsFlowBranches`: the output is the sequence of terminal branches that
  `FlowBranches!Walk` computes from the files alone, with each branch's trail.
- `FailsExactlyAtLimit`: without failures a run fails exactly when there are
  more terminal branches than `KC_FLOW_MAX_BRANCHES`.
- `ListsFit`: no branch list outgrows its array. Four appends of `run_node` have a
  failing outcome in the code and none in the model (`node.c:134`, 142, 185 and
  275: a list that was just emptied, or that takes one entry for each of a list
  that fits); this property is why they cannot fail.
- `EachBranchOwnedOnce`, `BranchesIndependent`: until something fails, open
  descriptors and list entries correspond one to one, and two collected
  branches never share an open file.
- `UnwindSparesCallers`, `NoForeignClose`, `ExitReleasesAll`: while lists with
  stale entries are freed, no unconsumed branch of a caller and no descriptor
  of the environment is closed, and at the end nothing is left open. The last
  is claimed of failing runs without `--fd-in` only: `run_model` returns early
  when it cannot duplicate the input (`runtime.c:166`) and leaves its outputs,
  which the model does too.
- `FailStop`, `EventsFollowCalls`, `FinishedIsLast`: no node is started and
  nothing is written after a node has failed; the nodes started and not
  finished are at every point the ones on the call stack.
- `VerdictIsRight`, `WalkIsPath`, `AcceptedIsRunnable`: the walk decides `Sound`,
  what it reports is a fault the file has, its recursion is a simple path, and
  accepted files have a rank that decreases along links.
- `LoadedIsTheFile`, `AcceptsExactly`: whatever the order and repetition of records. A
  read error ends the loop like the end of the file or cuts a record
  (`load.c:97`), so for such loads nothing is claimed about the content.
- `StringsOwnedOnce`: at each record, and at each step of a load that fails in the
  middle of one. The exception is a child flow that validation rejects, which
  nobody frees (`node.c:52`).

- `ImplementsSupervision`: on every path, failing ones included, the events
  nest along entries and links, the output follows the last node and
  `run.finished` says how it ended. `FailStop` is the abstract property, read
  through the same mapping.
- `ResolvesAsMeant`, `EnvironmentIsOwn`: text and environment of every command are
  what `ScopeMeaning` computes without stores, buffers or an order of merging.
  Of two keys with one variable name either may be seen; nothing of another
  node or flow is, and what kc-flow inherited shows where nothing is exported.
- `BufferFits`, `LimitIsExact`: the growing buffer always has room for the
  terminator, and a flow is refused for its parameters exactly if their keys
  are more than `KC_FLOW_MAX_OVERRIDES`.
- `CopyIsExact`, `BranchIsWhole`: at every byte of the copy.
- `StatusReadsBack`, `DamageIsLocal`: without write errors a supervisor reads back
  each event as it was, save those too long for a line, which are missing;
  an event whose write failed spoils at most the one after it, since nobody
  looks at the result of an emit.
- `DeliveredInOrder`: also when `--fd-out` and `--fd-status` are one place, what
  arrives is the events, the branches up to a failure, and `run.finished`,
  which says `ok` only if all branches arrived.
- `RunsAsTold`, `RefusedExactly`: stated on the command line as a whole, by the
  last and first places of its options. Numbers that do not fit an `int` are
  exempt: the overflow is undefined.
- `ExitAsReported`: with a file that cannot be loaded, `run.finished` comes without
  `run.started` (`main.c:271`); with one that is not there, nothing comes
  (`main.c:265`).
- `NothingKept`: the calls of each return of `main` free all that was allocated before
  it, and none is made on a model that is not there or is freed already.

### Findings

The four violated properties are statements of the repository:

1. **Input of `exec` after `file`** (`node.c:134`). README.md:60-61 has `exec`
   applied to every branch of the expansion. The descriptor it gets is at its
   end, since only a duplicate is rewound; the command reads nothing.
   `FlowBranches!Walk` describes the code here, so that `OutputIsFlowBranches`
   holds.
2. **Releases of what is not open** (`node.c:293`, also 97 and 236). Harmless in
   this single-threaded program by `UnwindSparesCallers` and `NoForeignClose`,
   but not what `runtime.c:26` ("Owned list") and `artifact.c:64` say.
3. **Cycles over files** (`node.c:178`). README.md:67: "Cycles are invalid and fail
   validation." A file that includes itself passes and recurses without end.
4. **Messages of failed loads** (`load.c:242`, 292 and 190-201). A malformed record
   quotes a freed line; a 257th link or parameter of a node leaves the buffer
   as it was, which in `main` is uninitialised.

All four were reproduced with the program built from these sources.

### Bounds

- *Flows*: five nodes in three files (`MCBranchRuntime`), every combination of
  one or two entries, repeated entries, no, one or two links, `file` in three
  nodes and `exec` anywhere. That has sequences, fan-out before and after an
  expansion, expansions in expansions, and more terminal branches than fit.
- `MaxBranches` 4 (nominal) and 2 (failures): overflow happens in the
  final list as well as in `next` and `produced`. The code's 1024 is reached the
  same way.
- `Fds` 17 numbers (nominal: never exhausted) and 7 (failures: exhausted at
  every depth).
- *Circumstances* (`Cfgs`): no input, a regular file, a pipe that cannot be
  rewound, an `--fd-in` that is not open, and a table that is full at the start.
- *Graphs*: three references, up to two links each, declared or not: self-loops,
  cycles of two and three, reached or not, diamonds.
- *Files to load*: up to three records after a head that makes the file nearly
  complete, or any three parameters of the flow and of a node in a file that is
  complete, with limits of two nodes, two links and two parameters. There are
  three names of parameters, so that a store has an order, is full, and is given a
  key it has or one too many. One read error a load.
- *Scopes*: a main file and a child, two parameters per store with repeated and
  shared keys, values and commands that are plain, placeholders of either scope,
  nested, unclosed, too long or unknown, a default that looks like a placeholder,
  and an environment that already has variables of kc-flow. A known key
  that is too long for a placeholder, and three that share one variable name,
  meet the limits of both.
- *Output*: lines of 32 characters, so that events fit, fit exactly but for one
  byte, or do not; a copy buffer of two bytes and branches of up to three;
  four of the six escaped characters (`\r` and `\t` are treated like `\n`), and the
  pairs of backslash and letter that could be confused. Sinks are interchangeable, so the run uses their symmetry; no
  property or action names one.
- *Command lines*: three options with every kind of value, cut at the end or
  not, four overrides against a store of two, `size_t` of 64 values and `int` of
  16: a count wraps to zero and a descriptor overflows. A loaded model owns three
  strings: how many is `Loader`'s, here they only have to be freed.

No state constraint cuts off behaviours; every run explores all of its
instance.

### Fairness

`Ends.cfg` and `Validation.cfg` use weak fairness of the whole next-state
relation: the process keeps taking steps. One thread runs, and the only thing it
waits for is a command (`waitpid`, `compat-process.c:182`) and its own reads and
writes. That commands return is an assumption: kc-flow has no timeout, and a
command that hangs hangs the run. No choice between actions is assumed fair.

Deadlock is checked in all runs; a run that is over stutters (`Exited`, `Done`,
`Over`).

## 4. Theorems

Checked by TLAPS for every value of the constants, from the assumptions on them
(`FdsAssumption`, `RuntimeAssumption`, `RefAssumption`, `ModelsAssumption`, `StoreAssumption`,
`ScopeAssumption`, `LineAssumption`, `OutputAssumption`, `CliAssumption`), which
TLC evaluates on the instances.

| Theorem | Module | States |
| --- | --- | --- |
| `TypeCorrect` | `BranchRuntimeProof` | every list of every frame holds own descriptors or none |
| `CallsNest` | `BranchRuntimeProof` | the stack is a chain of pending calls |
| `ForeignDescriptorsSurvive` | `BranchRuntimeProof` | stdio, `--fd-in` and `--fd-out` stay open on the same files |
| `Implements` | `BranchRuntimeProof` | the engine implements `Supervision`, for every flow and failure |
| `FailureIsFinal`, `FailuresStopTheRun` | `SupervisionProof`, `BranchRuntimeProof` | after a failed node only failures are reported and nothing is written: in the abstract, and of the engine by refinement |
| `BracketIsInTheLog`, `EventsTellCalls` | `SupervisionProof`, `BranchRuntimeProof` | the nodes that the events have opened and not closed are the ones being run |
| `LastEventIsTheRun`, `TheRunFinishesLast` | `SupervisionProof`, `BranchRuntimeProof` | `run.finished` is the last event and no node is open then |
| `BranchesHaveOneOwner` | `BranchRuntimeProof` | until a failure, open descriptors and list entries correspond one to one |
| `BranchesStayIndependent` | `BranchRuntimeProof` | two collected branches share no open file |
| `UnwindingIsSafe` | `BranchRuntimeProof` | freeing stale lists closes nothing a caller has yet to process |
| `NothingLeaks` | `BranchRuntimeProof` | at the end all is closed, on the paths where the code does so |
| `ListsFitTheirArrays` | `BranchRuntimeProof` | no list has more than `KC_FLOW_MAX_BRANCHES` entries |
| `OutputIsTheFlow` | `BranchRuntimeProof` | a run that succeeds has written the branches the flow files describe, in their order |
| `OnlyTheLimitFails` | `BranchRuntimeProof` | while the environment does not fail, a run fails exactly if its flow has more terminal branches than `KC_FLOW_MAX_BRANCHES` |
| `TypeCorrect` | `ValidateProof` | only declared nodes are marked |
| `WalkStaysAPath` | `ValidateProof` | the activations are a simple path from an entry |
| `AcceptedIsSound` | `ValidateProof` | accepted files are closed, declared and ranked |
| `VerdictIsExact` | `ValidateProof` | a file is accepted exactly if it is `Sound`, and the fault that is reported is there |
| `TypeCorrect` | `LoaderProof` | no store runs over its array, for files of any length |
| `LoadedModelIsTheFile` | `LoaderProof` | what is loaded is what the records describe, in whatever order they come |
| `AcceptanceIsExact` | `LoaderProof` | while memory lasts, a file is accepted exactly if its records are known, no limit is exceeded and its graph is sound |
| `StringsHaveOneOwner` | `LoaderProof` | the live heap strings are those the model owns and those a failing record still has to free, on every path but the one where nobody frees a rejected child |
| `TypeCorrect` | `ScopeProof` | stores and buffers hold strings |
| `NoOverrun` | `ScopeProof` | the buffer of `resolve_template` has room for the text and its terminator |
| `RefusedExactlyAtLimit` | `ScopeProof` | a flow is refused for its parameters exactly at the limit |
| `CommandsAreMeant` | `ScopeProof` | a command is its node's text in the scopes `ScopeMeaning` gives the node; a run stops for a placeholder only if one means nothing |
| `EnvironmentsAreOwn` | `ScopeProof` | the exported variables show parameters of the command's own node and flow, the others are inherited |
| `TypeCorrect` | `OutputProof` | a write is pending only where there is a descriptor |
| `CopyCorrect` | `OutputProof` | the output holds the bytes of the branch up to where the copy is |
| `BranchesAreWhole` | `OutputProof` | a branch is left only when all of it has arrived |
| `ReadersGetAllInOrder` | `OutputProof` | what arrives at each place are the events, the branches up to a failure and `run.finished`, in this order |
| `TypeCorrect` | `CliProof` | every option has its type, whatever its digits; overrides stay within their limit |
| `LineIsObeyed` | `CliProof` | what is run is what the command line says as a whole |
| `RefusalIsExact` | `CliProof` | no file is looked for unless the line is well formed, and no well-formed line is refused while memory lasts |
| `ExitAgrees` | `CliProof` | exit code and events on `--fd-status` agree |
| `EverythingFreed` | `CliProof` | the clean-up calls of every return of `main` free the overrides, a half-made one, the model and its strings |

*BranchRuntime.* The inductive invariant is `TypeOK /\ StackIsCallChain /\
NoForeignClose`. None of the three is inductive alone. A list holds own
descriptors (`TypeOK`) because `dup` and `mkstemp` never return a foreign number,
which is so because those stay open (`NoForeignClose`); they stay open because
releases take numbers from lists; and a failing call has a frame to return to
because the stack is a chain with `run_model` at its bottom. The proof has one
lemma per action or group of actions that change the stack alike (`Fail`,
`Append`, the loop counters), each with the three parts separately.

*Ownership.* What a frame relies on is not what its list says: after a failure
lists name numbers that were closed and handed out again. The invariant is
therefore in two parts. While nothing has failed (`Running`), every entry that a
loop has not consumed is open, no number is held twice in the whole stack, every
open number is held, and what has been collected shares no open file with
anything. While a failure unwinds (`Failing`), only what the callers have not
consumed is open and apart; the proof then has to show that the numbers a frame
still frees are not among them. They are not, because a frame can only name
numbers it was given or made after its callers' lists were as they are now
(`FrameOK`: what `exec` has collected is no longer than what it consumed, and a
failed activation of `run_node` has freed its `next`), and that has to hold
before the failure for it to hold after. `Over` says what is open when the stack
is gone: `run_model` may only return early with an empty list of outputs or an
input to duplicate.

*Output of a flow.* `FlowBranches!Walk` says by recursion what one branch becomes
at each node. Its first lemmas are about the recursion itself: a table that
satisfies the equations exists and is unique (`WalkExists`, `WalkUnfolds`). They
go by the least depth at which it would not, since the induction theorems of the
library cannot be used, and rest on `Nested`: there is a depth that decreases along
links and into files. `OutputIsTheFlow` has that, and that there are finitely many
nodes, as hypotheses. Validation sees to the links (`AcceptedIsSound`); that no file
includes itself is not checked by the code, and a run in which one does does not
end well (run `FileCycle`). `MCBranchRuntime` evaluates `Nested` on the programs
of the other runs.

The invariant `FlowInv` gives every frame a sum: the branches it has collected,
and what those it still holds will become at the stages and targets it has not
come to (`ToCome`). For `run_node` that sum is what the node makes of the branch
the call was given (`Meets`); for `run_model`, together with what was written, it is
what the flow means (`Branches`). Each step moves a branch from one part to the
other: `LoadChild` and `EnterNode` unfold the recursion once, a call takes
the first target off, `Deliver` puts a callee's sum at the end of its caller's list. What
a branch is, is read off the artifact its descriptor names, so a step that
closes or opens one must leave the others what they were (`Keeps`, from `OInv`).
What a command reads depends on the offset of its input as well. `Fresh` says
that a branch that a node enters with is rewound, `AtEndAlone` that one
that a command has written stays at its end until something else duplicates
it, which is why a command after an expansion reads nothing. That needs
`OInv` again: if another descriptor shared the open file, a duplicate of it
would move the offset.

*The limit.* `OnlyTheLimitFails` is about every failing step of the engine, so it
has to know why each could not be taken. Those of the environment are excluded by
its hypotheses: nothing in `Faults`, a descriptor left whenever one is asked for
(`[](~ Full(fdt))`), and `--fd-in` absent or an open file that can be rewound
(`GoodInput`); with those of `OutputIsTheFlow`. What remains are lists that are
full. The two sides meet in one fact, that a node makes at least one branch of each
it is given (`EveryNodeYields`, again by least depth): so a list that is too long
at some frame makes the sum of that frame too long (`VisitLong`, `VisitEachLong`),
then its caller's (`CallerExceeds`), and by the least frame for which it would
not, that of the whole flow (`StackExceeds`). The invariant `LimitMet` says so by
phase: while a run fails, and once it has failed, the flow has more branches
than fit, and once all have been collected they fit.

*Validate.* `AcceptedIsRunnable` is strengthened by what the marks mean:
`FinishedClosed` (a node that is seen and not on the stack has returned, and all
its links lead to nodes that returned earlier), `PastLinks` (the links a pending
loop is past lead to nodes that returned) and `AcceptedAtEnd` (acceptance
happens with an empty stack at the end of the entry links). A link to a node on
the stack is the only way `FinishedClosed` could break, and the walk reports it.

`VerdictIsRight` needs the other direction: a fault that is reported is there.
What is marked is reachable (`MarkedIsReachable`); whatever numbering decreases
along all links decreases along the walk (`WalkDescends`), so that a link back
into the walk leaves no numbering; and the number of returns is the number of
nodes that returned (`ClockCounts`), so that the order of the returns is a
numbering within the size of the file, as `Acyclic` asks for. This one needs
`RefAssumption`: a file has finitely many references.

*Refinement.* `Init` maps to `Supervision!Init`, and every action to one of its
actions or to a stutter, given the invariant of `BranchRuntime`: that a frame has
a caller and that the node of a frame is the target its caller's loop stands at
(`StackIsCallChain`) is what makes `MayStart` true at each `node.started`.
`FailStop` is then proved of `Supervision` alone, where the invariant speaks of
the bracket, the phase and the log only, and carried over. So are the events: what
the log says is open (`OpenAfter`, a recursive function of the events) is the
bracket, since an event at the end of the log changes both alike (`OpenFollows`),
and the mapping makes the bracket the call stack (`EventsTellCalls`).

*Loader.* What a caller is given at the end says nothing of the records before, so
each property is first stated of the first `n` records: `Describes(m, n)`,
`Storable(n)` and `Described(n)` take from the records at `1..n` what they give to
an id, a store, a node. The inductive invariant is `Inv`: with the types, that the
string count is right (`StringsOwnedOnce`), that between two records the model is
what those read describe and they are storable (`Progress`), and that a load that
failed has read a record that is not storable and one that ended has a verdict that
is that of `Acceptable` (`Outcome`). Nodes have a reference each but while a load is
failing (`Named`), when only the count of its strings still matters. A record adds its own place to one of these
sets, and that place is greater than all before. So the last value changes to
the record's, a list grows at its end, and a store either changes the entry whose
key has the same first place or gets a new one with the greatest
(`OneMoreFacts`, `PutFields`); that the model has room exactly when the set of keys with the new one is within
the limit makes `AcceptsExactly` exact. The other nodes and stores have to be left
alone, one lemma per kind of record. `InNodes` is a recursive function that sums what
the nodes own; that changing one node changes the sum by that node's difference
is proved by the least number of nodes for which it would not hold, from a table
that satisfies the equations (`TableExists`). A read error changes the file behind the
records that have been read; what the first `n` records say depends on no others
(`SameRecords`), so the model still is what they describe.

*Scope.* `BufferFits` is inductive with the types: what is written is less than the
capacity, which is why doubling once makes room for a literal and its
terminator. `LimitIsExact` is strengthened to `LimitInv`: while a flow is merged
its store has the keys of the parameters the loop is past (`Merging`), every
store counts its keys, and the flows of all callers are complete until they are
returned to (`FlowsComplete`).

`CommandsAreMeant` and `EnvironmentsAreOwn` compare the stores with `ScopeMeaning`,
which has functions for scopes and recursion for loops. `MeansInv` says at every
point of the loops how far the two agree: while a flow is merged, the last value so
far of each key counts (`MergeMeans`), so that afterwards the caller's values lie over
the defaults (`FlowMeans`); the parameters a node has collected are what those the
loop is past mean, in order (`NodeMeans`); the part of a template that has been
written, followed by what the rest means, is what the text means (`JobMeans`); and
every caller keeps scopes that are right for its place (`CallersMean`), which is why a
command after an expansion is in its own node's scopes again. The recursive functions
are unfolded by way of tables that satisfy their equations (`FromIs`, `BindingIs`,
`GivesOuter`). For the environment, `ExportIs` says what one export adds; those of the
three families cannot hide one another. `ScopeAssumption` has two hypotheses that
these theorems need: that a store of `--set` or of a file's defaults has each key
once, as `kc_flow_overrides_add` fills it, and that the two prefixes differ.

*Output.* `Typed` adds to the types in which stages something can be waiting to be
written; `Copying` adds to `CopyIsExact` what waits in the buffer: the bytes of
the branch before the offset that have not been sent. `BranchIsWhole` follows,
since at the end of a branch nothing is unread or unsent.

`DeliveredInOrder` says what has arrived where nothing is being written. Its
invariant `Delivering` says in the midst of writes too what has arrived and what
waits in the buffer together (`Arrived`): all events so far while nodes run
(`NodesTold`), then also the branches before the present one and this one up to
the offset (`BranchesCopied`), then some first bytes of all branches (`CutOff`), then
also `run.finished` (`EndTold`). A write moves bytes from the buffer to the stream
and leaves `Arrived` alone (`WriteArrives`). When the flush fails, the rest of the
buffer is gone, so the first parts of two cuts of one text have to be compared
(`CutEnd`). When the write of an event fails, nothing is claimed of the readers of
the events any more, and the others lose nothing by it (`EventFailsDelivers`).

*Cli.* `Accounted`: what is allocated is two strings per override, those of a half-made
override and those the model holds; and the calls that are left to be made are
enough for what is there (`Left`): an override that is half made has a `FreeHalf` to come,
a model that is there a `FreeModel`, and a `FreeContents` before it if it holds strings.
Each return has to establish that with the calls it makes (`ReturnAccounted`), and
each call to keep it for the calls after it (`FreeingAccounted`). When none is left, nothing is.

The other properties speak of the whole command line, `main` of the argument it
is at. `Said` states in between that the configuration is what the options *before*
`at` say: each path and descriptor by the last of them (`Max`), each override in the
place of the first with its key (`Min`) and with the value of the last. An option
that is taken adds its place to those before (`OneMore`), which is the greatest of
them and never the least; `PutFields` says that a store is changed in one entry or
at its end. At the end of the line the options before `at` are all of them
(`AllRead`). If a line is refused, some place that should have an option has none, no
file is named, or one key more than `MaxOverrides` is set, and each shows that the
line is not well formed (`RefusedRightly`). `Told` adds what the file, the run
and its end have reported. `Number` is a recursive function; that it is a natural
number is proved as for `Walk`, from a table of the digits' values (`DigitsExist`).

Model-checked only: liveness (`Ends`, `Validation`), which is out of the prover's
reach, and `StatusReadsBack` and `DamageIsLocal` of `Received`. These two are about
folds that parse a stream character by character, with letters that are strings;
what such a fold makes of a stream put together from lines needs an induction over
data for each of its states, and is not proved. That the readers are given the right
streams, `DeliveredInOrder`, is.

## 5. Not modelled

- A `--fd-out` or `--fd-status` that is not open when the run starts and later
  comes to name an artifact: the streams of `Output` are apart from the branches.
- `fork`, `exec` and `waitpid` as steps of their own: a command succeeds or fails.
  No handler is installed, so no signal interrupts `waitpid`. `KC_FLOW_DIR`, the
  prefix of the path in `KC_FLOW_FILE`, and `KC_FLOW_FD_OUT`, which is always set.
- Commands that do something else with the descriptors they inherit.
- Text of messages and help, trimming of lines, growth of the line buffer.
- `build_path` and `dirname`; symbolic links and files that change during a run.
- Windows variants, `kc_flow_platform_open_null_fd` and the reference-counted
  artifacts, which nothing calls.

## 6. Plan

The order is by what can go wrong most.

1. *Done*: all modules of section 2, the refinement of `Supervision`, and the
   theorems of section 4.
2. Theorems: that `Received` reads back what was written, with its folds stated as
   recursive functions.
3. The streams of `Output` on the table of `BranchRuntime`, so that `--fd-out` can
   be a number that is handed out again.

-------------------------------- MODULE Scope --------------------------------
(***************************************************************************)
(* Parameters on their way from the command line and the flow files to a   *)
(* command: the merge of a flow's defaults with what its caller gives      *)
(* (run_model, run_child_flow), the node's own parameters resolved in order*)
(* (kc_flow_collect_node_params), the templates (kc_flow_resolve_template, *)
(* with its growing buffer) and the environment a command is given.        *)
(*                                                                         *)
(* Which node runs when, and on how many branches, is BranchRuntime's; here*)
(* any node of a file may run next.  A string is a sequence of characters, *)
(* "flow.param." and "node.param." being one character each.               *)
(***************************************************************************)
EXTENDS ParamStore, SequencesExt, FiniteSetsExt

CONSTANTS
  Char, FlowTag, NodeTag,   \* characters; those for "flow.param.", "node.param."
  Upper,       \* isalnum and toupper of param_env_name, per character
  MaxName,     \* size of name[] in resolve_template
  MaxSuffix,   \* size of suffix[] in export_params
  File, Main,  \* flow files, and the one given to --run
  NoFile,      \* "node has no file"
  Cli,         \* possible stores of --set
  Programs,    \* possible contents of the files
  Inherited,   \* the environment kc-flow was started with
  Nothing      \* no node, no command yet

Text  == Seq(Char)
Store == Seq([key : Text, value : Text])

(* A store as kc_flow_overrides_add fills it: each key once.               *)
Filled == {s \in Store : \A k, l \in DOMAIN s : s[k].key = s[l].key => k = l}

(* A node as the loader stores it; an empty exec is none.                  *)
Limited == {s \in Store : Len(s) <= MaxOverrides}
NodeRec == [params : Limited, file : File \cup {NoFile}, exec : Text]

ASSUME ScopeAssumption ==
  /\ Main \in File /\ NoFile \notin File /\ Nothing \notin NodeRec
  /\ MaxName \in Nat \ {0} /\ MaxSuffix \in Nat \ {0}
  /\ FlowTag \in Char /\ NodeTag \in Char /\ FlowTag # NodeTag
  /\ Cli \subseteq Filled
  /\ Programs \subseteq [File -> [params : Filled, nodes : SUBSET NodeRec]]

VARIABLES
  prog,      \* the files
  cli,       \* the overrides of --set
  callers,   \* the run_node calls whose file is being expanded
  file,      \* the current flow
  flow,      \* its effective_flow_params
  node,      \* the current node
  params,    \* its effective parameters
  stage, i,  \* the loop that is running, and its counter
  job,       \* the locals of resolve_template
  told,      \* history: the command run last, its place and environment
  cause      \* why the run failed

scope == <<callers, file, flow, node, params>>
vars  == <<prog, cli, scope, stage, i, job, told, cause>>

NewJob(text) == [text |-> text, at |-> 1, capacity |-> Len(text) + 1, result |-> <<>>]

Init ==
  /\ prog \in Programs /\ cli \in Cli
  /\ callers = <<>> /\ file = Main /\ flow = <<>> /\ node = Nothing /\ params = <<>>
  /\ stage = "merge" /\ i = 1
  /\ job = NewJob(<<>>) /\ told = Nothing /\ cause = "none"

Fail(why) ==
  /\ stage' = "failed" /\ cause' = why
  /\ UNCHANGED <<prog, cli, scope, i, job, told>>

OutOfMemory == stage \in {"merge", "collect", "template", "execs"} /\ Fail("memory")

----------------------------------------------------------------------------
(* A flow starts: its defaults are copied, the caller's values added.      *)

Outer == IF callers = <<>> THEN cli ELSE Last(callers).params

Incoming == prog[file].params \o Outer

Merge ==
  /\ stage = "merge" /\ i \in DOMAIN Incoming
  /\ IF HasRoom(flow, Incoming[i].key)
       THEN /\ flow' = Put(flow, Incoming[i].key, Incoming[i].value)
            /\ i' = i + 1
            /\ UNCHANGED <<prog, cli, callers, file, node, params, stage, job, told, cause>>
       ELSE Fail("full")

Merged ==
  /\ stage = "merge" /\ i > Len(Incoming)
  /\ stage' = "nodes"
  /\ UNCHANGED <<prog, cli, scope, i, job, told, cause>>

----------------------------------------------------------------------------
(* kc_flow_resolve_template                                                *)

Resolving == stage = "template" /\ job.at \in DOMAIN job.text
AtMark    == job.text[job.at] = "<"

(* The first '>' after the mark, and the name between them.                *)
Closes(e) ==
  /\ e > job.at /\ job.text[e] = ">"
  /\ \A o \in job.at + 1..e - 1 : job.text[o] # ">"
Name(e)   == SubSeq(job.text, job.at + 1, e - 1)

(* kc_flow_resolve_scope_value: the store a name is looked up in.          *)
ScopeOf(name) ==
  CASE name[1] = FlowTag -> flow
    [] name[1] = NodeTag -> params
    [] OTHER             -> <<>>

Resolves(e) ==
  /\ Closes(e) /\ Len(Name(e)) \in 1..MaxName - 1
  /\ HasKey(ScopeOf(Name(e)), Tail(Name(e)))
Value(e)    == Get(ScopeOf(Name(e)), Tail(Name(e)))

(* mistake: the terminator is forgotten *)
LiteralTight ==
  /\ Resolving /\ ~ AtMark
  /\ job' = [job EXCEPT !.capacity = IF Len(job.result) + 1 > @ THEN 2 * @ ELSE @,
                        !.result = Append(@, job.text[job.at]), !.at = @ + 1]
  /\ UNCHANGED <<prog, cli, scope, stage, i, told, cause>>

(* The buffer is doubled at most once for one character.                   *)
Literal ==
  /\ Resolving /\ ~ AtMark
  /\ job' = [job EXCEPT !.capacity = IF Len(job.result) + 2 > @ THEN 2 * @ ELSE @,
                        !.result = Append(@, job.text[job.at]), !.at = @ + 1]
  /\ UNCHANGED <<prog, cli, scope, stage, i, told, cause>>

Fits(value) == Len(job.result) + Len(value) + 1 <= job.capacity

Grow ==
  /\ Resolving /\ AtMark
  /\ \E e \in DOMAIN job.text : Resolves(e) /\ ~ Fits(Value(e))
  /\ job' = [job EXCEPT !.capacity = 2 * @]
  /\ UNCHANGED <<prog, cli, scope, stage, i, told, cause>>

(* mistake: the value is resolved as a template in its turn *)
ExpandAgain ==
  /\ Resolving /\ AtMark
  /\ \E e \in DOMAIN job.text :
       /\ Resolves(e) /\ Fits(Value(e))
       /\ job' = [job EXCEPT !.text = Value(e) \o SubSeq(@, e + 1, Len(@)), !.at = 1]
  /\ UNCHANGED <<prog, cli, scope, stage, i, told, cause>>

Expand ==
  /\ Resolving /\ AtMark
  /\ \E e \in DOMAIN job.text :
       /\ Resolves(e) /\ Fits(Value(e))
       /\ job' = [job EXCEPT !.result = @ \o Value(e), !.at = e + 1]
  /\ UNCHANGED <<prog, cli, scope, stage, i, told, cause>>

Unresolved ==
  /\ Resolving /\ AtMark
  /\ ~ \E e \in DOMAIN job.text : Resolves(e)
  /\ Fail("unresolved")

Resolved == stage = "template" /\ job.at > Len(job.text)

----------------------------------------------------------------------------
(* A node's parameters                                                     *)

(* run_node, called for an entry or a link of the current flow.            *)
EnterNode(n) ==
  /\ stage = "nodes"
  /\ node' = n /\ params' = <<>>
  /\ stage' = "collect" /\ i' = 1 /\ told' = Nothing
  /\ UNCHANGED <<prog, cli, callers, file, flow, job, cause>>

Collect ==
  /\ stage = "collect" /\ i \in DOMAIN node.params
  /\ job' = NewJob(node.params[i].value)
  /\ stage' = "template"
  /\ UNCHANGED <<prog, cli, scope, i, told, cause>>

Collected ==
  /\ Resolved /\ i \in DOMAIN node.params
  /\ IF HasRoom(params, node.params[i].key)
       THEN /\ params' = Put(params, node.params[i].key, job.result)
            /\ stage' = "collect" /\ i' = i + 1
            /\ UNCHANGED <<prog, cli, callers, file, flow, node, job, told, cause>>
       ELSE Fail("full")

(* mistake: the node is expanded whether it has a file or not *)
StartedAnyway ==
  /\ stage = "collect" /\ i > Len(node.params)
  /\ stage' = "file"
  /\ UNCHANGED <<prog, cli, scope, i, job, told, cause>>

Started ==
  /\ stage = "collect" /\ i > Len(node.params)
  /\ stage' = IF node.file = NoFile THEN "execs" ELSE "file"
  /\ UNCHANGED <<prog, cli, scope, i, job, told, cause>>

(* run_node_file: the child flow is given the node's parameters.           *)
ExpandFile ==
  /\ stage = "file"
  /\ callers' = Append(callers, [file |-> file, flow |-> flow, node |-> node, params |-> params])
  /\ file' = node.file /\ flow' = <<>> /\ node' = Nothing /\ params' = <<>>
  /\ stage' = "merge" /\ i' = 1
  /\ UNCHANGED <<prog, cli, job, told, cause>>

(* mistake: the stores of the child are left in place *)
ReturnInChild ==
  /\ stage = "nodes" /\ callers # <<>>
  /\ LET c == Last(callers) IN
       /\ callers' = Front(callers)
       /\ file' = c.file /\ node' = c.node /\ UNCHANGED <<flow, params>>
       /\ stage' = "execs" /\ i' = Len(c.node.params) + 1
  /\ UNCHANGED <<prog, cli, job, told, cause>>

Return ==
  /\ stage = "nodes" /\ callers # <<>>
  /\ LET c == Last(callers) IN
       /\ callers' = Front(callers)
       /\ file' = c.file /\ node' = c.node /\ flow' = c.flow /\ params' = c.params
       /\ stage' = "execs" /\ i' = Len(c.node.params) + 1
  /\ UNCHANGED <<prog, cli, job, told, cause>>

----------------------------------------------------------------------------
(* Commands                                                                *)

(* kc_flow_platform_param_env_name                                         *)
Suffix(key) ==
  [k \in 1..(IF Len(key) < MaxSuffix THEN Len(key) ELSE MaxSuffix - 1) |-> Upper[key[k]]]

(* kc_flow_platform_export_params: in order, so that of two keys with one  *)
(* suffix the later is seen.                                               *)
Exported(family, store, env) ==
  LET variable(k) == <<family, Suffix(store[k].key)>>
      variables   == {variable(k) : k \in DOMAIN store}
      last(v)     == Max({k \in DOMAIN store : variable(k) = v})
  IN  [v \in DOMAIN env \cup variables |->
         IF v \in variables THEN store[last(v)].value ELSE env[v]]

FdIn     == <<"FD_IN", <<>>>>
FlowFile == <<"FILE", <<>>>>

(* kc_flow_platform_export_env, in the child: what kc-flow was started with*)
(* stays where nothing is exported, KC_FLOW_FD_IN among it.                *)
Environment(input) ==
  LET own == {FlowFile} \cup (IF input THEN {FdIn} ELSE {})
      env == [v \in DOMAIN Inherited \cup own |->
                IF v \notin own THEN Inherited[v] ELSE IF v = FdIn THEN "own" ELSE file]
  IN  Exported("PARAM", params, Exported("NODE_PARAM", params,
        Exported("FLOW_PARAM", flow, env)))

(* kc_flow_run_exec, for one active branch.                                *)
Exec ==
  /\ stage = "execs" /\ node.exec # <<>>
  /\ job' = NewJob(node.exec)
  /\ stage' = "template"
  /\ UNCHANGED <<prog, cli, scope, i, told, cause>>

Path == [k \in DOMAIN callers |-> [file |-> callers[k].file, node |-> callers[k].node]]
          \o <<[file |-> file, node |-> node]>>

(* Only an expansion yields more branches to run the command on.           *)
RunCommand(input) ==
  /\ Resolved /\ i > Len(node.params)
  /\ told' = [path |-> Path, text |-> job.result, input |-> input,
              env |-> Environment(input)]
  /\ stage' \in {"nodes"} \cup (IF node.file = NoFile THEN {} ELSE {"execs"})
  /\ UNCHANGED <<prog, cli, scope, i, job, cause>>

CommandFails == Resolved /\ i > Len(node.params) /\ Fail("command")

NoExec ==
  /\ stage = "execs" /\ node.exec = <<>>
  /\ stage' = "nodes"
  /\ UNCHANGED <<prog, cli, scope, i, job, told, cause>>

Over ==
  \/ stage = "failed" /\ UNCHANGED vars
  \/ stage = "nodes" /\ callers = <<>> /\ UNCHANGED vars

Next ==
  \/ Merge \/ Merged
  \/ \E n \in prog[file].nodes : EnterNode(n)
  \/ Collect \/ Literal \/ Grow \/ Expand \/ Unresolved \/ Collected
  \/ Started \/ ExpandFile \/ Return \/ NoExec
  \/ Exec \/ CommandFails \/ \E input \in BOOLEAN : RunCommand(input)
  \/ OutOfMemory \/ Over

Spec == Init /\ [][Next]_vars

----------------------------------------------------------------------------
(* Stores hold strings, whatever was copied, merged or resolved into them. *)
TypeOK ==
  /\ prog \in [File -> [params : Store, nodes : SUBSET NodeRec]] /\ cli \in Store
  /\ callers \in Seq([file : File, flow : Store, node : NodeRec, params : Store])
  /\ file \in File /\ flow \in Store /\ node \in NodeRec \cup {Nothing} /\ params \in Store
  /\ stage \in {"merge", "nodes", "collect", "template", "file", "execs", "failed"}
  /\ i \in Nat
  /\ job \in [text : Text, at : Nat, capacity : Nat, result : Text]
  /\ stage \in {"collect", "template", "file", "execs"} => node \in NodeRec
  /\ stage = "file" => node.file \in File

(* The text and its terminator fit the buffer of resolve_template, which is*)
(* doubled once for a character and as often as it takes for a value.      *)
BufferFits == Len(job.result) < job.capacity

(* A flow is refused for its parameters exactly if the keys of its defaults*)
(* and of what its caller gives it are more than fit one store; otherwise  *)
(* it has all of them.  The parameters of a node always fit.               *)
LimitIsExact ==
  LET keys == Keys(prog[file].params) \cup Keys(Outer) IN
  /\ cause = "full" => Cardinality(keys) > MaxOverrides
  /\ stage \notin {"merge", "failed"} => Keys(flow) = keys /\ Cardinality(keys) <= MaxOverrides
==============================================================================

---------------------------- MODULE HandlerSetup ----------------------------
(***************************************************************************)
(* How handlers come to be and go (config.py, identity.py,                 *)
(* core_runtime.py, OpenBoxLangGraphHandler.__init__ and its factory):     *)
(* initialize checks credentials and publishes them, field by field, in    *)
(* one configuration object of the process; a handler reads that object    *)
(* twice, once for the runtime whose gate it asks and once for its client, *)
(* takes the one slot the process has for a hook runtime, and wraps the    *)
(* tools of its graph.  Startups may run in several threads.               *)
(***************************************************************************)
EXTENDS Naturals, Sequences

CONSTANTS
  Startups,       \* calls that initialize, or build a handler, or both
  Graphs,         \* compiled graphs
  Plans,          \* which of them there are, and what each is given
  Environments,   \* what the process environment may hold
  ClassDefaults   \* options whose default is a class attribute

Fields == <<"url", "key", "did", "seed", "workload">>
Absent == "none"
Blank  == [url |-> Absent, key |-> Absent, did |-> Absent, seed |-> Absent,
           workload |-> Absent]

\* entry: "factory", "initialize" alone, or "constructor" alone; validate: ask
\* the server; client: an injected client; core: use_core_instrumentation.
ASSUME PlanAssumption ==
  /\ Absent \notin Startups \cup Graphs
  /\ \A p \in Plans : DOMAIN p \subseteq Startups /\ \A s \in DOMAIN p :
       /\ p[s].entry \in {"factory", "initialize", "constructor"}
       /\ p[s].validate \in BOOLEAN /\ p[s].client \in BOOLEAN /\ p[s].core \in BOOLEAN
       /\ p[s].graph \in Graphs

VARIABLES
  env,         \* the environment, fixed
  config,      \* _global_config
  at,          \* where each startup is
  args,        \* what it was given
  written,     \* how many fields it has published
  gate,        \* credentials its runtime was built with
  client,      \* credentials its client was built with
  slot,        \* the hook runtime of the process: whose, and whether it pins
  bound,       \* the handlers whose wrappers the tools of a graph carry, outermost first
  marked,      \* graphs whose tools carry the mark of being bound
  seen,        \* the wrappers a startup has found and is about to compose with
  last,        \* history: credentials of the last startup that published
  overlapped   \* history: startups during which another one was under way

tools == <<bound, marked, seen>>
vars == <<env, config, at, args, written, gate, client, slot, tools, last,
          overlapped>>

-----------------------------------------------------------------------------
(* Credentials *)

\* What an optional string may be instead of a name: not given, "", "  ",
\* or something that does not parse.
Malformed == {"empty", "blank", "bad"}

\* Mutant: a string of blanks counts as given.
NormalizedBlank(v) == IF v = "empty" THEN Absent ELSE v

\* `value or os.environ.get(...)`, then _normalize_optional_string
OrEnvironment(v, e) == IF v \in {Absent, "empty"} THEN e ELSE v
Normalized(v) == IF v \in {"empty", "blank"} THEN Absent ELSE v

\* Only a key that is not given at all is looked up in the environment.
WorkloadKey(r) ==
  IF r.workload # Absent THEN r.workload
  ELSE IF env.ownWorkload # Absent THEN env.ownWorkload ELSE env.workload

Requested(r) ==
  [url |-> r.url, key |-> r.key,
   did  |-> Normalized(OrEnvironment(r.did, env.did)),
   seed |-> Normalized(OrEnvironment(r.seed, env.seed)),
   workload |-> WorkloadKey(r)]

\* Both or neither.
WholeIdentity(c) == c.did = Absent <=> c.seed = Absent

\* validate_url_security, validate_api_key_format, the two parsers
WellFormed(c) ==
  /\ c.url # "insecure" /\ c.key \notin Malformed
  /\ WholeIdentity(c) /\ c.did # "bad" /\ c.seed # "bad"
  /\ c.workload \notin Malformed

\* OpenBoxConfig.resolve: what is None falls through to the environment, to
\* OPENBOX_LANGGRAPH_* before OPENBOX_*; initialize has read the latter only.
\* (A workload key it found none of is in neither.)
FromEnvironment(own, shared) == Normalized(IF own # Absent THEN own ELSE shared)
Resolved(c) ==
  [c EXCEPT !.did  = IF @ = Absent THEN FromEnvironment(env.ownDid, env.did) ELSE @,
            !.seed = IF @ = Absent THEN FromEnvironment(env.ownSeed, env.seed) ELSE @]

-----------------------------------------------------------------------------
(* State *)

Nobody == [runtime |-> Absent, pins |-> FALSE]

Constructing == {"building", "arming", "connecting", "binding", "wrapping", "marking"}
Ended        == {"initialized", "ready", "failed", "closed"}
Busy         == {s \in Startups : at[s] \notin Ended \cup {"idle"}}

Init ==
  /\ env \in Environments
  /\ config = Blank /\ last = Blank
  /\ at = [s \in Startups |-> "idle"]
  /\ args \in Plans
  /\ written = [s \in Startups |-> 0]
  /\ gate = [s \in Startups |-> Blank]
  /\ client = [s \in Startups |-> Blank]
  /\ slot = Nobody
  /\ bound = [g \in Graphs |-> <<>>] /\ marked = {}
  /\ seen = [s \in Startups |-> <<>>]
  /\ overlapped = {}

Go(s, to) == at' = [at EXCEPT ![s] = to]

-----------------------------------------------------------------------------
(* initialize *)

\* A handler is constructed without initialize only after one succeeded.
Begin(s) ==
  /\ at[s] = "idle" /\ s \in DOMAIN args
  /\ args[s].entry = "constructor" => last # Blank
  /\ Go(s, IF args[s].entry = "constructor" THEN "building" ELSE "checking")
  /\ overlapped' = IF Busy = {} THEN overlapped ELSE overlapped \cup Busy \cup {s}
  /\ UNCHANGED <<env, config, args, written, gate, client, slot, tools, last>>

\* Mutant: only the server is asked.
CheckServerOnly(s, accepted) ==
  /\ at[s] = "checking"
  /\ Go(s, IF args[s].validate => accepted THEN "publishing" ELSE "failed")
  /\ UNCHANGED <<env, config, args, written, gate, client, slot, tools, last,
                 overlapped>>

\* Local checks, then the server's answer where it is asked for.
Check(s, accepted) ==
  /\ at[s] = "checking"
  /\ Go(s, IF WellFormed(Requested(args[s])) /\ (args[s].validate => accepted)
           THEN "publishing" ELSE "failed")
  /\ UNCHANGED <<env, config, args, written, gate, client, slot, tools, last,
                 overlapped>>

\* Mutant: a key that is not given leaves the one before it in place.
FieldKept(f, c) == IF c[f] = Absent THEN config ELSE [config EXCEPT ![f] = c[f]]

Field(f, c) == [config EXCEPT ![f] = c[f]]

\* _GlobalConfigState.configure assigns one attribute after the other.
Publish(s) ==
  /\ at[s] = "publishing"
  /\ written' = [written EXCEPT ![s] = @ + 1]
  /\ config' = Field(Fields[written[s] + 1], Requested(args[s]))
  /\ IF written[s] + 1 < Len(Fields) THEN UNCHANGED <<at, last>>
     ELSE /\ last' = Requested(args[s])
          /\ Go(s, IF args[s].entry = "initialize" THEN "initialized" ELSE "building")
  /\ UNCHANGED <<env, args, gate, client, slot, tools, overlapped>>

-----------------------------------------------------------------------------
(* OpenBoxLangGraphHandler.__init__ *)

\* Mutant: a runtime is built from what the environment alone says.
ReadEnvironment(s) ==
  Resolved([config EXCEPT !.did = Absent, !.seed = Absent])

\* The first read of the configuration, all attributes at once.
ReadForRuntime(s) == Resolved(config)

\* create_core_runtime up to manager.install(), which publishes a base hook
\* runtime; a handler with an injected client builds none and binds nothing.
BuildRuntime(s) ==
  /\ at[s] = "building"
  /\ IF args[s].client
       THEN Go(s, "ready") /\ UNCHANGED <<gate, slot>>
     ELSE IF args[s].core /\ WellFormed(ReadForRuntime(s))
       THEN /\ gate' = [gate EXCEPT ![s] = ReadForRuntime(s)]
            /\ slot' = [runtime |-> s, pins |-> FALSE]
            /\ Go(s, "arming")
     ELSE Go(s, "failed") /\ UNCHANGED <<gate, slot>>
  /\ UNCHANGED <<env, config, args, written, client, tools, last, overlapped>>

\* Mutant: the base hook runtime is left in the slot.
SwapHookRuntimeNot(s) ==
  /\ at[s] = "arming"
  /\ Go(s, "connecting")
  /\ UNCHANGED <<env, config, args, written, gate, client, slot, tools, last,
                 overlapped>>

\* set_hook_runtime(LangGraphHookRuntime(runtime))
SwapHookRuntime(s) ==
  /\ at[s] = "arming"
  /\ slot' = [runtime |-> s, pins |-> TRUE]
  /\ Go(s, "connecting")
  /\ UNCHANGED <<env, config, args, written, gate, client, tools, last, overlapped>>

\* The second read, for the client, which parses the identity once more and
\* is lent the runtime's core client with its workload key.
BuildClient(s) ==
  /\ at[s] = "connecting"
  /\ IF WholeIdentity(config)
       THEN /\ client' = [client EXCEPT ![s] =
                            [config EXCEPT !.workload = gate[s].workload]]
            /\ Go(s, "binding")
       ELSE Go(s, "failed") /\ UNCHANGED client
  /\ UNCHANGED <<env, config, args, written, gate, slot, tools, last, overlapped>>

\* Mutant: the mark is not looked for.
LookForMarkNot(s) ==
  /\ at[s] = "binding"
  /\ Go(s, "wrapping")
  /\ seen' = [seen EXCEPT ![s] = bound[args[s].graph]]
  /\ UNCHANGED <<env, config, args, written, gate, client, slot, bound, marked, last,
                 overlapped>>

\* bind_tools_activity_scope: tools that carry the mark are left alone; of
\* others the wrappers they have are read first,
LookForMark(s) ==
  /\ at[s] = "binding"
  /\ IF args[s].graph \in marked THEN Go(s, "ready") /\ UNCHANGED seen
     ELSE Go(s, "wrapping") /\ seen' = [seen EXCEPT ![s] = bound[args[s].graph]]
  /\ UNCHANGED <<env, config, args, written, gate, client, slot, bound, marked, last,
                 overlapped>>

\* composed with the handler's own,
WrapTools(s) ==
  /\ at[s] = "wrapping"
  /\ bound' = [bound EXCEPT ![args[s].graph] = <<s>> \o seen[s]]
  /\ seen' = [seen EXCEPT ![s] = <<>>]
  /\ Go(s, "marking")
  /\ UNCHANGED <<env, config, args, written, gate, client, slot, marked, last,
                 overlapped>>

\* and only then marked.
MarkTools(s) ==
  /\ at[s] = "marking"
  /\ marked' = marked \cup {args[s].graph}
  /\ Go(s, "ready")
  /\ UNCHANGED <<env, config, args, written, gate, client, slot, bound, seen, last,
                 overlapped>>

\* runtime.close(): uninstalling resets the slot, whoever is in it.
Close(s) ==
  /\ at[s] = "ready" /\ ~args[s].client
  /\ Go(s, "closed")
  /\ slot' = Nobody
  /\ UNCHANGED <<env, config, args, written, gate, client, tools, last, overlapped>>

Terminating ==
  /\ \A s \in Startups : at[s] \in Ended \cup {"idle"}
  /\ UNCHANGED vars

Next ==
  \/ \E s \in Startups :
       \/ Begin(s) \/ Publish(s)
       \/ \E accepted \in BOOLEAN : Check(s, accepted)
       \/ BuildRuntime(s) \/ SwapHookRuntime(s) \/ BuildClient(s)
       \/ LookForMark(s) \/ WrapTools(s) \/ MarkTools(s) \/ Close(s)
  \/ Terminating

Spec == Init /\ [][Next]_vars

-----------------------------------------------------------------------------
(* Options *)

\* The factory forwards what hasattr finds on the options class, where a
\* field with a default_factory has left no attribute.
Taken(r) == IF r.entry = "factory" THEN r.options \cap ClassDefaults ELSE r.options

-----------------------------------------------------------------------------
(* Properties *)

Built(s) ==
  at[s] \in {"binding", "wrapping", "marking", "ready", "closed"} /\ ~args[s].client

\* An identity is normalized before it is kept.
CredentialsOK(c) ==
  /\ c = [url |-> c.url, key |-> c.key, did |-> c.did, seed |-> c.seed,
          workload |-> c.workload]
  /\ {c.did, c.seed} \cap {"empty", "blank"} = {}

TypeOK ==
  /\ env \in Environments
  /\ CredentialsOK(config) /\ CredentialsOK(last)
  /\ at \in [Startups -> Constructing \cup Ended
                           \cup {"idle", "checking", "publishing"}]
  /\ args \in Plans
  /\ written \in [Startups -> 0..Len(Fields)]
  /\ DOMAIN gate = Startups /\ DOMAIN client = Startups
  /\ \A s \in Startups : CredentialsOK(gate[s]) /\ CredentialsOK(client[s])
  /\ slot \in [runtime : Startups \cup {Absent}, pins : BOOLEAN]
  /\ bound \in [Graphs -> Seq(Startups)] /\ marked \subseteq Graphs
  /\ seen \in [Startups -> Seq(Startups)]
  /\ overlapped \subseteq Startups

\* As long as startups run one at a time, the configuration is exactly what
\* the last accepted one asked for: a rejected startup publishes nothing, and
\* no field of an earlier one, a workload key above all, is left in place.
ConfigIsLastAccepted ==
  overlapped = {} /\ (\A s \in Startups : at[s] # "publishing") => config = last

\* A handler that met no other startup asks one Core for one agent, the one
\* the factory was given: gate and client have the same URL, API key and
\* workload key, and where the client signs the gate signs as the same agent.
\* (Where it does not, the gate may still sign, as the agent that the
\* environment names for the runtime alone.)
ServesOneAgent ==
  \A s \in Startups : Built(s) /\ s \notin overlapped =>
    /\ \A f \in {"url", "key", "workload"} : gate[s][f] = client[s][f]
    /\ IF client[s].did # Absent THEN gate[s] = client[s]
       ELSE gate[s].did = FromEnvironment(env.ownDid, env.did)
    /\ args[s].entry = "factory" => client[s] = Requested(args[s])

\* However startups interleave, and although nothing checks the URL and the key
\* a handler reads for its client, every credential it uses has been published
\* by a startup whose credentials passed the checks: what initialize rejects
\* reaches no handler, its own or another's.
OnlyCheckedCredentials ==
  \A s \in Startups : Built(s) => \A i \in 1..Len(Fields) :
    \E r \in Startups :
      /\ written[r] >= i /\ WellFormed(Requested(args[r]))
      /\ client[s][Fields[i]] = Requested(args[r])[Fields[i]]

\* As long as startups run one at a time, the hooks of the process never belong
\* to a handler that is closed or failed to construct, and between startups
\* they pin the activity of their spans.  (During one they are already its
\* own, those of the handlers that are ready before it included.)
HooksOfLiveHandler ==
  overlapped = {} => \A s \in Startups : slot.runtime = s =>
    /\ at[s] \in Constructing \cup {"ready"}
    /\ Busy = {} => slot.pins

\* "Idempotent so building a second handler over the same graph never re-wraps":
\* as long as startups run one at a time, the tools of a graph stay with the
\* first handler, whose store and bridge a running turn of it relies on.
BoundForGood ==
  [][overlapped' = {} => \A g \in Graphs : bound[g] # <<>> => bound'[g] = bound[g]]_vars

\* "handler_kwargs: Additional keyword arguments forwarded to
\* OpenBoxLangGraphHandlerOptions": a handler has the options it was given.
OptionsForwarded ==
  \A s \in Startups : at[s] = "ready" => Taken(args[s]) = args[s].options
=============================================================================

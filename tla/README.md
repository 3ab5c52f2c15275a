# A TLA+ model of the OpenBox LangGraph SDK

The SDK wraps a compiled LangGraph graph so that every prompt, model call, tool
call and outgoing operation is first put before a policy service, OpenBox Core,
and stopped, held for a person's approval or let through as Core says. This
directory models the part of the SDK that decides *whether something may run*:
the governed turn, the client that asks Core, the enforcement of what Core says,
the wait for an approval, the attribution of hooked operations to activities, and
the start of handlers, where it is settled on whose behalf all this is asked.

Paths are relative to `src/openbox_langgraph/` unless they begin with `src/`.

## 1. The system

A **handler** (`OpenBoxLangGraphHandler`) serves any number of **turns**, one
after the other or at the same time, in one event loop. A turn screens the
prompt, streams the graph's events, and cleans up. The graph runs tools and
model calls as tasks and, for synchronous tools, in executor threads. The
handler's parts are shared by all its turns; the configuration object and the slot
for a hook runtime are shared by all handlers of the process.

    caller ── ainvoke / astream_* ──> Governed turn ── evaluate_event ──> Governance client ──> Core
                                        │   ▲  ▲                                                ▲
              graph + inline callbacks ─┘   │  └── enforce_verdict, poll_until_decision ────────┤
                    │   │                   │                                                   │
                    │   └── adapter ── Approval waiter ── apoll_approval ───────────────────────┤
                    │                                                                           │
                    └── hooks (httpx, db, files) ── Hook runtime ── Trace registry ─────────────┘

| Component | Code | State it keeps | Operations | Talks to |
|---|---|---|---|---|
| Governed turn | `langgraph_handler.py` | per turn: buffers of calls, `_PreScreenClaim`, `workflow_started_sent`; shared: bridge records | `_pre_screen_input`, `_process_event`, `_map_event`, `_cleanup_turn`, the three entry points | client, enforcement, waiter (`begin_turn`/`end_turn`), registry (`sweep`), bridge |
| Tool activity binding | `tool_activity_binding.py` | bridge records of tools | prepare a record before `execute`, bind the ContextVar, re-execution | bridge, base store |
| Approval waiter | `activity_approval.py`, `core_adapter.py` | `_turns`: per turn a `cancelled` event and one decision slot per activity; abort marks | `begin_turn`, `end_turn`, `wait`, `wait_sync` | Core, base store |
| Verdict enforcement | `verdict_handler.py`, parts of `types.py` | none | `enforce_verdict`, verdict parsing | |
| HITL polling | `hitl.py`, `client.poll_approval` | none | `poll_until_decision` | Core |
| Governance client | `client.py` | `_dedup_run`, `_dedup_sent` | `evaluate_event`, `evaluate_event_sync`, `poll_approval`, `evaluate_raw` | Core by gate, core client or httpx |
| Trace registry | `trace_context_registry.py`, `activity_context_binding.py` | `_by_trace`, `_activity_keys`; the base `ContextStore` it writes through to | `register`, `unregister`, `sweep` | base store |
| Hook runtime | `langgraph_hook_runtime.py` | `_pending`: pins of spans between their stages | `preflight`, `completed` and their async forms | base runtime, base store |
| Configuration and identity | `config.py`, `identity.py`, `core_runtime.py`, the handler's constructor and factory | `_global_config`; the process's hook slot; the mark on wrapped tools | `initialize`, `create_core_runtime`, `__init__`, `bind_tools_activity_scope`, `close` | environment, Core (key check), base manager |
| Tracing | `tracing.py`, `span_processor.py`, `otel_setup.py` | span buffers nothing feeds any more | | |

What is hard here, and what makes each part correct:

* **Turn.** Callback and consumer see the same call at different times; which of
  them owns a row is read from flags. Correct: each row is sent once, no body runs
  before its start was allowed, no stop is overlooked, orphans are closed, the
  pre-screen's row stands for the first call, every turn whose approvals are decided
  ends.
* **Waiter.** Threads poll while the loop ends turns; several evaluations share an
  activity's one slot; a second, synchronous callback enforces what the first one
  already did. Correct: nothing is released without a live grant of its own
  evaluation, ended turns drain, other turns are left alone, failures leave marks.
* **Client.** A key is marked before the await and must be forgotten when the
  attempt is rejected. Correct: an event is sent once per run and attempt, and
  never dropped because an earlier attempt was rejected.
* **Enforcement and polling.** Two parsers, one lenient and one strict; several
  tests in an order; lost answers. Correct: enforcement keeps the order of
  verdicts, a held operation is released or refused for a cause only, a decision
  ends the wait.
* **Registry and hook runtime.** Two maps written in two steps; traces shared
  between activities; re-registration between a span's stages; a bounded table of
  pins. Correct: the maps agree, a sweep takes all of its turn and nothing else,
  both stages go to one activity, no exit leaks a pin.
* **Start.** The configuration is written field by field, read twice by each
  handler, and filled from two families of environment variables; startups may
  overlap. Correct: a rejected startup changes nothing, gate and client
  of a handler that met no other startup serve the agent it was given, nothing a
  rejected startup brought is used by anybody, hooks belong to a handler that is there,
  tools stay with the first.

`PROJECT.json` lists every hazard at its line.

## 2. Modules

| Module | What it is |
|---|---|
| `ApprovalContract` | what waiting in place promises, without slots, polls or threads |
| `ApprovalWaiter` | the waiter with the adapter around it; refines the contract |
| `ApprovalWaiterProofs` | its theorems |
| `TurnContract` | what a turn promises Core (a session and rows) and its caller, without stream, consumer, records or callbacks |
| `GovernedTurn` | one turn: pre-screen, graph with callbacks, consumer, cleanup; refines the contract |
| `GovernedTurnProofs` | its theorems on rows, bodies and orphans |
| `GovernedTurnFlowProofs` | its theorems on turns that return, and the refinement of the contract |
| `GovernanceClient`, `GovernanceClientProofs` | de-duplication and failure translation, and theorems |
| `Enforcement`, `EnforcementProofs` | one response from parsing to the end of its approval, and theorems |
| `HookContext`, `HookContextProofs` | registry, base store and hook runtime, and theorems |
| `HandlerSetup`, `HandlerSetupProofs` | configuration, construction and closing of handlers, and theorems |
| `MC*` | instances for TLC |

The modules meet at their edges rather than in one product: `GovernedTurn` sees
the waiter as `ReleaseTool` (granted or refused, only cancelled after cleanup,
which is what `ApprovalContract` allows) and polling as `Approval`; `Enforcement`
is what happens inside its `Respond` and `Approval`; `GovernanceClient` is what
happens inside its `Evaluate`. `ApprovalWaiter` and `HookContext` see a turn as
its beginning and its end (`begin_turn`, `end_turn`, `sweep`), in the order
`_cleanup_turn` calls them. `HandlerSetup` ends where a handler is ready for its
first turn: what it calls `gate`, `client` and `slot` is what the other modules take
for Core's address, the agent's identity and the runtime of the hooks; `LookForMark`,
`WrapTools` and `MarkTools` are why `GovernedTurn` may assume that one wrapper stands
around each tool that is bound.

### How they correspond to the code

**ApprovalWaiter.** A *wait* is one call of `wait` or `wait_sync`. `turn` is the life of
a turn as the handler sees it, `entry` what `_turns` has of it (an `_ApprovalTurn` under
the turn's workflow id, and whether its `cancelled` event is set), `decision` the slots,
`aborted` the marks, `pc` the line a wait is at. A step of a thread is a block under the
lock or between two; a step on the loop goes to the next `await`. A wait looks at
`entry` only, as the code does, and `end_turn` finds the entry by workflow id: that it
is the wait's own turn that ended is what `CancelledOnlyByOwnTurn` says, of waits in
tasks, on the loop and in threads alike; `dropped` names the tasks somebody cancelled
from outside. `granted`, `late`, `polled` and `dropped` are history variables for the
properties.

**GovernedTurn.** `rows` counts what reached Core by (type, activity id); `rec` are the
bridge's records with their SENT flags and stash; `events` is the stream between the
graph and the consumer. Calls step at their callbacks, the consumer at its awaits. A
callback sends a row and sets its flag in one step and waits for the answer in the next
(`StartTool` or `StartLlm`, then `AnswerStart`; `SendCompletion`, then
`AnswerCompletion`), so that consumer, cleanup and siblings come in between; the
callback handlers are `openbox_langchain`'s, and that flag and send go together is what
`_process_event` relies on when it reads the flag (`langgraph_handler.py:1032`).
`Respond` and `Approval` are the enforcement after an answer; `CleanupTurn` is one
synchronous block, in which the gate may fail the close of any orphan (`lost`). Tools in
`Detached` carry no turn metadata: they run without a record, or are refused under
`strict_activity_context` (`tool_activity_binding.py:199`). Tools in `Nested` belong to
a subgraph's tool node, which the binding does not find. Both are `Unbound`: the
callbacks send nothing for them and the consumer reports them
(`langgraph_handler.py:672-676`), when their body has begun. `Respond("allow")` stands
for every verdict that lets the turn go on, `"error"` for a client that raises. What a
callback makes of the verdict on a model call's start is its own affair, so a stop there
fails the call and is not remembered as a stop of the turn's. Seen as a `TurnContract`,
a turn's phase is where the entry point is, its session the two workflow rows, and a row
is `owed` while the callback's record says it was opened and the sweep has not taken the
record: that is why a tool prepared before the sweep and started after it opens a row
nobody owes. A row the gate failed to close is `lost`.

**GovernanceClient.** A *send* is one call. `Send` checks and marks the key and
suspends; `Settle` is everything after the await, as a function of what the
transport yields and of the route; `CancelSend` is a cancellation in between.
`SendSync` holds the loop. A send ends `returned` (with a verdict), `open` (the policy
let it on), `raised` (rejected), `dropped` (a duplicate), `unsent` (a defect before the
network) or `crashed` (cancelled, or a fault no policy was asked about).

**Enforcement.** `Respond` parses and enforces; `Poll`, `Reply*`, `TakeAnswer` and
`PollAgain` are the loop of `poll_until_decision`; `Surfaced` is the wrapper the
pre-screen and the consumer have around it and the model call's fallback does not.
`Decide` and `Lapse` are the person and the clock. Core's answers come in the
shapes the parser's tests use: decision in `action` or in `verdict`, unknown
words, empty bodies, lapsed answers that look like approvals. What
`GovernedTurn` shows about a stopped prompt (`StoppedPromptNeverRuns`) is apart
from this: here the exception of `enforce_verdict` is the end.

**HookContext.** `register`, `unregister` and `sweep` are split where the code
leaves or takes the lock, so threads may step in between; `loop` keeps other work
of the event loop out. `store` is the base `ContextStore`'s trace map. A span is
pinned (`_pin_started`), evaluated by the base runtime, which resolves on its own
(`EvaluateStarted`), and refused, completed or lost. `Scoped` spans are resolved
through the ContextVar, the others by trace; those that are neither scoped nor on the
loop, raw threads, are what the exact-trace tier exists for. `resolved` and `started`
keep what the two resolutions of a started stage gave.

**HandlerSetup.** A *startup* is one call of the factory, of `initialize` or of the
constructor, in a thread of its own. `Check` is everything `initialize` does before
it publishes: normalization, the lookups in the environment, the formats, the
server's answer. `Publish` is one assignment of `_GlobalConfigState.configure`.
`ReadForRuntime` is `OpenBoxConfig.resolve` on what the constructor read first,
`BuildClient` reads again. `slot` is the base package's one place for a hook runtime:
`BuildRuntime` fills it with the base runtime (`manager.install()`),
`SwapHookRuntime` with the SDK's own, `Close` empties it whoever is in it. `bound` says
whose wrappers the tools of a graph carry, `marked` whether they carry the mark; looking
for the mark, wrapping and marking are three steps, as they are in the code, and `seen`
is what a startup found to compose with. Strings are names, `none`, or one of the
malformed kinds `empty`, `blank` and `bad`. The attributes one read takes are taken at
once, as the two reads of one handler are what may differ. `last` and `overlapped` are
history variables.

External, modelled from how this code uses it and marked so in `PROJECT.json`:
the callback handlers and the bridge of `openbox_langchain`, LangGraph's
scheduling and event stream, `openbox_core`'s `resolve_context`, `HookRuntime` and
answer parser, its runtime manager with the hook slot, Core and the person.

## 3. Runs

Passing runs:

| Run | Question | Instance | Distinct states |
|---|---|---|---|
| `ApprovalWaiterHolds` | Is anything released without a live grant, whose end cancels whom, do decided waits settle, is the contract implemented (with it: do ended turns drain)? | two turns, an async tool with both callbacks and two hooks in threads; fair | 17,456 |
| `GovernedTurnTools` | Rows, bodies, stops and orphans of concurrent tools; is the contract implemented, does every turn end if people decide? | two tools at once, one in a thread, one re-executed, then an unbound one; six configurations; fair | 233,406 |
| `GovernedTurnLlm` | Who takes the pre-screen's row, and is each call's completion reported; is the contract implemented? | a silent call, then two at once; seven configurations; fair | 87,465 |
| `GovernanceClientTurns` | Once per run and attempt? What may be dropped? | five sends in two consecutive runs, five transports and policies | 2,941 |
| `EnforcementHolds` | Is enforcement ordered, and is approval both needed and enough? | every event type, place and answer shape | 17,678 |
| `HookContextLoop` | Do registry, store and stages agree? | two turns, three activities on one trace, two spans, one on the loop and one in a thread out of the ContextVar's reach, room for one pin | 2,793,841 |
| `HandlerSetupHolds` | What do startups leave behind, overlapping ones included? | every two requests of nine, and two threes; three environments | 434,973 |

Runs that find a disagreement (each is a finding in `PROJECT.json` with the line
it contradicts):

| Run | What it shows |
|---|---|
| `GovernedTurnSwallowed` | with `send_chain_start_event` or `send_chain_end_event` off, a stopped prompt runs |
| `GovernedTurnOtherId` | without a bridge the completion of a model call goes out under `{id}-c`, so that its row is never completed |
| `GovernanceClientLegacyRetry` | on the httpx route under fail_closed the retry of a rejected event is dropped and reads as ALLOW |
| `HookContextSweepRace` | a sweep can drop a binding another turn's thread just made |
| `HandlerSetupOptions` | the factory drops `skip_chain_types`, `skip_tool_types` and `root_node_names` |

Other disagreements between the code and what is written about it, which the
models reproduce and for which no run is kept:

* Two turns of one handler at the same time wipe each other's record of what was
  sent (`client.py:336`), so a repeated event is sent again within its run;
  `client.py:252` and `src/docs/project-overview-pdr.md:131` say it is not. In
  `GovernanceClient`: `SentOncePerRun` fails with `After` empty for `"other"`.
* Without a bridge the completions of model calls are gated on
  `send_llm_start_event` (`langgraph_handler.py:1199`), not on
  `send_llm_end_event` as `src/README.md:223` says. In `GovernedTurn`:
  `rows[Close(id)]` grows with `llmEnd` off. (That they go out under another id than
  the start is `GovernedTurnOtherId`.)
* The pre-screen's row goes to the first call of any kind under a bridge, and without
  one to the first whose last message, of any role, has a text
  (`langgraph_handler.py:1952-1977`, although line 1953 says "the last human/user
  message" and line 171 "call 1, and only call 1"). `PreScreenRowReused` says which call
  it is in each case.
* A span on a thread out of the ContextVar's reach can be pinned to one activity
  and started under another, because the context is resolved twice
  (`langgraph_hook_runtime.py:140`; `core_runtime.py:163-167` says the stages cannot
  differ). `StagesAgree` says that it can happen there and nowhere else; a span whose
  pin made room for another (`evicted`) it leaves out.
* A tool whose approval came in time may still run after its turn was over: between the
  last look at the event and the record of the decision (`activity_approval.py:94-104`)
  nothing is locked. In `ApprovalWaiter`: between `CheckAnswer` and `RecordOnThread`;
  `LateAnswerNeverReleases` is about answers that come after the end.
* A send that is cancelled at its await, or fails before the network, leaves its key
  marked (`client.py:342`); the retry is dropped and reads as ALLOW although Core has
  seen nothing. `client.py:619` asks of rejected events alone that this must not be.
  In `GovernanceClient`: `CutShort`, the exemption of `DropsOnlyCovered`.
* A tool that runs unbound under a bridge starts before Core was asked: the consumer
  reports it when its start event comes out of the stream, and a stop ends the turn, not
  the body. `BodyRunsGoverned` is about tools that are bound.
* With `send_tool_end_event` off the sweep reports every bound tool of the turn as
  abandoned (`langgraph_handler.py:605`, `632`), those that ended well among them, as
  their rows are still open. In `GovernedTurn`: `Orphans`.
* Under a shared trace a hook resolves to the activity registered last
  (`trace_context_registry.py:85`), which lines 13-15 say never happens.
* A refused approval reaches the caller as `GovernanceHaltError`
  (`langgraph_handler.py:556`, `1272`); `src/docs/project-overview-pdr.md:84` names
  the approval errors. In `Enforcement`: `Surfaced`.
* The identity variables of this SDK alone (`OPENBOX_LANGGRAPH_AGENT_DID` and its
  key) are read by the runtime (`core_runtime.py:120`) and not by `initialize`: the
  gate signs beside a client that does not, although `langgraph_handler.py:334-338`
  has the two agree. `ServesOneAgent` says when that is and whose identity it can be.
* The hook slot is one per process, so a handler's hooks go through whatever runtime is
  in it: another handler's once one has been built, a base runtime that does not pin
  while that one is being armed (`core_runtime.py:162-173`), none once either has been
  closed. `core_runtime.py:4-8` says that a handler always routes its hooks through its
  own runtime, and lines 163-168 that the stages of a span agree. `HooksOfLiveHandler`
  says what is left: whoever is in the slot is alive, and pins when no startup is under
  way.
* Startups in several threads mix what they were given: URL of one and key of another,
  the DID of one agent and the seed of another, all of it accepted
  (`OnlyCheckedCredentials`); half an identity of each can stay in the configuration for
  good, and a handler that fails on it after `install()` stays in the slot. Two of them
  over one graph can both find no mark and wrap its tools twice, although
  `tool_activity_binding.py:70-71` says that a second handler never re-wraps them. That
  is why `ServesOneAgent`, `HooksOfLiveHandler` and `BoundForGood` speak of startups
  that met no other.
* `enabled` and `skip_tool_types` of the approval options (`src/README.md:347-350`)
  are stored (`types.py:607`) and never read; whether anything is held is decided by
  the verdict alone (`verdict_handler.py:61`).
* The wait of the model call's fallback is not wrapped (`langgraph_handler.py:1231`):
  the same refusal reaches the caller under another name than at the other two
  places. In `Enforcement`: the site `fallback`.
* An approval nobody decides is polled for ever (`hitl.py:50`);
  `src/docs/system-architecture.md:581` promises an `ApprovalTimeoutError`. `TurnEnds`
  is therefore stated for turns whose approvals are decided (`PeopleDecide`).
* A refused approval of the pre-screen, or a halt in the stream, leaves the session open
  (`langgraph_handler.py:555`); line 512 promises the close for blocked and halted
  prompts only, and `TurnContract` allows it.

**Bounds.** The instances are the smallest in which the hazards occur. Waiter: two
turns, because one must not touch the other; one slot with three evaluations and
two callbacks on it, because what goes wrong there goes wrong between two, and a repeat;
every kind of wait (task, loop thread, executor thread). Turn: two concurrent calls and
one before or after them, because ownership, orphans and siblings are relations of two,
and the third is a silent call or an unbound tool; retries once, since a third execution
meets the state the second left. Every option is off at least once. In `GovernedTurn`
the counters of `rows` end at what finitely many calls can send. Client: the actions of
one key are a first send, a repeat and a retry; a second key and a second run are there
to disturb. Hooks: two turns and a trace shared by all activities, since the registry's
traces do not interact otherwise; `MaxPending` is 1 instead of 4096, so that two spans
already fill the table. Enforcement has no counters. Start: every two of the nine
requests, since what one startup does to another it does alone, and two threes in which
a handler is constructed over what two others left; two graphs, one of them used twice.
There are no counters but the five fields.

**Fairness.** `ApprovalWaiter`: every ready step of a thread or task is taken and polls
return (the client has a timeout); nothing is assumed of the answers.
`DecidedWaitsSettle` is stated for the waits Core answers: *if* a wait that polls again
and again gets a final answer (strong fairness, since each poll may miss it), it
settles; the assumption is a premise of the property and of nothing else.
`GovernedTurn`: the loop runs what is ready, evaluations end (the client has a timeout),
bodies end (`WF_vars(SystemStep)`, which takes in everything but people, re-execution
and abandonment; nothing repeats for ever, so no finer fairness is needed). Nobody need
decide an approval: `TurnEnds` and the liveness half of `ImplementsContract` have
`PeopleDecide` as their premise, that every approval the turn waits for ends sooner or
later. `Enforcement`: polls happen and are answered or lost; an answer with the decision
is not lost for ever. There is no fairness for the person. The scheduling is asyncio's
and the thread pool's, both of which run everything that is ready.

## 4. Proofs

All proofs are for every value of the constants that satisfies the modules' named
assumptions, and checked by TLAPS.

**ApprovalWaiter.** `TypeCorrect`; `ApprovalSafety` (`ReleasedOnGrant`) and
`NoLateRelease` from `GrantInv`: a released wait is not inductive by itself, since
a release may come from the slot or from an answer in hand, so `GrantInv` says that
approved slots name granted evaluations (`SlotsAreGranted`), that an approving
answer was counted as a grant unless it came late (`AnswersAreGranted`), and that
late waits stay before their check (`LateIsStuck`). `RepeatSafety`
(`RepeatReusesDecision`) from `RepeatInv`: callbacks keep their order, the slot
keeps the approval until the repeat has read it, and a repeat never gets into the
loop. It rests on `CallbackOrder`, which says that the synchronous callback of an
event runs after the asynchronous one has enforced it and before other evaluations
of the activity begin; that is how the callback manager calls them.
`OnlyOwnTurnCancels` rests on `Table`: the entry a wait looks at is the one its own
turn opened, since workflow ids are different (`WorkflowAssumption`), and it is
cancelled exactly when that turn is over. `MarksAreFailures`: a mark is left on the way
out of a failed wait alone. `Refinement`: each step of the waiter is a step or a stutter of
`ApprovalContract`; the contract's fairness stays with TLC (`ImplementsContract`).

**GovernedTurn.** `Types`; `StoppedPromptsNeverRun` (`StoppedPromptNeverRuns`) from
`PromptInv`, which assumes that both chain events are sent (`ChainEvents`):
`GovernedTurnSwallowed` shows the opposite where one is not. `EachRowIsSentOnce`
(`RowsSentOnce`), `BodiesAreGoverned` (`BodyRunsGoverned`) and `OrphansAreClosed`
(`OrphansClosed`) come from one invariant, `TurnInv`, since what has been sent is
remembered in two places. The rows of pre-screen and consumer are remembered by the
client (`SeenOnce`, with `Unseen` for what the pre-screen has still to send). Under a
bridge the callbacks send past the client, and a tool's record is the memory, until
the cleanup sweeps it (`ToolRec`); an event reaches the consumer only after the
callback has sent its row, which is why the consumer never sends it again, and the body
of a bound tool starts only after its start was answered (`ToolGate`). A close the gate
failed is remembered in `lost`. A model call is reported under its
own id or the pre-screen's, which one call may have (`LlmRec`, `PreRow`). The proofs
assume nothing of the calls but that tools and models are different and that the
model's own names (`"pre"`, `"none"`) are not calls' (`CallAssumption`).

What a turn that *returns* has seen to is a matter of order, and needs the stream.
`GovernedTurnFlowProofs` adds to `TurnInv`, in `FlowInv`, what the events still
waiting and the consumer's buffers say of the calls:

* `EndInv`, `SessionInv`: the chain's end is the last event there is and comes from a
  graph that finished; it is what closes the session.
* `ClaimInv`: the first model call claims the pre-screen's row, in the callback (`alias`)
  under a bridge and in the consumer (`claimed`, of the calls with a text) without; the
  two ways exclude each other, and whoever comes later opens a row.
* `CloseInv`, `OrderInv`: the consumer closes only a call it has been shown the start
  of, and the start of a call waits in front of its end.
* `FallbackInv`: without a bridge a model call that ended has its end in the stream or
  its completion sent, and none is sent for a row that was not opened.
* `ReportInv`: under a bridge the callback completes a row before the end of the call
  is queued, so the consumer never does.
* `DenialInv`: a stop the callback stashed is in the record until the end of its call
  is consumed, and the sweep does not come before in a turn that returns; a stop the
  consumer received raises at once.

From it follow `ReturnsOverlookNoStop` (`ReturnedMeansAllowed`),
`PreScreenStandsForOneCall` (`PreScreenRowReused`) and `AnsweredCallsAreCompletedOnce`
(`LlmCompletedOnce`: the completion is reported once, under whichever id; the stronger
`LlmRowsClosed` is what `GovernedTurnOtherId` refutes), under every configuration; and,
of turns that returned, three facts that no run states: `ReturnedTurnsAreOver` (no call
moves and no row is sent any more), `ReturnedTurnsCloseTheirSession`, and
`EndedToolsAreClosed`, the counterpart for tools, which adds what is waiting of an ended
tool (`EndedInv`) and leaves out what the gate failed to close.

`Refinement` says that each step is a step or a stutter of `TurnContract`; it assumes
`ChainEvents`, without which no session is opened or none is closed, and a stopped
prompt may run. Its steps are proved handler by handler: what the pre-screen, the
consumer, the sweep and a callback send (`CallTells`), and what that makes of the row
(`OpensRow`, `ClosesRow`, `SessionSent`), which `FlowInv` shows to be new or not yet
closed at that moment; `LostInv` says that what the sweep lost gets no row again.

**GovernanceClient.** `ClientTypeCorrect`; `DropsCovered` (`DropsOnlyCovered`) from
`KeysCovered`: each remembered key is that of a send that was not rejected. So of an
event none of whose sends was cut short (`CutShort`), a send is dropped only if another
one is with the transport or got through it. It assumes `RejectionsForgotten`, that is,
any mode but the legacy route under fail_closed, where `GovernanceClientLegacyRetry`
shows the opposite. `SentOnce` (`SentOncePerRun`) from `CountInv`: what went out under a
key is at most the rejected attempts and one more if the key is remembered
(`WireCounted`), which holds of the run the client is at, while other runs are over or
have not begun (`OthersOver`, `RunBegun`). It assumes `RunsInTurn`, that of two runs one
precedes the other: it fails for overlapping runs (see the disagreements above).

**Enforcement.** `EnforcementTypeCorrect`; `ApprovalNeeded` (`ReleasedByApproval`)
and `RefusalJustified` (`RefusalHasCause`) from `ApprovalInv`: an answer in hand
that reads as a decision tells the truth (`AnswerTrue`), and there is an approval
exactly where something is held (`HeldHasApproval`). Two lemmas carry the weight:
what the strict, action-first parser makes of an answer before and after the
decision (`UndecidedReads`, `DecidedReads`). They assume only that junk words are
not words of the vocabulary. `OrderKept` (`StricterNeverLooser`) compares whole
enforcements of two verdicts; `EnforcementMonotone` is the comparison, context by context.

**HookContext.** `Types` and `PinsStayLive` (`PinsAreLive`) hold under every
interleaving; the second rests on lemmas about what removing one pin leaves
(`UnpinnedPins`) and what pinning drops to make room (`PinnedPins`). The others assume
that callbacks run on the loop (`Threaded = {}`), as they do where a graph calls its
models asynchronously; `HookContextSweepRace` shows what happens otherwise.
`RegistryAndStoreAgree`, `SweepDropsItsOwn`, `SweptTurnsAreUnbound` and `MarksAreSwept`
come from one invariant, `RegistryInv`: registry and store are written in two steps, so
that they agree only between pieces of loop work; it says who may be between two steps
(`LoopHolds`), how the maps differ while somebody is (`Bindings`), and what a sweep
under way still has to drop (`SweepHolds`). `StagesAreOneActivity` (`StagesAgree`) from
`StageInv`, for spans wherever they run: what a span resolved to is pinned from that
moment on, and what it is sent under is the same unless it is on a thread the ContextVar
does not reach (`Steady`).

**HandlerSetup.** `Types` and the other five come from one invariant, `IInv`. A startup
that met no other is the only one under way (`Marked`), so the fields it has published
are there still, and so is all it has read (`Undisturbed`): hence
`ConfigurationIsTheLastAccepted` and, with what it then read twice (`ReadTwice`) and that
identities are whole (`WholeParts`), `EachServesOneAgent`.
`RejectedCredentialsStayOut` (`OnlyCheckedCredentials`) holds under every interleaving,
field by field: `Traced` follows each from the startup that passed the checks to the
configuration and to the handlers that read it. `HooksStayLive` from `SlotHolder`: a
startup that fails with the slot in its hands has met a configuration changed between its
two reads, so another one was under way. `ToolsKeepTheirHandler` from `WrapsMarked`: while
no two startups meet, tools that carry wrappers are marked before anybody looks.

**Only model-checked:** what rests on fairness, since the prover has neither liveness
nor `ENABLED`: `TurnEnds`, `DecidedWaitsSettle`, `DecidedSettles`, and the fairness of
the two contracts (`ImplementsContract` has it, the theorems `Refinement` state the
steps alone). Every invariant and action property of a passing run is a theorem.

## 5. What is not modelled

* Payloads: prompts, outputs, spans, redaction, identity headers and the signatures
  made with an identity. No property here depends on them.
* Subagent chains and retriever events: `_map_event` takes them through the same
  branches as tools. Skip lists only make events disappear before the consumer.
* `evaluate_raw` and the HTTP clients, which keep no state; `clear_aborted_for_workflow`
  and `reset_after_approval`, which only legacy callers use.
* `merge_config`, which replaces missing options by defaults; `governance_timeout`,
  the one field `configure` writes that no property tells apart; the search of a
  graph for its tool nodes.
* `tracing.py`, `otel_setup.py` and `span_processor.py`: spans for users' own code, in
  buffers nothing of the governed path reads; the handler sets the processor to `None`.
* Events without an activity id, which the client never takes for duplicates
  (`client.py:370`); every lifecycle event of the handler has one.
* Time: polling intervals and expiration are events that may happen, not durations.

## 6. Plan

Modelled so far, in this order: waiter and contract, turn, client, hooks,
enforcement, the turn's contract, the start of handlers. What would come next:

1. **Cleanup window.** The generators clean up before the graph's own stream is
   closed. `GovernedTurn` has the calls that go on after the sweep; what may be
   promised of them (`BodyRunsGoverned` exempts them) has to be settled with the
   documents first, which are silent.
2. **Composition.** A module of several turns on one handler: `ApprovalWaiter` and
   `HookContext` driven by the same turn life cycle, with `GovernanceClient` under
   two of them, in order to state per-turn isolation once and show which parts have it.
3. **Errors.** The translation of foreign exceptions along `ainvoke`
   (`errors.py`, `core_adapter.py`), and what a turn's callers can see.
4. **Proofs.** What the contracts themselves promise, stated and proved of them and
   carried over to waiter and turn by the two refinements; the refinement of
   `TurnContract` where only one of the chain events is sent, by a weaker contract.

## 7. Running it

`tlc -config <Run>.cfg <MC module>` for a run (the pairs are in `PROJECT.json`),
`tlapm <Module>Proofs.tla` for proofs. The longest run takes about two minutes on two cores.

----------------------------- MODULE HookContext -----------------------------
(***************************************************************************)
(* Which activity a hook's governance is attributed to: exact trace        *)
(* registration (trace_context_registry.py) and the pin that ties a source *)
(* span's completed stage to its started one (langgraph_hook_runtime.py).  *)
(*                                                                         *)
(* Activities of concurrent turns register their traces, complete and are  *)
(* swept, all on one runtime.  Registration is done by the stream consumer *)
(* or by model callbacks on the event loop, or by model callbacks in       *)
(* executor threads.  Activities may share a trace: a span opened while    *)
(* another is attached, or under a span of the caller, has its trace id.   *)
(* Spans are the hooked operations the activities perform, in coroutines   *)
(* or in threads.                                                          *)
(*                                                                         *)
(* A step is one access to the base ContextStore, or one block under a     *)
(* lock.  "loop" names what the event loop is in the middle of: threads    *)
(* may step in between, other work of the loop may not.                    *)
(***************************************************************************)
EXTENDS Naturals, SequencesExt

CONSTANTS
  Turns,
  Acts,        \* activities that register a trace
  Tools,       \* those that register it again as they complete
  Callback,    \* those registered by a model callback, not by the consumer
  Threaded,    \* those whose callback runs in an executor thread
  Spans,       \* hooked operations
  Scoped,      \* those the ContextVar bind of their activity reaches
  OffLoop,     \* those performed by a thread
  Traces,
  TurnOf, TraceOf,   \* of an activity
  ActOf,             \* the activity that performs a span
  MaxPending   \* _MAX_PENDING

None == "none"

ASSUME ActivityAssumption ==
  /\ Threaded \subseteq Callback /\ Callback \subseteq Acts
  /\ Tools \subseteq Acts \ Callback
  /\ TurnOf \in [Acts -> Turns]
  /\ TraceOf \in [Acts -> Traces]
  /\ None \notin Acts \cup Turns

ASSUME SpanAssumption ==
  /\ Scoped \subseteq Spans /\ OffLoop \subseteq Spans
  /\ ActOf \in [Spans -> Acts]
  /\ MaxPending \in Nat \ {0}

Free == "free"
ASSUME LoopAssumption ==
  /\ Free \notin Acts \cup Spans \cup Turns
  /\ Acts \cap Spans = {} /\ Acts \cap Turns = {} /\ Spans \cap Turns = {}

VARIABLES
  preflight,   \* the preflight_enabled option
  loop,        \* what the event loop is in the middle of
  turn,        \* where each turn is
  act,         \* where each activity's registration is
  store,       \* the base ContextStore's trace map
  owner,       \* _by_trace
  keys,        \* _activity_keys
  aborted,     \* activities marked aborted in the base ContextStore
  doomed,      \* traces the running sweep has yet to drop from the store
  cleared,     \* activities whose marks the running sweep will clear
  span,        \* where each span is
  pins,        \* _pending, oldest first
  started,     \* the activity a span's started stage was sent under
  ended,       \* the activity its completed stage was sent under
  evicted,     \* history: spans whose pin was dropped for room
  resolved,    \* history: the activity a span resolved to as it was to be pinned
  late,        \* history: activities that began to register after the sweep
  remarked     \* history: activities marked aborted after the sweep

registry == <<turn, act, store, owner, keys, doomed, cleared, late>>
hooks    == <<span, pins, started, ended, evicted, resolved>>
marks    == <<aborted, remarked>>
vars     == <<preflight, loop, registry, hooks, marks>>

-----------------------------------------------------------------------------
(* Values *)

Pinned == [span : Spans, act : Acts]

TypeOK ==
  /\ preflight \in BOOLEAN
  /\ loop \in {Free} \cup Acts \cup Spans \cup Turns
  /\ turn \in [Turns -> {"active", "sweeping", "over"}]
  /\ act \in [Acts -> {"idle", "stored", "live", "restored", "ending", "dropped",
                       "done"}]
  /\ store \in [Traces -> Acts \cup {None}]
  /\ owner \in [Traces -> Turns \cup {None}]
  /\ keys \subseteq Acts /\ aborted \subseteq Acts
  /\ doomed \subseteq Traces /\ cleared \subseteq Acts
  /\ span \in [Spans -> {"idle", "pinned", "evaluating", "running", "refused",
                         "over", "lost"}]
  /\ pins \in Seq(Pinned)
  /\ started \in [Spans -> Acts \cup {None}]
  /\ ended \in [Spans -> Acts \cup {None}]
  /\ resolved \in [Spans -> Acts \cup {None}]
  /\ evicted \subseteq Spans /\ late \subseteq Acts /\ remarked \subseteq Acts

Init ==
  /\ preflight \in BOOLEAN
  /\ loop = Free
  /\ turn = [t \in Turns |-> "active"]
  /\ act = [a \in Acts |-> "idle"]
  /\ store = [k \in Traces |-> None]
  /\ owner = [k \in Traces |-> None]
  /\ keys = {} /\ aborted = {} /\ doomed = {} /\ cleared = {}
  /\ span = [s \in Spans |-> "idle"]
  /\ pins = <<>>
  /\ started = [s \in Spans |-> None]
  /\ ended = [s \in Spans |-> None]
  /\ resolved = [s \in Spans |-> None]
  /\ evicted = {} /\ late = {} /\ remarked = {}

-----------------------------------------------------------------------------
(* The event loop *)

\* A party may step if it has a thread of its own, or the loop is free or its.
MayStep(p) == p \in Threaded \cup OffLoop \/ loop \in {Free, p}

Hold(p)    == loop' = IF p \in Threaded \cup OffLoop THEN loop ELSE p
Release(p) == loop' = IF loop = p THEN Free ELSE loop

-----------------------------------------------------------------------------
(* TraceContextRegistry: register and unregister *)

Trace(a) == TraceOf[a]

\* The consumer registers while it consumes; a callback whenever its call runs.
MayRegister(a) ==
  /\ act[a] = "idle"
  /\ a \in Callback \/ turn[TurnOf[a]] = "active"

\* A consumer that has left its stream completes no activity.
MayEnd(a) == a \in Callback \/ turn[TurnOf[a]] = "active"

\* register(): the binding in the base store; a tool's is written again as it
\* completes, before it is dropped.
WriteStore(a) ==
  /\ MayStep(a)
  /\ \/ /\ MayRegister(a)
        /\ act' = [act EXCEPT ![a] = "stored"]
        /\ late' = IF turn[TurnOf[a]] = "over" THEN late \cup {a} ELSE late
     \/ /\ act[a] = "live" /\ a \in Tools /\ MayEnd(a)
        /\ act' = [act EXCEPT ![a] = "restored"]
        /\ UNCHANGED late
  /\ Hold(a)
  /\ store' = [store EXCEPT ![Trace(a)] = a]
  /\ UNCHANGED <<preflight, turn, owner, keys, doomed, cleared, hooks, marks>>

\* register(): the registry's own maps, under its lock.
WriteOwner(a) ==
  /\ MayStep(a)
  /\ \/ /\ act[a] = "stored"
        /\ act' = [act EXCEPT ![a] = "live"]
        /\ Release(a)
     \/ /\ act[a] = "restored"
        /\ act' = [act EXCEPT ![a] = "ending"]
        /\ UNCHANGED loop
  /\ owner' = [owner EXCEPT ![Trace(a)] = TurnOf[a]]
  /\ keys' = keys \cup {a}
  /\ UNCHANGED <<preflight, turn, store, doomed, cleared, late, hooks, marks>>

\* unregister(): whatever the trace is bound to by now.
DropStore(a) ==
  /\ MayStep(a)
  /\ \/ act[a] = "ending"
     \/ act[a] = "live" /\ a \notin Tools /\ MayEnd(a)
  /\ act' = [act EXCEPT ![a] = "dropped"]
  /\ Hold(a)
  /\ store' = [store EXCEPT ![Trace(a)] = None]
  /\ UNCHANGED <<preflight, turn, owner, keys, doomed, cleared, late, hooks, marks>>

\* Mutant: the registry keeps its entry.
DropOwnerNot(a) ==
  /\ MayStep(a)
  /\ act[a] = "dropped"
  /\ act' = [act EXCEPT ![a] = "done"]
  /\ Release(a)
  /\ UNCHANGED <<preflight, turn, store, owner, keys, doomed, cleared, late, hooks,
                 marks>>

DropOwner(a) ==
  /\ MayStep(a)
  /\ act[a] = "dropped"
  /\ act' = [act EXCEPT ![a] = "done"]
  /\ Release(a)
  /\ owner' = [owner EXCEPT ![Trace(a)] = None]
  /\ UNCHANGED <<preflight, turn, store, keys, doomed, cleared, late, hooks, marks>>

-----------------------------------------------------------------------------
(* sweep(), called by _cleanup_turn on the event loop *)

\* Mutants: every turn's traces; only the traces still bound; only the
\* activities still bound.
SweptTracesAll(t) == {k \in Traces : owner[k] # None}
SweptTracesNone(t) == {}
SweptMarksBound(t) == {a \in keys : TurnOf[a] = t /\ owner[Trace(a)] = t}

SweptTraces(t) == {k \in Traces : owner[k] = t}

SweptMarks(t) == {a \in keys : TurnOf[a] = t}

\* Under the lock: what is to go is collected and forgotten here.
SweepOwner(t) ==
  /\ loop = Free
  /\ turn[t] = "active"
  /\ loop' = t
  /\ turn' = [turn EXCEPT ![t] = "sweeping"]
  /\ doomed' = SweptTraces(t)
  /\ cleared' = SweptMarks(t)
  /\ owner' = [k \in Traces |-> IF k \in SweptTraces(t) THEN None ELSE owner[k]]
  /\ keys' = keys \ SweptMarks(t)
  /\ UNCHANGED <<preflight, act, store, late, hooks, marks>>

\* Without the lock: the store is told, trace by trace.
SweepStore(t, k) ==
  /\ loop = t
  /\ k \in doomed
  /\ store' = [store EXCEPT ![k] = None]
  /\ doomed' = doomed \ {k}
  /\ UNCHANGED <<preflight, loop, turn, act, owner, keys, cleared, late, hooks, marks>>

SweepMarks(t) ==
  /\ loop = t
  /\ doomed = {}
  /\ aborted' = aborted \ cleared
  /\ cleared' = {}
  /\ turn' = [turn EXCEPT ![t] = "over"]
  /\ loop' = Free
  /\ UNCHANGED <<preflight, act, store, owner, keys, doomed, late, hooks, remarked>>

-----------------------------------------------------------------------------
(* LangGraphHookRuntime: started and completed stages of a span *)

\* resolve_context(): the ContextVar tier, then the exact trace tier.
Resolved(s) == IF s \in Scoped THEN ActOf[s] ELSE store[Trace(ActOf[s])]

\* Where the pin of a span is, and what is left without it.
PlacesOf(s) == {i \in 1 .. Len(pins) : pins[i].span = s}
Unpinned(s) ==
  IF PlacesOf(s) = {} THEN pins
  ELSE RemoveAt(pins, CHOOSE i \in PlacesOf(s) : TRUE)

MarkAborted(a) ==
  /\ aborted' = aborted \cup {a}
  /\ remarked' = IF turn[TurnOf[a]] = "over" THEN remarked \cup {a} ELSE remarked

\* _pin(): the oldest pin makes room.
Pin(s, a) ==
  LET all == Append(pins, [span |-> s, act |-> a]) IN
  IF Len(all) > MaxPending
    THEN pins' = Tail(all) /\ evicted' = evicted \cup {Head(all).span}
    ELSE pins' = all /\ UNCHANGED evicted

\* Mutant: an unbound context is pinned too.
PinStartedUnbound(s) ==
  /\ MayStep(s)
  /\ span[s] = "idle"
  /\ span' = [span EXCEPT ![s] = "pinned"]
  /\ Hold(s)
  /\ IF preflight THEN Pin(s, Resolved(s)) ELSE UNCHANGED <<pins, evicted>>
  /\ resolved' = IF preflight THEN [resolved EXCEPT ![s] = Resolved(s)] ELSE resolved
  /\ UNCHANGED <<preflight, registry, started, ended, marks>>

\* _pin_started(): the context is resolved and pinned.
PinStarted(s) ==
  /\ MayStep(s)
  /\ span[s] = "idle"
  /\ span' = [span EXCEPT ![s] = "pinned"]
  /\ Hold(s)
  /\ IF preflight /\ Resolved(s) # None THEN Pin(s, Resolved(s))
                                         ELSE UNCHANGED <<pins, evicted>>
  /\ resolved' = IF preflight THEN [resolved EXCEPT ![s] = Resolved(s)] ELSE resolved
  /\ UNCHANGED <<preflight, registry, started, ended, marks>>

\* preflight(), apreflight(): the base runtime resolves for itself what it
\* evaluates; an unbound span is not evaluated.
EvaluateStarted(s) ==
  /\ MayStep(s)
  /\ span[s] = "pinned"
  /\ span' = [span EXCEPT ![s] = "evaluating"]
  /\ Release(s)
  /\ started' = IF preflight THEN [started EXCEPT ![s] = Resolved(s)] ELSE started
  /\ UNCHANGED <<preflight, registry, pins, ended, evicted, resolved, marks>>

Proceed(s) ==
  /\ MayStep(s)
  /\ span[s] = "evaluating"
  /\ span' = [span EXCEPT ![s] = "running"]
  /\ UNCHANGED <<preflight, loop, registry, pins, started, ended, evicted, resolved,
                 marks>>

\* Mutant: the pin outlives a refusal.
RefuseKeepsPin(s) ==
  /\ MayStep(s)
  /\ span[s] = "evaluating" /\ started[s] # None
  /\ span' = [span EXCEPT ![s] = "refused"]
  /\ MarkAborted(started[s]) \/ UNCHANGED marks
  /\ UNCHANGED <<preflight, loop, registry, pins, started, ended, evicted, resolved>>

\* Blocked, halted, approval refused (marked), or an error or a cancellation
\* (not marked): nothing will complete.
Refuse(s) ==
  /\ MayStep(s)
  /\ span[s] = "evaluating" /\ started[s] # None
  /\ span' = [span EXCEPT ![s] = "refused"]
  /\ pins' = Unpinned(s)
  /\ MarkAborted(started[s]) \/ UNCHANGED marks
  /\ UNCHANGED <<preflight, loop, registry, started, ended, evicted, resolved>>

\* Mutant: the completed stage is resolved anew.
CompletedUnderResolved(s) == Resolved(s)

\* completed(), acompleted(): the pinned context, or the base resolver's.
CompletedUnder(s) ==
  IF PlacesOf(s) = {} THEN Resolved(s) ELSE pins[CHOOSE i \in PlacesOf(s) : TRUE].act

Complete(s) ==
  /\ MayStep(s)
  /\ span[s] = "running"
  /\ span' = [span EXCEPT ![s] = "over"]
  /\ pins' = Unpinned(s)
  /\ ended' = [ended EXCEPT ![s] = CompletedUnder(s)]
  /\ \/ UNCHANGED marks
     \/ CompletedUnder(s) # None /\ MarkAborted(CompletedUnder(s))
  /\ UNCHANGED <<preflight, loop, registry, started, evicted, resolved>>

\* The operation dies between its stages.
Lose(s) ==
  /\ span[s] = "running"
  /\ span' = [span EXCEPT ![s] = "lost"]
  /\ UNCHANGED <<preflight, loop, registry, pins, started, ended, evicted, resolved,
                 marks>>

-----------------------------------------------------------------------------
(* Specification *)

Register(a) == WriteStore(a) \/ WriteOwner(a) \/ DropStore(a) \/ DropOwner(a)

Sweep(t) == SweepOwner(t) \/ SweepMarks(t) \/ \E k \in Traces : SweepStore(t, k)

Hook(s) ==
  \/ PinStarted(s) \/ EvaluateStarted(s) \/ Proceed(s) \/ Refuse(s)
  \/ Complete(s) \/ Lose(s)

Terminating ==
  /\ \A t \in Turns : turn[t] = "over"
  /\ \A s \in Spans : span[s] \in {"refused", "over", "lost"}
  /\ UNCHANGED vars

Next ==
  \/ \E a \in Acts : Register(a)
  \/ \E t \in Turns : Sweep(t)
  \/ \E s \in Spans : Hook(s)
  \/ Terminating

Spec == Init /\ [][Next]_vars

-----------------------------------------------------------------------------
(* Properties *)

\* Between two pieces of loop work the registry and the base store agree:
\* a trace is bound in both or in neither, and the registry names the turn of
\* the activity the store holds (register, unregister, sweep).
RegistryAgrees ==
  loop = Free =>
    \A k \in Traces :
      owner[k] = IF store[k] = None THEN None ELSE TurnOf[store[k]]

\* "Turn A's cleanup must not unregister turn B's live exact-trace bindings":
\* a sweep drops no binding another turn wrote last (sweep).
SweepSparesOthers ==
  [][\A t \in Turns, k \in Traces :
       loop = t /\ loop' \in {t, Free} /\ store[k] # None /\ store'[k] = None
       => TurnOf[store[k]] = t]_vars

\* After its sweep no trace resolves to an activity of a turn, unless a
\* callback of the abandoned graph registered it afterwards.
SweptTurnUnbound ==
  \A k \in Traces :
    store[k] # None /\ turn[TurnOf[store[k]]] = "over" => store[k] \in late

\* An abort mark of a turn's registered activity does not survive the sweep,
\* completed activities included (_activity_keys).
AbortMarksSwept ==
  \A a \in aborted :
    turn[TurnOf[a]] = "over" /\ act[a] # "idle" /\ a \notin late => a \in remarked

\* "A hook span's started and completed stages can't resolve to two different
\* activities": a span that was sent under the activity it had resolved to is
\* completed under it, however its trace is registered anew in between, unless
\* its pin made room for another.  Only a thread the ContextVar does not reach
\* can be sent under another one, as it resolves twice with nothing to keep
\* its trace bound as it was: for it the comment is wrong.
StagesAgree ==
  \A s \in Spans : started[s] # None =>
    /\ span[s] = "over" /\ s \notin evicted /\ started[s] = resolved[s]
         => ended[s] = started[s]
    /\ started[s] # resolved[s] => s \in OffLoop \ Scoped

\* A pin belongs to one operation that is between its stages or died there:
\* no other exit leaves one behind, and there are never more than the limit.
PinsAreLive ==
  /\ Len(pins) <= MaxPending
  /\ \A i \in 1 .. Len(pins) :
       span[pins[i].span] \in {"pinned", "evaluating", "running", "lost"}
  /\ \A i, j \in 1 .. Len(pins) : pins[i].span = pins[j].span => i = j

=============================================================================

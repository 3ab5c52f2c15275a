-------------------------- MODULE GovernanceClient --------------------------
(***************************************************************************)
(* GovernanceClient.evaluate_event and evaluate_event_sync (client.py):    *)
(* de-duplication of lifecycle events and the translation of what the      *)
(* transport yields.  One client serves all turns of a handler.            *)
(*                                                                         *)
(* A "send" is one call.  Its event is keyed by the turn's (workflow, run) *)
(* and by (activity, type).  An async send checks and marks its key, is    *)
(* suspended while the transport works, and then returns or raises; a sync *)
(* send holds the event loop from its check to its return.  (Events with   *)
(* no activity are not de-duplicated at all: no send here is one of them.) *)
(***************************************************************************)
EXTENDS Naturals, FiniteSets

CONSTANTS
  Sends,    \* calls of evaluate_event
  Sync,     \* those that are calls of evaluate_event_sync
  Runs,     \* (workflow_id, run_id) pairs
  Keys,     \* (activity_id, event_type) pairs
  RunOf, KeyOf,
  After,    \* the sends that have settled before a send begins
  RetryOf,  \* the sends whose failure makes the caller send again
  Modes     \* transports and policies a client may be built with

Routes == {"gate", "core", "legacy"}

ASSUME SendAssumption ==
  /\ Sync \subseteq Sends
  /\ RunOf \in [Sends -> Runs]
  /\ KeyOf \in [Sends -> Keys]
  /\ After \in [Sends -> SUBSET Sends]
  /\ RetryOf \in [Sends -> SUBSET Sends]
  /\ Modes \subseteq [route : Routes, failClosed : BOOLEAN]

NoRun == "none"
ASSUME NoRunAssumption == NoRun \notin Runs

VARIABLES
  mode,   \* how the client was built
  run,    \* _dedup_run
  sent,   \* _dedup_sent
  pc,     \* where each send is
  wire    \* how often each event was handed to the transport

vars == <<mode, run, sent, pc, wire>>

-----------------------------------------------------------------------------
(* Values *)

\* "returned": a verdict; "open": no verdict, and fail_open lets the caller go
\* on; "unsent": no verdict, the event never left and the caller goes on;
\* "dropped": a duplicate, the caller goes on; "raised": an OpenBoxError;
\* "crashed": any other exception, cancellation included.
Settled == {"returned", "open", "unsent", "dropped", "raised", "crashed"}

TypeOK ==
  /\ mode \in Modes
  /\ run \in Runs \cup {NoRun}
  /\ sent \subseteq Keys
  /\ pc \in [Sends -> {"idle", "sending"} \cup Settled]
  /\ wire \in [Runs \X Keys -> Nat]

Init ==
  /\ mode \in Modes
  /\ run = NoRun
  /\ sent = {}
  /\ pc = [s \in Sends |-> "idle"]
  /\ wire = [e \in Runs \X Keys |-> 0]

EventOf(s) == <<RunOf[s], KeyOf[s]>>

\* evaluate_event_sync has no gate branch.
RouteOf(s) == IF s \in Sync /\ mode.route = "gate" THEN "core" ELSE mode.route

-----------------------------------------------------------------------------
(* De-duplication *)

\* _is_duplicate(): another run's key makes the client start over.
KnownKeys(s) == IF run = RunOf[s] THEN sent ELSE {}

\* Keys are of events with an activity id; one without is sent unseen.
Duplicate(s) == KeyOf[s] \in KnownKeys(s)

\* Mutants: the key is marked with its run; only the run is remembered.
MarkEvent(s) ==
  /\ run' = RunOf[s]
  /\ sent' = KnownKeys(s) \cup {EventOf(s)}
MarkRunOnly(s) ==
  /\ run' = RunOf[s]
  /\ sent' = KnownKeys(s)

\* _is_duplicate() remembers the run of whoever asked.
Mark(s) ==
  /\ run' = RunOf[s]
  /\ sent' = KnownKeys(s) \cup {KeyOf[s]}

\* Mutant: a failed event stays marked.
ForgetNot(s) == UNCHANGED sent

\* _forget_failed_event()
Forget(s) == sent' = IF run = RunOf[s] THEN sent \ {KeyOf[s]} ELSE sent

\* A retry nobody needs counts as over.
Over(s) ==
  \/ pc[s] \in Settled
  \/ pc[s] = "idle" /\ \E r \in RetryOf[s] : pc[r] \in Settled \ {"raised"}

MayBegin(s) ==
  /\ pc[s] = "idle"
  /\ \A r \in After[s] : Over(r)
  /\ \A r \in RetryOf[s] : pc[r] = "raised"

-----------------------------------------------------------------------------
(* What a transport yields, and what becomes of it *)

\* "verdict": a parsed response of Core; "fallback": the base client's own
\* fail-open ALLOW; "defect": the envelope is rejected before the network;
\* "config" and "api": the base SDK's configuration, authentication and API
\* errors; "fault": anything else, a response of the legacy route that is no
\* success included.
Yields(route) ==
  CASE route = "gate"   -> {"verdict", "fallback", "defect", "config", "api", "fault"}
    [] route = "core"   -> {"verdict", "fallback", "config", "api", "fault"}
    [] route = "legacy" -> {"verdict", "fault"}

\* Base client: a fallback exists only under fail_open.
Possible(s, y) == y \in Yields(RouteOf(s)) /\ (y = "fallback" => ~mode.failClosed)

\* _gate_evaluate, _network_fallback_result, _collapse_client_synthesized_fallback
Result(s, y) ==
  CASE y = "verdict" -> "returned"
    [] y = "fallback" -> "open"
    [] y = "defect" -> "unsent"
    [] y \in {"config", "api"} -> "raised"
    [] y = "fault" /\ RouteOf(s) = "core" -> "crashed"
    [] y = "fault" /\ RouteOf(s) # "core" -> IF mode.failClosed THEN "raised" ELSE "open"

\* The legacy route raises without forgetting.
Forgets(s, y) == Result(s, y) = "raised" /\ RouteOf(s) # "legacy"

Finish(s, y) == pc' = [pc EXCEPT ![s] = Result(s, y)]

-----------------------------------------------------------------------------
(* Actions *)

DropDuplicate(s) ==
  /\ MayBegin(s)
  /\ Duplicate(s)
  /\ run' = RunOf[s] /\ sent' = KnownKeys(s)
  /\ pc' = [pc EXCEPT ![s] = "dropped"]
  /\ UNCHANGED <<mode, wire>>

\* evaluate_event up to its await.
Send(s) ==
  /\ s \notin Sync
  /\ MayBegin(s)
  /\ ~Duplicate(s)
  /\ Mark(s)
  /\ wire' = [wire EXCEPT ![EventOf(s)] = @ + 1]
  /\ pc' = [pc EXCEPT ![s] = "sending"]
  /\ UNCHANGED mode

\* The transport is done; other sends may have come between.
Settle(s, y) ==
  /\ pc[s] = "sending"
  /\ Possible(s, y)
  /\ Finish(s, y)
  /\ IF Forgets(s, y) THEN Forget(s) ELSE UNCHANGED sent
  /\ UNCHANGED <<mode, run, wire>>

\* The task is cancelled at the await: nothing catches that here.
CancelSend(s) ==
  /\ pc[s] = "sending"
  /\ pc' = [pc EXCEPT ![s] = "crashed"]
  /\ UNCHANGED <<mode, run, sent, wire>>

\* evaluate_event_sync: check, mark, transport and, on a refusal, forget.
SendSync(s, y) ==
  /\ s \in Sync
  /\ MayBegin(s)
  /\ ~Duplicate(s)
  /\ Possible(s, y)
  /\ run' = RunOf[s]
  /\ sent' = IF Forgets(s, y) THEN KnownKeys(s) ELSE KnownKeys(s) \cup {KeyOf[s]}
  /\ wire' = [wire EXCEPT ![EventOf(s)] = @ + 1]
  /\ Finish(s, y)
  /\ UNCHANGED mode

Terminating ==
  /\ \A s \in Sends : pc[s] # "sending" /\ ~MayBegin(s)
  /\ UNCHANGED vars

Next ==
  \/ \E s \in Sends :
       \/ DropDuplicate(s) \/ Send(s) \/ CancelSend(s)
       \/ \E y \in Yields("gate") : Settle(s, y) \/ SendSync(s, y)
  \/ Terminating

Spec == Init /\ [][Next]_vars

-----------------------------------------------------------------------------
(* Properties *)

Same(r, s) == r # s /\ EventOf(r) = EventOf(s)

\* Another send of the event is with the transport, came back with a verdict
\* or was let on by the policy; one that was rejected does not count,
Covered(s) ==
  \E r \in Sends : Same(r, s) /\ pc[r] \in {"sending", "returned", "open"}

\* nor does one that was cancelled, ran into a fault no policy was asked about,
\* or never left: its key stays marked all the same.
CutShort(s) ==
  \E r \in Sends : Same(r, s) /\ pc[r] \in {"crashed", "unsent"}

\* Of an event none of whose sends was cut short, a send is dropped, and its
\* caller let on, only if another one covers it: never because an earlier
\* attempt was rejected, never because of another run (_is_duplicate,
\* _forget_failed_event).  (After one that was cut short it is dropped and let
\* on although Core has not seen the event.)
DropsOnlyCovered ==
  [][\A s \in Sends :
       pc[s] = "idle" /\ pc'[s] = "dropped" /\ ~CutShort(s) => Covered(s)]_vars

\* An event of a run is handed to the transport once, and once more for every
\* rejected attempt.
SentOncePerRun ==
  \A e \in Runs \X Keys :
    wire[e] <= 1 + Cardinality({s \in Sends : EventOf(s) = e /\ pc[s] = "raised"})

\* "A caller retrying a rejected event must authenticate again, never dedup to
\* ALLOW": the retry of an event nobody else sends is not dropped.
RetryReachesCore ==
  \A s \in Sends :
    RetryOf[s] # {} /\ pc[s] = "dropped" /\ ~CutShort(s) => Covered(s)
=============================================================================

---------------------------- MODULE GovernedTurn ----------------------------
(***************************************************************************)
(* One governed turn of OpenBoxLangGraphHandler (langgraph_handler.py):    *)
(* ainvoke, astream_governed and astream_events all run the pre-screen,    *)
(* then stream the graph's events through _process_event, then clean up.   *)
(*                                                                         *)
(* Two parties run at once.  The graph executes tool and LLM calls, with   *)
(* the inline callbacks of openbox_langchain around them, and queues       *)
(* stream events; the consumer takes the events one by one and suspends    *)
(* at each evaluation and each approval.  A call's lifecycle may be sent   *)
(* to Core by the callback (handlers with an ActivityBridge) or by the     *)
(* consumer (subagent-gated and injected-client handlers, and tools the    *)
(* bridge knows nothing of), never by both.                                *)
(*                                                                         *)
(* A row is what Core keys a lifecycle event on: its type and activity id. *)
(* The callbacks are openbox_langchain's: they send, set the record's SENT *)
(* flag, and wait for the answer.                                          *)
(***************************************************************************)
EXTENDS Naturals, Sequences, FiniteSets

CONSTANTS
  Tools, Llms,   \* the calls the graph may make, named by their run id
  Silent,        \* LLM calls whose last message, of any role, has no text
  After,         \* the calls that end before a call begins
  Threads,       \* synchronous tools, which run in executor threads
  Retried,       \* tools a user wrapper may execute a second time
  Nested,        \* tools of a ToolNode inside a subgraph, which binding misses
  Detached,      \* tools whose call carries no turn metadata
  Configs,       \* handler configurations
  Answers        \* Core's answers: "allow", "stop", "hold" (approval), "error"

Calls == Tools \cup Llms
Unbound == Nested \cup Detached

ASSUME CallAssumption ==
  /\ Tools \cap Llms = {}
  /\ "pre" \notin Calls /\ "none" \notin Calls
  /\ Silent \subseteq Llms
  /\ Threads \subseteq Tools
  /\ Unbound \subseteq Tools
  \* an unbound tool gets a new id each time it is executed
  /\ Retried \subseteq Tools \ Unbound
  /\ After \in [Calls -> SUBSET Calls]
  /\ Answers \subseteq {"allow", "stop", "hold", "error"}

\* bridge: the handler armed an ActivityBridge and its callbacks;
\* prompt: the input holds a human message; strict: strict_activity_context;
\* the others are the send_..._event options.
ASSUME ConfigAssumption ==
  Configs \subseteq [bridge : BOOLEAN, prompt : BOOLEAN, strict : BOOLEAN,
                     chainStart : BOOLEAN, chainEnd : BOOLEAN,
                     llmStart : BOOLEAN, llmEnd : BOOLEAN,
                     toolStart : BOOLEAN, toolEnd : BOOLEAN]

VARIABLES
  cfg,       \* the configuration, fixed at construction
  main,      \* where the entry point is
  outcome,   \* how it left: "none" yet, "returned" or "raised"
  pending,   \* the row whose evaluation or approval it awaits
  pre,       \* a pre-screen response was handed to the turn
  wfSent,    \* workflow_started_sent
  opened,    \* LLM calls whose buffer says llm_started
  claimed,   \* LLM calls that claimed the pre-screen's id (_PreScreenClaim)
  seen,      \* _dedup_sent of the client
  rows,      \* how often each row was sent to Core
  lost,      \* tools whose row the cleanup failed to close
  denied,    \* rows Core stopped or whose approval was refused
  graph,     \* "idle", "running", "finished" or "failed"
  at,        \* where each call is
  retried,   \* tools executed a second time
  rec,       \* ActivityBridge records
  alias,     \* the activity id the LLM callback uses for a call
  events     \* stream events not yet consumed

consumer == <<outcome, pending, pre, wfSent, opened, claimed, seen>>
calls    == <<graph, at, retried, alias>>
vars     == <<cfg, lost, main, consumer, rows, denied, calls, rec, events>>

-----------------------------------------------------------------------------
(* Values *)

Ids  == Calls \cup {"pre"}
\* "close" is the ActivityCompleted the consumer sends under "{id}-c".
Rows == ({"signal", "workflow", "workflow end"} \X {"turn"})
        \cup ({"start", "complete", "close"} \X Ids)
NoPending == <<<<"none", "none">>, FALSE>>
Pending   == (Rows \X BOOLEAN) \cup {NoPending}

Signal      == <<"signal", "turn">>
Workflow    == <<"workflow", "turn">>
WorkflowEnd == <<"workflow end", "turn">>
Start(id)   == <<"start", id>>
Complete(id) == <<"complete", id>>
Close(id)   == <<"close", id>>

Record == [start : BOOLEAN, complete : BOOLEAN,
           stash : {"absent", "none", "allow", "stop", "hold"}]
NoRec  == [start |-> FALSE, complete |-> FALSE, stash |-> "absent"]
\* Mutant: a record without a place for the verdict.
PreparedBare == [start |-> FALSE, complete |-> FALSE]
\* prepare_tool and prepare_llm: nothing sent yet.
Prepared == [start |-> FALSE, complete |-> FALSE, stash |-> "none"]

Event == ({"start", "end"} \X Calls) \cup {<<"chain", "start">>, <<"chain", "end">>}

\* "asked", "ending" and "failing": a callback waits for Core's answer.
InFlight == {"prepared", "asked", "held", "running", "ending", "failing"}

TypeOK ==
  /\ cfg \in Configs
  /\ main \in {"signal", "workflow", "prompt", "prompt approval", "begin",
               "stream", "sending", "approval", "cleanup", "done"}
  /\ outcome \in {"none", "returned", "raised"}
  /\ pending \in Pending
  /\ pre \in BOOLEAN /\ wfSent \in BOOLEAN
  /\ opened \subseteq Llms /\ claimed \subseteq Llms
  /\ seen \subseteq Rows /\ denied \subseteq Rows
  /\ rows \in [Rows -> Nat] /\ lost \subseteq Tools
  /\ graph \in {"idle", "running", "finished", "failed"}
  /\ at \in [Calls -> {"idle", "done", "failed", "cancelled"} \cup InFlight]
  /\ retried \subseteq Retried
  /\ rec \in [Calls -> Record]
  /\ alias \in [Llms -> Ids \cup {"none"}]
  /\ events \in Seq(Event)

Init ==
  /\ cfg \in Configs
  /\ main = "signal" /\ outcome = "none" /\ pending = NoPending
  /\ pre = FALSE /\ wfSent = FALSE
  /\ opened = {} /\ claimed = {} /\ seen = {} /\ denied = {}
  /\ rows = [r \in Rows |-> 0] /\ lost = {}
  /\ graph = "idle"
  /\ at = [c \in Calls |-> "idle"]
  /\ retried = {}
  /\ rec = [c \in Calls |-> NoRec]
  /\ alias = [c \in Llms |-> "none"]
  /\ events = <<>>

-----------------------------------------------------------------------------
(* Helpers *)

Counted(r) == [rows EXCEPT ![r] = @ + 1]

\* GovernanceClient.evaluate_event puts a row on the wire.
Deliver(r) ==
  /\ rows' = Counted(r)
  /\ seen' = seen \cup {r}

\* An exception leaves the entry point before its try block.
Escape ==
  /\ main' = "done"
  /\ outcome' = "raised"

\* An exception leaves the stream loop: the finally clause runs next.
Raise ==
  /\ main' = "cleanup"
  /\ outcome' = "raised"

-----------------------------------------------------------------------------
(* _pre_screen_input: nothing of the turn runs yet *)

\* The verdicts on SignalReceived and WorkflowStarted are not looked at.
SendSignal(v) ==
  /\ main = "signal"
  /\ IF cfg.prompt
       THEN /\ Deliver(Signal)
            /\ IF v = "error" THEN Escape
                              ELSE main' = "workflow" /\ UNCHANGED outcome
       ELSE main' = "workflow" /\ UNCHANGED <<rows, seen, outcome>>
  /\ UNCHANGED <<cfg, lost, pending, pre, wfSent, opened, claimed, denied, calls, rec,
                 events>>

SendWorkflow(v) ==
  /\ main = "workflow"
  /\ IF cfg.chainStart
       THEN /\ Deliver(Workflow)
            /\ IF v = "error"
                 THEN Escape /\ UNCHANGED wfSent
                 ELSE main' = "prompt" /\ wfSent' = TRUE /\ UNCHANGED outcome
       ELSE main' = "prompt" /\ UNCHANGED <<rows, seen, outcome, wfSent>>
  /\ UNCHANGED <<cfg, lost, pending, pre, opened, claimed, denied, calls, rec, events>>

\* Mutant: the enforcement error is dropped whether or not it closed anything.
PreScreenStoppedSwallowed ==
  /\ rows' = Counted(Start("pre"))
  /\ seen' = seen \cup {Start("pre")}
  /\ main' = "begin" /\ pre' = TRUE /\ UNCHANGED outcome

\* enforce_verdict raised: the error is re-raised only where a started
\* workflow is closed first; otherwise the response is returned as it is.
PreScreenStopped ==
  IF wfSent /\ cfg.chainEnd
    THEN /\ rows' = [rows EXCEPT ![Start("pre")] = @ + 1, ![WorkflowEnd] = @ + 1]
         /\ seen' = seen \cup {Start("pre"), WorkflowEnd}
         /\ Escape /\ UNCHANGED pre
    ELSE /\ Deliver(Start("pre"))
         /\ main' = "begin" /\ pre' = TRUE /\ UNCHANGED outcome

PreScreen(v) ==
  /\ main = "prompt"
  /\ IF ~(cfg.llmStart /\ cfg.prompt)
       THEN main' = "begin" /\ UNCHANGED <<outcome, rows, seen, pre, denied>>
       ELSE \/ /\ v = "stop"
               /\ PreScreenStopped
               /\ denied' = denied \cup {Start("pre")}
            \/ /\ v # "stop"
               /\ Deliver(Start("pre"))
               /\ UNCHANGED denied
               /\ \/ v = "error" /\ Escape /\ UNCHANGED pre
                  \/ v = "hold" /\ main' = "prompt approval" /\ UNCHANGED <<outcome, pre>>
                  \/ v = "allow" /\ main' = "begin" /\ pre' = TRUE /\ UNCHANGED outcome
                  \* no answer under fail_open
                  \/ v = "allow" /\ main' = "begin" /\ UNCHANGED <<pre, outcome>>
  /\ UNCHANGED <<cfg, lost, pending, wfSent, opened, claimed, calls, rec, events>>

\* poll_until_decision returns, or raises and is wrapped in GovernanceHaltError.
PreScreenApproval(granted) ==
  /\ main = "prompt approval"
  /\ \/ granted /\ main' = "begin" /\ pre' = TRUE /\ UNCHANGED <<outcome, denied>>
     \/ ~granted /\ Escape /\ denied' = denied \cup {Start("pre")} /\ UNCHANGED pre
  /\ UNCHANGED <<cfg, lost, pending, wfSent, opened, claimed, seen, rows, calls, rec,
                 events>>

\* _governed_config, and the graph starts.
BeginStream ==
  /\ main = "begin"
  /\ main' = "stream"
  /\ graph' = "running"
  /\ events' = <<<<"chain", "start">>>>
  /\ UNCHANGED <<cfg, lost, consumer, rows, denied, at, retried, alias, rec>>

-----------------------------------------------------------------------------
(* The graph: calls, the ToolNode wrappers and the inline callbacks *)

\* Nobody reads the stream of a turn that is over or of a graph that failed.
Emit(e) ==
  events' = IF main = "done" \/ graph = "failed" THEN events ELSE Append(events, e)

\* A failed tool may be handled by its node; a failed LLM call ends the graph.
Ready(c) ==
  /\ graph = "running"
  /\ at[c] = "idle"
  /\ \A d \in After[c] : at[d] = "done" \/ (d \in Tools /\ at[d] = "failed")

RunBody(c) ==
  /\ at' = [at EXCEPT ![c] = "running"]
  /\ Emit(<<"start", c>>)

FailCall(c) ==
  /\ at' = [at EXCEPT ![c] = "failed"]
  /\ UNCHANGED events

\* Mutant: the wrapper executes the tool without preparing its record.
PrepareToolUnrecorded(c) ==
  /\ Ready(c)
  /\ at' = [at EXCEPT ![c] = "prepared"]
  /\ UNCHANGED <<cfg, lost, main, consumer, rows, denied, graph, retried, alias, rec,
                 events>>

\* The wrapper prepares a record where a bridge is armed, then executes.  A
\* tool it does not wrap, or that carries no turn, executes unbound, without
\* a record; strict mode refuses the latter.
PrepareTool(c) ==
  /\ Ready(c)
  /\ IF c \in Detached /\ cfg.strict
       THEN FailCall(c) /\ UNCHANGED rec
       ELSE /\ at' = [at EXCEPT ![c] = "prepared"]
            /\ rec' = IF cfg.bridge /\ c \notin Unbound
                        THEN [rec EXCEPT ![c] = Prepared] ELSE rec
            /\ UNCHANGED events
  /\ UNCHANGED <<cfg, lost, main, consumer, rows, denied, graph, retried, alias>>

\* A user wrapper calls execute again: same activity id, no new record.
ReexecuteTool(c) ==
  /\ graph = "running"
  /\ c \in Retried \ retried
  /\ at[c] \in {"done", "failed"}
  /\ \A d \in Calls : c \in After[d] => at[d] = "idle"
  /\ retried' = retried \cup {c}
  /\ at' = [at EXCEPT ![c] = "prepared"]
  /\ UNCHANGED <<cfg, lost, main, consumer, rows, denied, graph, alias, rec, events>>

\* on_tool_start: without a record nothing is sent (record_less_ok=False); a
\* second execution enforces what the first one stashed.
StartTool(c) ==
  /\ at[c] = "prepared"
  /\ \/ /\ rec[c] = NoRec \/ (~rec[c].start /\ ~cfg.toolStart)
        /\ RunBody(c)
        /\ UNCHANGED <<rows, rec>>
     \/ /\ rec[c].start
        /\ IF Start(c) \in denied THEN FailCall(c) ELSE RunBody(c)
        /\ UNCHANGED <<rows, rec>>
     \/ /\ rec[c] # NoRec /\ ~rec[c].start /\ cfg.toolStart
        /\ rows' = Counted(Start(c))
        /\ rec' = [rec EXCEPT ![c].start = TRUE]
        /\ at' = [at EXCEPT ![c] = "asked"]
        /\ UNCHANGED events
  /\ UNCHANGED <<cfg, lost, main, consumer, denied, graph, retried, alias>>

\* on_chat_model_start: the first call of a screened turn, whatever its
\* prompt, reuses the pre-screen's row and its answer.
StartLlm(c) ==
  /\ c \in Llms
  /\ Ready(c)
  /\ IF cfg.bridge
       THEN LET reuse == pre /\ \A d \in Llms : alias[d] # "pre" IN
            /\ alias' = [alias EXCEPT ![c] = IF reuse THEN "pre" ELSE c]
            /\ rec' = [rec EXCEPT ![c] =
                         [Prepared EXCEPT !.start = reuse \/ cfg.llmStart]]
            /\ rows' = IF ~reuse /\ cfg.llmStart THEN Counted(Start(c)) ELSE rows
            /\ at' = [at EXCEPT ![c] = "asked"]
            /\ UNCHANGED events
       ELSE RunBody(c) /\ UNCHANGED <<alias, rec, rows>>
  /\ UNCHANGED <<cfg, lost, main, consumer, denied, graph, retried>>

\* Core answers a start; what the callback does with the verdict on a prompt
\* is its own affair.
AnswerStart(c, v) ==
  /\ at[c] = "asked"
  /\ \/ v = "allow" /\ RunBody(c) /\ UNCHANGED denied
     \/ /\ v = "stop"
        /\ FailCall(c)
        /\ denied' = IF c \in Tools THEN denied \cup {Start(c)} ELSE denied
     \/ /\ v = "hold" /\ c \in Tools
        /\ at' = [at EXCEPT ![c] = "held"]
        /\ UNCHANGED <<events, denied>>
  /\ UNCHANGED <<cfg, lost, main, consumer, rows, graph, retried, alias, rec>>

\* The approval waiter answers the callback (ApprovalWaiter); once end_turn
\* ran it can only cancel.
ReleaseTool(c, granted) ==
  /\ at[c] = "held" /\ main # "done"
  /\ IF granted THEN RunBody(c) /\ UNCHANGED denied
     ELSE FailCall(c) /\ denied' = denied \cup {Start(c)}
  /\ UNCHANGED <<cfg, lost, main, consumer, rows, graph, retried, alias, rec>>

CancelTool(c) ==
  /\ at[c] = "held" /\ main = "done"
  /\ at' = [at EXCEPT ![c] = "cancelled"]
  /\ UNCHANGED <<cfg, lost, main, consumer, rows, denied, graph, retried, alias, rec,
                 events>>

\* Only a call that returned has an end event the consumer acts on.
EndBody(c, ok) ==
  IF ok THEN at' = [at EXCEPT ![c] = "done"] /\ Emit(<<"end", c>>)
        ELSE FailCall(c)

\* on_tool_end and on_tool_error, and the same for LLM calls: the callback
\* sends the completion of a record once.
SendCompletion(c, id, enabled, ok) ==
  IF rec[c] # NoRec /\ ~rec[c].complete /\ enabled
    THEN /\ rows' = Counted(Complete(id))
         /\ rec' = [rec EXCEPT ![c].complete = TRUE]
         /\ at' = [at EXCEPT ![c] = IF ok THEN "ending" ELSE "failing"]
         /\ UNCHANGED events
    ELSE EndBody(c, ok) /\ UNCHANGED <<rows, rec>>

EndTool(c, ok) ==
  /\ c \in Tools /\ at[c] = "running"
  /\ SendCompletion(c, c, cfg.toolEnd, ok)
  /\ UNCHANGED <<cfg, lost, main, consumer, denied, graph, retried, alias>>

EndLlm(c, ok) ==
  /\ c \in Llms /\ at[c] = "running"
  /\ SendCompletion(c, alias[c], cfg.llmEnd /\ rec[c].start, ok)
  /\ UNCHANGED <<cfg, lost, main, consumer, denied, graph, retried, alias>>

\* Core answers a completion: the callback stashes the verdict on the record,
\* if the turn has not been swept meanwhile.
AnswerCompletion(c, v) ==
  /\ at[c] \in {"ending", "failing"}
  /\ rec' = IF rec[c] = NoRec THEN rec ELSE [rec EXCEPT ![c].stash = v]
  /\ denied' = IF v = "stop"
                 THEN denied \cup {Complete(IF c \in Tools THEN c ELSE alias[c])}
                 ELSE denied
  /\ EndBody(c, at[c] = "ending")
  /\ UNCHANGED <<cfg, lost, main, consumer, rows, graph, retried, alias>>

\* The root chain ends when no call is in flight.
FinishGraph ==
  /\ graph = "running"
  /\ \A c \in Calls : at[c] \notin InFlight
  /\ graph' = "finished"
  /\ Emit(<<"chain", "end">>)
  /\ UNCHANGED <<cfg, lost, main, consumer, rows, denied, at, retried, alias, rec>>

\* A failure nobody handled cancels the sibling calls, which neither end nor
\* fail, and so does closing the stream the consumer has left; a thread
\* cannot be cancelled.
FailGraph ==
  /\ graph = "running"
  /\ main = "done" \/ \E c \in Calls : at[c] = "failed"
  /\ graph' = "failed"
  /\ at' = [c \in Calls |-> IF at[c] \in InFlight /\ c \notin Threads
                             THEN "cancelled" ELSE at[c]]
  /\ UNCHANGED <<cfg, lost, main, consumer, rows, denied, retried, alias, rec, events>>

-----------------------------------------------------------------------------
(* The consumer: _process_event on each stream event *)

Take(e) ==
  /\ main = "stream"
  /\ events # <<>> /\ Head(events) = e
  /\ events' = Tail(events)

Skip == UNCHANGED <<main, outcome, pending, seen, rows>>

\* evaluate_event suspends the consumer, unless the row was sent before: the
\* client then drops it and there is nothing to enforce.
Evaluate(r, enforced) ==
  IF r \in seen THEN Skip
  ELSE /\ Deliver(r)
       /\ main' = "sending"
       /\ pending' = <<r, enforced>>
       /\ UNCHANGED outcome

\* Mutant: a callback-owned completion is taken for telemetry.
EnforceStashIgnored(c, r) == Skip

\* A callback-owned completion: the verdict is read back from the record.
EnforceStash(c, r) ==
  /\ CASE rec[c].stash = "stop" -> Raise /\ UNCHANGED pending
       [] rec[c].stash = "hold" -> /\ main' = "approval"
                                   /\ pending' = <<r, TRUE>>
                                   /\ UNCHANGED outcome
       [] OTHER -> UNCHANGED <<main, outcome, pending>>
  /\ UNCHANGED <<seen, rows>>

\* The root's ChainStarted is sent only where the pre-screen did not; its row
\* has another activity id, so the client would not drop it.
ConsumeChainStart ==
  /\ Take(<<"chain", "start">>)
  /\ IF cfg.chainStart /\ ~wfSent
       THEN /\ rows' = Counted(Workflow)
            /\ main' = "sending"
            /\ pending' = <<Workflow, TRUE>>
            /\ UNCHANGED <<outcome, seen>>
       ELSE Skip
  /\ UNCHANGED <<cfg, lost, pre, wfSent, opened, claimed, denied, calls, rec>>

ConsumeChainEnd ==
  /\ Take(<<"chain", "end">>)
  /\ IF cfg.chainEnd THEN Evaluate(WorkflowEnd, FALSE) ELSE Skip
  /\ UNCHANGED <<cfg, lost, pre, wfSent, opened, claimed, denied, calls, rec>>

\* Mutant: the callback's ownership is not looked at.
ConsumeToolStartUnowned(c) ==
  /\ c \in Tools
  /\ Take(<<"start", c>>)
  /\ IF cfg.toolStart THEN Evaluate(Start(c), TRUE) ELSE Skip
  /\ UNCHANGED <<cfg, lost, pre, wfSent, opened, claimed, denied, calls, rec>>

ConsumeToolStart(c) ==
  /\ c \in Tools
  /\ Take(<<"start", c>>)
  /\ IF ~rec[c].start /\ cfg.toolStart THEN Evaluate(Start(c), TRUE) ELSE Skip
  /\ UNCHANGED <<cfg, lost, pre, wfSent, opened, claimed, denied, calls, rec>>

ConsumeToolEnd(c) ==
  /\ c \in Tools
  /\ Take(<<"end", c>>)
  /\ IF rec[c].complete THEN EnforceStash(c, Complete(c))
     ELSE IF cfg.toolEnd THEN Evaluate(Complete(c), TRUE)
     ELSE Skip
  /\ UNCHANGED <<cfg, lost, pre, wfSent, opened, claimed, denied, calls, rec>>

\* Mutant: the claim is not used up.
ClaimsAlways(c) == pre

\* _PreScreenClaim.claim(): the first call whose last message has a text takes it.
Claims(c) == pre /\ claimed = {}

\* _map_event opens the buffer and claims whoever owns the call; a later
\* prompt is sent but its verdict is not enforced.
ConsumeLlmStart(c) ==
  /\ c \in Llms
  /\ Take(<<"start", c>>)
  /\ IF c \in Silent THEN UNCHANGED <<opened, claimed>>
     ELSE /\ opened' = opened \cup {c}
          /\ claimed' = IF Claims(c) THEN claimed \cup {c} ELSE claimed
  /\ IF ~rec[c].start /\ c \notin Silent /\ cfg.llmStart /\ c \notin claimed'
       THEN Evaluate(Start(c), FALSE) ELSE Skip
  /\ UNCHANGED <<cfg, lost, pre, wfSent, denied, calls, rec>>

\* Mutant: the completion is sent under the call's own id, claim or not.
ConsumeLlmEndUnclaimed(c) ==
  /\ c \in Llms
  /\ Take(<<"end", c>>)
  /\ IF rec[c].complete THEN EnforceStash(c, Complete(alias[c]))
     ELSE IF c \in opened /\ cfg.llmStart THEN Evaluate(Close(c), TRUE)
     ELSE Skip
  /\ UNCHANGED <<cfg, lost, pre, wfSent, opened, claimed, denied, calls, rec>>

ConsumeLlmEnd(c) ==
  /\ c \in Llms
  /\ Take(<<"end", c>>)
  /\ IF rec[c].complete THEN EnforceStash(c, Complete(alias[c]))
     ELSE IF c \in opened /\ cfg.llmStart
       THEN Evaluate(Close(IF c \in claimed THEN "pre" ELSE c), TRUE)
     ELSE Skip
  /\ UNCHANGED <<cfg, lost, pre, wfSent, opened, claimed, denied, calls, rec>>

\* Core answers; "allow" stands for every verdict that lets the turn go on.
Respond(v) ==
  /\ main = "sending"
  /\ denied' = IF v = "stop" THEN denied \cup {pending[1]} ELSE denied
  /\ CASE v = "error" \/ (v = "stop" /\ pending[2]) -> Raise /\ pending' = NoPending
       [] v = "hold" /\ pending[2] -> main' = "approval" /\ UNCHANGED <<outcome, pending>>
       [] OTHER -> main' = "stream" /\ pending' = NoPending /\ UNCHANGED outcome
  /\ UNCHANGED <<cfg, lost, pre, wfSent, opened, claimed, seen, rows, calls, rec, events>>

\* Mutant: a refused approval only ends the polling.
ApprovalIgnored(granted) ==
  /\ main = "approval"
  /\ main' = "stream" /\ UNCHANGED outcome
  /\ denied' = IF granted THEN denied ELSE denied \cup {pending[1]}
  /\ pending' = NoPending
  /\ UNCHANGED <<cfg, lost, pre, wfSent, opened, claimed, seen, rows, calls, rec, events>>

\* poll_until_decision returns or raises.
Approval(granted) ==
  /\ main = "approval"
  /\ IF granted THEN main' = "stream" /\ UNCHANGED <<outcome, denied>>
               ELSE Raise /\ denied' = denied \cup {pending[1]}
  /\ pending' = NoPending
  /\ UNCHANGED <<cfg, lost, pre, wfSent, opened, claimed, seen, rows, calls, rec, events>>

\* Mutant: what ended the graph is not raised again.
EndOfStreamSwallowed ==
  /\ main = "stream" /\ events = <<>>
  /\ graph \in {"finished", "failed"} /\ main' = "cleanup" /\ outcome' = "returned"
  /\ UNCHANGED <<cfg, lost, pending, pre, wfSent, opened, claimed, seen, rows, denied,
                 calls, rec, events>>

\* Mutant: the stream is left only after the root's own end.
EndOfStreamWaits ==
  /\ main = "stream" /\ events = <<>>
  /\ graph = "finished" /\ main' = "cleanup" /\ outcome' = "returned"
  /\ UNCHANGED <<cfg, lost, pending, pre, wfSent, opened, claimed, seen, rows, denied,
                 calls, rec, events>>

\* The stream is exhausted: it ended, or it re-raises what ended the graph.
EndOfStream ==
  /\ main = "stream" /\ events = <<>>
  /\ \/ graph = "finished" /\ main' = "cleanup" /\ outcome' = "returned"
     \/ graph = "failed" /\ Raise
  /\ UNCHANGED <<cfg, lost, pending, pre, wfSent, opened, claimed, seen, rows, denied,
                 calls, rec, events>>

\* The caller cancels the turn at an await, or abandons the generator.
Abandon ==
  /\ main \in {"stream", "sending", "approval"}
  /\ Raise
  /\ pending' = NoPending
  /\ UNCHANGED <<cfg, lost, pre, wfSent, opened, claimed, seen, rows, denied, calls, rec,
                 events>>

\* Mutant: only the cancelled siblings are closed, not what a stop left open.
OrphansCancelled ==
  {c \in Tools : rec[c].start /\ ~rec[c].complete /\ at[c] = "cancelled"}

\* Tool rows the callback opened and did not close; with toolEnd off those of
\* tools that ended as they should are among them.
Orphans == {c \in Tools : rec[c].start /\ ~rec[c].complete}

\* _cleanup_turn: one synchronous block on the event loop.  Closing a row is
\* best effort: a failure of the gate is logged and the sweep goes on.
CleanupTurn ==
  /\ main = "cleanup"
  /\ main' = "done"
  /\ \E failed \in SUBSET Orphans :
       /\ lost' = failed
       /\ rows' = [r \in Rows |-> IF \E c \in Orphans \ failed : r = Complete(c)
                                    THEN rows[r] + 1 ELSE rows[r]]
  /\ rec' = [c \in Calls |-> NoRec]
  /\ events' = <<>>
  /\ UNCHANGED <<cfg, consumer, denied, calls>>

-----------------------------------------------------------------------------
(* Specification *)

Verdicts == Answers \ {"error"}

PreScreenStep ==
  \/ \E v \in Answers : SendSignal(v) \/ SendWorkflow(v) \/ PreScreen(v)
  \/ BeginStream

CallStep(c) ==
  \/ c \in Tools /\ (PrepareTool(c) \/ StartTool(c) \/ CancelTool(c))
  \/ StartLlm(c)
  \/ \E v \in Verdicts : AnswerStart(c, v) \/ AnswerCompletion(c, v)
  \/ \E ok \in BOOLEAN : EndTool(c, ok) \/ EndLlm(c, ok)

ConsumerStep ==
  \/ ConsumeChainStart \/ ConsumeChainEnd
  \/ \E c \in Calls : \/ ConsumeToolStart(c) \/ ConsumeToolEnd(c)
                      \/ ConsumeLlmStart(c) \/ ConsumeLlmEnd(c)
  \/ \E v \in Answers : Respond(v)
  \/ EndOfStream \/ CleanupTurn

\* What waits for a person; no poll has a deadline of its own.
PersonStep ==
  \E granted \in BOOLEAN :
    PreScreenApproval(granted) \/ Approval(granted)
    \/ \E c \in Tools : ReleaseTool(c, granted)

SystemStep ==
  \/ PreScreenStep \/ ConsumerStep
  \/ \E c \in Calls : CallStep(c)
  \/ FinishGraph \/ FailGraph

Over == main = "done" /\ graph # "running" /\ \A c \in Calls : at[c] \notin InFlight

Terminating == Over /\ UNCHANGED vars

Next ==
  \/ SystemStep \/ PersonStep \/ Abandon
  \/ \E c \in Calls : ReexecuteTool(c)
  \/ Terminating

Spec == Init /\ [][Next]_vars

\* The event loop goes on while anything is ready: Core answers or the client's
\* timeout does, bodies end.  People need not decide, so there is no fairness
\* of PersonStep.  Nothing repeats for ever, so no finer fairness is needed.
FairSpec == Spec /\ WF_vars(SystemStep)

-----------------------------------------------------------------------------
(* Properties *)

\* Callback, consumer, pre-screen and cleanup never send a row twice between
\* them, whatever fails, is retried or is abandoned (ownership by SENT flags).
RowsSentOnce == \A r \in Rows : rows[r] <= 1

\* In a handler with a bridge no body of a bound tool runs in a live turn
\* before its ActivityStarted was sent and neither stopped nor refused.
BodyRunsGoverned ==
  \A c \in Tools \ Unbound :
    at[c] = "running" /\ cfg.bridge /\ cfg.toolStart /\ main # "done"
    => rows[Start(c)] = 1 /\ Start(c) \notin denied

\* A turn that returns has overlooked no stop: no completion of a call that
\* ended was stopped or refused, whoever sent it, and no start the consumer
\* enforces.
ReturnedMeansAllowed ==
  outcome = "returned" =>
    /\ \A c \in Tools : at[c] = "done" => Complete(c) \notin denied
    /\ \A c \in Llms : at[c] = "done" =>
         /\ Close(c) \notin denied /\ Complete(c) \notin denied
         /\ alias[c] = "pre" => Complete("pre") \notin denied
    /\ \A c \in Tools : ~cfg.bridge \/ c \in Unbound => Start(c) \notin denied

\* Cleanup closes every row a callback opened before it and left open, but
\* for those whose own close the gate failed.
OrphansClosed ==
  main = "done" => \A c \in Tools \ Unbound :
    cfg.bridge /\ rec[c] = NoRec /\ rows[Start(c)] = 1
    => rows[Complete(c)] = 1 \/ c \in lost

\* Of the calls of a screened turn one reuses the pre-screen's row and opens
\* none, and it is the first: the first call of any kind for the callbacks, the
\* first with a text in its last message for the consumer.  Every later call
\* that is reported opens a row of its own.
PreScreenRowReused ==
  LET began == IF cfg.bridge THEN {c \in Llms : alias[c] # "none"} ELSE opened
      first == IF cfg.bridge THEN {c \in Llms : alias[c] = "pre"} ELSE claimed
  IN /\ first = {} <=> ~pre \/ began = {}
     /\ Cardinality(first) <= 1
     /\ first # {} => rows[Start("pre")] = 1
     /\ \A c \in first : rows[Start(c)] = 0
     /\ cfg.llmStart => \A c \in began \ first : rows[Start(c)] = 1

\* The graph never starts after its prompt was stopped or refused.
StoppedPromptNeverRuns == Start("pre") \in denied => graph = "idle"

\* The row a model call was reported under.
LlmRow(c) ==
  IF cfg.bridge THEN alias[c] ELSE IF c \in claimed THEN "pre" ELSE c

\* In a turn that returns, each model call that was reported under a row and
\* answered has its completion reported exactly once, by whoever owned the
\* call: by the callback under the row's id or by the consumer under "{id}-c",
\* never under the id of another call, never by both.
LlmCompletedOnce ==
  outcome = "returned" /\ cfg.llmStart /\ (cfg.bridge => cfg.llmEnd) =>
    \A c \in Llms : at[c] = "done" /\ (c \in Silent => cfg.bridge) =>
      /\ rows[Start(LlmRow(c))] = 1
      /\ rows[Close(LlmRow(c))] + rows[Complete(LlmRow(c))] = 1

\* The comments' claim: that completion is on the same id, so that it closes
\* the row the call was reported under.
LlmRowsClosed ==
  outcome = "returned" /\ cfg.llmStart /\ (cfg.bridge => cfg.llmEnd) =>
    \A c \in Llms : at[c] = "done" /\ (c \in Silent => cfg.bridge) =>
      rows[Complete(LlmRow(c))] = 1

\* Every approval the turn waits for is decided sooner or later, or given up.
PeopleDecide ==
  /\ []<>(main \notin {"prompt approval", "approval"})
  /\ \A c \in Tools : []<>(at[c] # "held")

\* If people decide, every turn ends and nothing of it runs on.
TurnEnds == PeopleDecide => <>[]Over

-----------------------------------------------------------------------------
(* What a turn promises Core and its caller (TurnContract)                 *)

phase ==
  IF main = "done" THEN outcome
  ELSE IF graph = "idle" THEN "screening" ELSE "running"

session ==
  IF rows[WorkflowEnd] > 0 THEN "closed"
  ELSE IF rows[Workflow] > 0 THEN "open" ELSE "new"

\* A tool row the callback opened is owed until the record is swept; so the
\* sweep settles what was prepared before it and nothing else.
row == [id \in Ids |->
  IF rows[Complete(id)] + rows[Close(id)] > 0 THEN "ended"
  ELSE IF rows[Start(id)] = 0 THEN "new"
  ELSE IF id \in Tools /\ rec[id].start THEN "owed"
  ELSE IF id \in lost THEN "lost" ELSE "open"]

Contract == INSTANCE TurnContract
              WITH Activities <- Ids, Prompt <- "pre",
                   refused <- Start("pre") \in denied

\* Where the chain events are on, every turn is one the contract allows, and
\* leaves its caller if people decide.
ImplementsContract ==
  Contract!SafeSpec /\ (PeopleDecide => Contract!Leaves)
=============================================================================

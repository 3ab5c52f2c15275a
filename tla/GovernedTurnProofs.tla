------------------------- MODULE GovernedTurnProofs -------------------------
(***************************************************************************)
(* What a governed turn keeps, for any calls, any order among them, any    *)
(* configurations and any answers.                                         *)
(***************************************************************************)
EXTENDS GovernedTurn, SequenceTheorems, TLAPS

-----------------------------------------------------------------------------
(* Rows and events *)

\* Rows of different kinds, or of different ids, are different rows.
LEMMA RowFacts ==
  /\ Signal \in Rows /\ Workflow \in Rows /\ WorkflowEnd \in Rows
  /\ Signal # Workflow /\ Signal # WorkflowEnd /\ Workflow # WorkflowEnd
  /\ \A i \in Ids : Start(i) \in Rows /\ Complete(i) \in Rows /\ Close(i) \in Rows
  /\ \A i, j \in Ids :
       /\ Start(i) # Complete(j) /\ Start(i) # Close(j) /\ Complete(i) # Close(j)
       /\ Start(i) = Start(j) => i = j
       /\ Complete(i) = Complete(j) => i = j
       /\ Close(i) = Close(j) => i = j
  /\ \A i \in Ids :
       {Start(i), Complete(i), Close(i)} \cap {Signal, Workflow, WorkflowEnd} = {}
<1>1. Signal \in Rows /\ Workflow \in Rows /\ WorkflowEnd \in Rows
  BY Zenon DEF Rows, Signal, Workflow, WorkflowEnd
<1>2. Signal # Workflow /\ Signal # WorkflowEnd /\ Workflow # WorkflowEnd
  BY DEF Signal, Workflow, WorkflowEnd
<1>3. \A i \in Ids : Start(i) \in Rows /\ Complete(i) \in Rows /\ Close(i) \in Rows
  BY Zenon DEF Rows, Start, Complete, Close
<1>4. \A i, j \in Ids :
       /\ Start(i) # Complete(j) /\ Start(i) # Close(j) /\ Complete(i) # Close(j)
       /\ Start(i) = Start(j) => i = j
       /\ Complete(i) = Complete(j) => i = j
       /\ Close(i) = Close(j) => i = j
  BY DEF Start, Complete, Close
<1>5. \A i \in Ids :
       {Start(i), Complete(i), Close(i)} \cap {Signal, Workflow, WorkflowEnd} = {}
  BY DEF Start, Complete, Close, Signal, Workflow, WorkflowEnd
<1> QED
  BY <1>1, <1>2, <1>3, <1>4, <1>5

\* Ids are the calls and "pre"; a call is a tool's or a model's, and never both.
LEMMA IdFacts ==
  /\ Ids = Calls \cup {"pre"} /\ "pre" \notin Calls /\ "none" \notin Ids
  /\ Calls = Tools \cup Llms /\ Tools \cap Llms = {}
  BY CallAssumption DEF Ids, Calls

Queued(e) == \E i \in 1 .. Len(events) : events[i] = e

\* The events of the chain and of a call are events.
LEMMA EventFacts ==
  /\ \A c \in Calls : <<"start", c>> \in Event /\ <<"end", c>> \in Event
  /\ <<"chain", "start">> \in Event /\ <<"chain", "end">> \in Event
  BY DEF Event

\* Emitting adds the event, if anything,
LEMMA EmitQueues ==
  ASSUME events \in Seq(Event), NEW e \in Event, Emit(e)
  PROVE  /\ events' \in Seq(Event)
         /\ \A x : Queued(x)' => Queued(x) \/ x = e
         /\ \A i \in 1 .. Len(events') : events'[i] = e \/ (i \in 1 .. Len(events) /\ events'[i] = events[i])
  BY DEF Emit, Queued

\* and taking one adds none.
LEMMA TakeQueues ==
  ASSUME events \in Seq(Event), NEW e, Take(e)
  PROVE  /\ events' \in Seq(Event) /\ Queued(e)
         /\ \A x : Queued(x)' => Queued(x)
         /\ \A i \in 1 .. Len(events') : i + 1 \in 1 .. Len(events) /\ events'[i] = events[i + 1]
<1>1. events # <<>> /\ events' = Tail(events) /\ Head(events) = e
  BY DEF Take
<1>2. /\ events' \in Seq(Event) /\ Len(events') = Len(events) - 1
      /\ \A i \in 1 .. Len(events') : events'[i] = events[i + 1]
  BY <1>1, HeadTailProperties
<1>3. Len(events) \in Nat /\ Len(events) > 0 /\ events[1] = e
  BY <1>1
<1>4. \A i \in 1 .. Len(events') : i + 1 \in 1 .. Len(events)
  BY <1>2, <1>3
<1> QED
  BY <1>2, <1>3, <1>4 DEF Queued

-----------------------------------------------------------------------------
(* Types *)

ControlTypes ==
  /\ cfg \in Configs
  /\ main \in {"signal", "workflow", "prompt", "prompt approval", "begin",
               "stream", "sending", "approval", "cleanup", "done"}
  /\ outcome \in {"none", "returned", "raised"}
  /\ pending \in Pending /\ (main \in {"sending", "approval"} => pending[1] \in Rows)
  /\ pre \in BOOLEAN /\ wfSent \in BOOLEAN
  /\ graph \in {"idle", "running", "finished", "failed"}
SetTypes ==
  /\ opened \subseteq Llms /\ claimed \subseteq Llms
  /\ seen \subseteq Rows /\ denied \subseteq Rows
  /\ retried \subseteq Retried
Places == {"idle", "done", "failed", "cancelled"} \cup InFlight
PlaceTypes ==
  /\ at \in [Calls -> Places]
  /\ \A c \in Calls : at[c] \in {"prepared", "held"} => c \in Tools
  /\ \A c \in Llms : at[c] \in {"ending", "failing"} => alias[c] \in Ids
CallTypes ==
  /\ PlaceTypes /\ rec \in [Calls -> Record]
  /\ alias \in [Llms -> Ids \cup {"none"}]
  /\ \A c \in Llms : alias[c] \notin Tools /\ (rec[c] # NoRec => alias[c] \in Ids)

TypeInv ==
  /\ ControlTypes /\ SetTypes /\ CallTypes
  /\ rows \in [Rows -> Nat] /\ events \in Seq(Event) /\ lost \subseteq Tools

\* What the pre-screen, the consumer and a call may do; a person's decision
\* is a step of whoever waits for it.
Screens == PreScreenStep \/ \E granted \in BOOLEAN : PreScreenApproval(granted)

Consumes ==
  \/ ConsumeChainStart \/ ConsumeChainEnd
  \/ \E c \in Calls : \/ ConsumeToolStart(c) \/ ConsumeToolEnd(c)
                      \/ ConsumeLlmStart(c) \/ ConsumeLlmEnd(c)

Settles ==
  \/ \E v \in Answers : Respond(v)
  \/ \E granted \in BOOLEAN : Approval(granted)
  \/ EndOfStream \/ Abandon

ToolActs(c) ==
  \/ PrepareTool(c) \/ StartTool(c) \/ CancelTool(c) \/ ReexecuteTool(c)
  \/ \E granted \in BOOLEAN : ReleaseTool(c, granted)

Acts(c) ==
  \/ c \in Tools /\ ToolActs(c)
  \/ StartLlm(c)
  \/ \E v \in Verdicts : AnswerStart(c, v) \/ AnswerCompletion(c, v)
  \/ \E ok \in BOOLEAN : EndTool(c, ok) \/ EndLlm(c, ok)

\* Every step is one of theirs, of the sweep or of the graph.
LEMMA NextSteps ==
  ASSUME [Next]_vars
  PROVE  \/ Screens \/ Consumes \/ Settles \/ CleanupTurn
         \/ \E c \in Calls : Acts(c)
         \/ FinishGraph \/ FailGraph \/ UNCHANGED vars
<1>1. ASSUME PreScreenStep \/ ConsumerStep \/ Abandon
      PROVE  Screens \/ Consumes \/ Settles \/ CleanupTurn
  BY <1>1 DEF Screens, ConsumerStep, Consumes, Settles
<1>2. ASSUME NEW c \in Calls, CallStep(c) PROVE Acts(c)
  BY <1>2 DEF CallStep, Acts, ToolActs
<1>3. ASSUME NEW c \in Calls, ReexecuteTool(c) PROVE Acts(c)
  BY <1>3, CallAssumption DEF ReexecuteTool, Acts, ToolActs
<1>4. ASSUME PersonStep PROVE Screens \/ Settles \/ \E c \in Calls : Acts(c)
  <2>1. ASSUME NEW g \in BOOLEAN, NEW c \in Tools, ReleaseTool(c, g) PROVE c \in Calls /\ Acts(c)
    BY <2>1 DEF Acts, ToolActs, Calls
  <2>2. ASSUME NEW g \in BOOLEAN, PreScreenApproval(g) \/ Approval(g) PROVE Screens \/ Settles
    BY <2>2 DEF Screens, Settles
  <2> QED
    BY <1>4, <2>1, <2>2 DEF PersonStep
<1> QED
  BY <1>1, <1>2, <1>3, <1>4 DEF Next, SystemStep, Terminating

\* TypeInv is the types of TypeOK, and what the proofs need beside.
LEMMA TypeInvTypes == TypeInv => TypeOK
  BY DEF TypeInv, ControlTypes, SetTypes, CallTypes, PlaceTypes, Places, TypeOK

\* A row that is waited for is the first component of pending.
LEMMA PendingFacts ==
  /\ NoPending \in Pending
  /\ \A r \in Rows, b \in BOOLEAN : <<r, b>> \in Pending /\ <<r, b>>[1] = r
<1>1. NoPending \in Pending /\ \A r \in Rows, b \in BOOLEAN : <<r, b>> \in Pending
  BY Zenon DEF Pending
<1> QED
  BY <1>1

\* A swept record and a fresh one are records, and not the same.
LEMMA RecordFacts ==
  /\ NoRec \in Record /\ Prepared \in Record /\ Prepared # NoRec
  /\ ~ NoRec.start /\ ~ NoRec.complete /\ ~ Prepared.start /\ ~ Prepared.complete
  BY DEF NoRec, Prepared, Record

\* What sending a row does to the counts.
LEMMA CountedType ==
  ASSUME rows \in [Rows -> Nat], NEW r \in Rows
  PROVE  /\ Counted(r) \in [Rows -> Nat] /\ Counted(r)[r] = rows[r] + 1
         /\ \A q \in Rows : q # r => Counted(r)[q] = rows[q]
  BY DEF Counted

\* A turn starts well typed.
LEMMA InitTypeInv == Init => TypeInv
<1> SUFFICES ASSUME Init PROVE TypeInv
  OBVIOUS
<1>1. ControlTypes
  BY PendingFacts DEF Init, ControlTypes
<1>2. SetTypes
  BY DEF Init, SetTypes
<1>3. CallTypes
  BY RecordFacts, IdFacts DEF Init, CallTypes, PlaceTypes, Places
<1>4. rows \in [Rows -> Nat] /\ events \in Seq(Event) /\ lost \subseteq Tools
  BY DEF Init
<1> QED
  BY <1>1, <1>2, <1>3, <1>4 DEF TypeInv

\* The pre-screen.
LEMMA PreScreenTypes == TypeInv /\ Screens => TypeInv'
<1> SUFFICES ASSUME TypeInv, Screens PROVE TypeInv'
  OBVIOUS
<1>1. CallTypes'
  <2>1. UNCHANGED <<at, rec, alias>>
    BY DEF Screens, PreScreenStep, SendSignal, SendWorkflow, PreScreen, PreScreenApproval, BeginStream, calls
  <2> QED
    BY <2>1 DEF TypeInv, CallTypes, PlaceTypes
<1>2. events' \in Seq(Event)
  <2>1. <<<<"chain", "start">>>> \in Seq(Event)
    BY EventFacts
  <2>2. events' = events \/ events' = <<<<"chain", "start">>>>
    BY DEF Screens, PreScreenStep, SendSignal, SendWorkflow, PreScreen, PreScreenApproval, BeginStream
  <2> QED
    BY <2>1, <2>2 DEF TypeInv
<1>3. ControlTypes'
  BY DEF Screens, PreScreenStep, SendSignal, SendWorkflow, PreScreen, PreScreenStopped, PreScreenApproval,
         BeginStream, Escape, calls, consumer, TypeInv, ControlTypes
<1>4. Start("pre") \in Rows /\ WorkflowEnd \in Rows /\ Signal \in Rows /\ Workflow \in Rows
  BY RowFacts, IdFacts
<1>5. SetTypes'
  BY <1>4 DEF Screens, PreScreenStep, SendSignal, SendWorkflow, PreScreen, PreScreenStopped,
         PreScreenApproval, BeginStream, Deliver, calls, consumer, TypeInv, SetTypes
<1>6. rows' \in [Rows -> Nat]
  <2>1. \/ rows' = rows \/ \E r \in Rows : rows' = Counted(r)
        \/ rows' = [rows EXCEPT ![Start("pre")] = @ + 1, ![WorkflowEnd] = @ + 1]
    BY <1>4 DEF Screens, PreScreenStep, SendSignal, SendWorkflow, PreScreen, PreScreenStopped,
         PreScreenApproval, BeginStream, Deliver
  <2>2. [rows EXCEPT ![Start("pre")] = @ + 1, ![WorkflowEnd] = @ + 1] \in [Rows -> Nat]
    BY <1>4 DEF TypeInv
  <2>3. \A r \in Rows : Counted(r) \in [Rows -> Nat]
    BY CountedType DEF TypeInv
  <2> QED
    BY <2>1, <2>2, <2>3 DEF TypeInv
<1>7. lost' = lost
  BY DEF Screens, PreScreenStep, SendSignal, SendWorkflow, PreScreen, PreScreenApproval, BeginStream
<1> QED
  BY <1>1, <1>2, <1>3, <1>5, <1>6, <1>7 DEF TypeInv

\* The calls.
LEMMA EmitType ==
  ASSUME TypeInv, NEW c \in Calls PROVE
    /\ Emit(<<"start", c>>) => events' \in Seq(Event)
    /\ Emit(<<"end", c>>) => events' \in Seq(Event)
  BY EmitQueues, EventFacts DEF TypeInv

\* A call moves to one place and leaves the others where they are.
LEMMA PlaceMove ==
  ASSUME TypeInv, NEW c \in Calls, NEW x \in Places, at' = [at EXCEPT ![c] = x],
         x \in {"prepared", "held"} => c \in Tools,
         x \in {"ending", "failing"} /\ c \in Llms => alias[c] \in Ids,
         \A d \in Llms : alias[d] \in Ids => alias'[d] \in Ids
  PROVE  PlaceTypes' /\ at'[c] = x /\ \A d \in Calls : d # c => at'[d] = at[d]
<1>1. at' \in [Calls -> Places] /\ at'[c] = x /\ \A d \in Calls : d # c => at'[d] = at[d]
  BY DEF TypeInv, CallTypes, PlaceTypes
<1>2. \A d \in Llms : at'[d] \in {"ending", "failing"} => alias'[d] \in Ids
  BY <1>1, IdFacts DEF TypeInv, CallTypes, PlaceTypes
<1>3. \A d \in Calls : at'[d] \in {"prepared", "held"} => d \in Tools
  BY <1>1 DEF TypeInv, CallTypes, PlaceTypes
<1> QED
  BY <1>1, <1>2, <1>3 DEF PlaceTypes

\* Where a step of a call may leave it: it runs, fails, ends, or waits.
LEMMA BodyMoves ==
  ASSUME NEW c \in Calls
  PROVE  /\ RunBody(c) => at' = [at EXCEPT ![c] = "running"] /\ Emit(<<"start", c>>)
         /\ FailCall(c) => at' = [at EXCEPT ![c] = "failed"] /\ UNCHANGED events
         /\ \A ok \in BOOLEAN : EndBody(c, ok) =>
              /\ \E x \in {"done", "failed"} : at' = [at EXCEPT ![c] = x]
              /\ UNCHANGED events \/ Emit(<<"end", c>>)
         /\ \A id, en : \A ok \in BOOLEAN : SendCompletion(c, id, en, ok) =>
              \/ /\ rec[c] # NoRec /\ rec' = [rec EXCEPT ![c].complete = TRUE]
                 /\ rows' = Counted(Complete(id)) /\ UNCHANGED events
                 /\ \E x \in {"ending", "failing"} : at' = [at EXCEPT ![c] = x]
              \/ EndBody(c, ok) /\ UNCHANGED <<rows, rec>>
         /\ {"running", "failed", "done", "prepared", "asked", "held", "ending", "failing",
             "cancelled"} \subseteq Places
<1>1. {"running", "failed", "done", "prepared", "asked", "held", "ending", "failing",
       "cancelled"} \subseteq Places
  BY DEF Places, InFlight
<1> QED
  BY <1>1 DEF RunBody, FailCall, EndBody, SendCompletion

\* A record keeps its type as its fields are written.
LEMMA RecordWrites ==
  ASSUME TypeInv, NEW c \in Calls, NEW v \in Verdicts
  PROVE  /\ [rec EXCEPT ![c].start = TRUE] \in [Calls -> Record]
         /\ [rec EXCEPT ![c].complete = TRUE] \in [Calls -> Record]
         /\ [rec EXCEPT ![c].stash = v] \in [Calls -> Record]
<1>1. v \in {"allow", "stop", "hold"}
  BY CallAssumption DEF Verdicts
<1> QED
  BY <1>1 DEF TypeInv, CallTypes, Record

\* What TypeInv says of a step of a call.
LEMMA StepTypes ==
  ASSUME TypeInv, NEW c \in Calls, UNCHANGED <<cfg, lost, main, consumer>>,
         graph' \in {"idle", "running", "finished", "failed"},
         retried' \subseteq Retried, denied' \subseteq Rows, rows' \in [Rows -> Nat],
         events' \in Seq(Event), CallTypes'
  PROVE  TypeInv'
  BY DEF TypeInv, ControlTypes, SetTypes, consumer

\* A tool's steps,
LEMMA ToolTypes == ASSUME TypeInv, NEW c \in Tools, ToolActs(c) PROVE TypeInv'
<1>0. c \in Calls /\ c \notin Llms /\ Start(c) \in Rows
  BY RowFacts, IdFacts
<1>1. /\ UNCHANGED <<cfg, lost, main, consumer, graph, alias>> /\ retried' \subseteq Retried
      /\ graph \in {"idle", "running", "finished", "failed"}
  BY DEF ToolActs, PrepareTool, StartTool, CancelTool, ReexecuteTool, ReleaseTool, TypeInv, SetTypes,
         ControlTypes
<1>2. denied' \subseteq Rows
  BY <1>0 DEF ToolActs, PrepareTool, StartTool, CancelTool, ReexecuteTool, ReleaseTool, TypeInv,
              SetTypes
<1>3. rows' \in [Rows -> Nat]
  <2>1. rows' = rows \/ rows' = Counted(Start(c))
    BY DEF ToolActs, PrepareTool, StartTool, CancelTool, ReexecuteTool, ReleaseTool
  <2> QED
    BY <1>0, <2>1, CountedType DEF TypeInv
<1>4. events' \in Seq(Event)
  <2>1. UNCHANGED events \/ Emit(<<"start", c>>)
    BY DEF ToolActs, PrepareTool, StartTool, CancelTool, ReexecuteTool, ReleaseTool, RunBody,
           FailCall
  <2> QED
    BY <1>0, <2>1, EmitType DEF TypeInv
<1>5. PlaceTypes'
  <2>1. \E x \in {"prepared", "running", "failed", "asked", "held", "cancelled"} :
           at' = [at EXCEPT ![c] = x]
    BY DEF ToolActs, PrepareTool, StartTool, CancelTool, ReexecuteTool, ReleaseTool, RunBody,
           FailCall
  <2> QED
    BY <1>0, <1>1, <2>1, PlaceMove, BodyMoves
<1>6. rec' \in [Calls -> Record] /\ \A d \in Llms : rec'[d] = rec[d]
  <2>1. \/ rec' = rec \/ rec' = [rec EXCEPT ![c] = Prepared]
        \/ rec' = [rec EXCEPT ![c].start = TRUE]
    BY DEF ToolActs, PrepareTool, StartTool, CancelTool, ReexecuteTool, ReleaseTool
  <2>2. rec \in [Calls -> Record]
    BY DEF TypeInv, CallTypes
  <2>3. [rec EXCEPT ![c].start = TRUE] \in [Calls -> Record]
    BY <2>2 DEF Record
  <2> QED
    BY <1>0, <2>1, <2>2, <2>3, RecordFacts, IdFacts
<1>7. CallTypes'
  BY <1>1, <1>5, <1>6 DEF TypeInv, CallTypes
<1> QED
  BY <1>0, <1>1, <1>2, <1>3, <1>4, <1>7, StepTypes

\* the end callbacks,
LEMMA EndTypes ==
  ASSUME TypeInv, NEW c \in Calls, NEW ok \in BOOLEAN, EndTool(c, ok) \/ EndLlm(c, ok)
  PROVE  TypeInv'
<1>1. UNCHANGED <<cfg, lost, main, consumer, denied, graph, retried, alias>>
  BY DEF EndTool, EndLlm
<1>2. PICK id, en : /\ SendCompletion(c, id, en, ok)
                    /\ rec[c] # NoRec => id \in Ids
                    /\ c \in Llms => id = alias[c]
  <2>1. CASE EndTool(c, ok)
    BY <2>1, IdFacts DEF EndTool
  <2>2. CASE EndLlm(c, ok)
    BY <2>2 DEF EndLlm, TypeInv, CallTypes
  <2> QED
    BY <2>1, <2>2
<1>3. CASE EndBody(c, ok) /\ UNCHANGED <<rows, rec>>
  <2>1. PlaceTypes'
    BY <1>1, <1>3, PlaceMove, BodyMoves
  <2>2. events' \in Seq(Event)
    BY <1>3, BodyMoves, EmitType DEF TypeInv
  <2>3. CallTypes'
    BY <1>1, <1>3, <2>1 DEF TypeInv, CallTypes
  <2> QED
    BY <1>1, <1>3, <2>2, <2>3, StepTypes DEF TypeInv, SetTypes, ControlTypes
<1>4. CASE /\ rec[c] # NoRec /\ rec' = [rec EXCEPT ![c].complete = TRUE]
           /\ rows' = Counted(Complete(id)) /\ UNCHANGED events
           /\ \E x \in {"ending", "failing"} : at' = [at EXCEPT ![c] = x]
  <2>1. rows' \in [Rows -> Nat]
    BY <1>2, <1>4, RowFacts, CountedType DEF TypeInv
  <2>2. rec' \in [Calls -> Record] /\ \A d \in Calls \ {c} : rec'[d] = rec[d]
    BY <1>4 DEF TypeInv, CallTypes, Record
  <2>3. PlaceTypes'
    <3>1. PICK x \in {"ending", "failing"} : at' = [at EXCEPT ![c] = x]
      BY <1>4
    <3>2. x \in Places /\ x \notin {"prepared", "held"}
      BY DEF Places, InFlight
    <3>3. c \in Llms => alias[c] \in Ids
      BY <1>2, <1>4
    <3> QED
      BY <1>1, <3>1, <3>2, <3>3, PlaceMove
  <2>4. CallTypes'
    BY <1>1, <1>4, <2>2, <2>3, IdFacts DEF TypeInv, CallTypes
  <2> QED
    <3>1. retried' \subseteq Retried /\ denied' \subseteq Rows /\ events' \in Seq(Event)
          /\ graph' \in {"idle", "running", "finished", "failed"}
      BY <1>1, <1>4 DEF TypeInv, SetTypes, ControlTypes
    <3> QED
      BY <1>1, <2>1, <2>4, <3>1, StepTypes
<1>5. \/ EndBody(c, ok) /\ UNCHANGED <<rows, rec>>
      \/ /\ rec[c] # NoRec /\ rec' = [rec EXCEPT ![c].complete = TRUE]
         /\ rows' = Counted(Complete(id)) /\ UNCHANGED events
         /\ \E x \in {"ending", "failing"} : at' = [at EXCEPT ![c] = x]
  BY <1>2 DEF SendCompletion
<1> QED
  BY <1>3, <1>4, <1>5

\* the answers the callbacks wait for,
LEMMA AnswerTypes ==
  ASSUME TypeInv, NEW c \in Calls, NEW v \in Verdicts, AnswerStart(c, v) \/ AnswerCompletion(c, v)
  PROVE  TypeInv'
<1>1. UNCHANGED <<cfg, lost, main, consumer, rows, graph, retried, alias>>
  BY DEF AnswerStart, AnswerCompletion
<1>2. CASE AnswerStart(c, v)
  <2>1. PICK x \in {"running", "failed", "held"} :
          at' = [at EXCEPT ![c] = x] /\ (x = "held" => c \in Tools)
    BY <1>2 DEF AnswerStart, RunBody, FailCall
  <2>2. PlaceTypes'
    BY <1>1, <2>1, PlaceMove, BodyMoves
  <2>3. events' \in Seq(Event)
    <3>1. UNCHANGED events \/ Emit(<<"start", c>>)
      BY <1>2 DEF AnswerStart, RunBody, FailCall
    <3> QED
      BY <3>1, EmitType DEF TypeInv
  <2>4. denied' \subseteq Rows
    BY <1>2, RowFacts, IdFacts DEF AnswerStart, TypeInv, SetTypes
  <2>5. CallTypes'
    BY <1>1, <1>2, <2>2 DEF AnswerStart, TypeInv, CallTypes
  <2> QED
    BY <1>1, <2>3, <2>4, <2>5, StepTypes DEF TypeInv, SetTypes, ControlTypes
<1>3. CASE AnswerCompletion(c, v)
  <2>1. EndBody(c, at[c] = "ending") /\ (at[c] = "ending") \in BOOLEAN
    BY <1>3 DEF AnswerCompletion
  <2>2. PlaceTypes' /\ events' \in Seq(Event)
    BY <1>1, <2>1, PlaceMove, BodyMoves, EmitType DEF TypeInv
  <2>3. (IF c \in Tools THEN c ELSE alias[c]) \in Ids
    BY <1>3, IdFacts DEF AnswerCompletion, TypeInv, CallTypes, PlaceTypes
  <2>4. denied' \subseteq Rows
    BY <1>3, <2>3, RowFacts DEF AnswerCompletion, TypeInv, SetTypes
  <2>5. rec' \in [Calls -> Record] /\ \A d \in Calls : rec'[d] # NoRec => rec[d] # NoRec
    <3>1. rec' = rec \/ (rec[c] # NoRec /\ rec' = [rec EXCEPT ![c].stash = v])
      BY <1>3 DEF AnswerCompletion
    <3>2. [rec EXCEPT ![c].stash = v] \in [Calls -> Record] /\ rec \in [Calls -> Record]
      BY RecordWrites DEF TypeInv, CallTypes
    <3> QED
      BY <3>1, <3>2
  <2>6. CallTypes'
    BY <1>1, <2>2, <2>5, IdFacts DEF TypeInv, CallTypes
  <2> QED
    BY <1>1, <2>2, <2>4, <2>6, StepTypes DEF TypeInv, SetTypes, ControlTypes
<1> QED
  BY <1>2, <1>3

\* and the start callback of a model.
LEMMA StartLlmTypes == ASSUME TypeInv, NEW c \in Calls, StartLlm(c) PROVE TypeInv'
<1>1. UNCHANGED <<cfg, lost, main, consumer, denied, graph, retried>> /\ c \in Llms
  BY DEF StartLlm
<1>3. events' \in Seq(Event)
  <2>1. UNCHANGED events \/ Emit(<<"start", c>>)
    BY DEF StartLlm, RunBody
  <2> QED
    BY <2>1, EmitType DEF TypeInv
<1>4. rows' \in [Rows -> Nat]
  <2>1. Start(c) \in Rows
    BY RowFacts, IdFacts
  <2>2. rows' = rows \/ rows' = Counted(Start(c))
    BY DEF StartLlm
  <2> QED
    BY <2>1, <2>2, CountedType DEF TypeInv
<1>5. /\ alias' \in [Llms -> Ids \cup {"none"}] /\ rec' \in [Calls -> Record]
      /\ \A d \in Llms : rec'[d] # NoRec => alias'[d] \in Ids
      /\ \A d \in Llms : alias'[d] \notin Tools /\ (alias[d] \in Ids => alias'[d] \in Ids)
  <2>1. CASE UNCHANGED <<alias, rec>>
    BY <2>1 DEF TypeInv, CallTypes
  <2>2. CASE ~ UNCHANGED <<alias, rec>>
    <3>1. PICK i \in {"pre", c}, b \in BOOLEAN :
            /\ alias' = [alias EXCEPT ![c] = i]
            /\ rec' = [rec EXCEPT ![c] = [Prepared EXCEPT !.start = b]]
      <4>1. cfg.llmStart \in BOOLEAN /\ pre \in BOOLEAN
        BY ConfigAssumption DEF TypeInv, ControlTypes
      <4> DEFINE reuse == pre /\ \A d \in Llms : alias[d] # "pre"
      <4>3. /\ alias' = [alias EXCEPT ![c] = IF reuse THEN "pre" ELSE c]
            /\ rec' = [rec EXCEPT ![c] = [Prepared EXCEPT !.start = reuse \/ cfg.llmStart]]
        BY <2>2 DEF StartLlm
      <4>4. reuse \in BOOLEAN /\ (reuse \/ cfg.llmStart) \in BOOLEAN
        OBVIOUS
      <4>5. (IF reuse THEN "pre" ELSE c) \in {"pre", c}
        OBVIOUS
      <4> HIDE DEF reuse
      <4> QED
        BY <4>3, <4>4, <4>5
    <3>2. [Prepared EXCEPT !.start = b] \in Record
      BY DEF Prepared, Record
    <3>3. rec' \in [Calls -> Record] /\ \A d \in Calls : d # c => rec'[d] = rec[d]
      BY <3>1, <3>2 DEF TypeInv, CallTypes
    <3>4. /\ alias' \in [Llms -> Ids \cup {"none"}] /\ alias'[c] \in Ids
          /\ alias'[c] \notin Tools
          /\ \A d \in Llms : d # c => alias'[d] = alias[d]
      BY <1>1, <3>1, IdFacts DEF TypeInv, CallTypes
    <3> QED
      BY <3>3, <3>4, IdFacts DEF TypeInv, CallTypes
  <2> QED
    BY <2>1, <2>2
<1>2. PlaceTypes'
  <2>1. PICK x \in {"running", "asked"} : at' = [at EXCEPT ![c] = x]
    BY DEF StartLlm, RunBody
  <2>2. x \in Places /\ x \notin {"prepared", "held", "ending", "failing"}
    BY DEF Places, InFlight
  <2>3. \A d \in Llms : alias[d] \in Ids => alias'[d] \in Ids
    BY <1>5
  <2> QED
    BY <2>1, <2>2, <2>3, PlaceMove
<1>6. CallTypes'
  BY <1>2, <1>5 DEF CallTypes
<1> QED
  BY <1>1, <1>3, <1>4, <1>6, StepTypes DEF TypeInv, SetTypes, ControlTypes

\* So do all the steps of a call,
LEMMA CallStepTypes == ASSUME TypeInv, NEW c \in Calls, Acts(c) PROVE TypeInv'
  BY ToolTypes, EndTypes, AnswerTypes, StartLlmTypes DEF Acts

\* and the end of the graph.
LEMMA GraphTypes == ASSUME TypeInv, FinishGraph \/ FailGraph PROVE TypeInv'
<1>1. UNCHANGED <<cfg, lost, main, consumer, rows, denied, retried, alias, rec>>
      /\ graph' \in {"finished", "failed"}
  BY DEF FinishGraph, FailGraph
<1>2. events' \in Seq(Event)
  <2>1. UNCHANGED events \/ Emit(<<"chain", "end">>)
    BY DEF FinishGraph, FailGraph
  <2> QED
    BY <2>1, EmitQueues, EventFacts DEF TypeInv
<1>3. PlaceTypes'
  <2>1. /\ at' \in [Calls -> Places]
        /\ \A c \in Calls : at'[c] = at[c] \/ at'[c] = "cancelled"
    BY DEF FinishGraph, FailGraph, TypeInv, CallTypes, PlaceTypes, Places
  <2> QED
    BY <1>1, <2>1, IdFacts DEF TypeInv, CallTypes, PlaceTypes
<1>4. CallTypes'
  BY <1>1, <1>3 DEF TypeInv, CallTypes
<1> QED
  BY <1>1, <1>2, <1>4 DEF TypeInv, ControlTypes, SetTypes, consumer

\* The consumer.
LEMMA EvaluateTypes ==
  ASSUME TypeInv, NEW r \in Rows, NEW b \in BOOLEAN, Evaluate(r, b)
  PROVE  /\ rows' \in [Rows -> Nat] /\ seen' \subseteq Rows /\ pending' \in Pending
         /\ outcome' = outcome /\ main' \in {main, "sending"}
         /\ main' = "sending" => pending'[1] \in Rows
<1>1. CASE r \in seen
  BY <1>1 DEF Evaluate, Skip, TypeInv, ControlTypes, SetTypes
<1>2. CASE r \notin seen
  <2>1. Deliver(r) /\ main' = "sending" /\ pending' = <<r, b>> /\ outcome' = outcome
    BY <1>2 DEF Evaluate
  <2>2. pending' \in Pending /\ pending'[1] = r
    BY <2>1, PendingFacts
  <2>3. rows' \in [Rows -> Nat] /\ seen' \subseteq Rows
    BY <2>1, CountedType DEF Deliver, TypeInv, SetTypes
  <2> QED
    BY <2>1, <2>2, <2>3
<1> QED
  BY <1>1, <1>2

\* Enforcing a stored verdict sends nothing, and waits for a row if at all.
LEMMA StashTypes ==
  ASSUME TypeInv, NEW c \in Calls, NEW r \in Rows, EnforceStash(c, r), main = "stream"
  PROVE  /\ UNCHANGED <<rows, seen>> /\ pending' \in Pending
         /\ outcome' \in {outcome, "raised"} /\ main' \in {main, "approval", "cleanup"}
         /\ main' = "approval" => pending'[1] \in Rows
<1>1. UNCHANGED <<rows, seen>>
  BY DEF EnforceStash
<1>2. <<r, TRUE>> \in Pending /\ <<r, TRUE>>[1] = r
  BY PendingFacts
<1>3. \/ main' = "cleanup" /\ outcome' = "raised" /\ pending' = pending
      \/ main' = "approval" /\ pending' = <<r, TRUE>> /\ outcome' = outcome
      \/ UNCHANGED <<main, outcome, pending>>
  BY DEF EnforceStash, Raise
<1> QED
  BY <1>1, <1>2, <1>3 DEF TypeInv, ControlTypes

\* The consumer takes one event, sends at most one row and never a prompt's.
LEMMA ConsumeMoves ==
  ASSUME TypeInv, Consumes
  PROVE  /\ UNCHANGED <<cfg, lost, pre, wfSent, denied, calls, rec>> /\ main = "stream"
         /\ events # <<>> /\ events' = Tail(events)
         /\ opened' \subseteq Llms /\ claimed' \subseteq Llms
         /\ \/ UNCHANGED <<main, outcome, pending, seen, rows>>
            \/ \E r \in Rows \ {Start("pre")}, b \in BOOLEAN : Evaluate(r, b)
            \/ \E c \in Calls, r \in Rows \ {Start("pre")} : EnforceStash(c, r)
            \/ /\ rows' = Counted(Workflow) /\ main' = "sending"
               /\ pending' = <<Workflow, TRUE>> /\ UNCHANGED <<outcome, seen>>
<1> DEFINE Moved ==
       \/ UNCHANGED <<main, outcome, pending, seen, rows>>
       \/ \E r \in Rows \ {Start("pre")}, b \in BOOLEAN : Evaluate(r, b)
       \/ \E c \in Calls, r \in Rows \ {Start("pre")} : EnforceStash(c, r)
       \/ /\ rows' = Counted(Workflow) /\ main' = "sending"
          /\ pending' = <<Workflow, TRUE>> /\ UNCHANGED <<outcome, seen>>
<1> DEFINE Kept ==
       /\ UNCHANGED <<cfg, lost, pre, wfSent, denied, calls, rec>> /\ main = "stream"
       /\ events # <<>> /\ events' = Tail(events)
       /\ opened' \subseteq Llms /\ claimed' \subseteq Llms
<1>0. /\ Workflow \in Rows /\ WorkflowEnd \in Rows \ {Start("pre")}
      /\ \A c \in Calls : Start(c) \in Rows \ {Start("pre")}
      /\ \A i \in Ids : /\ Complete(i) \in Rows \ {Start("pre")}
                         /\ Close(i) \in Rows \ {Start("pre")}
  BY RowFacts, IdFacts
<1>00. opened \subseteq Llms /\ claimed \subseteq Llms
  BY DEF TypeInv, SetTypes
<1>1. CASE ConsumeChainStart
  BY <1>00, <1>1 DEF ConsumeChainStart, Take, Skip
<1>2. CASE ConsumeChainEnd
  <2>1. Kept
    BY <1>00, <1>2 DEF ConsumeChainEnd, Take
  <2>2. Moved
    BY <1>0, <1>2 DEF ConsumeChainEnd, Skip
  <2> QED
    BY <2>1, <2>2
<1>3. ASSUME NEW c \in Calls, ConsumeToolStart(c) PROVE Kept /\ Moved
  <2>1. Kept
    BY <1>00, <1>3 DEF ConsumeToolStart, Take
  <2>2. Moved
    BY <1>0, <1>3, IdFacts DEF ConsumeToolStart, Skip
  <2> QED
    BY <2>1, <2>2
<1>4. ASSUME NEW c \in Calls, ConsumeToolEnd(c) PROVE Kept /\ Moved
  <2>1. Kept
    BY <1>00, <1>4 DEF ConsumeToolEnd, Take
  <2>2. Moved
    BY <1>0, <1>4, IdFacts DEF ConsumeToolEnd, Skip
  <2> QED
    BY <2>1, <2>2
<1>5. ASSUME NEW c \in Calls, ConsumeLlmStart(c) PROVE Kept /\ Moved
  <2>1. Kept
    BY <1>00, <1>5 DEF ConsumeLlmStart, Take
  <2>2. Moved
    BY <1>0, <1>5, IdFacts DEF ConsumeLlmStart, Skip
  <2> QED
    BY <2>1, <2>2
<1>6. ASSUME NEW c \in Calls, ConsumeLlmEnd(c) PROVE Kept /\ Moved
  <2>1. Kept
    BY <1>00, <1>6 DEF ConsumeLlmEnd, Take
  <2>2. Moved
    <3>1. rec[c].complete => Complete(alias[c]) \in Rows \ {Start("pre")}
      <4>1. rec[c].complete => rec[c] # NoRec
        BY RecordFacts
      <4> QED
        BY <1>0, <1>6, <4>1 DEF ConsumeLlmEnd, TypeInv, CallTypes
    <3> QED
      BY <1>0, <1>6, <3>1, IdFacts DEF ConsumeLlmEnd, Skip
  <2> QED
    BY <2>1, <2>2
<1> QED
  BY <1>1, <1>2, <1>3, <1>4, <1>5, <1>6 DEF Consumes

\* So it keeps the types.
LEMMA ConsumeTypes == ASSUME TypeInv, Consumes PROVE TypeInv'
<1>1. /\ UNCHANGED <<cfg, lost, pre, wfSent, denied, calls, rec>> /\ main = "stream"
      /\ events' = Tail(events) /\ events # <<>>
      /\ opened' \subseteq Llms /\ claimed' \subseteq Llms
  BY ConsumeMoves
<1>2. events' \in Seq(Event)
  BY <1>1 DEF TypeInv
<1> DEFINE Moved ==
       /\ rows' \in [Rows -> Nat] /\ seen' \subseteq Rows /\ pending' \in Pending
       /\ outcome' \in {outcome, "raised"}
       /\ main' \in {"stream", "sending", "approval", "cleanup"}
       /\ main' \in {"sending", "approval"} => pending'[1] \in Rows
<1>3. Moved
  <2>1. CASE UNCHANGED <<main, outcome, pending, seen, rows>>
    BY <1>1, <2>1 DEF TypeInv, ControlTypes, SetTypes
  <2>2. ASSUME NEW r \in Rows, NEW b \in BOOLEAN, Evaluate(r, b) PROVE Moved
    BY <1>1, <2>2, EvaluateTypes
  <2>3. ASSUME NEW c \in Calls, NEW r \in Rows, EnforceStash(c, r) PROVE Moved
    BY <1>1, <2>3, StashTypes DEF TypeInv, SetTypes
  <2>4. CASE /\ rows' = Counted(Workflow) /\ main' = "sending"
             /\ pending' = <<Workflow, TRUE>> /\ UNCHANGED <<outcome, seen>>
    BY <2>4, RowFacts, PendingFacts, CountedType DEF TypeInv, SetTypes
  <2> HIDE DEF Moved
  <2> QED
    BY <2>1, <2>2, <2>3, <2>4, ConsumeMoves
<1>4. CallTypes'
  BY <1>1 DEF TypeInv, CallTypes, PlaceTypes, calls
<1>5. ControlTypes' /\ SetTypes'
  BY <1>1, <1>3 DEF TypeInv, ControlTypes, SetTypes, calls
<1> QED
  BY <1>1, <1>2, <1>3, <1>4, <1>5 DEF TypeInv

SettleMove ==
  /\ UNCHANGED <<cfg, lost, pre, wfSent, opened, claimed, seen, rows, calls, rec, events>>
  /\ main \in {"stream", "sending", "approval"}
  /\ main' \in {"stream", "approval", "cleanup"} /\ pending' \in {pending, NoPending}
  /\ main' = "approval" => main \in {"sending", "approval"} /\ pending' = pending
  /\ \/ denied' = denied
     \/ main \in {"sending", "approval"} /\ denied' = denied \cup {pending[1]}

\* An answer or a decision sends nothing and denies the awaited row at most.
LEMMA SettleMoves == ASSUME Settles PROVE SettleMove
<1>1. ASSUME NEW v \in Answers, Respond(v) PROVE SettleMove
  <2>1. CASE v = "error" \/ (v = "stop" /\ pending[2])
    BY <1>1, <2>1 DEF Respond, Raise, SettleMove
  <2>2. CASE ~ (v = "error" \/ (v = "stop" /\ pending[2])) /\ v = "hold" /\ pending[2]
    BY <1>1, <2>2 DEF Respond, SettleMove
  <2>3. CASE ~ (v = "error" \/ (v = "stop" /\ pending[2])) /\ ~ (v = "hold" /\ pending[2])
    BY <1>1, <2>3 DEF Respond, SettleMove
  <2> QED
    BY <2>1, <2>2, <2>3
<1>2. ASSUME NEW g \in BOOLEAN, Approval(g) PROVE SettleMove
  BY <1>2 DEF Approval, Raise, SettleMove
<1>3. CASE EndOfStream \/ Abandon
  BY <1>3 DEF EndOfStream, Abandon, Raise, SettleMove
<1> QED
  BY <1>1, <1>2, <1>3 DEF Settles

\* So it keeps the types,
LEMMA SettleTypes == ASSUME TypeInv, Settles PROVE TypeInv'
<1>1. outcome' \in {"none", "returned", "raised"}
  BY DEF Settles, Respond, Approval, EndOfStream, Abandon, Raise, TypeInv, ControlTypes
<1>2. CallTypes'
  BY SettleMoves DEF SettleMove, TypeInv, CallTypes, PlaceTypes, calls
<1>3. ControlTypes'
  BY <1>1, SettleMoves, PendingFacts DEF SettleMove, TypeInv, ControlTypes, calls
<1>4. SetTypes'
  BY SettleMoves DEF SettleMove, TypeInv, ControlTypes, SetTypes, calls
<1> QED
  BY <1>2, <1>3, <1>4, SettleMoves DEF SettleMove, TypeInv

\* and so does the sweep.
LEMMA CleanupTypes == ASSUME TypeInv, CleanupTurn PROVE TypeInv'
<1>1. UNCHANGED <<cfg, consumer, denied, calls>> /\ main' = "done" /\ events' = <<>>
      /\ rec' = [c \in Calls |-> NoRec]
  BY DEF CleanupTurn
<1>2. rows' \in [Rows -> Nat] /\ lost' \subseteq Tools
  BY DEF CleanupTurn, Orphans, TypeInv
<1>3. CallTypes'
  BY <1>1, RecordFacts, IdFacts DEF TypeInv, CallTypes, PlaceTypes, calls
<1>4. ControlTypes'
  BY <1>1 DEF TypeInv, ControlTypes, consumer, calls
<1>5. SetTypes'
  BY <1>1 DEF TypeInv, SetTypes, consumer, calls
<1> QED
  BY <1>1, <1>2, <1>3, <1>4, <1>5 DEF TypeInv

\* Every step keeps the types.
LEMMA NextTypeInv == TypeInv /\ [Next]_vars => TypeInv'
<1> SUFFICES ASSUME TypeInv, [Next]_vars PROVE TypeInv'
  OBVIOUS
<1>1. CASE UNCHANGED vars
  BY <1>1 DEF vars, consumer, calls, TypeInv, ControlTypes, SetTypes, CallTypes, PlaceTypes
<1> QED
  BY <1>1, NextSteps, PreScreenTypes, ConsumeTypes, SettleTypes, CleanupTypes, CallStepTypes, GraphTypes

\* The types hold throughout a turn.
LEMMA SpecTypeInv == Spec => []TypeInv
  BY InitTypeInv, NextTypeInv, PTL DEF Spec

\* Every state of every turn has the types of TypeOK.
THEOREM Types == Spec => []TypeOK
  BY SpecTypeInv, TypeInvTypes, PTL

-----------------------------------------------------------------------------
(* What a step of a call does to the others and to the turn *)

CallMove(c) ==
  /\ UNCHANGED <<cfg, lost, main, consumer, graph>>
  /\ at'[c] # "idle" /\ (at[c] = "idle" => graph = "running")
  /\ \A d \in Calls \ {c} : at'[d] = at[d] /\ rec'[d] = rec[d]
  /\ \A d \in Llms \ {c} : alias'[d] = alias[d]
  /\ main = "done" => events' = events
  /\ \A d \in Calls \ {c}, s \in {"start", "end"} : Queued(<<s, d>>)' => Queued(<<s, d>>)

\* A callback queues events of its own call only, and none when the turn is over.
LEMMA EmitOwn ==
  ASSUME TypeInv, NEW c \in Calls,
         UNCHANGED events \/ Emit(<<"start", c>>) \/ Emit(<<"end", c>>)
  PROVE  /\ main = "done" => events' = events
         /\ \A d \in Calls \ {c}, s \in {"start", "end"} : Queued(<<s, d>>)' => Queued(<<s, d>>)
         /\ UNCHANGED events \/ Emit(<<"start", c>>) => (Queued(<<"end", c>>)' => Queued(<<"end", c>>))
         /\ UNCHANGED events \/ Emit(<<"end", c>>) => (Queued(<<"start", c>>)' => Queued(<<"start", c>>))
<1>1. main = "done" => events' = events
  BY DEF Emit
<1>2. CASE UNCHANGED events
  BY <1>1, <1>2 DEF Queued
<1>3. ASSUME NEW s \in {"start", "end"}, Emit(<<s, c>>), NEW d \in Calls, NEW q \in {"start", "end"},
             <<q, d>> # <<s, c>>, Queued(<<q, d>>)'
      PROVE  Queued(<<q, d>>)
  <2>1. <<s, c>> \in Event /\ events \in Seq(Event)
    BY EventFacts DEF TypeInv
  <2> QED
    BY <1>3, <2>1, EmitQueues
<1> QED
  BY <1>1, <1>2, <1>3

\* Every step of a call takes one of these shapes.
LEMMA ActShapes ==
  ASSUME TypeInv, NEW c \in Calls, Acts(c)
  PROVE  /\ UNCHANGED <<cfg, lost, main, consumer, graph>>
         /\ UNCHANGED events \/ Emit(<<"start", c>>) \/ Emit(<<"end", c>>)
         /\ \E x \in Places \ {"idle"} : at' = [at EXCEPT ![c] = x]
         /\ at[c] = "idle" => graph = "running"
         /\ \/ rec' = rec \/ \E r \in Record : rec' = [rec EXCEPT ![c] = r]
         /\ \/ alias' = alias \/ \E i : alias' = [alias EXCEPT ![c] = i]
         /\ \/ denied' = denied \/ denied' = denied \cup {Start(c)}
            \/ \E i : denied' = denied \cup {Complete(i)}
<1> DEFINE Shaped ==
       /\ UNCHANGED <<cfg, lost, main, consumer, graph>>
       /\ UNCHANGED events \/ Emit(<<"start", c>>) \/ Emit(<<"end", c>>)
       /\ \E x \in Places \ {"idle"} : at' = [at EXCEPT ![c] = x]
       /\ at[c] = "idle" => graph = "running"
       /\ \/ rec' = rec \/ \E r \in Record : rec' = [rec EXCEPT ![c] = r]
       /\ \/ alias' = alias \/ \E i : alias' = [alias EXCEPT ![c] = i]
       /\ \/ denied' = denied \/ denied' = denied \cup {Start(c)}
          \/ \E i : denied' = denied \cup {Complete(i)}
<1>0. /\ {"running", "failed", "done", "prepared", "asked", "held", "ending", "failing",
          "cancelled"} \subseteq Places \ {"idle"}
      /\ rec[c] \in Record
  BY DEF Places, InFlight, TypeInv, CallTypes
<1>1. ASSUME \E b \in BOOLEAN : rec' = [rec EXCEPT ![c].start = b]
             \/ rec' = [rec EXCEPT ![c].complete = b]
      PROVE  \E r \in Record : rec' = [rec EXCEPT ![c] = r]
  <2>1. PICK b \in BOOLEAN : \/ rec' = [rec EXCEPT ![c] = [rec[c] EXCEPT !.start = b]]
                             \/ rec' = [rec EXCEPT ![c] = [rec[c] EXCEPT !.complete = b]]
    BY <1>1
  <2>2. [rec[c] EXCEPT !.start = b] \in Record /\ [rec[c] EXCEPT !.complete = b] \in Record
    BY <1>0 DEF Record
  <2> QED
    BY <2>1, <2>2
<1>2. ASSUME NEW v \in Verdicts, rec' = [rec EXCEPT ![c].stash = v]
      PROVE  \E r \in Record : rec' = [rec EXCEPT ![c] = r]
  <2>1. rec' = [rec EXCEPT ![c] = [rec[c] EXCEPT !.stash = v]]
    BY <1>2
  <2>2. [rec[c] EXCEPT !.stash = v] \in Record
    BY <1>0, CallAssumption DEF Record, Verdicts
  <2> QED
    BY <2>1, <2>2
<1>3. CASE PrepareTool(c)
  BY <1>0, <1>3, RecordFacts DEF PrepareTool, FailCall, Ready
<1>4. CASE StartTool(c)
  BY <1>0, <1>1, <1>4, RecordFacts DEF StartTool, RunBody, FailCall
<1>5. ASSUME CancelTool(c) \/ ReexecuteTool(c) \/ \E g \in BOOLEAN : ReleaseTool(c, g)
      PROVE  Shaped
  BY <1>0, <1>5 DEF CancelTool, ReexecuteTool, ReleaseTool, RunBody, FailCall
<1>6. CASE StartLlm(c)
  <2>1. [Prepared EXCEPT !.start = TRUE] \in Record /\ [Prepared EXCEPT !.start = FALSE] \in Record
    BY DEF Prepared, Record
  <2>2. rec' = rec \/ \E r \in Record : rec' = [rec EXCEPT ![c] = r]
    <3>1. cfg.llmStart \in BOOLEAN /\ pre \in BOOLEAN
      BY ConfigAssumption DEF TypeInv, ControlTypes
    <3> QED
      BY <1>6, <2>1, <3>1 DEF StartLlm
  <2>3. alias' = alias \/ \E i : alias' = [alias EXCEPT ![c] = i]
    BY <1>6 DEF StartLlm
  <2>4. /\ UNCHANGED <<cfg, lost, main, consumer, graph, denied>> /\ graph = "running"
        /\ UNCHANGED events \/ Emit(<<"start", c>>)
        /\ \E x \in Places \ {"idle"} : at' = [at EXCEPT ![c] = x]
    BY <1>0, <1>6 DEF StartLlm, RunBody, Ready
  <2> QED
    BY <2>2, <2>3, <2>4
<1>7. ASSUME NEW v \in Verdicts, AnswerStart(c, v) PROVE Shaped
  BY <1>0, <1>7 DEF AnswerStart, RunBody, FailCall
<1>8. ASSUME NEW v \in Verdicts, AnswerCompletion(c, v) PROVE Shaped
  <2>1. EndBody(c, at[c] = "ending") /\ (at[c] = "ending") \in BOOLEAN /\ at[c] # "idle"
    BY <1>8 DEF AnswerCompletion
  <2>2. /\ \E x \in Places \ {"idle"} : at' = [at EXCEPT ![c] = x]
        /\ UNCHANGED events \/ Emit(<<"end", c>>)
    BY <1>0, <2>1, BodyMoves
  <2>3. rec' = rec \/ \E r \in Record : rec' = [rec EXCEPT ![c] = r]
    BY <1>2, <1>8 DEF AnswerCompletion
  <2> QED
    BY <1>8, <2>1, <2>2, <2>3 DEF AnswerCompletion
<1>9. ASSUME NEW ok \in BOOLEAN, EndTool(c, ok) \/ EndLlm(c, ok) PROVE Shaped
  <2>1. PICK id, en : SendCompletion(c, id, en, ok)
    BY <1>9 DEF EndTool, EndLlm
  <2>2. CASE EndBody(c, ok) /\ UNCHANGED rec
    <3>1. /\ \E x \in Places \ {"idle"} : at' = [at EXCEPT ![c] = x]
          /\ UNCHANGED events \/ Emit(<<"end", c>>)
      BY <1>0, <2>2, BodyMoves
    <3> QED
      BY <1>9, <2>2, <3>1 DEF EndTool, EndLlm
  <2>3. CASE /\ rec' = [rec EXCEPT ![c].complete = TRUE] /\ UNCHANGED events
             /\ \E x \in {"ending", "failing"} : at' = [at EXCEPT ![c] = x]
    <3>1. \E r \in Record : rec' = [rec EXCEPT ![c] = r]
      BY <1>1, <2>3
    <3> QED
      BY <1>0, <1>9, <2>3, <3>1 DEF EndTool, EndLlm
  <2> QED
    BY <2>1, <2>2, <2>3, BodyMoves
<1> HIDE DEF Shaped
<1>10. Shaped
  <2>1. CASE PrepareTool(c) \/ StartTool(c) \/ StartLlm(c)
    BY <1>3, <1>4, <1>6, <2>1 DEF Shaped
  <2> QED
    BY <1>5, <1>7, <1>8, <1>9, <2>1 DEF Acts, ToolActs
<1> QED
  BY <1>10 DEF Shaped

\* So it touches that call, and the consumer's state not at all.
LEMMA CallMoves == ASSUME TypeInv, NEW c \in Calls, Acts(c) PROVE CallMove(c)
<1>0. at \in [Calls -> Places] /\ rec \in [Calls -> Record]
      /\ alias \in [Llms -> Ids \cup {"none"}]
  BY DEF TypeInv, CallTypes, PlaceTypes
<1>1. /\ UNCHANGED <<cfg, lost, main, consumer, graph>>
      /\ at[c] = "idle" => graph = "running"
  BY ActShapes
<1>2. at'[c] # "idle" /\ \A d \in Calls \ {c} : at'[d] = at[d]
  <2>1. PICK x \in Places \ {"idle"} : at' = [at EXCEPT ![c] = x]
    BY ActShapes
  <2> QED
    BY <1>0, <2>1
<1>3. \A d \in Calls \ {c} : rec'[d] = rec[d]
  <2>1. rec' = rec \/ \E r \in Record : rec' = [rec EXCEPT ![c] = r]
    BY ActShapes, Zenon
  <2> QED
    BY <1>0, <2>1
<1>4. \A d \in Llms \ {c} : alias'[d] = alias[d]
  <2>1. alias' = alias \/ \E i : alias' = [alias EXCEPT ![c] = i]
    BY ActShapes, Zenon
  <2> QED
    BY <1>0, <2>1
<1>5. /\ main = "done" => events' = events
      /\ \A d \in Calls \ {c}, s \in {"start", "end"} : Queued(<<s, d>>)' => Queued(<<s, d>>)
  BY ActShapes, EmitOwn
<1> QED
  BY <1>1, <1>2, <1>3, <1>4, <1>5 DEF CallMove

\* A callback refuses no start but its own call's.
LEMMA CallDenials ==
  ASSUME TypeInv, NEW c \in Calls, Acts(c)
  PROVE  \A i \in Ids \ {c} : Start(i) \in denied' => Start(i) \in denied
<1> SUFFICES ASSUME NEW i \in Ids \ {c} PROVE Start(i) \in denied' => Start(i) \in denied
  OBVIOUS
<1>1. Start(c) # Start(i)
  BY RowFacts, IdFacts
<1>2. \A x : Complete(x) # Start(i)
  BY DEF Complete, Start
<1>3. \/ denied' = denied \/ denied' = denied \cup {Start(c)}
      \/ \E x : denied' = denied \cup {Complete(x)}
  BY ActShapes, Zenon
<1> QED
  BY <1>1, <1>2, <1>3

-----------------------------------------------------------------------------
(* The stages of a turn *)

\* Where the entry point is before the graph starts.
Screening == {"signal", "workflow", "prompt", "prompt approval", "begin"}

\* What there is of a turn whose graph has not begun, and of one that is over.
Stages ==
  /\ main \in Screening => graph = "idle"
  /\ graph = "idle" => events = <<>> /\ (\A c \in Calls : at[c] = "idle")
  /\ main = "done" => events = <<>>
  /\ cfg.chainStart /\ main \notin {"signal", "workflow", "done"} => wfSent
  /\ \A c \in Calls : ~cfg.bridge \/ c \in Unbound => rec[c] = NoRec

\* A turn starts at its first stage.
LEMMA InitStages == Init => Stages
  BY DEF Init, Stages

\* A call without a record gets none from its callbacks.
LEMMA RecordsKept ==
  ASSUME TypeInv, Stages, NEW c \in Calls, Acts(c), ~cfg.bridge \/ c \in Unbound PROVE rec' = rec
<1>0. rec[c] = NoRec /\ c \notin Llms \cap Unbound
  BY CallAssumption DEF Stages
<1>1. ASSUME ToolActs(c) PROVE rec' = rec
  BY <1>0, <1>1, RecordFacts
  DEF ToolActs, PrepareTool, StartTool, CancelTool, ReexecuteTool, ReleaseTool
<1>2. ASSUME NEW v \in Verdicts, AnswerStart(c, v) \/ AnswerCompletion(c, v) PROVE rec' = rec
  BY <1>0, <1>2 DEF AnswerStart, AnswerCompletion
<1>3. ASSUME NEW ok \in BOOLEAN, EndTool(c, ok) \/ EndLlm(c, ok) PROVE rec' = rec
  BY <1>0, <1>3 DEF EndTool, EndLlm, SendCompletion
<1>4. CASE StartLlm(c)
  BY <1>0, <1>4 DEF StartLlm
<1> QED
  BY <1>1, <1>2, <1>3, <1>4 DEF Acts

\* Every step keeps the stages in order.
LEMMA NextStages == TypeInv /\ Stages /\ [Next]_vars => Stages'
<1> SUFFICES ASSUME TypeInv, Stages, [Next]_vars PROVE Stages'
  OBVIOUS
<1>1. CASE Screens
  <2>1. UNCHANGED <<cfg, at, rec>> /\ main \in Screening
    BY <1>1 DEF Screens, PreScreenStep, SendSignal, SendWorkflow, PreScreen, PreScreenStopped,
         PreScreenApproval, BeginStream, Screening, calls
  <2>2. \/ graph' = "running" /\ main' = "stream"
        \/ UNCHANGED <<graph, events>> /\ main' \in Screening \cup {"done"}
    BY <1>1 DEF Screens, PreScreenStep, SendSignal, SendWorkflow, PreScreen, PreScreenStopped,
         PreScreenApproval, BeginStream, Escape, Screening, calls
  <2>3. \/ main' \in {"workflow", "done"}
        \/ main = "workflow" /\ (cfg.chainStart => wfSent')
        \/ main \notin {"signal", "workflow"} /\ wfSent' = wfSent
    BY <1>1 DEF Screens, PreScreenStep, SendSignal, SendWorkflow, PreScreen, PreScreenStopped,
         PreScreenApproval, BeginStream, Escape, consumer
  <2>4. events = <<>>
    BY <2>1 DEF Stages
  <2>5. cfg'.chainStart /\ main' \notin {"signal", "workflow", "done"} => wfSent'
    BY <2>1, <2>3 DEF Stages, Screening
  <2> QED
    BY <2>1, <2>2, <2>4, <2>5 DEF Stages, Screening
<1>2. CASE Consumes
  <2>1. /\ UNCHANGED <<cfg, wfSent, graph, at, rec>> /\ main = "stream" /\ events # <<>>
        /\ main' \in {"stream", "sending", "approval", "cleanup"}
    BY <1>2, ConsumeMoves DEF calls, Evaluate, Skip, EnforceStash, Raise
  <2> QED
    BY <2>1 DEF Stages, Screening
<1>3. CASE Settles
  BY <1>3, SettleMoves DEF SettleMove, Stages, Screening, calls
<1>4. CASE CleanupTurn
  BY <1>4 DEF CleanupTurn, Stages, Screening, consumer, calls
<1>5. ASSUME NEW c \in Calls, Acts(c) PROVE Stages'
  <2>1. CallMove(c)
    BY <1>5, CallMoves
  <2>2. graph # "idle"
    BY <2>1 DEF CallMove, Stages
  <2>3. ~cfg.bridge \/ c \in Unbound => rec' = rec
    BY <1>5, RecordsKept
  <2>4. \A d \in Calls : ~cfg.bridge \/ d \in Unbound => rec'[d] = NoRec
    BY <2>1, <2>3 DEF CallMove, Stages
  <2> QED
    BY <2>1, <2>2, <2>4 DEF CallMove, Stages, Screening, consumer
<1>6. CASE FinishGraph \/ FailGraph
  BY <1>6 DEF FinishGraph, FailGraph, Emit, Stages, Screening, consumer
<1>7. CASE UNCHANGED vars
  BY <1>7 DEF vars, consumer, calls, Stages
<1> QED
  BY <1>1, <1>2, <1>3, <1>4, <1>5, <1>6, <1>7, NextSteps

-----------------------------------------------------------------------------
(* A stopped prompt *)

ChainEvents == \A c \in Configs : c.chainStart /\ c.chainEnd

PromptInv ==
  /\ Start("pre") \in denied => main = "done" /\ graph = "idle"
  /\ main \in {"sending", "approval"} => pending[1] # Start("pre")

\* No step starts the graph of a turn whose prompt was stopped or refused.
LEMMA NextPromptInv ==
  ASSUME ChainEvents, TypeInv, Stages, PromptInv, [Next]_vars PROVE PromptInv'
<1>0. cfg.chainStart /\ cfg.chainEnd
  BY DEF ChainEvents, TypeInv, ControlTypes
<1>1. CASE Screens
  <2>1. main \in Screening /\ main' \in Screening \cup {"done", "stream"}
    BY <1>1 DEF Screens, PreScreenStep, SendSignal, SendWorkflow, PreScreen, PreScreenStopped,
         PreScreenApproval, BeginStream, Escape, Screening
  <2>2. denied' = denied \/ (main' = "done" /\ graph' = graph)
    <3>1. ASSUME NEW v \in Answers, PreScreen(v)
          PROVE  denied' = denied \/ (main' = "done" /\ graph' = graph)
      <4>1. wfSent /\ cfg.chainEnd /\ graph' = graph
        BY <1>0, <3>1 DEF PreScreen, Stages, calls
      <4>2. denied' = denied \/ PreScreenStopped
        BY <3>1 DEF PreScreen
      <4> QED
        BY <4>1, <4>2 DEF PreScreenStopped, Escape
    <3>2. ASSUME NEW g \in BOOLEAN, PreScreenApproval(g)
          PROVE  denied' = denied \/ (main' = "done" /\ graph' = graph)
      BY <3>2 DEF PreScreenApproval, Escape, calls
    <3> QED
      BY <1>1, <3>1, <3>2 DEF Screens, PreScreenStep, SendSignal, SendWorkflow, BeginStream
  <2> QED
    BY <2>1, <2>2 DEF PromptInv, Screening, Stages
<1>2. CASE Consumes
  <2>1. UNCHANGED <<denied, graph>> /\ main = "stream"
    BY <1>2, ConsumeMoves DEF calls
  <2>2. main' \in {"sending", "approval"} => pending'[1] # Start("pre")
    <3>1. CASE UNCHANGED <<main, pending>>
      BY <2>1, <3>1
    <3>2. CASE pending' = <<Workflow, TRUE>>
      BY <3>2, RowFacts, IdFacts
    <3>3. ASSUME NEW r \in Rows \ {Start("pre")}, NEW b \in BOOLEAN, Evaluate(r, b)
          PROVE  main' = main \/ pending'[1] = r
      BY <3>3 DEF Evaluate, Skip
    <3>4. ASSUME NEW c \in Calls, NEW r \in Rows \ {Start("pre")}, EnforceStash(c, r)
          PROVE  main' \in {main, "cleanup"} \/ pending'[1] = r
      <4>1. main' = "cleanup" \/ pending' = <<r, TRUE>> \/ main' = main
        BY <3>4 DEF EnforceStash, Raise
      <4>2. <<r, TRUE>>[1] = r
        BY PendingFacts
      <4> QED
        BY <4>1, <4>2
    <3> QED
      BY <1>2, <2>1, <3>1, <3>2, <3>3, <3>4, ConsumeMoves
  <2> QED
    BY <2>1, <2>2 DEF PromptInv
<1>3. CASE Settles
  BY <1>3, SettleMoves DEF SettleMove, PromptInv, calls
<1>4. CASE CleanupTurn
  BY <1>4 DEF CleanupTurn, PromptInv, consumer, calls
<1>5. ASSUME NEW c \in Calls, Acts(c) PROVE PromptInv'
  <2>1. "pre" \in Ids \ {c}
    BY IdFacts
  <2> QED
    BY <1>5, <2>1, CallMoves, CallDenials DEF CallMove, PromptInv, consumer
<1>6. CASE FinishGraph \/ FailGraph
  BY <1>6 DEF FinishGraph, FailGraph, PromptInv, consumer
<1>7. CASE UNCHANGED vars
  BY <1>7 DEF vars, consumer, calls, PromptInv
<1> QED
  BY <1>1, <1>2, <1>3, <1>4, <1>5, <1>6, <1>7, NextSteps

\* Where the chain events are on, the graph never starts after its prompt was
\* stopped or refused, whatever is called and whatever Core answers.
THEOREM StoppedPromptsNeverRun == ASSUME ChainEvents PROVE Spec => []StoppedPromptNeverRuns
<1>1. Init => PromptInv
  BY DEF Init, PromptInv
<1>2. TypeInv /\ Stages /\ PromptInv /\ [Next]_vars => (TypeInv /\ Stages /\ PromptInv)'
  BY NextTypeInv, NextStages, NextPromptInv
<1>3. PromptInv => StoppedPromptNeverRuns
  BY DEF PromptInv, StoppedPromptNeverRuns
<1> QED
  BY <1>1, <1>2, <1>3, InitTypeInv, InitStages, PTL DEF Spec

-----------------------------------------------------------------------------
(* Rows, by who sends them *)

Bit(b) == IF b THEN 1 ELSE 0

\* Rows of the callbacks' own.
CallbackRow(r) ==
  cfg.bridge /\ \/ \E c \in Calls \ Unbound : r = Start(c)
                \/ \E i \in Ids \ Unbound : r = Complete(i)

\* Every other row is sent once, and the client knows which.
SeenOnce == \A r \in Rows : ~CallbackRow(r) => rows[r] = Bit(r \in seen)

\* What the pre-screen has still to send.
Unseen ==
  /\ main \in {"signal", "workflow", "prompt"} =>
       Start("pre") \notin seen /\ WorkflowEnd \notin seen
  /\ main \in {"signal", "workflow"} => Workflow \notin seen
  /\ main = "signal" => Signal \notin seen

Waits == {"asked", "held", "running", "ending", "failing"}

\* Of a bound tool under a bridge the record tells what was sent, until it is swept,
\* and the consumer is not shown an event before the callback has sent its row.
ToolRec(c) ==
  /\ rec[c] # NoRec => rows[Start(c)] = Bit(rec[c].start) /\ rows[Complete(c)] = Bit(rec[c].complete)
  /\ rec[c] = NoRec => /\ rows[Start(c)] <= 1 /\ rows[Complete(c)] <= 1
                       /\ rows[Start(c)] <= rows[Complete(c)] \/ c \in lost
  /\ rec[c] = NoRec /\ (at[c] = "idle" \/ main # "done")
       => rows[Start(c)] = 0 /\ rows[Complete(c)] = 0
  /\ at[c] = "idle" => rec[c] = NoRec
  /\ at[c] # "idle" /\ main # "done" => rec[c] # NoRec
  /\ Queued(<<"start", c>>) /\ cfg.toolStart => rec[c].start
  /\ Queued(<<"end", c>>) /\ cfg.toolEnd => rec[c].complete
  /\ at[c] \in {"ending", "failing"} /\ main # "done" => rec[c].complete

\* Its body waits for an answer to its start.
ToolGate(c) ==
  cfg.toolStart =>
    /\ main \in {"sending", "approval"} => pending[1] # Start(c)
    /\ main # "done" /\ at[c] \in {"asked", "held", "running"} =>
         rec[c].start /\ Start(c) \notin denied
    /\ main # "done" /\ ~rec[c].start => Start(c) \notin denied

\* A model call is reported under its own id or the pre-screen's, which one
\* call may have.
LlmRec(c) ==
  /\ alias[c] \in {"none", "pre", c}
  /\ alias[c] = "pre" => \A d \in Llms : alias[d] = "pre" => d = c
  /\ at[c] = "idle" => rec[c] = NoRec /\ alias[c] = "none" /\ rows[Start(c)] = 0
  /\ rec[c] # NoRec => alias[c] # "none" /\ rows[Complete(alias[c])] = Bit(rec[c].complete)
  /\ alias[c] # c => rows[Complete(c)] = 0
  /\ rows[Start(c)] <= 1 /\ rows[Complete(c)] <= 1
  /\ Queued(<<"start", c>>) /\ cfg.llmStart => rec[c].start
  /\ at[c] = "asked" /\ main # "done" /\ cfg.llmStart => rec[c].start

PreRow ==
  /\ rows[Complete("pre")] <= 1
  /\ (\A c \in Llms : alias[c] # "pre") => rows[Complete("pre")] = 0

BridgeInv == cfg.bridge => /\ \A c \in Tools \ Unbound : ToolRec(c) /\ ToolGate(c)
                           /\ (\A c \in Llms : LlmRec(c)) /\ PreRow

TurnInv == TypeInv /\ Stages /\ SeenOnce /\ Unseen /\ BridgeInv

\* Which rows are the callbacks'.
LEMMA CallbackFacts ==
  /\ ~CallbackRow(Signal) /\ ~CallbackRow(Workflow) /\ ~CallbackRow(WorkflowEnd)
  /\ ~CallbackRow(Start("pre")) /\ \A i \in Ids : ~CallbackRow(Close(i))
  /\ cfg.bridge => /\ \A c \in Calls \ Unbound : CallbackRow(Start(c))
                   /\ \A i \in Ids \ Unbound : CallbackRow(Complete(i))
                   /\ CallbackRow(Complete("pre"))
                   /\ \A c \in Llms : CallbackRow(Start(c)) /\ CallbackRow(Complete(c))
                   /\ \A c \in Unbound : ~CallbackRow(Start(c)) /\ ~CallbackRow(Complete(c))
<1>1. \A x : Complete(x) # Start("pre")
  BY DEF Complete, Start
<1>2. "pre" \notin Unbound /\ \A c \in Llms : c \notin Unbound
  BY CallAssumption, IdFacts
<1>3. Unbound \subseteq Ids
  BY CallAssumption, IdFacts
<1> QED
  BY <1>1, <1>2, <1>3, RowFacts, IdFacts DEF CallbackRow

\* A turn starts with nothing sent.
LEMMA InitTurnInv == Init => TurnInv
<1> SUFFICES ASSUME Init PROVE TurnInv
  OBVIOUS
<1>1. TypeInv /\ Stages
  BY InitTypeInv, InitStages
<1>2. SeenOnce /\ Unseen
  BY DEF Init, SeenOnce, Unseen, Bit
<1>3. \A r \in Rows : rows[r] = 0
  BY DEF Init
<1>4. \A x : ~Queued(x)
  BY DEF Init, Queued
<1>5. ASSUME NEW c \in Tools PROVE ToolRec(c) /\ ToolGate(c)
  <2>1. rows[Start(c)] = 0 /\ rows[Complete(c)] = 0
    BY <1>3, RowFacts, IdFacts
  <2>2. at[c] = "idle" /\ rec[c] = NoRec /\ denied = {} /\ main = "signal"
    BY IdFacts DEF Init
  <2> QED
    BY <1>4, <2>1, <2>2 DEF ToolRec, ToolGate
<1>6. ASSUME NEW c \in Llms PROVE LlmRec(c)
  <2>1. rows[Start(c)] = 0 /\ rows[Complete(c)] = 0
    BY <1>3, RowFacts, IdFacts
  <2>2. at[c] = "idle" /\ rec[c] = NoRec /\ alias[c] = "none"
    BY IdFacts DEF Init
  <2> QED
    BY <1>4, <2>1, <2>2 DEF LlmRec
<1>7. PreRow
  BY <1>3, RowFacts, IdFacts DEF PreRow
<1> QED
  BY <1>1, <1>2, <1>5, <1>6, <1>7 DEF TurnInv, BridgeInv

\* A row nobody has sent is sent: SeenOnce goes on.
LEMMA SendUnseen ==
  ASSUME TypeInv, SeenOnce, cfg' = cfg, NEW r \in Rows, r \notin seen, ~CallbackRow(r),
         rows' = Counted(r), seen' = seen \cup {r}
  PROVE  SeenOnce'
<1>1. rows[r] = 0 /\ rows'[r] = 1 /\ \A q \in Rows : q # r => rows'[q] = rows[q]
  BY CountedType DEF TypeInv, SeenOnce, Bit
<1> QED
  BY <1>1 DEF SeenOnce, Bit, CallbackRow

\* Nothing is sent but callbacks' rows: SeenOnce goes on.
LEMMA SameSeen ==
  ASSUME SeenOnce, cfg' = cfg, seen' = seen,
         \A r \in Rows : CallbackRow(r) \/ rows'[r] = rows[r]
  PROVE  SeenOnce'
  BY DEF SeenOnce, CallbackRow

\* What the pre-screen sends was not sent before.
LEMMA PreScreenSeen ==
  ASSUME TypeInv, SeenOnce, Unseen, Screens
  PROVE  /\ SeenOnce' /\ Unseen'
         /\ \A r \in Rows : CallbackRow(r) => rows'[r] = rows[r]
<1>0. /\ {Signal, Workflow, WorkflowEnd, Start("pre")} \subseteq Rows
      /\ \A r \in {Signal, Workflow, WorkflowEnd, Start("pre")} : ~CallbackRow(r)
      /\ Signal # Workflow /\ Signal # WorkflowEnd /\ Workflow # WorkflowEnd
      /\ Start("pre") \notin {Signal, Workflow, WorkflowEnd}
  <2>1. "pre" \in Ids
    BY IdFacts
  <2> QED
    BY <2>1, RowFacts, CallbackFacts
<1>1. ASSUME NEW r \in Rows, r \notin seen, ~CallbackRow(r), Deliver(r), cfg' = cfg
      PROVE  SeenOnce' /\ \A q \in Rows : CallbackRow(q) => rows'[q] = rows[q]
  BY <1>1, SendUnseen, CountedType DEF Deliver, TypeInv
<1>2. CASE UNCHANGED <<cfg, rows, seen>>
  <2>1. main' \in {main, "begin", "prompt approval", "done", "stream"}
        \/ (main = "signal" /\ main' = "workflow") \/ (main = "workflow" /\ main' = "prompt")
    BY <1>2 DEF Screens, PreScreenStep, SendSignal, SendWorkflow, PreScreen, PreScreenStopped,
         PreScreenApproval, BeginStream, Escape
  <2> QED
    BY <1>2, <2>1, SameSeen DEF Unseen
<1>3. ASSUME NEW v \in Answers, SendSignal(v) PROVE UNCHANGED <<cfg, rows, seen>> \/ (SeenOnce' /\ Unseen')
  <2>1. CASE Deliver(Signal)
    <3>1. cfg' = cfg /\ main = "signal" /\ main' \in {"workflow", "done"}
      BY <1>3 DEF SendSignal, Escape
    <3>2. SeenOnce'
      BY <1>0, <1>1, <2>1, <3>1 DEF Unseen
    <3> QED
      BY <1>0, <2>1, <3>1, <3>2 DEF Deliver, Unseen
  <2> QED
    BY <1>3, <2>1 DEF SendSignal
<1>4. ASSUME NEW v \in Answers, SendWorkflow(v) PROVE UNCHANGED <<cfg, rows, seen>> \/ (SeenOnce' /\ Unseen')
  <2>1. CASE Deliver(Workflow)
    <3>1. cfg' = cfg /\ main = "workflow" /\ main' \in {"prompt", "done"}
      BY <1>4 DEF SendWorkflow, Escape
    <3>2. SeenOnce'
      BY <1>0, <1>1, <2>1, <3>1 DEF Unseen
    <3> QED
      BY <1>0, <2>1, <3>1, <3>2 DEF Deliver, Unseen
  <2> QED
    BY <1>4, <2>1 DEF SendWorkflow
<1> DEFINE Both == /\ rows' = [rows EXCEPT ![Start("pre")] = @ + 1, ![WorkflowEnd] = @ + 1]
                   /\ seen' = seen \cup {Start("pre"), WorkflowEnd}
<1>5. ASSUME Both, cfg' = cfg, main = "prompt"
      PROVE  SeenOnce' /\ \A q \in Rows : CallbackRow(q) => rows'[q] = rows[q]
  <2>1. /\ rows'[Start("pre")] = rows[Start("pre")] + 1 /\ rows'[WorkflowEnd] = rows[WorkflowEnd] + 1
        /\ \A q \in Rows \ {Start("pre"), WorkflowEnd} : rows'[q] = rows[q]
    BY <1>0, <1>5 DEF TypeInv
  <2>2. rows[Start("pre")] = 0 /\ rows[WorkflowEnd] = 0
    BY <1>0, <1>5 DEF SeenOnce, Unseen, Bit
  <2>3. seen' = seen \cup {Start("pre"), WorkflowEnd}
    BY <1>5
  <2> HIDE DEF Both
  <2>4. ASSUME NEW q \in Rows, ~CallbackRow(q)' PROVE rows'[q] = Bit(q \in seen')
    <3>1. ~CallbackRow(q)
      BY <1>5, <2>4 DEF CallbackRow
    <3>2. CASE q \in {Start("pre"), WorkflowEnd}
      BY <2>1, <2>2, <2>3, <3>2 DEF Bit
    <3>3. CASE q \notin {Start("pre"), WorkflowEnd}
      BY <2>1, <2>3, <3>1, <3>3 DEF SeenOnce, Bit
    <3> QED
      BY <3>2, <3>3
  <2> QED
    BY <1>0, <2>1, <2>4 DEF SeenOnce
<1>6. ASSUME NEW v \in Answers, PreScreen(v)
      PROVE  UNCHANGED <<cfg, rows, seen>> \/ (SeenOnce' /\ Unseen')
  <2>1. cfg' = cfg /\ main = "prompt" /\ main' \in {"begin", "done", "prompt approval"}
    BY <1>6 DEF PreScreen, PreScreenStopped, Escape
  <2>2. UNCHANGED <<rows, seen>> \/ Deliver(Start("pre")) \/ Both
    BY <1>6 DEF PreScreen, PreScreenStopped
  <2>3. Unseen'
    BY <2>1 DEF Unseen
  <2> HIDE DEF Both
  <2> QED
    BY <1>0, <1>1, <1>5, <2>1, <2>2, <2>3 DEF Unseen
<1>7. \A r \in Rows : CallbackRow(r) => rows'[r] = rows[r]
  <2>1. \/ rows' = rows \/ Deliver(Signal) \/ Deliver(Workflow) \/ Deliver(Start("pre"))
        \/ (Both /\ cfg' = cfg /\ main = "prompt")
    BY DEF Screens, PreScreenStep, SendSignal, SendWorkflow, PreScreen, PreScreenStopped,
         PreScreenApproval, BeginStream
  <2>2. ASSUME NEW r \in {Signal, Workflow, Start("pre")}, Deliver(r)
        PROVE  \A q \in Rows : CallbackRow(q) => rows'[q] = rows[q]
    BY <1>0, <2>2, CountedType DEF Deliver, TypeInv
  <2> HIDE DEF Both
  <2> QED
    BY <1>5, <2>1, <2>2
<1>8. SeenOnce' /\ Unseen'
  <2>1. CASE \E g \in BOOLEAN : PreScreenApproval(g)
    BY <1>2, <2>1 DEF PreScreenApproval
  <2>2. CASE BeginStream
    BY <1>2, <2>2 DEF BeginStream, consumer
  <2> QED
    BY <1>2, <1>3, <1>4, <1>6, <2>1, <2>2 DEF Screens, PreScreenStep
<1> QED
  BY <1>7, <1>8

\* The id a call's completion is sent under.
IdOf(c) == IF c \in Llms THEN alias[c] ELSE c

\* A step of a call sends its start, its completion or nothing.
LEMMA CallSends ==
  ASSUME TypeInv, Stages, NEW c \in Calls, Acts(c)
  PROVE  \/ rows' = rows
         \/ /\ cfg.bridge /\ c \notin Unbound
            /\ \/ rows' = Counted(Start(c))
               \/ rec[c] # NoRec /\ IdOf(c) \in Ids \ Unbound /\ rows' = Counted(Complete(IdOf(c)))
<1> DEFINE Sends ==
       \/ rows' = rows
       \/ /\ cfg.bridge /\ c \notin Unbound
          /\ \/ rows' = Counted(Start(c))
             \/ rec[c] # NoRec /\ IdOf(c) \in Ids \ Unbound /\ rows' = Counted(Complete(IdOf(c)))
<1>0. /\ rec[c] # NoRec => cfg.bridge /\ c \notin Unbound
      /\ Unbound \subseteq Tools
  BY CallAssumption DEF Stages
<1>1. CASE ToolActs(c)
  BY <1>0, <1>1
  DEF ToolActs, PrepareTool, StartTool, CancelTool, ReexecuteTool, ReleaseTool
<1>2. ASSUME NEW ok \in BOOLEAN, EndTool(c, ok) PROVE Sends
  <2>1. IdOf(c) = c /\ c \in Ids
    BY <1>2, IdFacts DEF EndTool, IdOf
  <2> QED
    BY <1>0, <1>2, <2>1 DEF EndTool, SendCompletion
<1>3. ASSUME NEW ok \in BOOLEAN, EndLlm(c, ok) PROVE Sends
  <2>1. IdOf(c) = alias[c] /\ (rec[c] # NoRec => alias[c] \in Ids \ Unbound)
    BY <1>0, <1>3 DEF EndLlm, IdOf, TypeInv, CallTypes
  <2> QED
    BY <1>0, <1>3, <2>1 DEF EndLlm, SendCompletion
<1>4. CASE StartLlm(c)
  <2>1. c \notin Unbound
    BY <1>0, <1>4, IdFacts DEF StartLlm
  <2> QED
    BY <1>4, <2>1 DEF StartLlm
<1> QED
  BY <1>1, <1>2, <1>3, <1>4 DEF Acts, AnswerStart, AnswerCompletion

\* It leaves alone what is sent once and remembered.
LEMMA CallSeen ==
  ASSUME TypeInv, Stages, SeenOnce, Unseen, NEW c \in Calls, Acts(c)
  PROVE  SeenOnce' /\ Unseen'
<1>1. UNCHANGED <<cfg, main, seen>>
  BY CallMoves DEF CallMove, consumer
<1>2. ASSUME NEW r \in Rows PROVE CallbackRow(r) \/ rows'[r] = rows[r]
  <2>1. CASE cfg.bridge /\ c \notin Unbound /\ rows' = Counted(Start(c))
    <3>1. Start(c) \in Rows /\ CallbackRow(Start(c))
      BY <2>1, RowFacts, IdFacts, CallbackFacts
    <3> QED
      BY <2>1, <3>1, CountedType DEF TypeInv
  <2>2. CASE cfg.bridge /\ IdOf(c) \in Ids \ Unbound /\ rows' = Counted(Complete(IdOf(c)))
    <3>1. Complete(IdOf(c)) \in Rows /\ CallbackRow(Complete(IdOf(c)))
      BY <2>2, RowFacts, CallbackFacts
    <3> QED
      BY <2>2, <3>1, CountedType DEF TypeInv
  <2> QED
    BY <2>1, <2>2, CallSends
<1> QED
  BY <1>1, <1>2, SameSeen DEF Unseen

-----------------------------------------------------------------------------
(* Calls a step has nothing to do with *)

ToolFrame(c) ==
  /\ cfg' = cfg /\ rec'[c] = rec[c] /\ (main = "done" => main' = "done")
  /\ lost' = lost
  /\ rows'[Start(c)] = rows[Start(c)] /\ rows'[Complete(c)] = rows[Complete(c)]
  /\ at'[c] = "idle" <=> at[c] = "idle"
  /\ at'[c] \in Waits => at'[c] = at[c]
  /\ Queued(<<"start", c>>)' => Queued(<<"start", c>>)
  /\ Queued(<<"end", c>>)' => Queued(<<"end", c>>)
  /\ cfg.toolStart /\ Start(c) \in denied' => Start(c) \in denied
  /\ cfg.toolStart /\ main' \in {"sending", "approval"} => pending'[1] # Start(c)

\* ToolFrame keeps what a tool's record tells,
LEMMA ToolKept ==
  ASSUME NEW c \in Tools, ToolRec(c), ToolGate(c), ToolFrame(c) PROVE ToolRec(c)' /\ ToolGate(c)'
<1>1. ToolRec(c)'
  BY DEF ToolRec, ToolFrame, Waits
<1>2. ToolGate(c)'
  BY DEF ToolGate, ToolFrame, Waits
<1> QED
  BY <1>1, <1>2

LlmFrame(c) ==
  /\ cfg' = cfg /\ rec'[c] = rec[c] /\ alias'[c] = alias[c]
  /\ main = "done" => main' = "done"
  /\ at'[c] \in Waits => at'[c] = at[c]
  /\ alias[c] = "pre" => \A d \in Llms : alias'[d] = "pre" => d = c
  /\ rows'[Start(c)] = rows[Start(c)] /\ rows'[Complete(c)] = rows[Complete(c)]
  /\ rec[c] # NoRec /\ alias[c] = "pre" => rows'[Complete("pre")] = rows[Complete("pre")]
  /\ at'[c] = "idle" <=> at[c] = "idle"
  /\ Queued(<<"start", c>>)' => Queued(<<"start", c>>)

\* and LlmFrame what a model call's does.
LEMMA LlmKept ==
  ASSUME NEW c \in Llms, LlmRec(c), LlmFrame(c) PROVE LlmRec(c)'
<1>1. alias[c] \in {"none", "pre", c}
  BY DEF LlmRec
<1>2. rec[c] # NoRec => rows'[Complete(alias[c])] = rows[Complete(alias[c])]
  BY <1>1 DEF LlmRec, LlmFrame
<1> QED
  BY <1>1, <1>2 DEF LlmRec, LlmFrame, Waits

\* A call's step leaves the records and rows of other calls as they were.
LEMMA OtherCalls ==
  ASSUME TypeInv, Stages, BridgeInv, cfg.bridge, NEW c \in Calls, Acts(c)
  PROVE  /\ \A d \in (Tools \ Unbound) \ {c} : ToolRec(d)' /\ ToolGate(d)'
         /\ \A d \in Llms \ {c} :
              (alias[d] = "pre" => alias'[c] # "pre" \/ c \notin Llms) => LlmRec(d)'
<1>1. CallMove(c)
  BY CallMoves
<1>2. ASSUME NEW r \in Rows, r # Start(c), IdOf(c) \in Ids /\ rec[c] # NoRec => r # Complete(IdOf(c))
      PROVE  rows'[r] = rows[r]
  <2>1. CASE rows' = Counted(Start(c))
    <3>1. Start(c) \in Rows
      BY RowFacts, IdFacts
    <3> QED
      BY <1>2, <2>1, <3>1, CountedType DEF TypeInv
  <2>2. CASE rec[c] # NoRec /\ IdOf(c) \in Ids /\ rows' = Counted(Complete(IdOf(c)))
    <3>1. Complete(IdOf(c)) \in Rows
      BY <2>2, RowFacts
    <3> QED
      BY <1>2, <2>2, <3>1, CountedType DEF TypeInv
  <2> QED
    BY <2>1, <2>2, CallSends
<1>3. ASSUME NEW d \in Ids \ {c} PROVE rows'[Start(d)] = rows[Start(d)]
  <2>1. /\ Start(d) \in Rows /\ Start(d) # Start(c)
        /\ \A i \in Ids : Start(d) # Complete(i)
    BY RowFacts, IdFacts
  <2> QED
    BY <1>2, <2>1
<1>4. ASSUME NEW d \in Ids, d # IdOf(c) \/ rec[c] = NoRec PROVE rows'[Complete(d)] = rows[Complete(d)]
  <2>1. /\ Complete(d) \in Rows /\ Complete(d) # Start(c)
        /\ \A i \in Ids : Complete(d) = Complete(i) => d = i
    BY RowFacts, IdFacts
  <2> QED
    BY <1>2, <1>4, <2>1
<1>5. ASSUME NEW d \in (Tools \ Unbound) \ {c} PROVE ToolRec(d)' /\ ToolGate(d)'
  <2>1. ToolRec(d) /\ ToolGate(d) /\ d \in Calls /\ d \in Ids
    BY IdFacts DEF BridgeInv
  <2>2. rows'[Start(d)] = rows[Start(d)] /\ rows'[Complete(d)] = rows[Complete(d)]
    <3>1. d # IdOf(c) \/ rec[c] = NoRec
      BY <2>1, IdFacts DEF IdOf, TypeInv, CallTypes
    <3> QED
      BY <1>3, <1>4, <2>1, <3>1
  <2>3. Start(d) \in denied' => Start(d) \in denied
    BY <2>1, CallDenials
  <2>4. ToolFrame(d)
    BY <1>1, <2>1, <2>2, <2>3 DEF CallMove, ToolFrame, ToolGate, consumer
  <2> QED
    BY <2>1, <2>4, ToolKept
<1>6. ASSUME NEW d \in Llms \ {c}, alias[d] = "pre" => alias'[c] # "pre" \/ c \notin Llms
      PROVE  LlmRec(d)'
  <2>1. LlmRec(d) /\ d \in Calls /\ d \in Ids /\ (c \in Llms => LlmRec(c))
    BY IdFacts DEF BridgeInv
  <2>2. rows'[Start(d)] = rows[Start(d)] /\ rows'[Complete(d)] = rows[Complete(d)]
    <3>1. d # IdOf(c) \/ rec[c] = NoRec
      BY <2>1, IdFacts DEF IdOf, LlmRec
    <3> QED
      BY <1>3, <1>4, <2>1, <3>1
  <2>3. alias[d] = "pre" => rows'[Complete("pre")] = rows[Complete("pre")]
    <3>1. alias[d] = "pre" => IdOf(c) # "pre"
      BY <2>1, IdFacts DEF IdOf, LlmRec
    <3> QED
      BY <1>4, <3>1, IdFacts
  <2>4. alias'[d] = alias[d] /\ (alias[d] = "pre" => \A e \in Llms : alias'[e] = "pre" => e = d)
    BY <1>1, <1>6, <2>1 DEF CallMove, LlmRec
  <2>5. LlmFrame(d)
    BY <1>1, <2>1, <2>2, <2>3, <2>4 DEF CallMove, LlmFrame
  <2> QED
    BY <2>1, <2>5, LlmKept
<1> QED
  BY <1>5, <1>6

\* A bound tool's own steps: the start,
LEMMA OwnStart ==
  ASSUME TypeInv, Stages, BridgeInv, cfg.bridge, NEW c \in Tools \ Unbound, ToolActs(c)
  PROVE  ToolRec(c)' /\ ToolGate(c)'
<1>0. /\ ToolRec(c) /\ ToolGate(c) /\ c \in Calls /\ c \in Ids /\ c \notin Llms /\ c \notin Unbound
      /\ Start(c) \in Rows /\ Complete(c) \in Rows /\ Start(c) # Complete(c) /\ Acts(c)
      /\ c \notin Detached
  BY RowFacts, IdFacts DEF BridgeInv, Acts, Unbound
<1>1. /\ UNCHANGED <<cfg, lost, main, pending>> /\ at'[c] # "idle"
      /\ main = "done" => events' = events
  BY <1>0, CallMoves DEF CallMove, consumer
<1>2. at \in [Calls -> Places] /\ rec \in [Calls -> Record] /\ rec[c] \in Record
  BY <1>0 DEF TypeInv, CallTypes, PlaceTypes
<1>3. CASE PrepareTool(c)
  <2>1. UNCHANGED <<rows, denied, events>> /\ at[c] = "idle" /\ at'[c] = "prepared" /\ rec'[c] = Prepared
    BY <1>0, <1>2, <1>3 DEF PrepareTool, Ready
  <2>2. Queued(<<"start", c>>)' = Queued(<<"start", c>>) /\ Queued(<<"end", c>>)' = Queued(<<"end", c>>)
    BY <2>1 DEF Queued
  <2>3. rec[c] = NoRec /\ rows[Start(c)] = 0 /\ rows[Complete(c)] = 0
    BY <1>0, <2>1 DEF ToolRec
  <2>4. ToolRec(c)'
    BY <1>0, <1>1, <2>1, <2>2, <2>3, RecordFacts DEF ToolRec, Bit
  <2>5. ToolGate(c)'
    BY <1>0, <1>1, <2>1, <2>3, RecordFacts DEF ToolGate
  <2> QED
    BY <2>4, <2>5
<1>4. CASE StartTool(c)
  <2>1. at[c] = "prepared" /\ denied' = denied /\ (UNCHANGED events \/ Emit(<<"start", c>>))
    BY <1>4 DEF StartTool, RunBody, FailCall
  <2>2. Queued(<<"end", c>>)' => Queued(<<"end", c>>)
    BY <1>0, <2>1, EmitOwn
  <2>3. CASE /\ rec[c] = NoRec \/ (~rec[c].start /\ ~cfg.toolStart)
             /\ RunBody(c) /\ UNCHANGED <<rows, rec>>
    <3>1. main = "done" \/ ~cfg.toolStart
      BY <1>0, <2>1, <2>3 DEF ToolRec
    <3>2. main = "done" => (Queued(<<"start", c>>)' => Queued(<<"start", c>>))
      BY <1>1 DEF Queued
    <3>3. at'[c] = "running"
      BY <1>0, <1>2, <2>3 DEF RunBody
    <3>4. ToolRec(c)'
      BY <1>0, <1>1, <2>1, <2>2, <2>3, <3>1, <3>2, <3>3 DEF ToolRec
    <3>5. ToolGate(c)'
      BY <1>0, <1>1, <2>1, <2>3, <3>1 DEF ToolGate
    <3> QED
      BY <3>4, <3>5
  <2>4. CASE /\ rec[c].start
             /\ IF Start(c) \in denied THEN FailCall(c) ELSE RunBody(c)
             /\ UNCHANGED <<rows, rec>>
    <3>1. rec[c] # NoRec
      BY <2>4, RecordFacts
    <3>2. at'[c] = "running" => Start(c) \notin denied
      BY <1>0, <1>2, <2>4 DEF FailCall, RunBody
    <3>3. at'[c] \in {"running", "failed"}
      BY <1>0, <1>2, <2>4 DEF FailCall, RunBody
    <3>4. ToolRec(c)'
      BY <1>0, <1>1, <2>2, <2>4, <3>1, <3>3 DEF ToolRec
    <3>5. ToolGate(c)'
      BY <1>0, <1>1, <2>1, <2>4, <3>2, <3>3 DEF ToolGate
    <3> QED
      BY <3>4, <3>5
  <2>5. CASE /\ rec[c] # NoRec /\ ~rec[c].start /\ cfg.toolStart
             /\ rows' = Counted(Start(c))
             /\ rec' = [rec EXCEPT ![c].start = TRUE]
             /\ at' = [at EXCEPT ![c] = "asked"] /\ UNCHANGED events
    <3>1. rows'[Start(c)] = rows[Start(c)] + 1 /\ rows'[Complete(c)] = rows[Complete(c)]
      BY <1>0, <2>5, CountedType DEF TypeInv
    <3>2. rec'[c].start /\ rec'[c].complete = rec[c].complete /\ rec'[c] # NoRec
      BY <1>0, <1>2, <2>5, RecordFacts DEF Record
    <3>3. rows[Start(c)] = 0 /\ rows[Complete(c)] = Bit(rec[c].complete)
      BY <1>0, <2>5 DEF ToolRec, Bit
    <3>4. at'[c] = "asked" /\ (Queued(<<"start", c>>)' => Queued(<<"start", c>>))
      BY <1>0, <1>2, <2>5 DEF Queued
    <3>5. ToolRec(c)'
      BY <1>0, <1>1, <2>2, <3>1, <3>2, <3>3, <3>4 DEF ToolRec, Bit
    <3>6. ToolGate(c)'
      BY <1>0, <1>1, <2>1, <2>5, <3>2, <3>4 DEF ToolGate
    <3> QED
      BY <3>5, <3>6
  <2> QED
    BY <1>4, <2>3, <2>4, <2>5 DEF StartTool
<1>5. ASSUME NEW g \in BOOLEAN, ReleaseTool(c, g) \/ CancelTool(c) PROVE ToolRec(c)' /\ ToolGate(c)'
  <2>1. at[c] = "held" /\ UNCHANGED <<rows, rec>> /\ (UNCHANGED events \/ Emit(<<"start", c>>))
    BY <1>5 DEF ReleaseTool, CancelTool, RunBody, FailCall
  <2>2. Queued(<<"end", c>>)' => Queued(<<"end", c>>)
    BY <1>0, <2>1, EmitOwn
  <2>3. main = "done" => (Queued(<<"start", c>>)' => Queued(<<"start", c>>))
    BY <1>1 DEF Queued
  <2>4. /\ at'[c] \in {"running", "failed", "cancelled"}
        /\ main = "done" => at'[c] = "cancelled" /\ denied' = denied
        /\ at'[c] = "running" => denied' = denied
    BY <1>0, <1>2, <1>5 DEF ReleaseTool, CancelTool, RunBody, FailCall
  <2>5. ToolRec(c)'
    <3>1. cfg.toolStart /\ main # "done" => rec[c].start
      BY <1>0, <2>1 DEF ToolGate
    <3> QED
      BY <1>0, <1>1, <2>1, <2>2, <2>3, <2>4, <3>1 DEF ToolRec
  <2>6. ToolGate(c)'
    BY <1>0, <1>1, <2>1, <2>4 DEF ToolGate
  <2> QED
    BY <2>5, <2>6
<1>6. CASE ReexecuteTool(c)
  <2>1. UNCHANGED <<rows, denied, rec, events>> /\ at[c] # "idle" /\ at'[c] = "prepared"
    BY <1>0, <1>2, <1>6 DEF ReexecuteTool
  <2>2. Queued(<<"start", c>>)' = Queued(<<"start", c>>) /\ Queued(<<"end", c>>)' = Queued(<<"end", c>>)
    BY <2>1 DEF Queued
  <2>3. ToolRec(c)'
    BY <1>0, <1>1, <2>1, <2>2 DEF ToolRec
  <2>4. ToolGate(c)'
    BY <1>0, <1>1, <2>1 DEF ToolGate
  <2> QED
    BY <2>3, <2>4
<1> QED
  BY <1>3, <1>4, <1>5, <1>6 DEF ToolActs

\* the end,
LEMMA OwnEnd ==
  ASSUME TypeInv, Stages, BridgeInv, cfg.bridge, NEW c \in Tools \ Unbound,
         NEW ok \in BOOLEAN, EndTool(c, ok)
  PROVE  ToolRec(c)' /\ ToolGate(c)'
<1>0. /\ ToolRec(c) /\ ToolGate(c) /\ c \in Calls /\ c \in Ids /\ Acts(c)
      /\ Start(c) \in Rows /\ Complete(c) \in Rows /\ Start(c) # Complete(c)
  BY RowFacts, IdFacts DEF BridgeInv, Acts
<1>1. /\ UNCHANGED <<cfg, lost, main, pending>> /\ at'[c] # "idle"
      /\ main = "done" => events' = events
  BY <1>0, CallMoves DEF CallMove, consumer
<1>2. at \in [Calls -> Places] /\ rec \in [Calls -> Record] /\ rec[c] \in Record
  BY <1>0 DEF TypeInv, CallTypes, PlaceTypes
<1>3. at[c] = "running" /\ SendCompletion(c, c, cfg.toolEnd, ok) /\ denied' = denied
  BY DEF EndTool
<1>4. CASE rec[c] # NoRec /\ ~rec[c].complete /\ cfg.toolEnd
  <2>1. /\ rows' = Counted(Complete(c)) /\ rec' = [rec EXCEPT ![c].complete = TRUE]
        /\ UNCHANGED events
        /\ \E x \in {"ending", "failing"} : at' = [at EXCEPT ![c] = x]
    BY <1>3, <1>4 DEF SendCompletion
  <2>2. rows'[Start(c)] = rows[Start(c)] /\ rows'[Complete(c)] = rows[Complete(c)] + 1
    BY <1>0, <2>1, CountedType DEF TypeInv
  <2>3. rec'[c].complete /\ rec'[c].start = rec[c].start /\ rec'[c] # NoRec
    BY <1>0, <1>2, <2>1, RecordFacts DEF Record
  <2>4. \A x : Queued(x)' = Queued(x)
    BY <2>1 DEF Queued
  <2>5. at'[c] \in {"ending", "failing"}
    BY <1>0, <1>2, <2>1
  <2>6. ToolRec(c)'
    BY <1>0, <1>1, <1>3, <1>4, <2>2, <2>3, <2>4, <2>5 DEF ToolRec, Bit
  <2>7. ToolGate(c)'
    BY <1>0, <1>1, <1>3, <2>3, <2>5 DEF ToolGate
  <2> QED
    BY <2>6, <2>7
<1>5. CASE ~(rec[c] # NoRec /\ ~rec[c].complete /\ cfg.toolEnd)
  <2>1. EndBody(c, ok) /\ UNCHANGED <<rows, rec>>
    BY <1>3, <1>5 DEF SendCompletion
  <2>2. UNCHANGED events \/ Emit(<<"end", c>>)
    BY <2>1 DEF EndBody, FailCall
  <2>3. Queued(<<"start", c>>)' => Queued(<<"start", c>>)
    BY <1>0, <2>2, EmitOwn
  <2>4. at'[c] \in {"done", "failed"}
    BY <1>0, <1>2, <2>1 DEF EndBody, FailCall
  <2>5. main = "done" => (Queued(<<"end", c>>)' => Queued(<<"end", c>>))
    BY <1>1 DEF Queued
  <2>6. main # "done" => rec[c] # NoRec
    BY <1>0, <1>3 DEF ToolRec
  <2>7. ToolRec(c)'
    BY <1>0, <1>1, <1>3, <1>5, <2>1, <2>3, <2>4, <2>5, <2>6 DEF ToolRec
  <2>8. ToolGate(c)'
    BY <1>0, <1>1, <1>3, <2>1, <2>4 DEF ToolGate
  <2> QED
    BY <2>7, <2>8
<1> QED
  BY <1>4, <1>5

\* and the answers.
LEMMA OwnAnswer ==
  ASSUME TypeInv, Stages, BridgeInv, cfg.bridge, NEW c \in Tools \ Unbound,
         NEW v \in Verdicts, AnswerStart(c, v) \/ AnswerCompletion(c, v)
  PROVE  ToolRec(c)' /\ ToolGate(c)'
<1>0. /\ ToolRec(c) /\ ToolGate(c) /\ c \in Calls /\ c \in Ids /\ Acts(c)
      /\ Start(c) \in Rows /\ Complete(c) \in Rows /\ Start(c) # Complete(c)
  BY RowFacts, IdFacts DEF BridgeInv, Acts
<1>1. /\ UNCHANGED <<cfg, lost, main, pending>> /\ at'[c] # "idle"
      /\ main = "done" => events' = events
  BY <1>0, CallMoves DEF CallMove, consumer
<1>2. at \in [Calls -> Places] /\ rec \in [Calls -> Record] /\ rec[c] \in Record
  BY <1>0 DEF TypeInv, CallTypes, PlaceTypes
<1>3. CASE AnswerStart(c, v)
  <2>1. at[c] = "asked" /\ UNCHANGED <<rows, rec>> /\ (UNCHANGED events \/ Emit(<<"start", c>>))
    BY <1>3 DEF AnswerStart, RunBody, FailCall
  <2>2. Queued(<<"end", c>>)' => Queued(<<"end", c>>)
    BY <1>0, <2>1, EmitOwn
  <2>3. main = "done" => (Queued(<<"start", c>>)' => Queued(<<"start", c>>))
    BY <1>1 DEF Queued
  <2>4. /\ at'[c] \in {"running", "failed", "held"}
        /\ at'[c] \in {"running", "held"} => denied' = denied
    BY <1>0, <1>2, <1>3 DEF AnswerStart, RunBody, FailCall
  <2>5. cfg.toolStart /\ main # "done" => rec[c].start
    BY <1>0, <2>1 DEF ToolGate
  <2>6. ToolRec(c)'
    BY <1>0, <1>1, <2>1, <2>2, <2>3, <2>4, <2>5 DEF ToolRec
  <2>7. ToolGate(c)'
    BY <1>0, <1>1, <2>1, <2>4, <2>5 DEF ToolGate
  <2> QED
    BY <2>6, <2>7
<1>4. CASE AnswerCompletion(c, v)
  <2>1. /\ at[c] \in {"ending", "failing"} /\ rows' = rows /\ EndBody(c, at[c] = "ending")
        /\ (at[c] = "ending") \in BOOLEAN
    BY <1>4 DEF AnswerCompletion
  <2>2. /\ at'[c] \in {"done", "failed"} /\ (UNCHANGED events \/ Emit(<<"end", c>>))
    BY <1>0, <1>2, <2>1, BodyMoves
  <2>3. Queued(<<"start", c>>)' => Queued(<<"start", c>>)
    BY <1>0, <2>2, EmitOwn
  <2>4. main = "done" => (Queued(<<"end", c>>)' => Queued(<<"end", c>>))
    BY <1>1 DEF Queued
  <2>5. /\ rec'[c].start = rec[c].start /\ rec'[c].complete = rec[c].complete
        /\ rec'[c] = NoRec <=> rec[c] = NoRec
    <3>1. CASE rec[c] = NoRec
      BY <1>4, <3>1 DEF AnswerCompletion
    <3>2. CASE rec[c] # NoRec
      <4>1. rec' = [rec EXCEPT ![c].stash = v] /\ rec[c].stash \in {"absent", "none", "allow", "stop", "hold"}
        BY <1>2, <1>4, <3>2 DEF AnswerCompletion, Record
      <4>2. /\ rec'[c].start = rec[c].start /\ rec'[c].complete = rec[c].complete
            /\ rec'[c].stash = v
        BY <1>0, <1>2, <4>1 DEF Record
      <4>3. v # "absent"
        BY CallAssumption DEF Verdicts
      <4> QED
        BY <3>2, <4>2, <4>3 DEF NoRec
    <3> QED
      BY <3>1, <3>2
  <2>6. Start(c) \notin denied => Start(c) \notin denied'
    <3>1. \A x : Complete(x) # Start(c)
      BY DEF Complete, Start
    <3> QED
      BY <1>4, <3>1 DEF AnswerCompletion
  <2>7. ToolRec(c)'
    BY <1>0, <1>1, <2>1, <2>2, <2>3, <2>4, <2>5 DEF ToolRec
  <2>8. ToolGate(c)'
    BY <1>0, <1>1, <2>2, <2>5, <2>6 DEF ToolGate
  <2> QED
    BY <2>7, <2>8
<1> QED
  BY <1>3, <1>4

\* A model call's own steps.
LEMMA OwnLlm ==
  ASSUME TypeInv, Stages, BridgeInv, cfg.bridge, NEW c \in Llms, Acts(c)
  PROVE  /\ LlmRec(c)' /\ PreRow'
         /\ \A d \in Llms \ {c} : alias[d] = "pre" => alias'[c] # "pre"
<1> DEFINE Goal == /\ LlmRec(c)' /\ PreRow'
                   /\ \A d \in Llms \ {c} : alias[d] = "pre" => alias'[c] # "pre"
<1>0. /\ LlmRec(c) /\ PreRow /\ c \in Calls /\ c \in Ids /\ c \notin Tools /\ c # "pre" /\ c # "none"
      /\ \A d \in Llms : LlmRec(d)
      /\ "pre" \in Ids /\ Complete("pre") \in Rows
      /\ Start(c) \in Rows /\ Complete(c) \in Rows /\ Start(c) # Complete(c)
      /\ Start(c) # Complete("pre") /\ Complete(c) # Complete("pre")
  BY RowFacts, IdFacts DEF BridgeInv
<1>1. /\ UNCHANGED <<cfg, main, pending>> /\ at'[c] # "idle"
      /\ \A d \in Llms \ {c} : alias'[d] = alias[d]
      /\ main = "done" => events' = events
  BY <1>0, CallMoves DEF CallMove, consumer
<1>2. /\ at \in [Calls -> Places] /\ rec \in [Calls -> Record] /\ rec[c] \in Record
      /\ alias \in [Llms -> Ids \cup {"none"}]
  BY <1>0 DEF TypeInv, CallTypes, PlaceTypes
<1>3. CASE StartLlm(c)
  <2> DEFINE reuse == pre /\ \A d \in Llms : alias[d] # "pre"
  <2>1. /\ at[c] = "idle" /\ UNCHANGED events
        /\ alias' = [alias EXCEPT ![c] = IF reuse THEN "pre" ELSE c]
        /\ rec' = [rec EXCEPT ![c] = [Prepared EXCEPT !.start = reuse \/ cfg.llmStart]]
        /\ rows' = IF ~reuse /\ cfg.llmStart THEN Counted(Start(c)) ELSE rows
    BY <1>3 DEF StartLlm, Ready
  <2>2. alias'[c] = IF reuse THEN "pre" ELSE c
    BY <1>2, <2>1
  <2>3. reuse => \A d \in Llms : alias[d] # "pre"
    OBVIOUS
  <2>4. rec'[c].start = (reuse \/ cfg.llmStart) /\ ~rec'[c].complete
    BY <1>0, <1>2, <2>1, RecordFacts DEF Prepared
  <2>5. /\ rows'[Start(c)] \in {rows[Start(c)], rows[Start(c)] + 1}
        /\ rows'[Complete(c)] = rows[Complete(c)] /\ rows'[Complete("pre")] = rows[Complete("pre")]
    BY <1>0, <2>1, CountedType DEF TypeInv
  <2> HIDE DEF reuse
  <2>6. rows[Start(c)] = 0 /\ rows[Complete(c)] = 0 /\ alias[c] = "none"
    BY <1>0, <2>1, IdFacts DEF LlmRec
  <2>7. rows'[Complete(alias'[c])] = 0
    BY <1>0, <2>2, <2>3, <2>5, <2>6 DEF PreRow
  <2>8. \A d \in Llms \ {c} : alias[d] = "pre" => alias'[c] # "pre"
    BY <1>0, <2>2, <2>3
  <2>9. PreRow'
    BY <1>0, <1>1, <2>5, <2>6 DEF PreRow
  <2>10. cfg.llmStart => rec'[c].start
    BY <2>4
  <2>11. rec'[c] # NoRec => alias'[c] # "none" /\ rows'[Complete(alias'[c])] = Bit(rec'[c].complete)
    BY <1>0, <2>2, <2>4, <2>7 DEF Bit
  <2>12. alias'[c] = "pre" => \A d \in Llms : alias'[d] = "pre" => d = c
    BY <1>1, <2>8
  <2> QED
    BY <1>0, <1>1, <2>2, <2>5, <2>6, <2>8, <2>9, <2>10, <2>11, <2>12 DEF LlmRec
<1>4. \A d \in Llms \ {c} : alias[d] = "pre" /\ alias' = alias => alias'[c] # "pre"
  BY <1>0 DEF LlmRec
<1>5. ASSUME NEW ok \in BOOLEAN, EndLlm(c, ok) PROVE Goal
  <2>1. /\ at[c] = "running" /\ alias' = alias
        /\ SendCompletion(c, alias[c], cfg.llmEnd /\ rec[c].start, ok)
    BY <1>5 DEF EndLlm
  <2>5. CASE EndBody(c, ok) /\ UNCHANGED <<rows, rec>>
    <3>1. /\ at'[c] \in {"done", "failed"} /\ (UNCHANGED events \/ Emit(<<"end", c>>))
      BY <1>0, <1>2, <2>5, BodyMoves
    <3>2. Queued(<<"start", c>>)' => Queued(<<"start", c>>)
      BY <1>0, <3>1, EmitOwn
    <3>3. LlmRec(c)'
      BY <1>0, <1>1, <2>1, <2>5, <3>1, <3>2 DEF LlmRec
    <3>4. PreRow'
      BY <1>0, <2>1, <2>5 DEF PreRow
    <3> QED
      BY <1>4, <2>1, <3>3, <3>4
  <2>6. CASE /\ rec[c] # NoRec /\ ~rec[c].complete /\ rows' = Counted(Complete(alias[c]))
             /\ rec' = [rec EXCEPT ![c].complete = TRUE] /\ UNCHANGED events
             /\ at' = [at EXCEPT ![c] = IF ok THEN "ending" ELSE "failing"]
    <3>1. /\ rec'[c].complete /\ rec'[c].start = rec[c].start /\ at'[c] # "asked"
          /\ Queued(<<"start", c>>)' => Queued(<<"start", c>>)
      BY <1>0, <1>2, <2>6 DEF Record, Queued
    <3>2. alias[c] \in {"pre", c} /\ rows[Complete(alias[c])] = 0
      BY <1>0, <2>6 DEF LlmRec, Bit
    <3>3. Complete(alias[c]) \in Rows
      BY <1>0, <3>2
    <3>4. /\ rows'[Complete(alias[c])] = 1
          /\ \A r \in Rows : r # Complete(alias[c]) => rows'[r] = rows[r]
      BY <2>6, <3>2, <3>3, CountedType DEF TypeInv
    <3>5. CASE alias[c] = "pre"
      <4>1. rows'[Complete("pre")] = 1 /\ rows'[Complete(c)] = rows[Complete(c)] /\ rows'[Start(c)] = rows[Start(c)]
        BY <1>0, <3>4, <3>5
      <4>2. LlmRec(c)'
        BY <1>0, <1>1, <2>1, <3>1, <3>5, <4>1 DEF LlmRec, Bit
      <4>3. PreRow'
        BY <1>0, <2>1, <3>5, <4>1 DEF PreRow
      <4> QED
        BY <1>4, <2>1, <4>2, <4>3
    <3>6. CASE alias[c] = c
      <4>1. rows'[Complete(c)] = 1 /\ rows'[Complete("pre")] = rows[Complete("pre")] /\ rows'[Start(c)] = rows[Start(c)]
        BY <1>0, <3>4, <3>6
      <4>2. LlmRec(c)'
        BY <1>0, <1>1, <2>1, <3>1, <3>6, <4>1 DEF LlmRec, Bit
      <4>3. PreRow'
        BY <1>0, <2>1, <3>6, <4>1 DEF PreRow
      <4> QED
        BY <1>4, <2>1, <4>2, <4>3
    <3> QED
      BY <3>2, <3>5, <3>6
  <2> HIDE DEF Goal
  <2> QED
    BY <2>1, <2>5, <2>6 DEF SendCompletion
<1>6. ASSUME NEW v \in Verdicts, AnswerStart(c, v) PROVE Goal
  <2>1. at[c] = "asked" /\ UNCHANGED <<rows, rec, alias>> /\ (UNCHANGED events \/ Emit(<<"start", c>>))
    BY <1>6 DEF AnswerStart, RunBody, FailCall
  <2>2. main = "done" => (Queued(<<"start", c>>)' => Queued(<<"start", c>>))
    BY <1>1 DEF Queued
  <2>3. main # "done" /\ cfg.llmStart => rec[c].start
    BY <1>0, <2>1 DEF LlmRec
  <2>4. at'[c] \in {"running", "failed"}
    BY <1>0, <1>2, <1>6 DEF AnswerStart, RunBody, FailCall
  <2>5. LlmRec(c)'
    BY <1>0, <1>1, <2>1, <2>2, <2>3, <2>4 DEF LlmRec
  <2>6. PreRow'
    BY <1>0, <2>1 DEF PreRow
  <2> QED
    BY <1>4, <2>1, <2>5, <2>6
<1>7. ASSUME NEW v \in Verdicts, AnswerCompletion(c, v) PROVE Goal
  <2>1. /\ at[c] \in {"ending", "failing"} /\ UNCHANGED <<rows, alias>>
        /\ EndBody(c, at[c] = "ending") /\ (at[c] = "ending") \in BOOLEAN
    BY <1>7 DEF AnswerCompletion
  <2>2. /\ at'[c] \in {"done", "failed"} /\ (UNCHANGED events \/ Emit(<<"end", c>>))
    BY <1>0, <1>2, <2>1, BodyMoves
  <2>3. Queued(<<"start", c>>)' => Queued(<<"start", c>>)
    BY <1>0, <2>2, EmitOwn
  <2>4. /\ rec'[c].start = rec[c].start /\ rec'[c].complete = rec[c].complete
        /\ rec[c] = NoRec => rec'[c] = NoRec
    <3>1. rec' = rec \/ (rec[c] # NoRec /\ rec' = [rec EXCEPT ![c].stash = v])
      BY <1>7 DEF AnswerCompletion
    <3> QED
      BY <1>0, <1>2, <3>1 DEF Record
  <2>5. LlmRec(c)'
    BY <1>0, <1>1, <2>1, <2>2, <2>3, <2>4 DEF LlmRec
  <2>6. PreRow'
    BY <1>0, <2>1 DEF PreRow
  <2> QED
    BY <1>4, <2>1, <2>5, <2>6
<1>8. Goal
  <2> HIDE DEF Goal
  <2>1. CASE StartLlm(c)
    BY <1>3, <2>1 DEF Goal
  <2> QED
    BY <1>0, <1>5, <1>6, <1>7, <2>1 DEF Acts, EndTool
<1> QED
  BY <1>8

\* Under a bridge, records and rows go on agreeing in every step of a call.
LEMMA CallBridge ==
  ASSUME TypeInv, Stages, BridgeInv, NEW c \in Calls, Acts(c)
  PROVE  BridgeInv'
<1> SUFFICES ASSUME cfg.bridge
             PROVE  /\ \A d \in Tools \ Unbound : ToolRec(d)' /\ ToolGate(d)'
                    /\ (\A d \in Llms : LlmRec(d)') /\ PreRow'
  BY CallMoves DEF CallMove, BridgeInv
<1>1. CASE c \in Tools
  <2>1. c \notin Llms /\ \A d \in Llms : alias'[d] = alias[d]
    BY <1>1, IdFacts, CallMoves DEF CallMove
  <2>2. PreRow'
    <3>1. /\ Complete("pre") \in Rows /\ Start(c) \in Rows /\ Complete(c) \in Rows
          /\ Complete("pre") # Start(c) /\ Complete("pre") # Complete(c)
      BY RowFacts, IdFacts
    <3>2. IdOf(c) = c
      BY <2>1 DEF IdOf
    <3>3. \/ rows' = rows \/ rows' = Counted(Start(c)) \/ rows' = Counted(Complete(c))
      BY <3>2, CallSends
    <3>4. rows'[Complete("pre")] = rows[Complete("pre")]
      BY <3>1, <3>3, CountedType DEF TypeInv
    <3> QED
      BY <2>1, <3>4 DEF PreRow, BridgeInv
  <2>3. c \notin Unbound => ToolRec(c)' /\ ToolGate(c)'
    BY <1>1, <2>1, OwnStart, OwnEnd, OwnAnswer DEF Acts, EndLlm, StartLlm
  <2> QED
    BY <1>1, <2>1, <2>2, <2>3, OtherCalls
<1>2. CASE c \in Llms
  BY <1>2, IdFacts, OwnLlm, OtherCalls
<1> QED
  BY <1>1, <1>2, IdFacts

-----------------------------------------------------------------------------
(* The consumer, the graph and the ends of a turn *)

\* Nothing is sent of the callbacks' rows, nothing of a tool refused, no
\* event of a call queued.
LEMMA BridgeKept ==
  ASSUME BridgeInv, UNCHANGED <<cfg, lost, rec, alias>>, main = "done" => main' = "done",
         \A r \in Rows : CallbackRow(r) => rows'[r] = rows[r],
         \A c \in Calls : /\ at'[c] = "idle" <=> at[c] = "idle"
                          /\ at'[c] \in Waits => at'[c] = at[c]
                          /\ Queued(<<"start", c>>)' => Queued(<<"start", c>>)
                          /\ Queued(<<"end", c>>)' => Queued(<<"end", c>>),
         cfg.bridge /\ cfg.toolStart => \A c \in Tools \ Unbound :
           /\ Start(c) \in denied' => Start(c) \in denied
           /\ main' \in {"sending", "approval"} => pending'[1] # Start(c)
  PROVE  BridgeInv'
<1> SUFFICES ASSUME cfg.bridge
             PROVE  /\ \A c \in Tools \ Unbound : ToolRec(c)' /\ ToolGate(c)'
                    /\ (\A c \in Llms : LlmRec(c)') /\ PreRow'
  BY DEF BridgeInv
<1>1. /\ \A c \in Calls \ Unbound : rows'[Start(c)] = rows[Start(c)]
      /\ \A i \in Ids \ Unbound : rows'[Complete(i)] = rows[Complete(i)]
      /\ \A c \in Llms \cup {"pre"} : c \in Ids \ Unbound
      /\ \A c \in Llms : c \in Calls \ Unbound
  BY CallAssumption, CallbackFacts, RowFacts, IdFacts
<1>2. ASSUME NEW c \in Tools \ Unbound PROVE ToolRec(c)' /\ ToolGate(c)'
  <2>1. c \in Calls /\ c \in Ids /\ ToolRec(c) /\ ToolGate(c)
    BY IdFacts DEF BridgeInv
  <2>2. ToolFrame(c)
    BY <1>1, <2>1 DEF ToolFrame
  <2> QED
    BY <2>1, <2>2, ToolKept
<1>3. ASSUME NEW c \in Llms PROVE LlmRec(c)'
  <2>1. c \in Calls /\ c \in Ids /\ "pre" \in Ids /\ LlmRec(c)
    BY IdFacts DEF BridgeInv
  <2>2. LlmFrame(c)
    BY <1>1, <2>1 DEF LlmFrame, LlmRec
  <2> QED
    BY <2>1, <2>2, LlmKept
<1>4. PreRow'
  BY <1>1, IdFacts DEF PreRow, BridgeInv
<1> QED
  BY <1>2, <1>3, <1>4

\* The pre-screen touches no call and sends none of the rows of one.
LEMMA PreScreenBridge ==
  ASSUME TypeInv, Stages, SeenOnce, Unseen, BridgeInv, Screens PROVE BridgeInv'
<1>1. UNCHANGED <<cfg, lost, rec, alias, at>>
  BY DEF Screens, PreScreenStep, SendSignal, SendWorkflow, PreScreen, PreScreenApproval, BeginStream, calls
<1>2. main # "done" /\ main' \notin {"sending", "approval"}
  BY DEF Screens, PreScreenStep, SendSignal, SendWorkflow, PreScreen, PreScreenStopped, PreScreenApproval,
         BeginStream, Escape
<1>3. ASSUME NEW c \in Calls, NEW s \in {"start", "end"}, Queued(<<s, c>>)' PROVE Queued(<<s, c>>)
  <2>1. events' = events \/ events' = <<<<"chain", "start">>>>
    BY DEF Screens, PreScreenStep, SendSignal, SendWorkflow, PreScreen, PreScreenApproval, BeginStream
  <2>2. <<"chain", "start">> # <<s, c>>
    OBVIOUS
  <2> QED
    BY <1>3, <2>1, <2>2 DEF Queued
<1>4. ASSUME NEW c \in Tools, Start(c) \in denied' PROVE Start(c) \in denied
  <2>1. Start(c) # Start("pre")
    BY RowFacts, IdFacts
  <2>2. denied' = denied \/ denied' = denied \cup {Start("pre")}
    BY DEF Screens, PreScreenStep, SendSignal, SendWorkflow, PreScreen, PreScreenApproval, BeginStream
  <2> QED
    BY <1>4, <2>1, <2>2
<1> QED
  BY <1>1, <1>2, <1>3, <1>4, PreScreenSeen, BridgeKept

\* The consumer sends none of the callbacks' rows.
LEMMA ConsumerSends ==
  ASSUME TypeInv, Stages, BridgeInv, Consumes
  PROVE  \/ Skip
         \/ \E r \in Rows, b \in BOOLEAN : ~CallbackRow(r) /\ Evaluate(r, b)
         \/ \E c \in Calls, i \in Ids : EnforceStash(c, Complete(i))
<1> DEFINE Sends ==
       \/ Skip
       \/ \E r \in Rows, b \in BOOLEAN : ~CallbackRow(r) /\ Evaluate(r, b)
       \/ \E c \in Calls, i \in Ids : EnforceStash(c, Complete(i))
<1>0. /\ \A c \in Calls : Start(c) \in Rows
      /\ \A i \in Ids : Complete(i) \in Rows /\ Close(i) \in Rows /\ ~CallbackRow(Close(i))
      /\ WorkflowEnd \in Rows /\ ~CallbackRow(WorkflowEnd)
      /\ ~cfg.bridge => \A r : ~CallbackRow(r)
      /\ \A c \in Unbound : ~CallbackRow(Start(c)) /\ ~CallbackRow(Complete(c))
  BY RowFacts, IdFacts, CallbackFacts DEF CallbackRow
<1>1. CASE ConsumeChainStart
  <2>1. cfg.chainStart => wfSent
    BY <1>1 DEF ConsumeChainStart, Take, Stages
  <2> QED
    BY <1>1, <2>1 DEF ConsumeChainStart
<1>2. CASE ConsumeChainEnd
  BY <1>0, <1>2 DEF ConsumeChainEnd
<1>3. ASSUME NEW c \in Calls, ConsumeToolStart(c) PROVE Sends
  <2>1. c \in Tools /\ Queued(<<"start", c>>)
    BY <1>3, TakeQueues DEF ConsumeToolStart, TypeInv
  <2>2. cfg.bridge /\ c \notin Unbound /\ cfg.toolStart => rec[c].start
    BY <2>1 DEF BridgeInv, ToolRec
  <2> QED
    BY <1>0, <1>3, <2>2 DEF ConsumeToolStart
<1>4. ASSUME NEW c \in Calls, ConsumeToolEnd(c) PROVE Sends
  <2>1. c \in Tools /\ c \in Ids /\ Queued(<<"end", c>>)
    BY <1>4, TakeQueues, IdFacts DEF ConsumeToolEnd, TypeInv
  <2>2. cfg.bridge /\ c \notin Unbound /\ cfg.toolEnd => rec[c].complete
    BY <2>1 DEF BridgeInv, ToolRec
  <2> QED
    BY <1>0, <1>4, <2>1, <2>2 DEF ConsumeToolEnd
<1>5. ASSUME NEW c \in Calls, ConsumeLlmStart(c) PROVE Sends
  <2>1. c \in Llms /\ Queued(<<"start", c>>)
    BY <1>5, TakeQueues DEF ConsumeLlmStart, TypeInv
  <2>2. cfg.bridge /\ cfg.llmStart => rec[c].start
    BY <2>1 DEF BridgeInv, LlmRec
  <2> QED
    BY <1>0, <1>5, <2>2 DEF ConsumeLlmStart
<1>6. ASSUME NEW c \in Calls, ConsumeLlmEnd(c) PROVE Sends
  <2>1. rec[c].complete => alias[c] \in Ids
    BY <1>6, RecordFacts DEF ConsumeLlmEnd, TypeInv, CallTypes
  <2>2. (IF c \in claimed THEN "pre" ELSE c) \in Ids
    BY IdFacts
  <2> QED
    BY <1>0, <1>6, <2>1, <2>2 DEF ConsumeLlmEnd
<1> QED
  BY <1>1, <1>2, <1>3, <1>4, <1>5, <1>6 DEF Consumes

\* The consumer sends no row a second time and none of the callbacks'.
LEMMA ConsumeInv ==
  ASSUME TypeInv, Stages, SeenOnce, BridgeInv, Consumes
  PROVE  SeenOnce' /\ Unseen' /\ BridgeInv'
<1>1. /\ UNCHANGED <<cfg, lost, denied, rec, alias, at>> /\ main = "stream"
      /\ events # <<>> /\ events' = Tail(events)
  BY ConsumeMoves DEF calls
<1> DEFINE Quiet ==
       /\ SeenOnce' /\ \A r \in Rows : CallbackRow(r) => rows'[r] = rows[r]
       /\ main' \in {"stream", "sending", "approval", "cleanup"}
       /\ cfg.bridge /\ main' \in {"sending", "approval"} =>
            \A c \in Tools \ Unbound : pending'[1] # Start(c)
<1>2. ASSUME Skip PROVE Quiet
  BY <1>1, <1>2, SameSeen DEF Skip
<1>3. ASSUME NEW r \in Rows, NEW b \in BOOLEAN, ~CallbackRow(r), Evaluate(r, b) PROVE Quiet
  <2>1. CASE r \in seen
    BY <1>2, <1>3, <2>1 DEF Evaluate
  <2>2. CASE r \notin seen
    <3>1. Deliver(r) /\ main' = "sending" /\ pending' = <<r, b>>
      BY <1>3, <2>2 DEF Evaluate
    <3>2. SeenOnce'
      BY <1>1, <1>3, <2>2, <3>1, SendUnseen DEF Deliver
    <3>3. \A q \in Rows : CallbackRow(q) => rows'[q] = rows[q]
      BY <1>3, <3>1, CountedType DEF Deliver, TypeInv
    <3>4. pending'[1] = r /\ (cfg.bridge => \A c \in Tools \ Unbound : r # Start(c))
      BY <1>3, <3>1, PendingFacts, CallbackFacts, IdFacts
    <3> QED
      BY <3>1, <3>2, <3>3, <3>4
  <2> QED
    BY <2>1, <2>2
<1>4. ASSUME NEW c \in Calls, NEW i \in Ids, EnforceStash(c, Complete(i)) PROVE Quiet
  <2>1. UNCHANGED <<seen, rows>>
    BY <1>4 DEF EnforceStash
  <2>2. \/ main' = "cleanup" \/ UNCHANGED <<main, pending>>
        \/ main' = "approval" /\ pending' = <<Complete(i), TRUE>>
    BY <1>4 DEF EnforceStash, Raise
  <2>3. <<Complete(i), TRUE>>[1] = Complete(i) /\ \A d \in Tools : Complete(i) # Start(d)
    BY RowFacts, IdFacts, PendingFacts
  <2>4. SeenOnce'
    BY <1>1, <2>1, SameSeen
  <2> QED
    BY <1>1, <2>1, <2>2, <2>3, <2>4
<1>5. Quiet
  <2> HIDE DEF Quiet
  <2> QED
    BY <1>2, <1>3, <1>4, ConsumerSends
<1>6. \A x : Queued(x)' => Queued(x)
  <2>1. Take(Head(events)) /\ events \in Seq(Event)
    BY <1>1 DEF Take, TypeInv
  <2> QED
    BY <2>1, TakeQueues
<1>7. BridgeInv'
  BY <1>1, <1>5, <1>6, BridgeKept
<1> QED
  BY <1>5, <1>7 DEF Unseen

\* Answers and decisions send nothing.
LEMMA SettleInv ==
  ASSUME TypeInv, SeenOnce, Unseen, BridgeInv, Settles PROVE SeenOnce' /\ Unseen' /\ BridgeInv'
<1>1. SettleMove
  BY SettleMoves
<1>2. SeenOnce' /\ Unseen'
  BY <1>1, SameSeen DEF SettleMove, Unseen
<1>3. ASSUME cfg.bridge, cfg.toolStart, NEW c \in Tools \ Unbound
      PROVE  /\ Start(c) \in denied' => Start(c) \in denied
             /\ main' \in {"sending", "approval"} => pending'[1] # Start(c)
  BY <1>1, <1>3 DEF SettleMove, BridgeInv, ToolGate
<1>4. UNCHANGED <<cfg, lost, rec, alias, at, rows, events>> /\ main # "done"
  BY <1>1 DEF SettleMove, calls
<1>5. \A x : Queued(x)' = Queued(x)
  BY <1>4 DEF Queued
<1>6. BridgeInv'
  BY <1>3, <1>4, <1>5, BridgeKept
<1> QED
  BY <1>2, <1>6

\* The graph ends and nothing is sent.
LEMMA GraphInv ==
  ASSUME TypeInv, SeenOnce, Unseen, BridgeInv, FinishGraph \/ FailGraph
  PROVE  SeenOnce' /\ Unseen' /\ BridgeInv'
<1>1. UNCHANGED <<cfg, lost, main, consumer, rows, denied, alias, rec>>
  BY DEF FinishGraph, FailGraph
<1>2. ASSUME NEW c \in Calls, NEW s \in {"start", "end"}, Queued(<<s, c>>)' PROVE Queued(<<s, c>>)
  <2>1. UNCHANGED events \/ Emit(<<"chain", "end">>)
    BY DEF FinishGraph, FailGraph
  <2>2. <<"chain", "end">> # <<s, c>>
    OBVIOUS
  <2>3. <<"chain", "end">> \in Event /\ events \in Seq(Event)
    BY EventFacts DEF TypeInv
  <2> QED
    BY <1>2, <2>1, <2>2, <2>3, EmitQueues DEF Queued
<1>3. \A c \in Calls : /\ at'[c] = "idle" <=> at[c] = "idle"
                       /\ at'[c] \in Waits => at'[c] = at[c]
  BY DEF FinishGraph, FailGraph, InFlight, Waits
<1>4. cfg.bridge /\ cfg.toolStart => \A c \in Tools \ Unbound :
        main' \in {"sending", "approval"} => pending'[1] # Start(c)
  BY <1>1 DEF consumer, BridgeInv, ToolGate
<1>5. BridgeInv'
  BY <1>1, <1>2, <1>3, <1>4, BridgeKept
<1> QED
  BY <1>1, <1>5, SameSeen DEF consumer, Unseen

\* The sweep closes what the records say is open.
LEMMA CleanupInv ==
  ASSUME TypeInv, Stages, SeenOnce, Unseen, BridgeInv, CleanupTurn
  PROVE  SeenOnce' /\ Unseen' /\ BridgeInv'
<1>1. /\ UNCHANGED <<cfg, consumer, denied, calls>> /\ main = "cleanup" /\ main' = "done"
      /\ rec' = [c \in Calls |-> NoRec] /\ events' = <<>>
  BY DEF CleanupTurn
<1>2. /\ lost' \subseteq Orphans
      /\ \A r \in Rows : rows'[r] = IF \E c \in Orphans \ lost' : r = Complete(c)
                                      THEN rows[r] + 1 ELSE rows[r]
  BY DEF CleanupTurn
<1>3. \A c \in Orphans : /\ c \in Tools \ Unbound /\ cfg.bridge
                         /\ rec[c] # NoRec /\ rec[c].start /\ ~rec[c].complete
  BY IdFacts, RecordFacts DEF Orphans, Stages
<1>4. SeenOnce' /\ Unseen'
  <2>1. \A r \in Rows : CallbackRow(r) \/ rows'[r] = rows[r]
    BY <1>2, <1>3, CallbackFacts, IdFacts
  <2> QED
    BY <1>1, <2>1, SameSeen DEF consumer, Unseen
<1>5. \A x : ~Queued(x)'
  BY <1>1 DEF Queued
<1>6. ASSUME cfg.bridge, NEW c \in Tools \ Unbound PROVE ToolRec(c)' /\ ToolGate(c)'
  <2>1. ToolRec(c) /\ c \in Calls /\ c \in Ids /\ rec[c] \in Record
    BY <1>6, IdFacts DEF BridgeInv, TypeInv, CallTypes
  <2>2. rows'[Start(c)] = rows[Start(c)]
    BY <1>2, <1>3, <2>1, RowFacts, IdFacts
  <2>3. rows'[Complete(c)] = IF c \in Orphans \ lost' THEN rows[Complete(c)] + 1 ELSE rows[Complete(c)]
    BY <1>2, <1>3, <2>1, RowFacts, IdFacts
  <2>4. c \in Orphans <=> rec[c].start /\ ~rec[c].complete
    BY DEF Orphans
  <2>5. rec'[c] = NoRec /\ at'[c] = at[c]
    BY <1>1, <2>1 DEF calls
  <2>6. CASE rec[c] = NoRec
    <3>1. rows[Start(c)] = 0 /\ rows[Complete(c)] = 0 /\ c \notin Orphans
      BY <1>1, <2>1, <2>4, <2>6, RecordFacts DEF ToolRec
    <3>2. ToolRec(c)'
      BY <1>1, <1>5, <2>2, <2>3, <2>5, <3>1, <2>1 DEF ToolRec
    <3> QED
      BY <1>1, <3>2 DEF ToolGate
  <2>7. CASE rec[c] # NoRec
    <3>1. /\ rows[Start(c)] = Bit(rec[c].start) /\ rows[Complete(c)] = Bit(rec[c].complete)
          /\ at[c] # "idle"
      BY <2>1, <2>7 DEF ToolRec
    <3>2. rec[c].start \in BOOLEAN /\ rec[c].complete \in BOOLEAN
      BY <2>1 DEF Record
    <3>3. /\ rows'[Start(c)] <= 1 /\ rows'[Complete(c)] <= 1
          /\ rows'[Start(c)] <= rows'[Complete(c)] \/ c \in lost'
      BY <2>2, <2>3, <2>4, <3>1, <3>2 DEF Bit
    <3>4. ToolRec(c)'
      BY <1>1, <1>5, <2>5, <3>1, <3>3 DEF ToolRec
    <3> QED
      BY <1>1, <3>4 DEF ToolGate
  <2> QED
    BY <2>6, <2>7
<1>7. ASSUME cfg.bridge, NEW i \in Ids \ Tools PROVE rows'[Complete(i)] = rows[Complete(i)]
  BY <1>2, <1>3, RowFacts, IdFacts
<1>8. ASSUME cfg.bridge, NEW c \in Llms PROVE LlmRec(c)'
  <2>1. LlmRec(c) /\ c \in Calls /\ c \in Ids \ Tools
    BY <1>8, IdFacts DEF BridgeInv
  <2>2. rows'[Start(c)] = rows[Start(c)] /\ rows'[Complete(c)] = rows[Complete(c)]
    <3>1. rows'[Start(c)] = rows[Start(c)]
      BY <1>2, <1>3, <2>1, RowFacts, IdFacts
    <3> QED
      BY <1>7, <1>8, <2>1, <3>1
  <2>3. rec'[c] = NoRec /\ at' = at /\ alias' = alias
    BY <1>1, <2>1 DEF calls
  <2> QED
    BY <1>1, <1>5, <2>1, <2>2, <2>3 DEF LlmRec
<1>9. cfg.bridge => PreRow'
  BY <1>1, <1>7, IdFacts DEF PreRow, BridgeInv, calls
<1>10. BridgeInv'
  BY <1>1, <1>6, <1>8, <1>9 DEF BridgeInv
<1> QED
  BY <1>4, <1>10

\* Every step keeps the invariant.
LEMMA NextTurnInv == TurnInv /\ [Next]_vars => TurnInv'
<1> SUFFICES ASSUME TurnInv, [Next]_vars PROVE SeenOnce' /\ Unseen' /\ BridgeInv'
  BY NextTypeInv, NextStages DEF TurnInv
<1> USE DEF TurnInv
<1>1. CASE Screens
  BY <1>1, PreScreenSeen, PreScreenBridge
<1>2. CASE Consumes
  BY <1>2, ConsumeInv
<1>3. CASE Settles
  BY <1>3, SettleInv
<1>4. CASE CleanupTurn
  BY <1>4, CleanupInv
<1>5. ASSUME NEW c \in Calls, Acts(c) PROVE SeenOnce' /\ Unseen' /\ BridgeInv'
  BY <1>5, CallSeen, CallBridge
<1>6. CASE FinishGraph \/ FailGraph
  BY <1>6, GraphInv
<1>7. CASE UNCHANGED vars
  BY <1>7 DEF vars, consumer, calls, SeenOnce, Unseen, BridgeInv, CallbackRow, ToolRec, ToolGate,
              LlmRec, PreRow, Queued
<1> QED
  BY <1>1, <1>2, <1>3, <1>4, <1>5, <1>6, <1>7, NextSteps

\* It holds throughout a turn.
LEMMA SpecTurnInv == Spec => []TurnInv
  BY InitTurnInv, NextTurnInv, PTL DEF Spec

-----------------------------------------------------------------------------
(* What follows *)

\* Callback, consumer, pre-screen and cleanup never send a row twice between
\* them, whatever is called, fails, is executed again or is abandoned.
THEOREM EachRowIsSentOnce == Spec => []RowsSentOnce
<1>1. TurnInv => RowsSentOnce
  <2> SUFFICES ASSUME TurnInv, NEW r \in Rows PROVE rows[r] <= 1
    BY DEF RowsSentOnce
  <2>1. rows[r] \in Nat
    BY DEF TurnInv, TypeInv
  <2>2. CASE ~CallbackRow(r)
    BY <2>2 DEF TurnInv, SeenOnce, Bit
  <2>3. ASSUME NEW c \in Tools \ Unbound, cfg.bridge PROVE rows[Start(c)] <= 1 /\ rows[Complete(c)] <= 1
    <3>1. ToolRec(c) /\ rows[Start(c)] \in Nat /\ rows[Complete(c)] \in Nat
      BY <2>3, RowFacts, IdFacts DEF TurnInv, TypeInv, BridgeInv
    <3> QED
      BY <3>1 DEF ToolRec, Bit
  <2>4. ASSUME NEW c \in Llms, cfg.bridge PROVE rows[Start(c)] <= 1 /\ rows[Complete(c)] <= 1
    BY <2>4 DEF TurnInv, BridgeInv, LlmRec
  <2>5. cfg.bridge => rows[Complete("pre")] <= 1
    BY DEF TurnInv, BridgeInv, PreRow
  <2> QED
    BY <2>2, <2>3, <2>4, <2>5, IdFacts DEF CallbackRow
<1> QED
  BY <1>1, SpecTurnInv, PTL

\* Under a bridge no body of a bound tool runs in a live turn before its start was sent
\* and neither stopped nor refused.
THEOREM BodiesAreGoverned == Spec => []BodyRunsGoverned
<1>1. TurnInv => BodyRunsGoverned
  <2> SUFFICES ASSUME TurnInv, NEW c \in Tools \ Unbound, at[c] = "running", cfg.bridge, cfg.toolStart,
                      main # "done"
               PROVE  rows[Start(c)] = 1 /\ Start(c) \notin denied
    BY DEF BodyRunsGoverned
  <2>1. ToolRec(c) /\ ToolGate(c)
    BY DEF TurnInv, BridgeInv
  <2> QED
    BY <2>1, RecordFacts DEF ToolRec, ToolGate, Bit
<1> QED
  BY <1>1, SpecTurnInv, PTL

\* When a turn is over, every row a callback opened before the sweep is closed,
\* but for those whose own close the gate failed.
THEOREM OrphansAreClosed == Spec => []OrphansClosed
<1>1. TurnInv => OrphansClosed
  <2> SUFFICES ASSUME TurnInv, NEW c \in Tools \ Unbound, cfg.bridge, rec[c] = NoRec,
                      rows[Start(c)] = 1
               PROVE  rows[Complete(c)] = 1 \/ c \in lost
    BY DEF OrphansClosed
  <2>1. ToolRec(c) /\ rows[Complete(c)] \in Nat
    BY RowFacts, IdFacts DEF TurnInv, TypeInv, BridgeInv
  <2> QED
    BY <2>1 DEF ToolRec
<1> QED
  BY <1>1, SpecTurnInv, PTL

=============================================================================

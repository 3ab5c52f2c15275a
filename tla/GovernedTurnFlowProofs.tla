----------------------- MODULE GovernedTurnFlowProofs -----------------------
(***************************************************************************)
(* What a governed turn that returns has seen to, and that a turn is one   *)
(* its contract allows: order in the stream, claims, and answers.          *)
(***************************************************************************)
EXTENDS GovernedTurnProofs, FiniteSetTheorems

-----------------------------------------------------------------------------
(* The stream *)

Waiting == {events[i] : i \in 1 .. Len(events)}

\* What is queued is what waits in the stream.
LEMMA WaitingQueued == \A x : Queued(x) <=> x \in Waiting
  BY DEF Queued, Waiting

\* Emitting takes nothing from the stream, and adds the event while somebody reads it;
LEMMA EmitWaits ==
  ASSUME events \in Seq(Event), NEW e \in Event, Emit(e)
  PROVE  /\ Waiting \subseteq Waiting' /\ Waiting' \subseteq Waiting \cup {e}
         /\ main # "done" /\ graph # "failed" => e \in Waiting'
<1>1. CASE main = "done" \/ graph = "failed"
  BY <1>1 DEF Emit, Waiting
<1>2. CASE ~(main = "done" \/ graph = "failed")
  <2>1. events' = Append(events, e)
    BY <1>2 DEF Emit
  <2>2. /\ Len(events') = Len(events) + 1 /\ events'[Len(events) + 1] = e
        /\ \A i \in 1 .. Len(events) : events'[i] = events[i]
    BY <2>1
  <2>3. Len(events) \in Nat
    OBVIOUS
  <2>4. ASSUME NEW i \in 1 .. Len(events') PROVE events'[i] = e \/ events'[i] \in Waiting
    BY <2>2, <2>3 DEF Waiting
  <2>5. ASSUME NEW i \in 1 .. Len(events) PROVE events[i] \in Waiting'
    BY <2>2, <2>3 DEF Waiting
  <2>6. e \in Waiting'
    BY <2>2, <2>3 DEF Waiting
  <2> QED
    BY <2>4, <2>5, <2>6 DEF Waiting
<1> QED
  BY <1>1, <1>2

\* taking an event takes no other.
LEMMA TakeWaits ==
  ASSUME events \in Seq(Event), NEW e, Take(e)
  PROVE  e \in Waiting /\ Waiting' \subseteq Waiting /\ Waiting \subseteq Waiting' \cup {e}
<1>1. /\ events' \in Seq(Event) /\ Queued(e)
      /\ \A i \in 1 .. Len(events') : i + 1 \in 1 .. Len(events) /\ events'[i] = events[i + 1]
  BY TakeQueues
<1>2. events # <<>> /\ events' = Tail(events) /\ Head(events) = e
  BY DEF Take
<1>3. Len(events) \in Nat /\ Len(events') = Len(events) - 1 /\ events[1] = e
  BY <1>2
<1>4. ASSUME NEW i \in 1 .. Len(events) PROVE events[i] \in Waiting' \cup {e}
  <2>1. CASE i = 1
    BY <1>3, <2>1
  <2>2. CASE i # 1
    <3>1. i - 1 \in 1 .. Len(events')
      BY <1>3, <2>2
    <3>2. events'[i - 1] = events[i]
      BY <1>1, <3>1
    <3> QED
      BY <3>1, <3>2 DEF Waiting
  <2> QED
    BY <2>1, <2>2
<1>5. ASSUME NEW i \in 1 .. Len(events') PROVE events'[i] \in Waiting
  BY <1>1 DEF Waiting
<1>6. e \in Waiting
  BY <1>1, WaitingQueued
<1> QED
  BY <1>4, <1>5, <1>6 DEF Waiting

\* Where a call goes without telling the stream.
Untold == {"prepared", "asked", "held", "failed", "cancelled", "ending", "failing"}

\* Where a step of a call takes it, and what it tells the stream.
LEMMA CallPlaces ==
  ASSUME TypeInv, NEW c \in Calls, Acts(c)
  PROVE  /\ graph = "running" \/ at[c] \in InFlight
         /\ \/ at'[c] \in Untold /\ events' = events
            \/ at'[c] = "running" /\ at[c] # "running" /\ Emit(<<"start", c>>)
            \/ at'[c] = "done" /\ at[c] \in {"running", "ending"} /\ Emit(<<"end", c>>)
         /\ at'[c] \in {"ending", "failing"} => at[c] = "running" /\ rec[c] # NoRec
<1> DEFINE Goes ==
      /\ graph = "running" \/ at[c] \in InFlight
      /\ \/ at'[c] \in Untold /\ events' = events
         \/ at'[c] = "running" /\ at[c] # "running" /\ Emit(<<"start", c>>)
         \/ at'[c] = "done" /\ at[c] \in {"running", "ending"} /\ Emit(<<"end", c>>)
      /\ at'[c] \in {"ending", "failing"} => at[c] = "running" /\ rec[c] # NoRec
<1>0. at \in [Calls -> Places]
  BY DEF TypeInv, CallTypes, PlaceTypes
<1>1. ASSUME PrepareTool(c) PROVE Goes
  BY <1>0, <1>1 DEF PrepareTool, Ready, FailCall, Untold
<1>2. ASSUME ReexecuteTool(c) \/ CancelTool(c) PROVE Goes
  BY <1>0, <1>2 DEF ReexecuteTool, CancelTool, Untold, InFlight
<1>3. ASSUME at[c] \in {"prepared", "asked", "held"},
             \/ RunBody(c) \/ FailCall(c)
             \/ events' = events /\ \E x \in {"asked", "held"} : at' = [at EXCEPT ![c] = x]
      PROVE  Goes
  BY <1>0, <1>3 DEF RunBody, FailCall, InFlight, Untold
<1>4. ASSUME StartTool(c) PROVE Goes
  BY <1>3, <1>4 DEF StartTool
<1>5. ASSUME NEW g \in BOOLEAN, ReleaseTool(c, g) PROVE Goes
  BY <1>3, <1>5 DEF ReleaseTool
<1>6. ASSUME NEW v \in Verdicts, AnswerStart(c, v) PROVE Goes
  BY <1>3, <1>6 DEF AnswerStart
<1>7. ASSUME StartLlm(c) PROVE Goes
  <2>1. RunBody(c) \/ (at' = [at EXCEPT ![c] = "asked"] /\ events' = events)
    BY <1>7 DEF StartLlm
  <2>2. at[c] = "idle" /\ graph = "running"
    BY <1>7 DEF StartLlm, Ready
  <2> QED
    BY <1>0, <2>1, <2>2 DEF RunBody, Untold
<1>8. ASSUME NEW ok \in BOOLEAN, EndBody(c, ok), at[c] \in {"running", "ending", "failing"},
             ok => at[c] # "failing"
      PROVE  Goes
  BY <1>0, <1>8 DEF EndBody, FailCall, InFlight, Untold
<1>9. ASSUME NEW v \in Verdicts, AnswerCompletion(c, v) PROVE Goes
  <2>1. (at[c] = "ending") \in BOOLEAN
    OBVIOUS
  <2> QED
    BY <1>8, <1>9, <2>1 DEF AnswerCompletion
<1>10. ASSUME NEW ok \in BOOLEAN, EndTool(c, ok) \/ EndLlm(c, ok) PROVE Goes
  <2>1. at[c] = "running" /\ \E id, en : SendCompletion(c, id, en, ok)
    BY <1>10 DEF EndTool, EndLlm
  <2>2. \/ EndBody(c, ok)
        \/ /\ events' = events /\ rec[c] # NoRec
           /\ \E x \in {"ending", "failing"} : at' = [at EXCEPT ![c] = x]
    BY <2>1 DEF SendCompletion
  <2>3. CASE events' = events /\ rec[c] # NoRec /\ \E x \in {"ending", "failing"} : at' = [at EXCEPT ![c] = x]
    BY <1>0, <2>1, <2>3 DEF InFlight, Untold
  <2> QED
    BY <1>8, <2>1, <2>2, <2>3
<1> HIDE DEF Goes
<1>11. Goes
  <2>1. CASE ToolActs(c)
    BY <1>1, <1>2, <1>4, <1>5, <2>1 DEF ToolActs
  <2> QED
    BY <1>6, <1>7, <1>9, <1>10, <2>1 DEF Acts
<1> QED
  BY <1>11 DEF Goes

\* What a call waits for in the stream stays there, and the rest of it with it.
LEMMA CallWaits ==
  ASSUME TypeInv, NEW c \in Calls, Acts(c)
  PROVE  /\ Waiting \subseteq Waiting' /\ Waiting' \subseteq Waiting \cup {<<"start", c>>, <<"end", c>>}
         /\ <<"start", c>> \in Waiting' \ Waiting => at'[c] = "running"
         /\ <<"end", c>> \in Waiting' \ Waiting => at'[c] = "done"
         /\ main # "done" /\ graph # "failed" =>
              /\ at'[c] = "running" => <<"start", c>> \in Waiting'
              /\ at'[c] = "done" => <<"end", c>> \in Waiting'
<1>1. /\ events \in Seq(Event) /\ <<"start", c>> \in Event /\ <<"end", c>> \in Event
      /\ <<"start", c>> # <<"end", c>>
  BY EventFacts DEF TypeInv
<1>2. CASE at'[c] \in Untold /\ events' = events
  BY <1>2 DEF Waiting, Untold
<1>3. CASE at'[c] = "running" /\ at[c] # "running" /\ Emit(<<"start", c>>)
  BY <1>1, <1>3, EmitWaits
<1>4. CASE at'[c] = "done" /\ at[c] \in {"running", "ending"} /\ Emit(<<"end", c>>)
  BY <1>1, <1>4, EmitWaits
<1> QED
  BY <1>2, <1>3, <1>4, CallPlaces

\* Consuming takes the event at the head of the stream, and the graph is not idle then.
LEMMA ConsumeTakes ==
  ASSUME TypeInv, Stages, Consumes
  PROVE  /\ Waiting' \subseteq Waiting /\ Waiting \subseteq Waiting' \cup {Head(events)}
         /\ Head(events) \in Waiting /\ graph # "idle" /\ main = "stream"
         /\ Len(events) \in Nat \ {0} /\ Len(events') = Len(events) - 1 /\ events[1] = Head(events)
         /\ \A i \in 1 .. Len(events') : i + 1 \in 1 .. Len(events) /\ events'[i] = events[i + 1]
         /\ Len(events) = 1 => events' = <<>>
<1>1. /\ events # <<>> /\ events' = Tail(events) /\ main = "stream" /\ graph' = graph
  BY ConsumeMoves DEF calls
<1>2. Take(Head(events)) /\ events \in Seq(Event)
  BY <1>1 DEF Take, TypeInv
<1>3. /\ Waiting' \subseteq Waiting /\ Waiting \subseteq Waiting' \cup {Head(events)}
      /\ Head(events) \in Waiting
      /\ \A i \in 1 .. Len(events') : i + 1 \in 1 .. Len(events) /\ events'[i] = events[i + 1]
  BY <1>2, TakeWaits, TakeQueues
<1>4. Len(events) \in Nat \ {0} /\ events[1] = Head(events)
  BY <1>1, <1>2
<1>5. events' \in Seq(Event) /\ Len(events') = Len(events) - 1
  BY <1>1, <1>2, HeadTailProperties
<1>6. Len(events) = 1 => events' = <<>>
  BY <1>5, EmptySeq
<1> QED
  BY <1>1, <1>3, <1>4, <1>5, <1>6 DEF Stages

\* The root's end is queued last.
LEMMA EmitLast ==
  ASSUME events \in Seq(Event), NEW e, Emit(e)
  PROVE  \A i \in 1 .. Len(events') :
           \/ i \in 1 .. Len(events) /\ events'[i] = events[i]
           \/ i = Len(events')
<1>1. CASE events' = events
  BY <1>1
<1>2. CASE events' = Append(events, e)
  <2>1. /\ Len(events') = Len(events) + 1 /\ Len(events) \in Nat
        /\ \A i \in 1 .. Len(events) : events'[i] = events[i]
    BY <1>2
  <2> QED
    BY <2>1
<1> QED
  BY <1>1, <1>2 DEF Emit

-----------------------------------------------------------------------------
(* What the consumer makes of the event at the head of the stream *)

\* The id under which the consumer completes a model call.
ClaimedId == [c \in Llms |-> IF c \in claimed THEN "pre" ELSE c]

\* The calls no callback keeps a record of.
Bare == {c \in Calls : ~cfg.bridge \/ c \in Unbound}

\* Why it sends a row.
Reports(r) ==
  \/ r = WorkflowEnd /\ Head(events) = <<"chain", "end">> /\ cfg.chainEnd
  \/ \E c \in Tools :
       \/ /\ r = Start(c) /\ Head(events) = <<"start", c>> /\ cfg.toolStart
          /\ c \in Bare /\ pending'[2] = TRUE
       \/ /\ r = Complete(c) /\ Head(events) = <<"end", c>> /\ cfg.toolEnd
          /\ c \in Bare /\ pending'[2] = TRUE
  \/ \E c \in Llms :
       \/ /\ r = Start(c) /\ Head(events) = <<"start", c>> /\ cfg.llmStart
          /\ ~cfg.bridge /\ c \notin Silent /\ c \notin claimed'
       \/ /\ r = Close(ClaimedId[c]) /\ Head(events) = <<"end", c>> /\ cfg.llmStart
          /\ c \in opened /\ ~rec[c].complete /\ pending'[2] = TRUE

Sent(r) ==
  /\ r \in Rows \ seen /\ Deliver(r) /\ main' = "sending" /\ outcome' = outcome
  /\ pending'[1] = r /\ Reports(r)

Quiet ==
  /\ UNCHANGED <<seen, rows>>
  /\ \/ main' = "cleanup" /\ outcome' = "raised"
     \/ main' \in {"stream", "approval"} /\ outcome' = outcome

\* It sends a row the client has not seen, or none.
LEMMA ConsumeReports ==
  ASSUME TurnInv, Consumes PROVE Quiet \/ \E r \in Rows : Sent(r)
<1> DEFINE Done == Quiet \/ \E r \in Rows : Sent(r)
<1>0. /\ TypeInv /\ Stages /\ BridgeInv /\ main = "stream"
      /\ \A c \in Calls : c \in Ids /\ Start(c) \in Rows /\ Complete(c) \in Rows
      /\ \A i \in Ids : Close(i) \in Rows
      /\ WorkflowEnd \in Rows
  BY ConsumeMoves, RowFacts, IdFacts DEF TurnInv
<1>1. Skip => Quiet
  BY <1>0 DEF Skip, Quiet
<1>2. ASSUME NEW c, NEW r, EnforceStash(c, r) PROVE Quiet
  BY <1>0, <1>2 DEF EnforceStash, Quiet, Raise
<1>3. ASSUME NEW r \in Rows, NEW b \in BOOLEAN, Evaluate(r, b), pending'[2] = b => Reports(r)
      PROVE  Done
  <2>1. CASE r \in seen
    BY <1>1, <1>3, <2>1 DEF Evaluate
  <2>2. CASE r \notin seen
    <3>1. Deliver(r) /\ main' = "sending" /\ outcome' = outcome /\ pending' = <<r, b>>
      BY <1>3, <2>2 DEF Evaluate
    <3>2. pending'[1] = r /\ pending'[2] = b
      BY <3>1
    <3> QED
      BY <1>3, <2>2, <3>1, <3>2 DEF Sent
  <2> QED
    BY <2>1, <2>2
<1>4. CASE ConsumeChainStart
  <2>1. cfg.chainStart => wfSent
    BY <1>0 DEF Stages
  <2> QED
    BY <1>1, <1>4, <2>1 DEF ConsumeChainStart
<1>5. CASE ConsumeChainEnd
  <2>1. cfg.chainEnd => Reports(WorkflowEnd)
    BY <1>5 DEF ConsumeChainEnd, Take, Reports
  <2> QED
    BY <1>0, <1>1, <1>3, <1>5, <2>1 DEF ConsumeChainEnd
<1>6. ASSUME NEW c \in Calls, ConsumeToolStart(c) PROVE Done
  <2>1. c \in Tools /\ Take(<<"start", c>>) /\ Queued(<<"start", c>>)
    BY <1>0, <1>6, TakeQueues DEF ConsumeToolStart, TypeInv
  <2>2. ~rec[c].start /\ cfg.toolStart => c \in Bare
    BY <1>0, <2>1 DEF BridgeInv, ToolRec, Bare
  <2>3. ~rec[c].start /\ cfg.toolStart /\ pending'[2] = TRUE => Reports(Start(c))
    BY <2>1, <2>2 DEF Take, Reports
  <2> QED
    BY <1>0, <1>1, <1>3, <1>6, <2>3 DEF ConsumeToolStart
<1>7. ASSUME NEW c \in Calls, ConsumeToolEnd(c) PROVE Done
  <2>1. c \in Tools /\ Take(<<"end", c>>) /\ Queued(<<"end", c>>)
    BY <1>0, <1>7, TakeQueues DEF ConsumeToolEnd, TypeInv
  <2>2. ~rec[c].complete /\ cfg.toolEnd => c \in Bare
    BY <1>0, <2>1 DEF BridgeInv, ToolRec, Bare
  <2>3. ~rec[c].complete /\ cfg.toolEnd /\ pending'[2] = TRUE => Reports(Complete(c))
    BY <2>1, <2>2 DEF Take, Reports
  <2> QED
    BY <1>0, <1>1, <1>2, <1>3, <1>7, <2>3 DEF ConsumeToolEnd
<1>8. ASSUME NEW c \in Calls, ConsumeLlmStart(c) PROVE Done
  <2>1. c \in Llms /\ Take(<<"start", c>>) /\ Queued(<<"start", c>>)
    BY <1>0, <1>8, TakeQueues DEF ConsumeLlmStart, TypeInv
  <2>2. ~rec[c].start /\ cfg.llmStart => ~cfg.bridge
    BY <1>0, <2>1 DEF BridgeInv, LlmRec
  <2>3. ~rec[c].start /\ c \notin Silent /\ cfg.llmStart /\ c \notin claimed' => Reports(Start(c))
    BY <2>1, <2>2 DEF Take, Reports
  <2> QED
    BY <1>0, <1>1, <1>3, <1>8, <2>3 DEF ConsumeLlmStart
<1>9. ASSUME NEW c \in Calls, ConsumeLlmEnd(c) PROVE Done
  <2>1. c \in Llms /\ Take(<<"end", c>>)
    BY <1>9 DEF ConsumeLlmEnd
  <2>2. ClaimedId[c] = (IF c \in claimed THEN "pre" ELSE c) /\ Close(ClaimedId[c]) \in Rows
    BY <1>0, <2>1, IdFacts DEF ClaimedId
  <2>3. ~rec[c].complete /\ c \in opened /\ cfg.llmStart /\ pending'[2] = TRUE => Reports(Close(ClaimedId[c]))
    BY <2>1 DEF Take, Reports
  <2> QED
    BY <1>0, <1>1, <1>2, <1>3, <1>9, <2>2, <2>3 DEF ConsumeLlmEnd
<1> QED
  BY <1>4, <1>5, <1>6, <1>7, <1>8, <1>9 DEF Consumes

\* What is at the head of the stream says which of the handlers runs.
LEMMA ConsumeHeads ==
  ASSUME Consumes
  PROVE  /\ Head(events) = <<"chain", "end">> => ConsumeChainEnd
         /\ \A c \in Tools : /\ Head(events) = <<"start", c>> => ConsumeToolStart(c)
                             /\ Head(events) = <<"end", c>> => ConsumeToolEnd(c)
         /\ \A c \in Llms : /\ Head(events) = <<"start", c>> => ConsumeLlmStart(c)
                            /\ Head(events) = <<"end", c>> => ConsumeLlmEnd(c)
<1>1. ConsumeChainStart => Head(events) = <<"chain", "start">>
  BY DEF ConsumeChainStart, Take
<1>2. ConsumeChainEnd => Head(events) = <<"chain", "end">>
  BY DEF ConsumeChainEnd, Take
<1>3. \A c : ConsumeToolStart(c) => c \in Tools /\ Head(events) = <<"start", c>>
  BY DEF ConsumeToolStart, Take
<1>4. \A c : ConsumeToolEnd(c) => c \in Tools /\ Head(events) = <<"end", c>>
  BY DEF ConsumeToolEnd, Take
<1>5. \A c : ConsumeLlmStart(c) => c \in Llms /\ Head(events) = <<"start", c>>
  BY DEF ConsumeLlmStart, Take
<1>6. \A c : ConsumeLlmEnd(c) => c \in Llms /\ Head(events) = <<"end", c>>
  BY DEF ConsumeLlmEnd, Take
<1>7. Tools \cap Llms = {}
  BY IdFacts
<1> QED
  BY <1>1, <1>2, <1>3, <1>4, <1>5, <1>6, <1>7 DEF Consumes

\* A buffer is opened, and a claim made, at the start of a call with a prompt only.
LEMMA ConsumeOpens ==
  ASSUME TypeInv, Consumes
  PROVE  \/ UNCHANGED <<opened, claimed>> 
         \/ \E c \in Llms \ Silent :
              /\ Head(events) = <<"start", c>> /\ opened' = opened \cup {c}
              /\ claimed' = IF pre /\ claimed = {} THEN claimed \cup {c} ELSE claimed
<1>1. ASSUME NEW c \in Calls, ConsumeLlmStart(c)
      PROVE  \/ UNCHANGED <<opened, claimed>> 
             \/ /\ c \in Llms \ Silent /\ Head(events) = <<"start", c>> /\ opened' = opened \cup {c}
                /\ claimed' = IF pre /\ claimed = {} THEN claimed \cup {c} ELSE claimed
  BY <1>1 DEF ConsumeLlmStart, Claims, Take
<1>2. CASE ConsumeChainStart \/ ConsumeChainEnd
  BY <1>2 DEF ConsumeChainStart, ConsumeChainEnd
<1>3. ASSUME NEW c \in Calls, ConsumeToolStart(c) \/ ConsumeToolEnd(c) \/ ConsumeLlmEnd(c)
      PROVE  UNCHANGED <<opened, claimed>>
  BY <1>3 DEF ConsumeToolStart, ConsumeToolEnd, ConsumeLlmEnd
<1> QED
  BY <1>1, <1>2, <1>3 DEF Consumes

\* An evaluated row has been sent, now or before.
LEMMA EvaluateSees == ASSUME NEW r, NEW b, Evaluate(r, b) PROVE r \in seen'
  BY DEF Evaluate, Skip, Deliver

\* What has been seen to when an event has been consumed.
LEMMA ConsumeSettles ==
  ASSUME TurnInv, Consumes
  PROVE  /\ seen \subseteq seen'
         /\ Head(events) = <<"chain", "end">> /\ cfg.chainEnd => WorkflowEnd \in seen'
         /\ \A c \in Tools :
              Head(events) = <<"start", c>> /\ cfg.toolStart /\ ~rec[c].start => Start(c) \in seen'
         /\ \A c \in Llms \ Silent : Head(events) = <<"start", c>> =>
              /\ c \in opened'
              /\ cfg.llmStart /\ ~rec[c].start => c \in claimed' \/ Start(c) \in seen'
         /\ \A c \in Llms : Head(events) = <<"end", c>> /\ ~rec[c].complete /\ c \in opened /\ cfg.llmStart
              => Close(ClaimedId[c]) \in seen'
         /\ \A c \in Calls : Head(events) = <<"end", c>> /\ rec[c].complete /\ rec[c].stash = "stop"
              => outcome' = "raised"
<1>1. seen \subseteq seen'
  BY ConsumeReports DEF Quiet, Sent, Deliver
<1>2. Head(events) = <<"chain", "end">> /\ cfg.chainEnd => WorkflowEnd \in seen'
  BY ConsumeHeads, EvaluateSees DEF ConsumeChainEnd
<1>3. ASSUME NEW c \in Tools, Head(events) = <<"start", c>>, cfg.toolStart, ~rec[c].start
      PROVE  Start(c) \in seen'
  BY <1>3, ConsumeHeads, EvaluateSees DEF ConsumeToolStart
<1>4. ASSUME NEW c \in Llms \ Silent, Head(events) = <<"start", c>>
      PROVE  /\ c \in opened'
             /\ cfg.llmStart /\ ~rec[c].start => c \in claimed' \/ Start(c) \in seen'
  <2>1. ConsumeLlmStart(c)
    BY <1>4, ConsumeHeads
  <2> QED
    BY <1>4, <2>1, EvaluateSees DEF ConsumeLlmStart
<1>5. ASSUME NEW c \in Llms, Head(events) = <<"end", c>>, ~rec[c].complete, c \in opened, cfg.llmStart
      PROVE  Close(ClaimedId[c]) \in seen'
  <2>1. ConsumeLlmEnd(c)
    BY <1>5, ConsumeHeads
  <2>2. ClaimedId[c] = IF c \in claimed THEN "pre" ELSE c
    BY DEF ClaimedId
  <2> QED
    BY <1>5, <2>1, <2>2, EvaluateSees DEF ConsumeLlmEnd
<1>6. ASSUME NEW c \in Calls, Head(events) = <<"end", c>>, rec[c].complete, rec[c].stash = "stop"
      PROVE  outcome' = "raised"
  <2>1. ConsumeToolEnd(c) \/ ConsumeLlmEnd(c)
    BY <1>6, ConsumeHeads, IdFacts
  <2>2. \E r : EnforceStash(c, r)
    BY <1>6, <2>1 DEF ConsumeToolEnd, ConsumeLlmEnd
  <2> QED
    BY <1>6, <2>2 DEF EnforceStash, Raise
<1> QED
  BY <1>1, <1>2, <1>3, <1>4, <1>5, <1>6

-----------------------------------------------------------------------------
(* How a turn ends *)

\* An answer, a decision or the end of the stream leaves the loop or goes on.
LEMMA SettleEnds ==
  ASSUME Settles
  PROVE  \/ main' = "cleanup" /\ outcome' = "raised"
         \/ /\ main' = "cleanup" /\ outcome' = "returned" /\ main = "stream"
            /\ graph = "finished" /\ events = <<>>
         \/ main' \in {"stream", "approval"} /\ outcome' = outcome
  BY DEF Settles, Respond, Approval, EndOfStream, Abandon, Raise

\* The pre-screen starts the stream or escapes; it closes the session on the way out only.
LEMMA PreScreenEnds ==
  ASSUME Screens
  PROVE  /\ main \in Screening
         /\ \/ main' = "done" /\ outcome' = "raised" /\ UNCHANGED <<graph, events>>
            \/ main' \in Screening /\ outcome' = outcome /\ UNCHANGED <<graph, events>>
            \/ /\ main' = "stream" /\ graph' = "running" /\ UNCHANGED <<outcome, seen>>
               /\ events' = <<<<"chain", "start">>>>
         /\ seen \subseteq seen' /\ (main' # "done" => seen' \subseteq seen \cup {Signal, Workflow, Start("pre")})
         /\ seen' \subseteq seen \cup {Signal, Workflow, WorkflowEnd, Start("pre")}
         /\ wfSent' => wfSent \/ Workflow \in seen'
         /\ UNCHANGED <<cfg, opened, claimed, at, rec, alias>>
<1> DEFINE Ends ==
      /\ main \in Screening
      /\ \/ main' = "done" /\ outcome' = "raised" /\ UNCHANGED <<graph, events>>
         \/ main' \in Screening /\ outcome' = outcome /\ UNCHANGED <<graph, events>>
         \/ /\ main' = "stream" /\ graph' = "running" /\ UNCHANGED <<outcome, seen>>
            /\ events' = <<<<"chain", "start">>>>
      /\ UNCHANGED <<cfg, opened, claimed, at, rec, alias>>
<1> DEFINE Sees ==
      /\ seen \subseteq seen' /\ (main' # "done" => seen' \subseteq seen \cup {Signal, Workflow, Start("pre")})
      /\ seen' \subseteq seen \cup {Signal, Workflow, WorkflowEnd, Start("pre")}
      /\ wfSent' => wfSent \/ Workflow \in seen'
<1>1. ASSUME NEW v \in Answers, SendSignal(v) PROVE Ends /\ Sees
  <2>1. Ends
    BY <1>1 DEF SendSignal, Escape, calls, Screening
  <2>2. Sees
    BY <1>1 DEF SendSignal, Escape, Deliver
  <2> QED
    BY <2>1, <2>2
<1>2. ASSUME NEW v \in Answers, SendWorkflow(v) PROVE Ends /\ Sees
  <2>1. Ends
    BY <1>2 DEF SendWorkflow, Escape, calls, Screening
  <2>2. Sees
    BY <1>2 DEF SendWorkflow, Escape, Deliver
  <2> QED
    BY <2>1, <2>2
<1>3. ASSUME NEW v \in Answers, PreScreen(v) PROVE Ends /\ Sees
  <2>1. Ends
    BY <1>3 DEF PreScreen, PreScreenStopped, Escape, calls, Screening
  <2>2. Sees
    BY <1>3 DEF PreScreen, PreScreenStopped, Escape, Deliver
  <2> QED
    BY <2>1, <2>2
<1>4. ASSUME NEW g \in BOOLEAN, PreScreenApproval(g) PROVE Ends /\ Sees
  BY <1>4 DEF PreScreenApproval, Escape, calls, Screening
<1>5. ASSUME BeginStream PROVE Ends /\ Sees
  BY <1>5 DEF BeginStream, calls, consumer, Screening
<1> HIDE DEF Ends, Sees
<1>6. Ends /\ Sees
  BY <1>1, <1>2, <1>3, <1>4, <1>5 DEF Screens, PreScreenStep
<1> QED
  BY <1>6 DEF Ends, Sees

\* A turn has an outcome from its cleanup on, and it returns only where the
\* graph has finished and every event was consumed; the root's end is the last.
EndInv ==
  /\ main \in {"cleanup", "done"} <=> outcome # "none"
  /\ graph = "idle" => main \in Screening \cup {"done"}
  /\ graph = "finished" => \A c \in Calls : at[c] \notin InFlight
  /\ outcome = "returned" => graph = "finished" /\ events = <<>>
  /\ \A i \in 1 .. Len(events) :
       events[i] = <<"chain", "end">> => graph = "finished" /\ i = Len(events)
  /\ wfSent => Workflow \in seen

\* A call that steps does so in a graph that runs or has failed.
LEMMA CallsRun ==
  ASSUME TypeInv, Stages, EndInv, NEW c \in Calls, Acts(c)
  PROVE  graph \in {"running", "failed"} /\ outcome # "returned"
<1>1. graph = "running" \/ at[c] \in InFlight
  BY CallPlaces
<1>2. at[c] \in InFlight => graph \notin {"finished", "idle"}
  BY DEF EndInv, Stages, InFlight
<1> QED
  BY <1>1, <1>2 DEF EndInv, TypeInv, ControlTypes

\* Every step keeps how a turn ends.
LEMMA NextEndInv == ASSUME TurnInv, EndInv, [Next]_vars PROVE EndInv'
<1>0. TypeInv /\ Stages
  BY DEF TurnInv
<1>1. CASE Screens
  <2>1. graph = "idle" /\ events = <<>> /\ main \notin {"cleanup", "done"}
    BY <1>0, <1>1, PreScreenEnds DEF Stages, Screening
  <2>2. \A i \in 1 .. Len(events') : events'[i] # <<"chain", "end">>
    BY <1>1, <2>1, PreScreenEnds
  <2>3. outcome = "none" /\ (wfSent => Workflow \in seen)
    BY <2>1 DEF EndInv
  <2> QED
    BY <1>1, <2>1, <2>2, <2>3, PreScreenEnds DEF EndInv, Screening
<1>2. CASE Consumes
  <2>1. UNCHANGED <<wfSent, graph, at>> /\ main = "stream" /\ events # <<>>
    BY <1>0, <1>2, ConsumeMoves DEF calls
  <2>2. graph # "idle" /\ seen \subseteq seen'
    BY <1>0, <1>2, ConsumeTakes, ConsumeSettles
  <2>3. outcome = "none"
    BY <2>1 DEF EndInv
  <2>4. \/ main' = "cleanup" /\ outcome' = "raised"
        \/ main' \in {"stream", "sending", "approval"} /\ outcome' = outcome
    BY <1>2, ConsumeReports DEF Quiet, Sent
  <2>5. ASSUME NEW i \in 1 .. Len(events'), events'[i] = <<"chain", "end">>
        PROVE  graph = "finished" /\ i = Len(events')
    <3>1. i + 1 \in 1 .. Len(events) /\ events[i + 1] = <<"chain", "end">>
      BY <1>0, <1>2, <2>5, ConsumeTakes, TakeQueues DEF TypeInv
    <3>2. graph = "finished" /\ i + 1 = Len(events)
      BY <3>1 DEF EndInv
    <3> QED
      BY <1>0, <1>2, <3>2, ConsumeTakes
  <2> QED
    BY <2>1, <2>2, <2>3, <2>4, <2>5 DEF EndInv
<1>3. CASE Settles
  <2>1. UNCHANGED <<wfSent, seen, graph, at, events>> /\ main \in {"stream", "sending", "approval"}
    BY <1>3, SettleMoves DEF SettleMove, calls
  <2> QED
    BY <1>3, <2>1, SettleEnds DEF EndInv, Screening
<1>4. CASE CleanupTurn
  BY <1>4 DEF CleanupTurn, EndInv, consumer, calls
<1>5. ASSUME NEW c \in Calls, Acts(c) PROVE EndInv'
  <2>1. /\ UNCHANGED <<main, outcome, wfSent, seen, graph>>
        /\ graph \in {"running", "failed"} /\ outcome # "returned"
    BY <1>0, <1>5, CallMoves, CallsRun DEF CallMove, consumer
  <2>2. <<"chain", "end">> \notin Waiting
    BY <2>1 DEF EndInv, Waiting
  <2>3. <<"chain", "end">> \notin Waiting'
    BY <1>0, <1>5, <2>2, CallWaits
  <2>4. \A i \in 1 .. Len(events') : events'[i] # <<"chain", "end">>
    BY <2>3 DEF Waiting
  <2> QED
    BY <2>1, <2>4 DEF EndInv
<1>6. CASE FinishGraph
  <2>1. /\ UNCHANGED <<main, outcome, wfSent, seen, at>> /\ graph = "running" /\ graph' = "finished"
        /\ \A c \in Calls : at[c] \notin InFlight
        /\ Emit(<<"chain", "end">>)
    BY <1>6 DEF FinishGraph, consumer
  <2>2. \A i \in 1 .. Len(events) : events[i] # <<"chain", "end">>
    BY <2>1 DEF EndInv
  <2>3. \A i \in 1 .. Len(events') : events'[i] = <<"chain", "end">> => i = Len(events')
    BY <1>0, <2>1, <2>2, EmitLast DEF TypeInv
  <2> QED
    BY <2>1, <2>3 DEF EndInv
<1>7. CASE FailGraph
  <2>1. UNCHANGED <<main, outcome, wfSent, seen, events>> /\ graph = "running" /\ graph' = "failed"
    BY <1>7 DEF FailGraph, consumer
  <2> QED
    BY <2>1 DEF EndInv
<1>8. CASE UNCHANGED vars
  BY <1>8 DEF vars, consumer, calls, EndInv
<1> QED
  BY <1>1, <1>2, <1>3, <1>4, <1>5, <1>6, <1>7, <1>8, NextSteps

\* Where the root's end is reported, it is reported once the graph has
\* finished and nothing is left to consume.
SessionInv ==
  /\ main \in Screening => WorkflowEnd \notin seen
  /\ WorkflowEnd \in seen /\ graph # "idle" => graph = "finished" /\ events = <<>>
  /\ cfg.chainEnd /\ graph = "finished" /\ outcome # "raised" =>
       <<"chain", "end">> \in Waiting \/ WorkflowEnd \in seen

\* Every step keeps that.
LEMMA NextSessionInv == ASSUME TurnInv, EndInv, SessionInv, [Next]_vars PROVE SessionInv'
<1>0. TypeInv /\ Stages
  BY DEF TurnInv
<1>1. CASE Screens
  <2>1. graph = "idle" /\ WorkflowEnd \notin seen
    BY <1>0, <1>1, PreScreenEnds DEF SessionInv, Stages
  <2>2. main' # "done" => WorkflowEnd \notin seen'
    BY <1>1, <2>1, PreScreenEnds, RowFacts, IdFacts
  <2>3. \/ graph' = "idle" /\ (main' = "done" \/ WorkflowEnd \notin seen')
        \/ graph' = "running" /\ WorkflowEnd \notin seen'
    BY <1>1, <2>1, <2>2, PreScreenEnds
  <2>4. "done" \notin Screening
    BY DEF Screening
  <2> QED
    BY <2>3, <2>4 DEF SessionInv
<1>2. CASE Consumes
  <2>1. /\ UNCHANGED <<cfg, graph>> /\ events # <<>> /\ main = "stream" /\ graph # "idle"
        /\ main' \notin Screening
    BY <1>0, <1>2, ConsumeMoves, ConsumeTakes, ConsumeReports DEF calls, Quiet, Sent, Screening
  <2>2. WorkflowEnd \notin seen
    BY <2>1 DEF SessionInv
  <2>3. WorkflowEnd \in seen' => Head(events) = <<"chain", "end">>
    <3>1. \A i \in Ids : WorkflowEnd \notin {Start(i), Complete(i), Close(i)}
      BY RowFacts
    <3>2. \A c \in Llms : ClaimedId[c] \in Ids
      BY IdFacts DEF ClaimedId
    <3>3. ASSUME NEW r \in Rows, Sent(r), r = WorkflowEnd PROVE Head(events) = <<"chain", "end">>
      BY <3>1, <3>2, <3>3, IdFacts DEF Sent, Reports
    <3> QED
      BY <1>2, <2>2, <3>3, ConsumeReports DEF Quiet, Sent, Deliver
  <2>4. Head(events) = <<"chain", "end">> => graph = "finished" /\ events' = <<>>
    <3>1. Len(events) \in Nat \ {0} /\ events[1] = Head(events) /\ (Len(events) = 1 => events' = <<>>)
      BY <1>0, <1>2, ConsumeTakes
    <3>2. 1 \in 1 .. Len(events)
      BY <3>1
    <3>3. events[1] = <<"chain", "end">> => graph = "finished" /\ 1 = Len(events)
      BY <3>2 DEF EndInv
    <3> QED
      BY <3>1, <3>3
  <2>5. Head(events) = <<"chain", "end">> /\ cfg.chainEnd => WorkflowEnd \in seen'
    BY <1>2, ConsumeSettles
  <2>6. Head(events) # <<"chain", "end">> /\ <<"chain", "end">> \in Waiting => <<"chain", "end">> \in Waiting'
    BY <1>0, <1>2, ConsumeTakes
  <2>7. outcome' # "raised" => outcome # "raised"
    BY <1>2, ConsumeReports, <2>1 DEF EndInv, Quiet, Sent
  <2> QED
    BY <2>1, <2>2, <2>3, <2>4, <2>5, <2>6, <2>7 DEF SessionInv
<1>3. CASE Settles
  <2>1. UNCHANGED <<cfg, seen, graph, events>> /\ main' \notin Screening
    BY <1>3, SettleMoves DEF SettleMove, calls, Screening
  <2>2. outcome' # "raised" => outcome # "raised"
    <3>1. main \in {"stream", "sending", "approval"}
      BY <1>3, SettleMoves DEF SettleMove
    <3> QED
      BY <3>1 DEF EndInv
  <2>3. Waiting' = Waiting
    BY <2>1 DEF Waiting
  <2> QED
    BY <2>1, <2>2, <2>3 DEF SessionInv
<1>4. CASE CleanupTurn
  <2>1. /\ UNCHANGED <<cfg, seen, graph, outcome>> /\ events' = <<>> /\ main' = "done"
        /\ outcome # "none"
    BY <1>4 DEF CleanupTurn, EndInv, consumer, calls
  <2>2. outcome # "raised" => events = <<>> /\ <<"chain", "end">> \notin Waiting
    <3>1. outcome # "raised" => outcome = "returned"
      BY <1>0, <2>1 DEF TypeInv, ControlTypes
    <3> QED
      BY <3>1 DEF EndInv, Waiting
  <2> QED
    BY <2>1, <2>2 DEF SessionInv, Screening
<1>5. ASSUME NEW c \in Calls, Acts(c) PROVE SessionInv'
  <2>1. UNCHANGED <<cfg, main, outcome, seen, graph>> /\ graph \in {"running", "failed"}
    BY <1>0, <1>5, CallMoves, CallsRun DEF CallMove, consumer
  <2> QED
    BY <2>1 DEF SessionInv
<1>6. CASE FinishGraph
  <2>1. /\ UNCHANGED <<cfg, main, outcome, seen>> /\ graph = "running" /\ graph' = "finished"
        /\ Emit(<<"chain", "end">>)
    BY <1>6 DEF FinishGraph, consumer
  <2>2. main # "done" => <<"chain", "end">> \in Waiting'
    BY <1>0, <2>1, EmitWaits, EventFacts DEF TypeInv
  <2>3. outcome # "raised" => main # "done"
    <3>1. outcome # "returned"
      BY <2>1 DEF EndInv
    <3> QED
      BY <1>0, <3>1 DEF EndInv, TypeInv, ControlTypes
  <2> QED
    BY <2>1, <2>2, <2>3 DEF SessionInv
<1>7. CASE FailGraph
  BY <1>7 DEF FailGraph, consumer, SessionInv
<1>8. CASE UNCHANGED vars
  BY <1>8 DEF vars, consumer, calls, SessionInv, Waiting
<1> QED
  BY <1>1, <1>2, <1>3, <1>4, <1>5, <1>6, <1>7, <1>8, NextSteps

-----------------------------------------------------------------------------
(* Rows and the events they answer *)

\* A row the consumer sends tells why it was sent.
LEMMA Reasons ==
  ASSUME NEW r, Reports(r)
  PROVE  /\ r \notin {Signal, Workflow, Start("pre")}
         /\ r = WorkflowEnd => Head(events) = <<"chain", "end">> /\ cfg.chainEnd
         /\ \A c \in Tools : r \in {Start(c), Complete(c)} => c \in Bare /\ pending'[2] = TRUE
         /\ \A c \in Tools : r = Complete(c) => Head(events) = <<"end", c>>
         /\ \A c \in Llms : r = Start(c) =>
              /\ Head(events) = <<"start", c>> /\ cfg.llmStart
              /\ ~cfg.bridge /\ c \notin Silent /\ c \notin claimed'
         /\ \A i \in Ids \ Tools : r # Complete(i)
         /\ \A i \in Ids : r = Close(i) => \E c \in Llms :
              /\ i = ClaimedId[c] /\ Head(events) = <<"end", c>> /\ cfg.llmStart
              /\ c \in opened /\ ~rec[c].complete /\ pending'[2] = TRUE
<1> DEFINE Fact(q) ==
      /\ q \notin {Signal, Workflow, Start("pre")}
      /\ q = WorkflowEnd => Head(events) = <<"chain", "end">> /\ cfg.chainEnd
      /\ \A c \in Tools : q \in {Start(c), Complete(c)} => c \in Bare /\ pending'[2] = TRUE
      /\ \A c \in Tools : q = Complete(c) => Head(events) = <<"end", c>>
      /\ \A c \in Llms : q = Start(c) =>
           /\ Head(events) = <<"start", c>> /\ cfg.llmStart
           /\ ~cfg.bridge /\ c \notin Silent /\ c \notin claimed'
      /\ \A i \in Ids \ Tools : q # Complete(i)
      /\ \A i \in Ids : q = Close(i) => \E c \in Llms :
           /\ i = ClaimedId[c] /\ Head(events) = <<"end", c>> /\ cfg.llmStart
           /\ c \in opened /\ ~rec[c].complete /\ pending'[2] = TRUE
<1>0. /\ Tools \subseteq Ids /\ Llms \subseteq Ids /\ Tools \cap Llms = {}
      /\ "pre" \in Ids /\ "pre" \notin Tools /\ "pre" \notin Llms
      /\ \A c \in Llms : ClaimedId[c] \in Ids
  BY IdFacts DEF ClaimedId
<1>1. ASSUME r = WorkflowEnd, Head(events) = <<"chain", "end">>, cfg.chainEnd PROVE Fact(r)
  BY <1>0, <1>1, RowFacts
<1>2. ASSUME NEW c \in Tools, r = Start(c), c \in Bare, pending'[2] = TRUE PROVE Fact(r)
  <2>1. \A i \in Ids : r # Complete(i) /\ r # Close(i)
    BY <1>0, <1>2, RowFacts
  <2>2. \A d \in Llms \cup {"pre"} : r # Start(d)
    BY <1>0, <1>2, RowFacts
  <2>3. r \notin {Signal, Workflow, WorkflowEnd}
    BY <1>0, <1>2, RowFacts
  <2>4. \A d \in Tools : r = Start(d) => d = c
    BY <1>0, <1>2, RowFacts
  <2> QED
    BY <1>0, <1>2, <2>1, <2>2, <2>3, <2>4
<1>3. ASSUME NEW c \in Tools, r = Complete(c), Head(events) = <<"end", c>>, c \in Bare, pending'[2] = TRUE
      PROVE  Fact(r)
  BY <1>0, <1>3, RowFacts
<1>4. ASSUME NEW c \in Llms, r = Start(c), Head(events) = <<"start", c>>, cfg.llmStart,
             ~cfg.bridge, c \notin Silent, c \notin claimed'
      PROVE  Fact(r)
  <2>1. \A i \in Ids : r # Complete(i) /\ r # Close(i) /\ (r = Start(i) => i = c)
    BY <1>0, <1>4, RowFacts
  <2>2. r # Start("pre") /\ \A d \in Tools : r # Start(d)
    BY <1>0, <1>4, <2>1
  <2>3. r \notin {Signal, Workflow, WorkflowEnd}
    BY <1>0, <1>4, RowFacts
  <2> QED
    BY <1>0, <1>4, <2>1, <2>2, <2>3
<1>5. ASSUME NEW c \in Llms, r = Close(ClaimedId[c]), Head(events) = <<"end", c>>, cfg.llmStart,
             c \in opened, ~rec[c].complete, pending'[2] = TRUE
      PROVE  Fact(r)
  <2>1. \A i \in Ids : r = Close(i) => i = ClaimedId[c]
    BY <1>0, <1>5, RowFacts
  <2> QED
    BY <1>0, <1>5, <2>1, RowFacts
<1> HIDE DEF Fact
<1>6. Fact(r)
  BY <1>1, <1>2, <1>3, <1>4, <1>5 DEF Reports
<1> QED
  BY <1>6 DEF Fact

\* The consumer changes the count of the row it sends only.
LEMMA SentRows ==
  ASSUME TypeInv, NEW r \in Rows, Sent(r)
  PROVE  /\ rows'[r] = rows[r] + 1 /\ \A q \in Rows : q # r => rows'[q] = rows[q]
         /\ seen' = seen \cup {r} /\ r \notin seen
  BY CountedType DEF Sent, Deliver, TypeInv

\* A step of a call changes the count of its own rows only.
LEMMA CallRows ==
  ASSUME TypeInv, Stages, NEW c \in Calls, Acts(c)
  PROVE  /\ \A i \in Ids \ {c} : rows'[Start(i)] = rows[Start(i)]
         /\ \A i \in Ids : i # IdOf(c) \/ rec[c] = NoRec => rows'[Complete(i)] = rows[Complete(i)]
         /\ \A r \in Rows : r \in {Signal, Workflow, WorkflowEnd} => rows'[r] = rows[r]
         /\ ~cfg.bridge \/ c \in Unbound => rows' = rows
         /\ \A i \in Ids : rows'[Close(i)] = rows[Close(i)]
<1>1. \/ rows' = rows
      \/ cfg.bridge /\ c \notin Unbound /\ rows' = Counted(Start(c))
      \/ cfg.bridge /\ c \notin Unbound /\ rec[c] # NoRec /\ IdOf(c) \in Ids /\ rows' = Counted(Complete(IdOf(c)))
  BY CallSends
<1>2. c \in Ids /\ Start(c) \in Rows /\ (IdOf(c) \in Ids => Complete(IdOf(c)) \in Rows)
  BY RowFacts, IdFacts
<1>3. CASE rows' = rows
  BY <1>3
<1>4. CASE cfg.bridge /\ c \notin Unbound /\ rows' = Counted(Start(c))
  <2>1. \A r \in Rows : r # Start(c) => rows'[r] = rows[r]
    BY <1>2, <1>4, CountedType DEF TypeInv
  <2> QED
    BY <1>2, <1>4, <2>1, RowFacts
<1>5. CASE cfg.bridge /\ c \notin Unbound /\ rec[c] # NoRec /\ IdOf(c) \in Ids /\ rows' = Counted(Complete(IdOf(c)))
  <2>1. \A r \in Rows : r # Complete(IdOf(c)) => rows'[r] = rows[r]
    BY <1>2, <1>5, CountedType DEF TypeInv
  <2> QED
    BY <1>2, <1>5, <2>1, RowFacts
<1> QED
  BY <1>1, <1>3, <1>4, <1>5

\* A model call starts, ends and is answered; the other steps are tools'.
LEMMA LlmSteps ==
  ASSUME TypeInv, NEW c \in Llms, Acts(c)
  PROVE  \/ StartLlm(c) \/ \E ok \in BOOLEAN : EndLlm(c, ok)
         \/ \E v \in Verdicts : AnswerStart(c, v) \/ AnswerCompletion(c, v)
<1>1. c \notin Tools
  BY IdFacts
<1> QED
  BY <1>1 DEF Acts, EndTool

\* Without a bridge no call has an alias, whatever it does.
LEMMA AliasKept ==
  ASSUME TypeInv, NEW c \in Calls, Acts(c), ~cfg.bridge
  PROVE  alias' = alias
<1>1. ToolActs(c) => alias' = alias
  BY DEF ToolActs, PrepareTool, ReexecuteTool, StartTool, CancelTool, ReleaseTool
<1>2. StartLlm(c) => alias' = alias
  BY DEF StartLlm
<1>3. \A v \in Verdicts : AnswerStart(c, v) \/ AnswerCompletion(c, v) => alias' = alias
  BY DEF AnswerStart, AnswerCompletion
<1>4. \A ok \in BOOLEAN : EndTool(c, ok) \/ EndLlm(c, ok) => alias' = alias
  BY DEF EndTool, EndLlm
<1> QED
  BY <1>1, <1>2, <1>3, <1>4 DEF Acts

-----------------------------------------------------------------------------
(* The pre-screen's row and who claims it *)

\* One call claims the pre-screen's row, the first whose buffer is opened or,
\* under a bridge, the first to begin; every other one opens a row of its own.
StreamClaim(c) ==
  /\ alias[c] = "none" /\ (Start(c) \in seen => c \in opened \ claimed)
  /\ cfg.llmStart /\ c \in opened \ claimed => Start(c) \in seen

CallbackClaim(c) ==
  /\ alias[c] = "pre" => pre /\ rows[Start(c)] = 0
  /\ alias[c] = c /\ cfg.llmStart => rows[Start(c)] # 0
  /\ alias[c] # "none" /\ pre => \E d \in Llms : alias[d] = "pre"

ClaimInv ==
  /\ graph = "idle" => opened = {}
  /\ main = "prompt approval" \/ pre => Start("pre") \in seen
  /\ claimed \subseteq opened
  /\ \A c, d \in claimed : c = d
  /\ opened # {} /\ pre => claimed # {}
  /\ claimed # {} => pre
  /\ ~cfg.bridge => \A c \in Llms : StreamClaim(c)
  /\ cfg.bridge => \A c \in Llms : CallbackClaim(c)

\* A screened prompt's row was sent.
LEMMA PreScreenClaims ==
  ASSUME Screens, main = "prompt approval" \/ pre => Start("pre") \in seen
  PROVE  /\ main' = "prompt approval" \/ pre' => Start("pre") \in seen'
         /\ pre => pre'
<1>1. CASE \E v \in Answers : SendSignal(v)
  <2>1. main' \in {"workflow", "done"} /\ pre' = pre /\ seen \subseteq seen'
    BY <1>1 DEF SendSignal, Escape, Deliver
  <2> QED
    BY <2>1
<1>2. CASE \E v \in Answers : SendWorkflow(v)
  <2>1. main' \in {"prompt", "done"} /\ pre' = pre /\ seen \subseteq seen'
    BY <1>2 DEF SendWorkflow, Escape, Deliver
  <2> QED
    BY <2>1
<1>3. CASE \E v \in Answers : PreScreen(v)
  BY <1>3 DEF PreScreen, PreScreenStopped, Escape, Deliver
<1>4. CASE \E g \in BOOLEAN : PreScreenApproval(g)
  <2>1. (main' = "begin" /\ pre' = TRUE) \/ (main' = "done" /\ pre' = pre)
    BY <1>4 DEF PreScreenApproval, Escape
  <2>2. main = "prompt approval" /\ seen' = seen
    BY <1>4 DEF PreScreenApproval
  <2>3. Start("pre") \in seen'
    BY <2>2
  <2>4. pre => pre'
    BY <2>1
  <2> QED
    BY <2>3, <2>4
<1>5. CASE BeginStream
  BY <1>5 DEF BeginStream, consumer
<1> QED
  BY <1>1, <1>2, <1>3, <1>4, <1>5 DEF Screens, PreScreenStep

\* A callback's claim is kept where its row and the aliases are.
LEMMA ClaimKept ==
  ASSUME UNCHANGED <<cfg, pre, alias>>, NEW c \in Llms, rows'[Start(c)] = rows[Start(c)], CallbackClaim(c)
  PROVE  CallbackClaim(c)'
<1>1. alias' = alias
  OBVIOUS
<1> QED
  BY <1>1 DEF CallbackClaim

\* Every step keeps the claim.
LEMMA NextClaimInv == ASSUME TurnInv, EndInv, ClaimInv, [Next]_vars PROVE ClaimInv'
<1>0. TypeInv /\ Stages /\ \A c \in Llms : c \in Calls /\ c \in Ids /\ Start(c) \in Rows
  BY RowFacts, IdFacts DEF TurnInv
<1>1. CASE Screens
  <2>1. graph = "idle" /\ opened = {}
    BY <1>0, <1>1, PreScreenEnds DEF Stages, ClaimInv
  <2>2. UNCHANGED <<cfg, opened, claimed, alias>>
    BY <1>1, PreScreenEnds
  <2>3. (main' = "prompt approval" \/ pre' => Start("pre") \in seen') /\ (pre => pre')
    BY <1>1, PreScreenClaims DEF ClaimInv
  <2>4. ASSUME NEW c \in Llms PROVE Start(c) \in seen' => Start(c) \in seen
    <3>1. Start(c) \notin {Signal, Workflow, WorkflowEnd, Start("pre")}
      BY <1>0, RowFacts, IdFacts
    <3> QED
      BY <1>1, <3>1, PreScreenEnds
  <2>5. ASSUME NEW c \in Llms, cfg.bridge PROVE rows'[Start(c)] = rows[Start(c)]
    BY <1>0, <1>1, <2>5, PreScreenSeen, CallbackFacts DEF TurnInv
  <2>6. ASSUME NEW c \in Llms, cfg.bridge PROVE alias[c] = "none"
    BY <1>0, <2>1, <2>6 DEF TurnInv, BridgeInv, LlmRec, Stages
  <2> QED
    BY <2>1, <2>2, <2>3, <2>4, <2>5, <2>6, IdFacts DEF ClaimInv, StreamClaim, CallbackClaim
<1>2. CASE Consumes
  <2>1. UNCHANGED <<cfg, pre, graph, alias>> /\ graph # "idle" /\ main' # "prompt approval"
    BY <1>0, <1>2, ConsumeMoves, ConsumeTakes, ConsumeReports DEF calls, Quiet, Sent
  <2>2. seen \subseteq seen'
    BY <1>2, ConsumeSettles
  <2>3. ASSUME NEW c \in Llms, Start(c) \in seen' \ seen
        PROVE  /\ Head(events) = <<"start", c>> /\ ~cfg.bridge
               /\ c \notin claimed' /\ c \in opened'
    <3>1. PICK r \in Rows : Sent(r)
      BY <1>2, <2>3, ConsumeReports DEF Quiet
    <3>2. r = Start(c) /\ Reports(r)
      BY <1>0, <2>3, <3>1, SentRows DEF Sent
    <3>3. Head(events) = <<"start", c>> /\ ~cfg.bridge /\ c \notin claimed' /\ c \notin Silent
      BY <3>2, Reasons
    <3> QED
      BY <1>2, <3>3, ConsumeSettles
  <2>4. ASSUME NEW c \in Llms, cfg.bridge PROVE rows'[Start(c)] = rows[Start(c)]
    <3>1. CASE Quiet
      BY <3>1 DEF Quiet
    <3>2. ASSUME NEW r \in Rows, Sent(r) PROVE rows'[Start(c)] = rows[Start(c)]
      <4>1. r # Start(c)
        BY <2>4, <3>2, Reasons DEF Sent
      <4> QED
        BY <1>0, <3>2, <4>1, SentRows
    <3> QED
      BY <1>2, <3>1, <3>2, ConsumeReports
  <2>7. cfg.bridge => \A c \in Llms : CallbackClaim(c)'
    BY <2>1, <2>4, ClaimKept DEF ClaimInv
  <2>5. CASE UNCHANGED <<opened, claimed>>
    <3>1. ~cfg.bridge => \A c \in Llms : StreamClaim(c)'
      BY <2>1, <2>2, <2>3, <2>5 DEF ClaimInv, StreamClaim
    <3> QED
      BY <2>1, <2>2, <2>5, <2>7, <3>1 DEF ClaimInv
  <2>6. ASSUME NEW c \in Llms \ Silent, Head(events) = <<"start", c>>, opened' = opened \cup {c},
               claimed' = IF pre /\ claimed = {} THEN claimed \cup {c} ELSE claimed
        PROVE  ClaimInv'
    <3>1. /\ claimed' \subseteq opened' /\ (\A d, e \in claimed' : d = e)
          /\ (pre => claimed' # {}) /\ (claimed' # {} => pre)
      BY <2>6 DEF ClaimInv
    <3>2. ASSUME NEW d \in Llms, ~cfg.bridge, Start(d) \in seen' PROVE d \in opened' \ claimed'
      <4>1. CASE Start(d) \in seen
        <5>1. d \in opened \ claimed
          BY <3>2, <4>1 DEF ClaimInv, StreamClaim
        <5>2. claimed' = claimed
          BY <2>6, <5>1 DEF ClaimInv
        <5> QED
          BY <2>6, <5>1, <5>2
      <4>2. CASE Start(d) \notin seen
        BY <2>3, <3>2, <4>2
      <4> QED
        BY <4>1, <4>2
    <3>3. ASSUME NEW d \in Llms, ~cfg.bridge, cfg.llmStart, d \in opened' \ claimed'
          PROVE  Start(d) \in seen'
      <4>1. CASE d = c
        <5>1. ~rec[c].start
          BY <1>0, <3>3 DEF Stages, NoRec
        <5> QED
          BY <1>2, <2>6, <3>3, <4>1, <5>1, ConsumeSettles
      <4>2. CASE d # c
        BY <2>2, <2>6, <3>3, <4>2 DEF ClaimInv, StreamClaim
      <4> QED
        BY <4>1, <4>2
    <3> QED
      BY <2>1, <2>2, <2>6, <2>7, <3>1, <3>2, <3>3 DEF ClaimInv, StreamClaim
  <2> QED
    BY <1>0, <1>2, <2>5, <2>6, ConsumeOpens
<1>3. CASE Settles
  <2>1. /\ UNCHANGED <<cfg, pre, opened, claimed, seen, graph, alias, rows>>
        /\ main' \in {"stream", "approval", "cleanup"}
    BY <1>3, SettleMoves DEF SettleMove, calls
  <2>2. main' # "prompt approval"
    BY <2>1
  <2> QED
    BY <2>1, <2>2 DEF ClaimInv, StreamClaim, CallbackClaim
<1>4. CASE CleanupTurn
  <2>1. UNCHANGED <<cfg, pre, opened, claimed, seen, graph, alias>> /\ main' = "done"
    BY <1>4 DEF CleanupTurn, consumer, calls
  <2>2. ASSUME NEW c \in Llms PROVE rows'[Start(c)] = rows[Start(c)]
    <3>1. \A d \in Tools : Start(c) # Complete(d)
      BY <1>0, RowFacts, IdFacts
    <3> QED
      BY <1>0, <1>4, <3>1 DEF CleanupTurn, Orphans
  <2> QED
    <3>1. cfg.bridge => \A c \in Llms : CallbackClaim(c)'
      BY <2>1, <2>2, ClaimKept DEF ClaimInv
    <3>2. ~cfg.bridge => \A c \in Llms : StreamClaim(c)'
      BY <2>1 DEF ClaimInv, StreamClaim
    <3> QED
      BY <2>1, <3>1, <3>2 DEF ClaimInv
<1>5. ASSUME NEW c \in Calls, Acts(c) PROVE ClaimInv'
  <2>1. /\ UNCHANGED <<cfg, main, pre, opened, claimed, seen, graph>>
        /\ \A d \in Llms \ {c} : alias'[d] = alias[d]
    BY <1>0, <1>5, CallMoves DEF CallMove, consumer
  <2>2. ~cfg.bridge => alias' = alias
    BY <1>0, <1>5, AliasKept
  <2>3. \A d \in Llms \ {c} : rows'[Start(d)] = rows[Start(d)]
    BY <1>0, <1>5, CallRows
  <2> DEFINE Own ==
        /\ alias'[c] = "pre" => pre /\ rows'[Start(c)] = 0
        /\ alias'[c] = c /\ cfg.llmStart => rows'[Start(c)] # 0
        /\ alias'[c] # "none" /\ pre => \E d \in Llms : alias'[d] = "pre"
        /\ alias[c] = "pre" => alias'[c] = "pre"
  <2>4. ASSUME cfg.bridge, c \in Llms PROVE Own
    <3>1. ASSUME StartLlm(c) PROVE Own
      <4> DEFINE reuse == pre /\ \A d \in Llms : alias[d] # "pre"
      <4>1. rows[Start(c)] = 0 /\ alias[c] = "none" /\ c # "pre" /\ c # "none" /\ "pre" # "none"
        BY <1>0, <2>4, <3>1, IdFacts, CallAssumption
        DEF StartLlm, Ready, TurnInv, BridgeInv, LlmRec, Calls
      <4>2. /\ alias'[c] = IF reuse THEN "pre" ELSE c
            /\ rows' = IF ~reuse /\ cfg.llmStart THEN Counted(Start(c)) ELSE rows
        BY <1>0, <2>4, <3>1 DEF StartLlm, TypeInv, CallTypes
      <4>3. rows' = Counted(Start(c)) => rows'[Start(c)] = 1
        BY <1>0, <2>4, <4>1, CountedType DEF TypeInv
      <4>4. CASE reuse
        BY <2>4, <4>1, <4>2, <4>4
      <4>5. CASE ~reuse
        <5>1. pre => \E d \in Llms \ {c} : alias'[d] = "pre"
          BY <2>1, <4>1, <4>5
        <5> QED
          BY <4>1, <4>2, <4>3, <4>5, <5>1
      <4> QED
        BY <4>4, <4>5
    <3>2. ASSUME alias' = alias, rows'[Start(c)] = rows[Start(c)]
          PROVE  Own
      BY <2>4, <3>2 DEF ClaimInv, CallbackClaim
    <3>3. ASSUME NEW ok \in BOOLEAN, EndLlm(c, ok) PROVE Own
      <4>1. alias' = alias /\ SendCompletion(c, alias[c], cfg.llmEnd /\ rec[c].start, ok)
        BY <3>3 DEF EndLlm
      <4>2. rows' = rows \/ (rec[c] # NoRec /\ rows' = Counted(Complete(alias[c])))
        BY <4>1 DEF SendCompletion
      <4>3. ASSUME rec[c] # NoRec, rows' = Counted(Complete(alias[c]))
            PROVE  rows'[Start(c)] = rows[Start(c)]
        <5>1. alias[c] \in Ids
          BY <2>4, <4>3, <1>0 DEF TypeInv, CallTypes
        <5>2. Complete(alias[c]) \in Rows /\ Complete(alias[c]) # Start(c)
          BY <1>0, <2>4, <5>1, RowFacts
        <5> QED
          BY <1>0, <2>4, <4>3, <5>2, CountedType DEF TypeInv
      <4> QED
        BY <3>2, <4>1, <4>2, <4>3
    <3>4. ASSUME NEW v \in Verdicts, AnswerStart(c, v) \/ AnswerCompletion(c, v) PROVE Own
      BY <3>2, <3>4 DEF AnswerStart, AnswerCompletion
    <3> HIDE DEF Own
    <3> QED
      BY <1>0, <1>5, <2>4, <3>1, <3>3, <3>4, LlmSteps
  <2>5. ASSUME cfg.bridge, NEW d \in Llms, d # c, alias'[d] # "none", pre
        PROVE  \E e \in Llms : alias'[e] = "pre"
    <3>1. PICK e \in Llms : alias[e] = "pre"
      BY <2>1, <2>5 DEF ClaimInv, CallbackClaim
    <3> QED
      BY <2>1, <2>4, <2>5, <3>1
  <2> QED
    <3>1. ~cfg.bridge => \A d \in Llms : StreamClaim(d)'
      BY <2>1, <2>2 DEF ClaimInv, StreamClaim
    <3>2. cfg.bridge => \A d \in Llms : CallbackClaim(d)'
      <4>1. ASSUME NEW d \in Llms, cfg.bridge PROVE CallbackClaim(d)'
        BY <2>1, <2>3, <2>4, <2>5, <4>1 DEF ClaimInv, CallbackClaim
      <4> QED
        BY <4>1
    <3> QED
      BY <2>1, <3>1, <3>2 DEF ClaimInv
<1>6. CASE FinishGraph \/ FailGraph
  <2>1. /\ UNCHANGED <<cfg, main, pre, opened, claimed, seen, rows, alias>>
        /\ graph = "running" /\ graph' # "idle"
    BY <1>6 DEF FinishGraph, FailGraph, consumer
  <2> QED
    BY <2>1 DEF ClaimInv, StreamClaim, CallbackClaim
<1>7. CASE UNCHANGED vars
  BY <1>7 DEF vars, consumer, calls, ClaimInv, StreamClaim, CallbackClaim
<1> QED
  BY <1>1, <1>2, <1>3, <1>4, <1>5, <1>6, <1>7, NextSteps

-----------------------------------------------------------------------------
(* What a step may change *)

\* What a turn never takes back.
LEMMA Grows ==
  ASSUME TurnInv, EndInv, [Next]_vars
  PROVE  /\ cfg' = cfg /\ seen \subseteq seen' /\ opened \subseteq opened' /\ claimed \subseteq claimed'
         /\ main = "done" => main' = "done"
         /\ graph = "failed" => graph' = "failed"
         /\ graph # "idle" => graph' # "idle"
         /\ outcome = "raised" => outcome' = "raised"
         /\ \A c \in Calls : at[c] # "idle" => at'[c] # "idle"
<1> DEFINE Kept ==
      /\ cfg' = cfg /\ seen \subseteq seen' /\ opened \subseteq opened' /\ claimed \subseteq claimed'
      /\ main = "done" => main' = "done"
      /\ graph = "failed" => graph' = "failed"
      /\ graph # "idle" => graph' # "idle"
      /\ outcome = "raised" => outcome' = "raised"
      /\ \A c \in Calls : at[c] # "idle" => at'[c] # "idle"
<1>0. TypeInv /\ Stages
  BY DEF TurnInv
<1>1. ASSUME Screens PROVE Kept
  <2>1. main # "done" /\ graph = "idle" /\ outcome = "none"
    BY <1>0, <1>1, PreScreenEnds DEF Stages, Screening, EndInv
  <2> QED
    BY <1>1, <2>1, PreScreenEnds
<1>2. ASSUME Consumes PROVE Kept
  <2>1. UNCHANGED <<cfg, graph, at>> /\ main = "stream" /\ seen \subseteq seen'
    BY <1>0, <1>2, ConsumeMoves, ConsumeSettles DEF calls
  <2>2. opened \subseteq opened' /\ claimed \subseteq claimed'
    BY <1>0, <1>2, ConsumeOpens
  <2> QED
    BY <2>1, <2>2 DEF EndInv
<1>3. ASSUME Settles PROVE Kept
  BY <1>3, SettleMoves DEF SettleMove, calls, EndInv
<1>4. ASSUME CleanupTurn PROVE Kept
  BY <1>4 DEF CleanupTurn, consumer, calls
<1>5. ASSUME NEW c \in Calls, Acts(c) PROVE Kept
  <2>1. CallMove(c)
    BY <1>0, <1>5, CallMoves
  <2> QED
    BY <2>1 DEF CallMove, consumer
<1>6. ASSUME FinishGraph \/ FailGraph PROVE Kept
  <2>1. UNCHANGED <<cfg, main, consumer>> /\ graph = "running" /\ graph' \in {"finished", "failed"}
    BY <1>6 DEF FinishGraph, FailGraph
  <2>2. \A c \in Calls : at[c] # "idle" => at'[c] # "idle"
    BY <1>6 DEF FinishGraph, FailGraph
  <2> QED
    BY <2>1, <2>2 DEF consumer
<1>7. ASSUME UNCHANGED vars PROVE Kept
  BY <1>7 DEF vars, consumer, calls
<1> HIDE DEF Kept
<1>8. Kept
  BY <1>1, <1>2, <1>3, <1>4, <1>5, <1>6, <1>7, NextSteps
<1> QED
  BY <1>8 DEF Kept

\* A row is seen for the first time when the pre-screen or the consumer sends it.
LEMMA NewlySeen ==
  ASSUME TurnInv, [Next]_vars, NEW r \in seen' \ seen
  PROVE  r \in {Signal, Workflow, WorkflowEnd, Start("pre")} \/ (Consumes /\ r \in Rows /\ Sent(r))
<1>0. TypeInv /\ Stages
  BY DEF TurnInv
<1>1. CASE Screens
  BY <1>1, PreScreenEnds
<1>2. CASE Consumes
  <2>1. PICK q \in Rows : Sent(q)
    BY <1>2, ConsumeReports DEF Quiet
  <2>2. q = r
    BY <1>0, <2>1, SentRows
  <2> QED
    BY <1>2, <2>1, <2>2
<1>3. CASE Settles
  BY <1>3, SettleMoves DEF SettleMove
<1>4. CASE CleanupTurn
  BY <1>4 DEF CleanupTurn, consumer
<1>5. ASSUME NEW c \in Calls, Acts(c) PROVE FALSE
  BY <1>0, <1>5, CallMoves DEF CallMove, consumer
<1>6. CASE FinishGraph \/ FailGraph
  BY <1>6 DEF FinishGraph, FailGraph, consumer
<1>7. CASE UNCHANGED vars
  BY <1>7 DEF vars, consumer
<1> QED
  BY <1>1, <1>2, <1>3, <1>4, <1>5, <1>6, <1>7, NextSteps

CallChange(c) ==
  /\ \/ at'[c] = at[c] \/ Acts(c)
     \/ graph' = "failed" /\ at'[c] = "cancelled" /\ at[c] \in InFlight
  /\ rec'[c] = rec[c] \/ Acts(c) \/ CleanupTurn
  /\ c \in Llms => alias'[c] = alias[c] \/ Acts(c)
  /\ \A s \in {"start", "end"} :
       /\ <<s, c>> \in Waiting' \ Waiting => Acts(c)
       /\ <<s, c>> \in Waiting \ Waiting' => CleanupTurn \/ (Consumes /\ Head(events) = <<s, c>>)

\* A call changes by its own steps, and when the graph fails or the turn is
\* cleaned up; its events leave the stream when they are consumed.
LEMMA Changes == ASSUME TurnInv, [Next]_vars PROVE \A c \in Calls : CallChange(c)
<1>0. TypeInv /\ Stages
  BY DEF TurnInv
<1> SUFFICES ASSUME NEW c \in Calls PROVE CallChange(c)
  OBVIOUS
<1>1. ASSUME Screens PROVE CallChange(c)
  <2>1. UNCHANGED <<at, rec, alias>>
    BY <1>1, PreScreenEnds
  <2>2. events = <<>> /\ (events' = events \/ events' = <<<<"chain", "start">>>>)
    BY <1>0, <1>1, PreScreenEnds DEF Stages
  <2>3. \A s \in {"start", "end"} : <<s, c>> \notin Waiting /\ <<s, c>> \notin Waiting'
    BY <2>2 DEF Waiting
  <2> QED
    BY <2>1, <2>3 DEF CallChange
<1>2. ASSUME Consumes PROVE CallChange(c)
  <2>1. UNCHANGED <<at, rec, alias>>
    BY <1>0, <1>2, ConsumeMoves DEF calls
  <2>2. Waiting' \subseteq Waiting /\ Waiting \subseteq Waiting' \cup {Head(events)}
    BY <1>0, <1>2, ConsumeTakes
  <2> QED
    BY <1>2, <2>1, <2>2 DEF CallChange
<1>3. ASSUME Settles PROVE CallChange(c)
  <2>1. UNCHANGED <<at, rec, alias, events>>
    BY <1>3, SettleMoves DEF SettleMove, calls
  <2> QED
    BY <2>1 DEF CallChange, Waiting
<1>4. ASSUME CleanupTurn PROVE CallChange(c)
  <2>1. UNCHANGED <<at, alias>> /\ events' = <<>>
    BY <1>4 DEF CleanupTurn, calls
  <2>2. Waiting' = {}
    BY <2>1 DEF Waiting
  <2> QED
    BY <1>4, <2>1, <2>2 DEF CallChange
<1>5. ASSUME NEW d \in Calls, Acts(d) PROVE CallChange(c)
  <2>1. CallMove(d)
    BY <1>0, <1>5, CallMoves
  <2>2. Waiting \subseteq Waiting' /\ Waiting' \subseteq Waiting \cup {<<"start", d>>, <<"end", d>>}
    BY <1>0, <1>5, CallWaits
  <2>3. CASE d = c
    <3>1. Acts(c)
      BY <1>5, <2>3
    <3> QED
      BY <2>2, <3>1 DEF CallChange
  <2>4. CASE d # c
    BY <2>1, <2>2, <2>4 DEF CallChange, CallMove
  <2> QED
    BY <2>3, <2>4
<1>6. ASSUME FinishGraph \/ FailGraph PROVE CallChange(c)
  <2>1. UNCHANGED <<alias, rec>>
    BY <1>6 DEF FinishGraph, FailGraph
  <2>2. at'[c] = at[c] \/ (graph' = "failed" /\ at'[c] = "cancelled" /\ at[c] \in InFlight)
    BY <1>6 DEF FinishGraph, FailGraph
  <2>3. Waiting \subseteq Waiting' /\ Waiting' \subseteq Waiting \cup {<<"chain", "end">>}
    <3>1. CASE FailGraph
      BY <3>1 DEF FailGraph, Waiting
    <3>2. CASE FinishGraph
      BY <1>0, <3>2, EmitWaits, EventFacts DEF FinishGraph, TypeInv
    <3> QED
      BY <1>6, <3>1, <3>2
  <2> QED
    BY <2>1, <2>2, <2>3 DEF CallChange
<1>7. ASSUME UNCHANGED vars PROVE CallChange(c)
  BY <1>7 DEF vars, calls, CallChange, Waiting
<1> QED
  BY <1>1, <1>2, <1>3, <1>4, <1>5, <1>6, <1>7, NextSteps

\* A step of a call leaves the turn and the client alone.
LEMMA StepFrame ==
  ASSUME TypeInv, NEW c \in Calls, Acts(c)
  PROVE  /\ UNCHANGED <<cfg, main, outcome, pending, pre, opened, claimed, seen, graph>>
         /\ at'[c] # "idle"
  BY CallMoves DEF CallMove, consumer

\* What a row counts is changed by a step of the call whose row it is, by the
\* consumer where no callback sends it, and by the sweep for tools.
LEMMA CallbackRows ==
  ASSUME TurnInv, [Next]_vars, cfg.bridge
  PROVE  /\ \A c \in Llms : rows'[Start(c)] = rows[Start(c)] \/ Acts(c)
         /\ \A i \in Llms \cup {"pre"} :
              rows'[Complete(i)] = rows[Complete(i)]
              \/ \E c \in Llms : Acts(c) /\ IdOf(c) = i /\ rec[c] # NoRec
<1>0. /\ TypeInv /\ Stages
      /\ \A i \in Llms \cup {"pre"} : i \in Ids /\ i \notin Tools /\ Start(i) \in Rows /\ Complete(i) \in Rows
      /\ \A c \in Llms : CallbackRow(Start(c)) /\ c \in Calls
      /\ \A i \in Llms \cup {"pre"} : CallbackRow(Complete(i))
  BY RowFacts, IdFacts, CallbackFacts DEF TurnInv
<1> DEFINE Same == /\ \A c \in Llms : rows'[Start(c)] = rows[Start(c)] 
                   /\ \A i \in Llms \cup {"pre"} : rows'[Complete(i)] = rows[Complete(i)]
<1>1. CASE Screens
  <2>1. \A r \in Rows : CallbackRow(r) => rows'[r] = rows[r]
    BY <1>1, PreScreenSeen DEF TurnInv
  <2> QED
    BY <1>0, <2>1
<1>2. CASE Consumes
  <2>1. CASE Quiet
    BY <2>1 DEF Quiet
  <2>2. ASSUME NEW r \in Rows, Sent(r) PROVE Same
    <3>1. (\A c \in Llms : r # Start(c)) /\ \A i \in Llms \cup {"pre"} : r # Complete(i)
      BY <1>0, <2>2, Reasons DEF Sent
    <3> QED
      BY <1>0, <2>2, <3>1, SentRows
  <2> QED
    BY <1>2, <2>1, <2>2, ConsumeReports
<1>3. CASE Settles
  BY <1>3, SettleMoves DEF SettleMove
<1>4. CASE CleanupTurn
  <2>1. \A r \in Rows : (\A c \in Tools : r # Complete(c)) => rows'[r] = rows[r]
    BY <1>4 DEF CleanupTurn, Orphans
  <2> QED
    BY <1>0, <2>1, RowFacts, IdFacts
<1>5. ASSUME NEW c \in Calls, Acts(c)
      PROVE  /\ \A d \in Llms : rows'[Start(d)] = rows[Start(d)] \/ Acts(d)
             /\ \A i \in Llms \cup {"pre"} :
                  rows'[Complete(i)] = rows[Complete(i)]
                  \/ \E d \in Llms : Acts(d) /\ IdOf(d) = i /\ rec[d] # NoRec
  <2>1. /\ \A i \in Ids \ {c} : rows'[Start(i)] = rows[Start(i)]
        /\ \A i \in Ids : i # IdOf(c) \/ rec[c] = NoRec => rows'[Complete(i)] = rows[Complete(i)]
    BY <1>0, <1>5, CallRows
  <2>2. c \notin Llms => c \in Tools /\ IdOf(c) = c
    BY IdFacts DEF IdOf
  <2> QED
    BY <1>0, <1>5, <2>1, <2>2
<1>6. CASE FinishGraph \/ FailGraph
  BY <1>6 DEF FinishGraph, FailGraph
<1>7. CASE UNCHANGED vars
  BY <1>7 DEF vars
<1> QED
  BY <1>1, <1>2, <1>3, <1>4, <1>5, <1>6, <1>7, NextSteps

-----------------------------------------------------------------------------
(* What is completed was begun *)

\* An event of a call, and a row the consumer closes, follow the call's start;
\* under a bridge that does not report the end of a call its row stays open.
CloseInv ==
  /\ \A c \in Calls : <<"start", c>> \in Waiting \/ <<"end", c>> \in Waiting => at[c] # "idle"
  /\ graph = "idle" => Close("pre") \notin seen
  /\ \A c \in Calls : Close(c) \in seen => c \in Llms /\ at[c] # "idle"
  /\ cfg.bridge /\ ~cfg.llmEnd => \A i \in Llms \cup {"pre"} : rows[Complete(i)] = 0

\* A row the consumer closes is that of the model call whose end it consumes.
LEMMA NewlyClosed ==
  ASSUME TurnInv, [Next]_vars, NEW i \in Ids, Close(i) \in seen' \ seen
  PROVE  /\ Consumes /\ cfg.llmStart /\ pending'[1] = Close(i) /\ pending'[2] = TRUE
         /\ \E c \in Llms : /\ i = ClaimedId[c] /\ Head(events) = <<"end", c>>
                            /\ c \in opened /\ ~rec[c].complete
<1>1. Close(i) \notin {Signal, Workflow, WorkflowEnd, Start("pre")}
  BY RowFacts, IdFacts
<1>2. Consumes /\ Sent(Close(i))
  BY <1>1, NewlySeen
<1> QED
  BY <1>2, Reasons DEF Sent

\* Every step keeps that.
LEMMA NextCloseInv == ASSUME TurnInv, EndInv, CloseInv, [Next]_vars PROVE CloseInv'
<1>0. TypeInv /\ Stages /\ \A c \in Llms : c \in Calls /\ c \in Ids
  BY IdFacts DEF TurnInv
<1>1. ASSUME NEW c \in Calls, NEW s \in {"start", "end"}, <<s, c>> \in Waiting' PROVE at'[c] # "idle"
  <2>1. CASE <<s, c>> \in Waiting
    <3>1. at[c] # "idle"
      BY <1>1, <2>1 DEF CloseInv
    <3> QED
      BY <3>1, Grows
  <2>2. CASE <<s, c>> \notin Waiting
    <3>1. Acts(c)
      BY <1>1, <2>2, Changes DEF CallChange
    <3> QED
      BY <1>0, <3>1, StepFrame
  <2> QED
    BY <2>1, <2>2
<1>2. ASSUME graph' = "idle" PROVE Close("pre") \notin seen'
  <2>1. Close("pre") \notin seen /\ "pre" \in Ids /\ graph = "idle"
    BY <1>2, Grows, IdFacts DEF CloseInv
  <2>2. ~Consumes
    BY <1>0, <2>1, ConsumeTakes
  <2> QED
    BY <2>1, <2>2, NewlyClosed
<1>3. ASSUME NEW c \in Calls, Close(c) \in seen' PROVE c \in Llms /\ at'[c] # "idle"
  <2>1. CASE Close(c) \in seen
    <3>1. c \in Llms /\ at[c] # "idle"
      BY <1>3, <2>1 DEF CloseInv
    <3> QED
      BY <3>1, Grows
  <2>2. CASE Close(c) \notin seen
    <3>1. c \in Ids /\ c # "pre"
      BY IdFacts
    <3>2. Consumes /\ \E d \in Llms : c = ClaimedId[d] /\ Head(events) = <<"end", d>>
      BY <1>3, <2>2, <3>1, NewlyClosed
    <3>3. c \in Llms /\ Head(events) = <<"end", c>>
      BY <3>1, <3>2 DEF ClaimedId
    <3>4. <<"end", c>> \in Waiting
      BY <1>0, <3>2, <3>3, ConsumeTakes
    <3>5. at[c] # "idle"
      BY <3>4 DEF CloseInv
    <3> QED
      BY <3>3, <3>5, Grows
  <2> QED
    BY <2>1, <2>2
<1>4. ASSUME cfg'.bridge, ~cfg'.llmEnd, NEW i \in Llms \cup {"pre"} PROVE rows'[Complete(i)] = 0
  <2>1. cfg.bridge /\ ~cfg.llmEnd /\ rows[Complete(i)] = 0
    BY <1>4, Grows DEF CloseInv
  <2>2. CASE rows'[Complete(i)] = rows[Complete(i)]
    BY <2>1, <2>2
  <2>3. ASSUME NEW c \in Llms, Acts(c), IdOf(c) = i PROVE rows'[Complete(i)] = rows[Complete(i)]
    <3>1. CASE StartLlm(c)
      <4>1. rows' = rows \/ rows' = Counted(Start(c))
        BY <3>1 DEF StartLlm
      <4>2. Start(c) \in Rows /\ Complete(i) \in Rows /\ Start(c) # Complete(i)
        BY <1>0, RowFacts, IdFacts
      <4> QED
        BY <1>0, <4>1, <4>2, CountedType DEF TypeInv
    <3>2. ASSUME NEW ok \in BOOLEAN, EndLlm(c, ok) PROVE rows' = rows
      BY <2>1, <3>2 DEF EndLlm, SendCompletion
    <3>3. ASSUME NEW v \in Verdicts, AnswerStart(c, v) \/ AnswerCompletion(c, v) PROVE rows' = rows
      BY <3>3 DEF AnswerStart, AnswerCompletion
    <3> QED
      BY <1>0, <2>3, <3>1, <3>2, <3>3, LlmSteps
  <2> QED
    BY <2>1, <2>2, <2>3, CallbackRows
<1> QED
  BY <1>1, <1>2, <1>3, <1>4 DEF CloseInv

-----------------------------------------------------------------------------
(* Without a record: the order of the stream *)

\* Calls whose start has been seen to,
Met == {c \in Tools : cfg.toolStart => Start(c) \in seen} \cup opened \cup Silent

\* and calls whose every end in the stream follows a start in it.
InOrder == {c \in Calls : \A j \in 1 .. Len(events) : events[j] = <<"end", c>> =>
             \E i \in 1 .. Len(events) : i < j /\ events[i] = <<"start", c>>}

\* A call that runs was reported to the consumer or will be, before its end.
OrderInv ==
  \A c \in Bare :
    /\ at[c] \in {"running", "ending"} /\ graph # "failed" /\ main # "done"
         => c \in Met \/ <<"start", c>> \in Waiting
    /\ c \in Met \cup InOrder

\* An event joins the stream behind what is in it,
LEMMA EmitInOrder ==
  ASSUME events \in Seq(Event), NEW c \in Calls, c \in InOrder, NEW e, Emit(e),
         e = <<"end", c>> => main = "done" \/ graph = "failed" \/ <<"start", c>> \in Waiting
  PROVE  c \in InOrder'
<1>1. CASE main = "done" \/ graph = "failed"
  BY <1>1 DEF Emit, InOrder
<1>2. CASE ~(main = "done" \/ graph = "failed")
  <2>1. events' = Append(events, e)
    BY <1>2 DEF Emit
  <2>2. /\ Len(events') = Len(events) + 1 /\ events'[Len(events) + 1] = e
        /\ \A i \in 1 .. Len(events) : events'[i] = events[i]
        /\ Len(events) \in Nat
    BY <2>1
  <2>3. ASSUME NEW j \in 1 .. Len(events'), events'[j] = <<"end", c>>
        PROVE  \E i \in 1 .. Len(events') : i < j /\ events'[i] = <<"start", c>>
    <3>1. CASE j \in 1 .. Len(events)
      <4>1. PICK i \in 1 .. Len(events) : i < j /\ events[i] = <<"start", c>>
        BY <2>2, <2>3, <3>1 DEF InOrder
      <4>2. i \in 1 .. Len(events') /\ i < j /\ events'[i] = <<"start", c>>
        BY <2>2, <4>1
      <4> QED
        BY <4>2
    <3>2. CASE j = Len(events) + 1
      <4>1. PICK i \in 1 .. Len(events) : events[i] = <<"start", c>>
        BY <1>2, <2>2, <2>3, <3>2 DEF Waiting
      <4>2. i \in 1 .. Len(events') /\ i < j /\ events'[i] = <<"start", c>>
        BY <2>2, <3>2, <4>1
      <4> QED
        BY <4>2
    <3> QED
      BY <2>2, <2>3, <3>1, <3>2
  <2> QED
    BY <2>3 DEF InOrder
<1> QED
  BY <1>1, <1>2

\* and an end is taken after the start it follows.
LEMMA TakeInOrder ==
  ASSUME TypeInv, Stages, Consumes, NEW c \in Calls, c \in InOrder, Head(events) # <<"start", c>>
  PROVE  c \in InOrder' /\ Head(events) # <<"end", c>>
<1>1. /\ Len(events) \in Nat \ {0} /\ Len(events') = Len(events) - 1 /\ events[1] = Head(events)
      /\ \A i \in 1 .. Len(events') : i + 1 \in 1 .. Len(events) /\ events'[i] = events[i + 1]
  BY ConsumeTakes
<1>2. ASSUME NEW j \in 1 .. Len(events'), events'[j] = <<"end", c>>
      PROVE  \E i \in 1 .. Len(events') : i < j /\ events'[i] = <<"start", c>>
  <2>1. j + 1 \in 1 .. Len(events) /\ events[j + 1] = <<"end", c>>
    BY <1>1, <1>2
  <2>2. PICK i \in 1 .. Len(events) : i < j + 1 /\ events[i] = <<"start", c>>
    BY <2>1 DEF InOrder
  <2>3. i # 1
    BY <1>1, <2>2
  <2>4. i - 1 \in 1 .. Len(events') /\ i - 1 < j /\ (i - 1) + 1 = i
    BY <1>1, <2>2, <2>3
  <2>5. events'[i - 1] = events[i]
    BY <1>1, <2>4
  <2> QED
    BY <2>2, <2>4, <2>5
<1>3. Head(events) # <<"end", c>>
  <2>1. 1 \in 1 .. Len(events)
    BY <1>1
  <2>2. ~ \E i \in 1 .. Len(events) : i < 1
    BY <1>1
  <2> QED
    BY <1>1, <2>1, <2>2 DEF InOrder
<1> QED
  BY <1>2, <1>3 DEF InOrder

\* A buffer is opened when the consumer takes the start of a call with a prompt.
LEMMA NewlyOpened ==
  ASSUME TurnInv, [Next]_vars, NEW c \in opened' \ opened
  PROVE  Consumes /\ c \in Llms \ Silent /\ Head(events) = <<"start", c>>
<1>0. TypeInv /\ Stages
  BY DEF TurnInv
<1>1. CASE Screens
  BY <1>1, PreScreenEnds
<1>2. CASE Consumes
  BY <1>0, <1>2, ConsumeOpens
<1>3. CASE Settles
  BY <1>3, SettleMoves DEF SettleMove
<1>4. CASE CleanupTurn
  BY <1>4 DEF CleanupTurn, consumer
<1>5. ASSUME NEW d \in Calls, Acts(d) PROVE FALSE
  BY <1>0, <1>5, CallMoves DEF CallMove, consumer
<1>6. CASE FinishGraph \/ FailGraph
  BY <1>6 DEF FinishGraph, FailGraph, consumer
<1>7. CASE UNCHANGED vars
  BY <1>7 DEF vars, consumer
<1> QED
  BY <1>1, <1>2, <1>3, <1>4, <1>5, <1>6, <1>7, NextSteps

\* What has been seen to stays so, and the start of a call is when it is taken.
LEMMA MetGrows ==
  ASSUME TurnInv, EndInv, [Next]_vars
  PROVE  /\ Met \subseteq Met'
         /\ \A c \in Calls : Consumes /\ Head(events) = <<"start", c>> /\ c \in Bare => c \in Met'
<1>1. Met \subseteq Met'
  BY Grows DEF Met
<1>2. ASSUME NEW c \in Calls, Consumes, Head(events) = <<"start", c>>, c \in Bare PROVE c \in Met'
  <2>1. ~rec[c].start /\ cfg' = cfg
    BY <1>2, Grows, RecordFacts DEF TurnInv, Stages, Bare
  <2>2. c \in Tools \/ c \in Llms
    BY IdFacts
  <2> QED
    BY <1>2, <2>1, <2>2, ConsumeSettles DEF Met
<1> QED
  BY <1>1, <1>2

\* Every step keeps the order.
LEMMA NextOrderInv == ASSUME TurnInv, EndInv, OrderInv, [Next]_vars PROVE OrderInv'
<1>0. TypeInv /\ Stages /\ events \in Seq(Event) /\ cfg' = cfg
  BY Grows DEF TurnInv, TypeInv
<1> SUFFICES ASSUME NEW c \in Calls, c \in Bare
             PROVE  /\ at'[c] \in {"running", "ending"} /\ graph' # "failed" /\ main' # "done"
                         => c \in Met' \/ <<"start", c>> \in Waiting'
                    /\ c \in Met' \cup InOrder'
  BY <1>0 DEF OrderInv, Bare
<1>1. ASSUME at'[c] \in {"running", "ending"}, graph' # "failed", main' # "done"
      PROVE  c \in Met' \/ <<"start", c>> \in Waiting'
  <2>0. graph # "failed" /\ main # "done"
    BY <1>1, Grows
  <2>1. CASE Acts(c)
    <3>1. rec[c] = NoRec
      BY <1>0 DEF Stages, Bare
    <3> QED
      BY <1>0, <1>1, <2>0, <2>1, <3>1, CallWaits, CallPlaces
  <2>2. CASE ~Acts(c)
    <3>1. at[c] \in {"running", "ending"}
      BY <1>1, <2>2, Changes DEF CallChange
    <3>2. CASE c \in Met
      BY <3>2, MetGrows
    <3>3. CASE <<"start", c>> \in Waiting
      <4>1. ~CleanupTurn
        BY <1>1 DEF CleanupTurn
      <4>2. <<"start", c>> \in Waiting' \/ (Consumes /\ Head(events) = <<"start", c>>)
        BY <3>3, <4>1, Changes DEF CallChange
      <4> QED
        BY <4>2, MetGrows
    <3> QED
      BY <2>0, <3>1, <3>2, <3>3 DEF OrderInv
  <2> QED
    BY <2>1, <2>2
<1>2. c \in Met' \cup InOrder'
  <2>0. CASE c \in Met
    BY <2>0, MetGrows
  <2> SUFFICES ASSUME c \in InOrder PROVE c \in Met' \cup InOrder'
    BY <2>0 DEF OrderInv
  <2>1. CASE events' = events
    BY <2>1 DEF InOrder
  <2>2. CASE Screens
    <3>1. events' = events \/ events' = <<<<"chain", "start">>>>
      BY <2>2, PreScreenEnds
    <3>2. CASE events' = <<<<"chain", "start">>>>
      <4>1. \A j \in 1 .. Len(events') : events'[j] # <<"end", c>>
        BY <3>2
      <4> QED
        BY <4>1 DEF InOrder
    <3> QED
      BY <2>1, <3>1, <3>2
  <2>3. CASE Consumes
    BY <1>0, <2>3, TakeInOrder, MetGrows
  <2>4. CASE Settles
    BY <2>1, <2>4, SettleMoves DEF SettleMove
  <2>5. CASE CleanupTurn
    <3>1. events' = <<>>
      BY <2>5 DEF CleanupTurn
    <3> QED
      BY <3>1 DEF InOrder
  <2>6. ASSUME NEW d \in Calls, Acts(d) PROVE c \in Met' \cup InOrder'
    <3>1. CASE Emit(<<"start", d>>)
      <4>1. <<"start", d>> # <<"end", c>>
        OBVIOUS
      <4> QED
        BY <1>0, <3>1, <4>1, EmitInOrder
    <3>2. CASE at[d] \in {"running", "ending"} /\ Emit(<<"end", d>>)
      <4>1. CASE d # c
        <5>1. <<"end", d>> # <<"end", c>>
          BY <4>1
        <5> QED
          BY <1>0, <3>2, <5>1, EmitInOrder
      <4>2. CASE d = c
        <5>1. main = "done" \/ graph = "failed" \/ c \in Met \/ <<"start", c>> \in Waiting
          BY <3>2, <4>2 DEF OrderInv
        <5> QED
          BY <1>0, <2>0, <3>2, <4>2, <5>1, EmitInOrder
      <4> QED
        BY <4>1, <4>2
    <3> QED
      BY <1>0, <2>1, <2>6, <3>1, <3>2, CallPlaces
  <2>7. CASE FinishGraph
    <3>1. Emit(<<"chain", "end">>) /\ <<"chain", "end">> # <<"end", c>>
      BY <2>7 DEF FinishGraph
    <3> QED
      BY <1>0, <3>1, EmitInOrder
  <2>8. CASE FailGraph
    BY <2>1, <2>8 DEF FailGraph
  <2>9. CASE UNCHANGED vars
    BY <2>1, <2>9 DEF vars
  <2> QED
    BY <2>2, <2>3, <2>4, <2>5, <2>6, <2>7, <2>8, <2>9, NextSteps
<1> QED
  BY <1>1, <1>2

-----------------------------------------------------------------------------
(* Without a record: what the consumer completes *)

\* A row is completed by the consumer after it was started, and the model calls
\* that ended in a turn that goes on are, or will be, under the id they go by.
FallbackInv ==
  /\ \A c \in Tools : cfg.toolStart /\ Complete(c) \in seen => Start(c) \in seen
  /\ ~cfg.bridge =>
    /\ \A i \in Llms \cup {"pre"} : Complete(i) \notin seen
    /\ \A c \in Llms : Close(c) \in seen => Start(c) \in seen
    /\ \A c \in Llms \ Silent :
         at[c] = "done" /\ cfg.llmStart /\ graph # "failed" /\ outcome # "raised"
         => <<"end", c>> \in Waiting \/ Close(ClaimedId[c]) \in seen

\* An event leaves the stream of a turn that did not raise when it is consumed.
LEMMA WaitsOn ==
  ASSUME TurnInv, EndInv, [Next]_vars, NEW c \in Calls, NEW s \in {"start", "end"},
         <<s, c>> \in Waiting, outcome # "raised"
  PROVE  <<s, c>> \in Waiting' \/ (Consumes /\ Head(events) = <<s, c>>)
<1>1. events # <<>>
  BY DEF Waiting
<1>2. ~CleanupTurn
  <2>1. outcome = "none"
    BY <1>1 DEF EndInv, TurnInv, TypeInv, ControlTypes
  <2> QED
    BY <2>1 DEF CleanupTurn, EndInv
<1> QED
  BY <1>2, Changes DEF CallChange

\* A call that has ended in a turn that goes on has its end in the stream.
LEMMA EndsQueued ==
  ASSUME TurnInv, EndInv, [Next]_vars, NEW c \in Calls, at'[c] = "done",
         graph' # "failed", outcome' # "raised"
  PROVE  /\ graph # "failed" /\ outcome # "raised"
         /\ <<"end", c>> \in Waiting' \/ at[c] = "done"
<1>1. graph # "failed" /\ outcome # "raised"
  BY Grows
<1>2. CASE Acts(c)
  <2>1. outcome # "returned"
    BY <1>2, CallsRun DEF TurnInv
  <2>2. main # "done"
    BY <1>1, <2>1 DEF EndInv, TurnInv, TypeInv, ControlTypes
  <2>3. <<"end", c>> \in Waiting'
    BY <1>1, <1>2, <2>2, CallWaits DEF TurnInv
  <2> QED
    BY <1>1, <2>3
<1>3. CASE ~Acts(c)
  BY <1>1, <1>3, Changes DEF CallChange
<1> QED
  BY <1>2, <1>3

\* Every step keeps what the consumer completes.
LEMMA NextFallbackInv ==
  ASSUME TurnInv, EndInv, ClaimInv, OrderInv, FallbackInv, [Next]_vars PROVE FallbackInv'
<1>0. TypeInv /\ Stages /\ cfg' = cfg /\ ClaimInv' /\ seen \subseteq seen'
  BY Grows, NextClaimInv DEF TurnInv
<1>1. ASSUME ~cfg.bridge, NEW i \in Llms \cup {"pre"} PROVE Complete(i) \notin seen'
  <2>1. i \in Ids \ Tools /\ Complete(i) \notin seen
    BY <1>1, IdFacts DEF FallbackInv
  <2>2. Complete(i) \notin {Signal, Workflow, WorkflowEnd, Start("pre")}
    BY <2>1, RowFacts, IdFacts
  <2>3. ~Sent(Complete(i))
    BY <2>1, Reasons DEF Sent
  <2> QED
    BY <2>1, <2>2, <2>3, NewlySeen
<1>2. ASSUME ~cfg.bridge, NEW c \in Llms, Close(c) \in seen' PROVE Start(c) \in seen'
  <2>1. CASE Close(c) \in seen
    BY <1>0, <1>2, <2>1 DEF FallbackInv
  <2>2. CASE Close(c) \notin seen
    <3>1. c \in Ids /\ c # "pre" /\ c \in Calls
      BY IdFacts
    <3>2. PICK d \in Llms : c = ClaimedId[d] /\ d \in opened
      BY <1>2, <2>2, <3>1, NewlyClosed
    <3>3. cfg.llmStart
      BY <1>2, <2>2, <3>1, NewlyClosed
    <3>4. c \in opened \ claimed
      BY <3>1, <3>2 DEF ClaimedId
    <3> QED
      BY <1>0, <1>2, <3>1, <3>3, <3>4 DEF ClaimInv, StreamClaim
  <2> QED
    BY <2>1, <2>2
<1>3. ASSUME NEW c \in Tools, cfg.toolStart, Complete(c) \in seen' PROVE Start(c) \in seen'
  <2>1. CASE Complete(c) \in seen
    BY <1>0, <1>3, <2>1 DEF FallbackInv
  <2>2. CASE Complete(c) \notin seen
    <3>1. c \in Calls /\ c \in Ids /\ c \notin Llms
      BY IdFacts
    <3>2. Complete(c) \notin {Signal, Workflow, WorkflowEnd, Start("pre")}
      BY <3>1, RowFacts, IdFacts
    <3>3. Consumes /\ Sent(Complete(c))
      BY <1>3, <2>2, <3>2, NewlySeen
    <3>4. Head(events) = <<"end", c>>
      BY <3>3, Reasons DEF Sent
    <3>5. c \notin InOrder
      BY <1>0, <3>1, <3>3, <3>4, TakeInOrder
    <3>6. c \in Met
      <4>1. c \in Bare
        BY <3>3, Reasons DEF Sent
      <4> QED
        BY <3>5, <4>1 DEF OrderInv
    <3> QED
      BY <1>0, <1>3, <3>1, <3>6, CallAssumption DEF Met, TypeInv, SetTypes
  <2> QED
    BY <2>1, <2>2
<1>4. ASSUME ~cfg.bridge, NEW c \in Llms \ Silent, at'[c] = "done", cfg.llmStart, graph' # "failed", outcome' # "raised",
             <<"end", c>> \notin Waiting'
      PROVE  Close(ClaimedId'[c]) \in seen'
  <2>1. c \in Calls /\ c \notin Tools /\ c \in Ids
    BY IdFacts
  <2>2. at[c] = "done" /\ graph # "failed" /\ outcome # "raised"
    BY <1>4, <2>1, EndsQueued
  <2>3. ClaimedId[c] = (IF c \in claimed THEN "pre" ELSE c) /\ ClaimedId'[c] = IF c \in claimed' THEN "pre" ELSE c
    BY DEF ClaimedId
  <2>4. CASE <<"end", c>> \in Waiting
    <3>1. Consumes /\ Head(events) = <<"end", c>>
      BY <1>4, <2>1, <2>2, <2>4, WaitsOn
    <3>2. c \notin InOrder
      BY <1>0, <2>1, <3>1, TakeInOrder
    <3>3. c \in opened
      BY <1>4, <2>1, <3>2 DEF OrderInv, Met, Bare
    <3>4. ~rec[c].complete
      BY <1>0, <1>4, <2>1, RecordFacts DEF Stages
    <3>5. Close(ClaimedId[c]) \in seen'
      BY <1>4, <3>1, <3>3, <3>4, ConsumeSettles
    <3>6. claimed' = claimed
      BY <1>0, <3>1, ConsumeOpens
    <3> QED
      BY <2>3, <3>5, <3>6
  <2>5. CASE Close(ClaimedId[c]) \in seen
    <3>1. CASE c \in claimed
      BY <1>0, <2>3, <2>5, <3>1, Grows
    <3>2. CASE c \notin claimed
      <4>1. Start(c) \in seen'
        BY <1>0, <1>4, <2>3, <2>5, <3>2 DEF FallbackInv
      <4>2. c \notin claimed'
        BY <1>0, <1>4, <4>1 DEF ClaimInv, StreamClaim
      <4> QED
        BY <1>0, <2>3, <2>5, <3>2, <4>2
    <3> QED
      BY <3>1, <3>2
  <2> QED
    BY <1>4, <2>2, <2>4, <2>5 DEF FallbackInv
<1> QED
  BY <1>0, <1>1, <1>2, <1>3, <1>4 DEF FallbackInv

-----------------------------------------------------------------------------
(* Under a bridge: what the callbacks report *)

\* A tool's completion is reported after its start, and a body that waits, runs
\* or has ended has its start reported until the record is swept.
ReportedTool(c) ==
  cfg.toolStart =>
    /\ rec[c].complete => rec[c].start
    /\ rec[c] # NoRec /\ at[c] \in Waits \cup {"done"} => rec[c].start

\* A model call that began has an open row, which is completed before the
\* consumer is shown its end.
ReportedLlm(c) ==
  cfg.llmStart =>
    /\ cfg.llmEnd /\ <<"end", c>> \in Waiting => rec[c].complete
    /\ at[c] \in {"asked", "running"} /\ main # "done" => rec[c].start
    /\ at[c] = "ending" /\ main # "done" => rec[c].complete
    /\ at[c] # "idle" => alias[c] # "none" /\ rows[Start(alias[c])] = 1
    /\ cfg.llmEnd /\ at[c] \in {"ending", "done"} /\ outcome # "raised" => rows[Complete(alias[c])] = 1

\* So the consumer closes no row that a callback completes.
ReportInv ==
  cfg.bridge => /\ cfg.llmEnd => \A i \in Ids : Close(i) \notin seen
                /\ \A c \in Tools : ReportedTool(c)
                /\ \A c \in Llms : ReportedLlm(c)

\* What sending a completion does to the call and its record,
LEMMA Completed ==
  ASSUME TypeInv, NEW c \in Calls, NEW id \in Ids, NEW en \in BOOLEAN, NEW ok \in BOOLEAN,
         SendCompletion(c, id, en, ok)
  PROVE  /\ rec'[c].start = rec[c].start
         /\ \/ EndBody(c, ok) /\ UNCHANGED <<rec, rows>> /\ (rec[c] # NoRec /\ en => rec[c].complete)
            \/ /\ rec[c] # NoRec /\ ~rec[c].complete /\ rec'[c].complete
               /\ rows' = Counted(Complete(id)) /\ events' = events
               /\ at'[c] \in {"ending", "failing"}
<1>1. rec \in [Calls -> Record] /\ at \in [Calls -> Places]
  BY DEF TypeInv, CallTypes, PlaceTypes
<1>2. CASE EndBody(c, ok) /\ UNCHANGED <<rows, rec>> /\ ~(rec[c] # NoRec /\ ~rec[c].complete /\ en)
  BY <1>1, <1>2 DEF Record
<1>3. CASE /\ rec[c] # NoRec /\ ~rec[c].complete /\ UNCHANGED events
           /\ rec' = [rec EXCEPT ![c].complete = TRUE]
           /\ rows' = Counted(Complete(id))
           /\ at' = [at EXCEPT ![c] = IF ok THEN "ending" ELSE "failing"]
  <2>1. rec[c] \in Record
    BY <1>1
  <2>2. rec'[c].start = rec[c].start /\ rec'[c].complete = TRUE
    BY <1>1, <1>3, <2>1 DEF Record
  <2> QED
    BY <1>1, <1>3, <2>2
<1> QED
  BY <1>2, <1>3 DEF SendCompletion

\* and what the answer to it does.
LEMMA Answered ==
  ASSUME TypeInv, NEW c \in Calls, NEW v \in Verdicts, AnswerCompletion(c, v)
  PROVE  /\ at[c] \in {"ending", "failing"} /\ rows' = rows /\ alias' = alias
         /\ \/ at[c] = "ending" /\ at'[c] = "done" /\ Emit(<<"end", c>>)
            \/ at[c] = "failing" /\ at'[c] = "failed" /\ events' = events
         /\ rec'[c].start = rec[c].start /\ rec'[c].complete = rec[c].complete
         /\ rec[c] = NoRec => rec' = rec
         /\ rec[c] # NoRec => rec'[c].stash = v /\ rec'[c] # NoRec
<1>1. rec \in [Calls -> Record] /\ at \in [Calls -> Places] /\ v \in {"allow", "stop", "hold"}
  BY CallAssumption DEF TypeInv, CallTypes, PlaceTypes, Verdicts
<1>2. /\ at[c] \in {"ending", "failing"} /\ rows' = rows /\ alias' = alias
      /\ rec' = IF rec[c] = NoRec THEN rec ELSE [rec EXCEPT ![c].stash = v]
      /\ EndBody(c, at[c] = "ending")
  BY DEF AnswerCompletion
<1>3. \/ at[c] = "ending" /\ at'[c] = "done" /\ Emit(<<"end", c>>)
      \/ at[c] = "failing" /\ at'[c] = "failed" /\ events' = events
  BY <1>1, <1>2 DEF EndBody, FailCall
<1>4. CASE rec[c] # NoRec
  <2>1. rec' = [rec EXCEPT ![c].stash = v] /\ rec[c] \in Record
    BY <1>1, <1>2, <1>4
  <2>2. /\ rec'[c].stash = v
        /\ rec'[c].start = rec[c].start /\ rec'[c].complete = rec[c].complete
    BY <1>1, <2>1 DEF Record
  <2> QED
    BY <1>1, <1>2, <1>3, <1>4, <2>2, RecordFacts DEF NoRec
<1>5. CASE rec[c] = NoRec
  BY <1>2, <1>3, <1>5
<1> QED
  BY <1>4, <1>5

\* A step of a tool keeps what its record reports.
LEMMA ToolReports ==
  ASSUME TypeInv, cfg.bridge, NEW c \in Tools, ReportedTool(c), Acts(c), cfg' = cfg
  PROVE  ReportedTool(c)'
<1>0. /\ rec \in [Calls -> Record] /\ at \in [Calls -> Places] /\ c \in Calls /\ c \in Ids /\ c \notin Llms
      /\ cfg.toolEnd \in BOOLEAN
  BY IdFacts, ConfigAssumption DEF TypeInv, CallTypes, PlaceTypes, ControlTypes
<1> DEFINE Kept == /\ rec'[c].complete => rec'[c].start
                   /\ rec'[c] # NoRec /\ at'[c] \in Waits \cup {"done"} => rec'[c].start
<1> SUFFICES ASSUME cfg.toolStart PROVE Kept
  BY DEF ReportedTool
<1>1. /\ rec[c].complete => rec[c].start
      /\ rec[c] # NoRec /\ at[c] \in Waits \cup {"done"} => rec[c].start
      /\ "prepared" \notin Waits /\ "failed" \notin Waits /\ "cancelled" \notin Waits
      /\ {"asked", "held", "running", "ending", "failing"} \subseteq Waits
  BY DEF ReportedTool, Waits
<1>2. ASSUME PrepareTool(c) PROVE Kept
  <2>1. at'[c] \in {"prepared", "failed"} /\ rec'[c] \in {Prepared, rec[c]}
    BY <1>0, <1>2 DEF PrepareTool, FailCall
  <2> QED
    BY <1>1, <2>1, RecordFacts
<1>3. ASSUME ReexecuteTool(c) \/ CancelTool(c) PROVE Kept
  <2>1. rec' = rec /\ at'[c] \in {"prepared", "cancelled"}
    BY <1>0, <1>3 DEF ReexecuteTool, CancelTool
  <2> QED
    BY <1>1, <2>1
<1>4. ASSUME StartTool(c) PROVE Kept
  <2>1. CASE rec' = rec /\ rec[c] = NoRec
    BY <2>1, RecordFacts
  <2>2. CASE rec' = rec /\ rec[c].start
    BY <2>2
  <2>3. CASE rec' = [rec EXCEPT ![c].start = TRUE]
    <3>1. rec[c] \in Record
      BY <1>0
    <3>2. rec'[c].start = TRUE
      BY <1>0, <2>3, <3>1 DEF Record
    <3> QED
      BY <3>2
  <2> QED
    BY <1>4, <2>1, <2>2, <2>3 DEF StartTool
<1>5. ASSUME rec' = rec, at[c] \in Waits PROVE Kept
  BY <1>1, <1>5
<1>6. ASSUME NEW g \in BOOLEAN, ReleaseTool(c, g) PROVE Kept
  BY <1>1, <1>5, <1>6 DEF ReleaseTool
<1>7. ASSUME NEW v \in Verdicts, AnswerStart(c, v) PROVE Kept
  BY <1>1, <1>5, <1>7 DEF AnswerStart
<1>8. ASSUME NEW ok \in BOOLEAN, EndTool(c, ok) PROVE Kept
  <2>1. SendCompletion(c, c, cfg.toolEnd, ok) /\ at[c] = "running"
    BY <1>8 DEF EndTool
  <2>2. rec'[c].start = rec[c].start /\ (rec' = rec \/ rec[c] # NoRec)
    BY <1>0, <2>1, Completed
  <2> QED
    BY <1>1, <2>1, <2>2
<1>9. ASSUME NEW v \in Verdicts, AnswerCompletion(c, v) PROVE Kept
  <2>1. /\ at[c] \in Waits /\ rec'[c].start = rec[c].start /\ rec'[c].complete = rec[c].complete
        /\ rec[c] = NoRec => rec' = rec
    BY <1>0, <1>1, <1>9, Answered
  <2> QED
    BY <1>1, <2>1
<1>10. ~StartLlm(c) /\ \A ok \in BOOLEAN : ~EndLlm(c, ok)
  BY <1>0 DEF StartLlm, EndLlm
<1> HIDE DEF Kept
<1> QED
  BY <1>2, <1>3, <1>4, <1>6, <1>7, <1>8, <1>9, <1>10 DEF Acts, ToolActs

\* Model calls have rows of different ids.
LEMMA AliasOnce ==
  ASSUME TypeInv, BridgeInv, cfg.bridge, NEW c \in Llms, NEW d \in Llms,
         alias[c] = alias[d], alias[c] # "none"
  PROVE  c = d
<1>1. c # "pre" /\ d # "pre" /\ alias[c] \in {"pre", c} /\ alias[d] \in {"pre", d}
  BY IdFacts DEF BridgeInv, LlmRec
<1>2. alias[c] = "pre" => c = d
  BY DEF BridgeInv, LlmRec
<1> QED
  BY <1>1, <1>2

\* A model call's first step opens its row,
LEMMA LlmStarts ==
  ASSUME TurnInv, ClaimInv, CloseInv, cfg.bridge, cfg.llmStart, NEW c \in Llms, StartLlm(c)
  PROVE  /\ rec'[c].start /\ at'[c] = "asked" /\ <<"end", c>> \notin Waiting'
         /\ alias'[c] # "none" /\ rows'[Start(alias'[c])] = 1
<1>0. /\ TypeInv /\ SeenOnce /\ c \in Calls /\ c \in Ids /\ c \notin {"pre", "none"}
      /\ Start("pre") \in Rows /\ Start(c) \in Rows
      /\ at \in [Calls -> Places] /\ rec \in [Calls -> Record] /\ alias \in [Llms -> Ids \cup {"none"}]
  BY RowFacts, IdFacts DEF TurnInv, TypeInv, CallTypes, PlaceTypes
<1> DEFINE reuse == pre /\ \A d \in Llms : alias[d] # "pre"
<1>1. /\ alias' = [alias EXCEPT ![c] = IF reuse THEN "pre" ELSE c]
      /\ rec' = [rec EXCEPT ![c] = [Prepared EXCEPT !.start = reuse \/ cfg.llmStart]]
      /\ rows' = IF ~reuse /\ cfg.llmStart THEN Counted(Start(c)) ELSE rows
      /\ at' = [at EXCEPT ![c] = "asked"]
      /\ at[c] = "idle"
  BY DEF StartLlm, Ready
<1>2. rec'[c].start
  <2>1. rec'[c] = [Prepared EXCEPT !.start = TRUE]
    BY <1>0, <1>1
  <2> QED
    BY <2>1 DEF Prepared
<1>3. at'[c] = "asked"
  BY <1>0, <1>1
<1>4. <<"end", c>> \notin Waiting'
  <2>1. <<"end", c>> \notin Waiting
    BY <1>0, <1>1 DEF CloseInv
  <2>2. Acts(c)
    BY DEF Acts
  <2>3. <<"end", c>> \in Waiting' \ Waiting => at'[c] = "done"
    BY <1>0, <2>2, CallWaits
  <2> QED
    BY <1>3, <2>1, <2>3
<1>5. CASE reuse
  <2>1. alias'[c] = "pre" /\ rows' = rows
    BY <1>0, <1>1, <1>5
  <2>2. Start("pre") \in seen
    BY <1>5 DEF ClaimInv
  <2>3. rows[Start("pre")] = 1
    BY <1>0, <2>2, CallbackFacts DEF SeenOnce, Bit
  <2>4. "pre" # "none"
    OBVIOUS
  <2> QED
    BY <1>2, <1>3, <1>4, <2>1, <2>3, <2>4
<1>6. CASE ~reuse
  <2>1. alias'[c] = c /\ rows' = Counted(Start(c))
    BY <1>0, <1>1, <1>6
  <2>2. rows[Start(c)] = 0
    BY <1>0, <1>1 DEF TurnInv, BridgeInv, LlmRec
  <2>3. rows'[Start(c)] = 1
    BY <1>0, <2>1, <2>2, CountedType DEF TypeInv
  <2> QED
    BY <1>0, <1>2, <1>3, <1>4, <2>1, <2>3
<1> QED
  BY <1>5, <1>6

\* its end completes it,
LEMMA LlmEnds ==
  ASSUME TypeInv, BridgeInv, cfg.bridge, NEW c \in Llms, ReportedLlm(c), cfg.llmStart,
         NEW ok \in BOOLEAN, EndLlm(c, ok)
  PROVE  /\ at[c] = "running" /\ at'[c] \notin {"asked", "running", "idle"} /\ alias' = alias
         /\ rows'[Start(alias[c])] = rows[Start(alias[c])]
         /\ rec[c].complete => rec' = rec
         /\ at'[c] = "ending" => rec'[c].complete
         /\ cfg.llmEnd /\ main # "done" => rec'[c].complete /\ rows'[Complete(alias[c])] = 1
<1>0. /\ c \in Calls /\ at \in [Calls -> Places] /\ rows \in [Rows -> Nat] /\ rec[c] \in Record
      /\ cfg.llmEnd \in BOOLEAN
  BY IdFacts, ConfigAssumption DEF TypeInv, CallTypes, PlaceTypes, ControlTypes
<1>1. /\ at[c] = "running" /\ alias' = alias
      /\ SendCompletion(c, alias[c], cfg.llmEnd /\ rec[c].start, ok)
  BY DEF EndLlm
<1>2. EndBody(c, ok) => at'[c] \in {"done", "failed"}
  BY <1>0 DEF EndBody, FailCall
<1>3. alias[c] # "none"
  BY <1>1 DEF ReportedLlm
<1>4. alias[c] \in Ids /\ Start(alias[c]) \in Rows /\ Complete(alias[c]) \in Rows
      /\ Start(alias[c]) # Complete(alias[c])
  BY <1>3, RowFacts DEF TypeInv, CallTypes
<1>5. (cfg.llmEnd /\ rec[c].start) \in BOOLEAN
  BY <1>0 DEF Record
<1>6. \/ /\ EndBody(c, ok) /\ UNCHANGED <<rec, rows>>
         /\ rec[c] # NoRec /\ cfg.llmEnd /\ rec[c].start => rec[c].complete
      \/ /\ rec[c] # NoRec /\ ~rec[c].complete /\ rec'[c].complete
         /\ rows' = Counted(Complete(alias[c])) /\ at'[c] \in {"ending", "failing"}
  BY <1>0, <1>1, <1>4, <1>5, Completed
<1>7. rows'[Start(alias[c])] = rows[Start(alias[c])]
  BY <1>0, <1>4, <1>6, CountedType
<1>8. /\ rec[c].complete => rec' = rec
      /\ at'[c] \notin {"asked", "running", "idle"} /\ (at'[c] = "ending" => rec'[c].complete)
  BY <1>2, <1>6
<1>9. ASSUME cfg.llmEnd, main # "done" PROVE rec'[c].complete /\ rows'[Complete(alias[c])] = 1
  <2>1. rec[c].start /\ rec[c] # NoRec
    BY <1>1, <1>9, RecordFacts DEF ReportedLlm
  <2>2. rows[Complete(alias[c])] = Bit(rec[c].complete)
    BY <2>1 DEF BridgeInv, LlmRec
  <2>3. CASE UNCHANGED <<rec, rows>> /\ rec[c].complete
    BY <2>2, <2>3 DEF Bit
  <2>4. CASE ~rec[c].complete /\ rec'[c].complete /\ rows' = Counted(Complete(alias[c]))
    BY <1>0, <1>4, <2>2, <2>4, CountedType DEF Bit
  <2> QED
    BY <1>6, <1>9, <2>1, <2>3, <2>4
<1> QED
  BY <1>1, <1>7, <1>8, <1>9

\* and an answer leaves both as they are.
LEMMA LlmAnswers ==
  ASSUME TypeInv, NEW c \in Llms, NEW v \in Verdicts, AnswerStart(c, v) \/ AnswerCompletion(c, v)
  PROVE  /\ rows' = rows /\ alias' = alias
         /\ rec'[c].start = rec[c].start /\ rec'[c].complete = rec[c].complete
         /\ \/ at[c] = "asked" /\ at'[c] \in {"running", "failed"}
            \/ at[c] = "ending" /\ at'[c] = "done"
            \/ at[c] = "failing" /\ at'[c] = "failed"
<1>0. c \in Calls /\ c \notin Tools /\ at \in [Calls -> Places]
  BY IdFacts DEF TypeInv, CallTypes, PlaceTypes
<1>1. CASE AnswerStart(c, v)
  BY <1>0, <1>1 DEF AnswerStart, RunBody, FailCall
<1>2. CASE AnswerCompletion(c, v)
  BY <1>0, <1>2, Answered
<1> QED
  BY <1>1, <1>2


\* Every step keeps what the callbacks report.
LEMMA NextReportInv ==
  ASSUME TurnInv, EndInv, ClaimInv, CloseInv, ReportInv, [Next]_vars PROVE ReportInv'
<1>0. TypeInv /\ Stages /\ SeenOnce /\ BridgeInv /\ cfg' = cfg /\ TurnInv' /\ seen \subseteq seen'
  BY Grows, NextTurnInv DEF TurnInv
<1> SUFFICES ASSUME cfg.bridge
             PROVE  /\ cfg.llmEnd => \A i \in Ids : Close(i) \notin seen'
                    /\ \A c \in Tools : ReportedTool(c)'
                    /\ \A c \in Llms : ReportedLlm(c)'
  BY <1>0 DEF ReportInv
<1>1. ASSUME cfg.llmEnd, NEW i \in Ids PROVE Close(i) \notin seen'
  <2>1. Close(i) \notin seen
    BY <1>1 DEF ReportInv
  <2>2. ASSUME Close(i) \in seen' PROVE FALSE
    <3>1. Consumes /\ cfg.llmStart
      BY <2>1, <2>2, NewlyClosed
    <3>2. PICK c \in Llms : Head(events) = <<"end", c>> /\ ~rec[c].complete
      BY <2>1, <2>2, NewlyClosed
    <3>3. <<"end", c>> \in Waiting
      BY <1>0, <3>1, <3>2, ConsumeTakes
    <3> QED
      BY <1>1, <3>1, <3>2, <3>3 DEF ReportInv, ReportedLlm
  <2> QED
    BY <2>2
<1>2. ASSUME NEW c \in Tools PROVE ReportedTool(c)'
  <2>1. c \in Calls /\ ReportedTool(c)
    BY IdFacts DEF ReportInv
  <2>2. CASE Acts(c)
    BY <1>0, <2>1, <2>2, ToolReports
  <2>3. CASE CleanupTurn
    <3>1. rec'[c] = NoRec
      BY <2>1, <2>3 DEF CleanupTurn
    <3> QED
      BY <3>1, RecordFacts DEF ReportedTool
  <2>4. CASE ~Acts(c) /\ ~CleanupTurn
    <3>1. rec'[c] = rec[c] /\ (at'[c] = at[c] \/ at'[c] = "cancelled")
      BY <2>1, <2>4, Changes DEF CallChange
    <3> QED
      BY <1>0, <2>1, <3>1 DEF ReportedTool, Waits
  <2> QED
    BY <2>2, <2>3, <2>4
<1>3. ASSUME NEW c \in Llms PROVE ReportedLlm(c)'
  <2>0. c \in Calls /\ c \in Ids /\ ReportedLlm(c) /\ LlmRec(c)
    BY <1>0, IdFacts DEF ReportInv, BridgeInv
  <2> DEFINE Now == /\ cfg.llmEnd /\ <<"end", c>> \in Waiting' => rec'[c].complete
                    /\ at'[c] \in {"asked", "running"} /\ main' # "done" => rec'[c].start
                    /\ at'[c] = "ending" /\ main' # "done" => rec'[c].complete
                    /\ at'[c] # "idle" => alias'[c] # "none" /\ rows'[Start(alias'[c])] = 1
                    /\ cfg.llmEnd /\ at'[c] \in {"ending", "done"} /\ outcome' # "raised"
                         => rows'[Complete(alias'[c])] = 1
  <2> SUFFICES ASSUME cfg.llmStart PROVE Now
    BY <1>0 DEF ReportedLlm
  <2>1. ASSUME StartLlm(c) PROVE Now
    BY <1>0, <2>1, LlmStarts
  <2>2. ASSUME NEW ok \in BOOLEAN, EndLlm(c, ok) PROVE Now
    <3>1. /\ at[c] = "running" /\ at'[c] \notin {"asked", "running", "idle"} /\ alias' = alias
          /\ rows'[Start(alias[c])] = rows[Start(alias[c])]
          /\ rec[c].complete => rec' = rec
          /\ at'[c] = "ending" => rec'[c].complete
          /\ cfg.llmEnd /\ main # "done" => rec'[c].complete /\ rows'[Complete(alias[c])] = 1
      BY <1>0, <2>0, <2>2, LlmEnds
    <3>2. alias[c] # "none" /\ rows[Start(alias[c])] = 1
      BY <2>0, <3>1 DEF ReportedLlm
    <3>3. Acts(c)
      BY <2>2 DEF Acts
    <3>4. main' = main /\ outcome' = outcome
      BY <1>0, <2>0, <3>3, StepFrame
    <3>5. ASSUME cfg.llmEnd, <<"end", c>> \in Waiting' PROVE rec'[c].complete
      <4>1. main # "done"
        <5>1. events' # <<>>
          BY <3>5 DEF Waiting
        <5> QED
          BY <1>0, <3>4, <5>1 DEF TurnInv, Stages
      <4> QED
        BY <3>1, <3>5, <4>1
    <3>6. outcome' # "raised" => main # "done"
      <4>1. outcome # "returned"
        BY <1>0, <2>0, <3>3, CallsRun
      <4> QED
        BY <1>0, <3>4, <4>1 DEF EndInv, TypeInv, ControlTypes
    <3> QED
      BY <1>0, <3>1, <3>2, <3>4, <3>5, <3>6
  <2>5. ASSUME NEW v \in Verdicts, AnswerStart(c, v) \/ AnswerCompletion(c, v) PROVE Now
    <3>1. /\ rows' = rows /\ alias' = alias
          /\ rec'[c].start = rec[c].start /\ rec'[c].complete = rec[c].complete
          /\ \/ at[c] = "asked" /\ at'[c] \in {"running", "failed"}
             \/ at[c] = "ending" /\ at'[c] = "done"
             \/ at[c] = "failing" /\ at'[c] = "failed"
      BY <1>0, <2>5, LlmAnswers
    <3>2. Acts(c)
      BY <2>5 DEF Acts
    <3>3. main' = main /\ outcome' = outcome
      BY <1>0, <2>0, <3>2, StepFrame
    <3>4. ASSUME cfg.llmEnd, <<"end", c>> \in Waiting' PROVE rec'[c].complete
      <4>1. CASE <<"end", c>> \in Waiting
        BY <2>0, <3>1, <3>4, <4>1 DEF ReportedLlm
      <4>2. CASE <<"end", c>> \notin Waiting
        <5>1. at'[c] = "done"
          BY <1>0, <2>0, <3>2, <3>4, <4>2, CallWaits
        <5>2. main # "done"
          <6>1. events' # <<>>
            BY <3>4 DEF Waiting
          <6> QED
            BY <1>0, <3>3, <6>1 DEF TurnInv, Stages
        <5> QED
          BY <2>0, <3>1, <5>1, <5>2 DEF ReportedLlm
      <4> QED
        BY <4>1, <4>2
    <3> QED
      BY <2>0, <3>1, <3>3, <3>4 DEF ReportedLlm
  <2>3. ASSUME ~Acts(c) PROVE Now
    <3>1. /\ at'[c] = at[c] \/ (at'[c] = "cancelled" /\ at[c] \in InFlight)
          /\ alias'[c] = alias[c] /\ (rec'[c] = rec[c] \/ CleanupTurn)
          /\ <<"end", c>> \in Waiting' => <<"end", c>> \in Waiting
      BY <2>0, <2>3, Changes DEF CallChange
    <3>2. CleanupTurn => main' = "done" /\ Waiting' = {}
      BY DEF CleanupTurn, Waiting
    <3>3. cfg.llmEnd /\ <<"end", c>> \in Waiting' => rec'[c].complete
      BY <2>0, <3>1, <3>2 DEF ReportedLlm
    <3>4. /\ at'[c] \in {"asked", "running"} /\ main' # "done" => rec'[c].start
          /\ at'[c] = "ending" /\ main' # "done" => rec'[c].complete
      <4>1. main' # "done" => main # "done"
        BY Grows
      <4> QED
        BY <2>0, <3>1, <3>2, <4>1 DEF ReportedLlm
    <3>5. ASSUME at'[c] # "idle" PROVE alias'[c] # "none" /\ rows'[Start(alias'[c])] = 1
      <4>1. at[c] # "idle"
        BY <3>1, <3>5 DEF InFlight
      <4>2. alias[c] # "none" /\ rows[Start(alias[c])] = 1 /\ alias[c] \in {"pre", c}
        BY <2>0, <4>1 DEF ReportedLlm, LlmRec
      <4>3. CASE alias[c] = c
        <5>1. rows'[Start(c)] = rows[Start(c)]
          BY <2>3, CallbackRows
        <5> QED
          BY <3>1, <4>2, <4>3, <5>1
      <4>4. CASE alias[c] = "pre"
        <5>1. /\ Start("pre") \in Rows /\ ~CallbackRow(Start("pre")) /\ ~CallbackRow(Start("pre"))'
          BY RowFacts, IdFacts, CallbackFacts, <1>0 DEF CallbackRow
        <5>2. rows[Start("pre")] = Bit(Start("pre") \in seen)
          BY <1>0, <5>1 DEF SeenOnce
        <5>3. rows'[Start("pre")] = Bit(Start("pre") \in seen')
          BY <1>0, <5>1 DEF TurnInv, SeenOnce
        <5>4. Start("pre") \in seen'
          BY <1>0, <4>2, <4>4, <5>2 DEF Bit
        <5> QED
          BY <3>1, <4>2, <4>4, <5>3, <5>4 DEF Bit
      <4> QED
        BY <4>2, <4>3, <4>4
    <3>6. ASSUME cfg.llmEnd, at'[c] \in {"ending", "done"}, outcome' # "raised" PROVE rows'[Complete(alias'[c])] = 1
      <4>1. at[c] \in {"ending", "done"} /\ outcome # "raised"
        BY <3>1, <3>6, Grows
      <4>2. rows[Complete(alias[c])] = 1 /\ alias[c] # "none" /\ alias[c] \in Llms \cup {"pre"}
        BY <2>0, <3>6, <4>1 DEF ReportedLlm, LlmRec
      <4>3. ASSUME NEW d \in Llms, Acts(d), IdOf(d) = alias[c] PROVE FALSE
        BY <1>0, <2>3, <4>2, <4>3, AliasOnce DEF IdOf
      <4>4. rows'[Complete(alias[c])] = rows[Complete(alias[c])]
        BY <4>2, <4>3, CallbackRows
      <4> QED
        BY <3>1, <4>2, <4>4
    <3> QED
      BY <3>3, <3>4, <3>5, <3>6
  <2> HIDE DEF Now
  <2>4. CASE Acts(c)
    BY <1>0, <2>1, <2>2, <2>4, <2>5, LlmSteps
  <2> QED
    BY <2>3, <2>4
<1> QED
  BY <1>1, <1>2, <1>3

-----------------------------------------------------------------------------
(* Stops and refusals *)

\* Calls whose completion a callback saw stopped, and what the consumer has
\* still to raise of it;
Stopped == {c \in Calls : /\ rec[c].complete /\ rec[c].stash = "stop"
                          /\ at[c] = "done" /\ graph # "failed" => <<"end", c>> \in Waiting}

\* rows of which the consumer acts on the verdict.
Enforced == {Complete(i) : i \in Ids} \cup {Close(i) : i \in Ids} \cup {Start(c) : c \in Tools}

\* Where a call waits for an answer or a decision.
Awaits == {"asked", "held", "ending", "failing"}

\* A callback that waits for the answer to a completion has not stashed it yet.
Stashing(c) ==
  /\ at[c] \in {"ending", "failing"} => rec[c].complete \/ (main = "done" /\ rec[c] = NoRec)
  /\ rec[c].stash = "stop" => rec[c].complete /\ at[c] \notin {"ending", "failing"}

\* While a turn goes on nothing it enforces was stopped, but for completions
\* whose stop is on its way to the consumer.
DenialInv ==
  /\ main = "sending" /\ pending[1] \in Enforced => pending[2]
  /\ \A c \in Bare : at[c] \notin Awaits
  /\ \A c \in Calls : Stashing(c)
  /\ outcome = "none" =>
       /\ \A i \in Ids : Close(i) \notin denied
       /\ \A c \in Tools : c \in Bare => Start(c) \notin denied
       /\ ~cfg.bridge => \A i \in Ids : Complete(i) \notin denied
       /\ cfg.bridge => \A i \in Ids : Complete(i) \in denied => \E c \in Stopped : IdOf(c) = i
  /\ ReturnedMeansAllowed

\* Without a record a call's step neither waits for a decision nor is stopped.
LEMMA Unrecorded ==
  ASSUME TypeInv, NEW c \in Bare, Acts(c), rec[c] = NoRec, at[c] \notin Awaits
  PROVE  denied' = denied /\ at'[c] \notin Awaits
<1>0. /\ at \in [Calls -> Places] /\ ~rec[c].start /\ c \in Calls
      /\ \A x \in {"running", "failed", "done", "prepared", "cancelled"} : x \notin Awaits
  BY RecordFacts DEF TypeInv, CallTypes, PlaceTypes, Bare, Awaits
<1> DEFINE Done == denied' = denied /\ at'[c] \notin Awaits
<1>1. ASSUME PrepareTool(c) \/ ReexecuteTool(c) PROVE Done
  BY <1>0, <1>1 DEF PrepareTool, ReexecuteTool, FailCall
<1>2. ASSUME StartTool(c) PROVE Done
  <2>1. denied' = denied /\ RunBody(c)
    BY <1>0, <1>2 DEF StartTool
  <2> QED
    BY <1>0, <2>1 DEF RunBody
<1>3. /\ ~CancelTool(c) /\ \A g \in BOOLEAN : ~ReleaseTool(c, g)
      /\ \A v \in Verdicts : ~AnswerStart(c, v) /\ ~AnswerCompletion(c, v)
  BY DEF CancelTool, ReleaseTool, AnswerStart, AnswerCompletion, Awaits
<1>4. ASSUME NEW ok \in BOOLEAN, EndTool(c, ok) \/ EndLlm(c, ok) PROVE Done
  <2>1. EndBody(c, ok) /\ denied' = denied
    BY <1>4 DEF EndTool, EndLlm, SendCompletion
  <2> QED
    BY <1>0, <2>1 DEF EndBody, FailCall
<1>5. ASSUME StartLlm(c) PROVE Done
  <2>1. ~cfg.bridge
    BY <1>5, IdFacts, CallAssumption DEF StartLlm, Bare
  <2>2. denied' = denied /\ RunBody(c)
    BY <1>5, <2>1 DEF StartLlm
  <2> QED
    BY <1>0, <2>2 DEF RunBody
<1> HIDE DEF Done
<1>6. Done
  BY <1>1, <1>2, <1>3, <1>4, <1>5 DEF Acts, ToolActs
<1> QED
  BY <1>6 DEF Done

\* A step of a call denies its start or, with the verdict in the record, its
\* completion; and it keeps a stop the record holds.
LEMMA Recorded ==
  ASSUME TypeInv, BridgeInv, cfg.bridge, NEW c \in Calls \ Unbound, Acts(c), Stashing(c)
  PROVE  /\ Stashing(c)'
         /\ \/ denied' \subseteq denied \cup {Start(c)}
            \/ /\ denied' = denied \cup {Complete(IdOf(c))} /\ IdOf(c) \in Ids
               /\ main # "done" =>
                    rec'[c].complete /\ rec'[c].stash = "stop" /\ (c \in Llms => alias' = alias)
         /\ rec[c].complete /\ rec[c].stash = "stop" =>
              /\ rec'[c].complete /\ rec'[c].stash = "stop"
              /\ c \in Llms => alias'[c] = alias[c]
<1> DEFINE
    Stashed == Stashing(c)'
    Denies ==
      \/ denied' \subseteq denied \cup {Start(c)}
      \/ /\ denied' = denied \cup {Complete(IdOf(c))} /\ IdOf(c) \in Ids
         /\ main # "done" =>
              rec'[c].complete /\ rec'[c].stash = "stop" /\ (c \in Llms => alias' = alias)
    Keeps ==
      rec[c].complete /\ rec[c].stash = "stop" =>
        /\ rec'[c].complete /\ rec'[c].stash = "stop"
        /\ c \in Llms => alias'[c] = alias[c]
    Done == Stashed /\ Denies /\ Keeps
<1>0. /\ rec \in [Calls -> Record] /\ rec[c] \in Record /\ c \in Ids /\ Calls = Tools \cup Llms
      /\ Tools \cap Llms = {} /\ cfg.toolEnd \in BOOLEAN /\ cfg.llmEnd \in BOOLEAN
      /\ rec[c].start \in BOOLEAN /\ at \in [Calls -> Places]
      /\ IdOf(c) = IF c \in Tools THEN c ELSE alias[c]
  BY IdFacts, ConfigAssumption DEF TypeInv, CallTypes, PlaceTypes, ControlTypes, Record, IdOf
<1>1. main' = main /\ NoRec.stash # "stop" /\ Prepared.stash # "stop"
  BY <1>0, CallMoves DEF CallMove, NoRec, Prepared
<1>2. ASSUME rec' = rec, denied' \subseteq denied \cup {Start(c)}, alias' = alias,
             at'[c] \notin {"ending", "failing"}
      PROVE  Done
  BY <1>1, <1>2 DEF Stashing
<1>3. ASSUME c \in Tools, PrepareTool(c) PROVE Done
  <2>1. rec[c] = NoRec /\ denied' = denied
    BY <1>3 DEF PrepareTool, Ready, BridgeInv, ToolRec
  <2>2. rec'[c] \in {NoRec, Prepared} /\ at'[c] \in {"prepared", "failed"}
    BY <1>0, <1>3, <2>1 DEF PrepareTool, FailCall
  <2> QED
    BY <1>1, <2>1, <2>2, RecordFacts DEF Stashing
<1>4. ASSUME ReexecuteTool(c) \/ CancelTool(c) PROVE Done
  <2>1. UNCHANGED <<rec, alias, denied>> /\ at'[c] \in {"prepared", "cancelled"}
    BY <1>0, <1>4 DEF ReexecuteTool, CancelTool
  <2> HIDE DEF Done
  <2> QED
    BY <1>2, <2>1
<1>5. ASSUME StartTool(c) PROVE Done
  <2>1. UNCHANGED <<alias, denied>> /\ at'[c] \in {"running", "failed", "asked"}
    BY <1>0, <1>5 DEF StartTool, RunBody, FailCall
  <2>2. rec' = rec \/ rec' = [rec EXCEPT ![c].start = TRUE]
    BY <1>5 DEF StartTool
  <2>3. rec'[c].complete = rec[c].complete /\ rec'[c].stash = rec[c].stash
    BY <1>0, <2>2 DEF Record
  <2> QED
    BY <2>1, <2>3 DEF Stashing
<1>6. ASSUME NEW g \in BOOLEAN, ReleaseTool(c, g) PROVE Done
  <2>1. /\ UNCHANGED <<rec, alias>> /\ denied' \subseteq denied \cup {Start(c)}
        /\ at'[c] \in {"running", "failed"}
    BY <1>0, <1>6 DEF ReleaseTool, RunBody, FailCall
  <2> HIDE DEF Done
  <2> QED
    BY <1>2, <2>1
<1>7. ASSUME NEW v \in Verdicts, AnswerStart(c, v) PROVE Done
  <2>1. /\ UNCHANGED <<rec, alias>> /\ denied' \subseteq denied \cup {Start(c)}
        /\ at'[c] \in {"running", "failed", "held"}
    BY <1>0, <1>7 DEF AnswerStart, RunBody, FailCall
  <2> HIDE DEF Done
  <2> QED
    BY <1>2, <2>1
<1>8. ASSUME NEW id, NEW en \in BOOLEAN, NEW ok \in BOOLEAN, id \in Ids \/ rec[c] = NoRec,
             SendCompletion(c, id, en, ok), alias' = alias, denied' = denied
      PROVE  Done
  <2>1. EndBody(c, ok) => at'[c] \notin {"ending", "failing"}
    BY <1>0 DEF EndBody, FailCall
  <2>2. CASE UNCHANGED rec /\ EndBody(c, ok)
    <3> HIDE DEF Done
    <3> QED
      BY <1>2, <1>8, <2>1, <2>2
  <2>3. CASE rec[c] # NoRec /\ ~rec[c].complete /\ rec' = [rec EXCEPT ![c].complete = TRUE]
    <3>1. rec'[c].complete /\ rec'[c].stash = rec[c].stash
      BY <1>0, <2>3 DEF Record
    <3> QED
      BY <1>8, <2>3, <3>1 DEF Stashing
  <2> HIDE DEF Done
  <2> QED
    BY <1>8, <2>2, <2>3 DEF SendCompletion
<1>9. ASSUME NEW ok \in BOOLEAN, EndTool(c, ok) PROVE Done
  <2>1. SendCompletion(c, c, cfg.toolEnd, ok) /\ alias' = alias /\ denied' = denied
    BY <1>9 DEF EndTool
  <2> HIDE DEF Done
  <2> QED
    BY <1>0, <1>8, <2>1
<1>10. ASSUME NEW ok \in BOOLEAN, EndLlm(c, ok) PROVE Done
  <2>1. /\ SendCompletion(c, alias[c], cfg.llmEnd /\ rec[c].start, ok) /\ alias' = alias
        /\ denied' = denied /\ c \in Llms
    BY <1>10 DEF EndLlm
  <2>2. alias[c] \in Ids \/ rec[c] = NoRec
    BY <2>1 DEF TypeInv, CallTypes
  <2>3. (cfg.llmEnd /\ rec[c].start) \in BOOLEAN
    BY <1>0
  <2> HIDE DEF Done
  <2> QED
    BY <1>8, <2>1, <2>2, <2>3
<1>11. ASSUME NEW v \in Verdicts, AnswerCompletion(c, v) PROVE Done
  <2>1. /\ at[c] \in {"ending", "failing"} /\ at'[c] \in {"done", "failed"} /\ alias' = alias
        /\ rec'[c].complete = rec[c].complete /\ (rec[c] = NoRec => rec' = rec)
        /\ rec[c] # NoRec => rec'[c].stash = v
    BY <1>11, Answered
  <2>2. denied' = IF v = "stop" THEN denied \cup {Complete(IdOf(c))} ELSE denied
    BY <1>0, <1>11 DEF AnswerCompletion
  <2>3. IdOf(c) \in Ids
    BY <1>0, <2>1 DEF TypeInv, CallTypes, PlaceTypes
  <2>4. /\ rec[c].stash # "stop" /\ (main # "done" => rec[c].complete)
        /\ rec[c] # NoRec => rec[c].complete
    <3>1. c \in Tools => c \in Tools \ Unbound
      BY <1>0
    <3> QED
      BY <2>1 DEF Stashing
  <2>5. rec[c].complete => rec[c] # NoRec
    BY RecordFacts
  <2> QED
    BY <1>1, <2>1, <2>2, <2>3, <2>4, <2>5 DEF Stashing
<1>12. ASSUME StartLlm(c) PROVE Done
  <2>1. rec[c] = NoRec /\ denied' = denied /\ at'[c] \in {"running", "asked"}
    BY <1>0, <1>12 DEF StartLlm, Ready, BridgeInv, LlmRec, RunBody
  <2>2. rec' = [rec EXCEPT ![c] = [Prepared EXCEPT !.start =
                  (pre /\ \A d \in Llms : alias[d] # "pre") \/ cfg.llmStart]]
    BY <1>12 DEF StartLlm
  <2>3. rec'[c].stash = "none"
    BY <1>0, <2>2 DEF Prepared
  <2> QED
    BY <2>1, <2>3, RecordFacts DEF Stashing
<1> HIDE DEF Done
<1>13. Done
  <2>1. CASE c \in Tools /\ ToolActs(c)
    BY <1>3, <1>4, <1>5, <1>6, <2>1 DEF ToolActs
  <2> QED
    BY <1>7, <1>9, <1>10, <1>11, <1>12, <2>1 DEF Acts
<1> QED
  BY <1>13 DEF Done

\* The consumer raises for every verdict it enforces.
LEMMA SettleDenies ==
  ASSUME Settles
  PROVE  \/ denied' = denied
         \/ denied' = denied \cup {pending[1]} /\ outcome' = "raised"
         \/ denied' = denied \cup {pending[1]} /\ main = "sending" /\ ~pending[2]
<1>1. ASSUME NEW v \in Answers, Respond(v)
      PROVE  \/ denied' = denied
             \/ denied' = denied \cup {pending[1]} /\ outcome' = "raised"
             \/ denied' = denied \cup {pending[1]} /\ main = "sending" /\ ~pending[2]
  BY <1>1 DEF Respond, Raise
<1>2. ASSUME NEW g \in BOOLEAN, Approval(g)
      PROVE  denied' = denied \/ (denied' = denied \cup {pending[1]} /\ outcome' = "raised")
  BY <1>2 DEF Approval, Raise
<1>3. EndOfStream \/ Abandon => denied' = denied
  BY DEF EndOfStream, Abandon
<1> QED
  BY <1>1, <1>2, <1>3 DEF Settles

\* Who denies a row.
LEMMA NewlyDenied ==
  ASSUME TurnInv, DenialInv, [Next]_vars, NEW r \in denied' \ denied
  PROVE  \/ r = Start("pre")
         \/ Settles /\ r = pending[1] /\ (outcome' = "raised" \/ r \notin Enforced)
         \/ \E c \in Calls \ Bare : Acts(c)
<1>0. TypeInv /\ Stages
  BY DEF TurnInv
<1>1. CASE Screens
  BY <1>1 DEF Screens, PreScreenStep, SendSignal, SendWorkflow, PreScreen, PreScreenApproval, BeginStream
<1>2. CASE Consumes
  BY <1>0, <1>2, ConsumeMoves
<1>3. CASE Settles
  BY <1>3, SettleDenies DEF DenialInv
<1>4. CASE CleanupTurn
  BY <1>4 DEF CleanupTurn
<1>5. ASSUME NEW c \in Calls, Acts(c)
      PROVE  \E d \in Calls \ Bare : Acts(d)
  <2>1. c \in Bare => denied' = denied
    <3> SUFFICES ASSUME c \in Bare PROVE denied' = denied
      OBVIOUS
    <3>1. rec[c] = NoRec /\ at[c] \notin Awaits
      BY <1>0 DEF Stages, DenialInv, Bare
    <3> QED
      BY <1>0, <1>5, <3>1, Unrecorded
  <2> QED
    BY <1>5, <2>1
<1>6. CASE FinishGraph \/ FailGraph
  BY <1>6 DEF FinishGraph, FailGraph
<1>7. CASE UNCHANGED vars
  BY <1>7 DEF vars
<1> QED
  BY <1>1, <1>2, <1>3, <1>4, <1>5, <1>6, <1>7, NextSteps


\* A turn that returns does so with an empty stream and a finished graph, and
\* nothing of it moves any more.
LEMMA Returns ==
  ASSUME TurnInv, EndInv, [Next]_vars
  PROVE  /\ outcome' = "none" => outcome = "none"
         /\ outcome' = "returned" =>
              /\ UNCHANGED <<cfg, denied, at, alias, graph>> /\ graph = "finished"
              /\ outcome = "returned" \/ (outcome = "none" /\ events = <<>>)
<1> DEFINE Outcomes ==
      /\ outcome' = "none" => outcome = "none"
      /\ outcome' = "returned" =>
           /\ UNCHANGED <<cfg, denied, at, alias, graph>> /\ graph = "finished"
           /\ outcome = "returned" \/ (outcome = "none" /\ events = <<>>)
<1>0. TypeInv /\ Stages
  BY DEF TurnInv
<1>1. ASSUME Screens PROVE Outcomes
  <2>1. outcome = "none" /\ (outcome' = "raised" \/ outcome' = outcome)
    BY <1>1, PreScreenEnds DEF EndInv, Screening
  <2> QED
    BY <2>1
<1>2. ASSUME Consumes PROVE Outcomes
  <2>1. outcome = "none" /\ (outcome' = "raised" \/ outcome' = outcome)
    BY <1>0, <1>2, ConsumeMoves, ConsumeReports DEF EndInv, Quiet, Sent
  <2> QED
    BY <2>1
<1>3. ASSUME Settles PROVE Outcomes
  <2>1. outcome = "none" /\ UNCHANGED <<cfg, at, alias, graph>>
    BY <1>3, SettleMoves DEF EndInv, SettleMove, calls
  <2>2. CASE main' = "cleanup" /\ outcome' = "returned" /\ main = "stream" /\ graph = "finished" /\ events = <<>>
    <3>1. denied' = denied
      BY <1>3, <2>2, SettleDenies
    <3> QED
      BY <2>1, <2>2, <3>1
  <2>3. CASE outcome' = "raised" \/ outcome' = outcome
    BY <2>1, <2>3
  <2> QED
    BY <1>3, <2>2, <2>3, SettleEnds
<1>4. ASSUME CleanupTurn PROVE Outcomes
  <2>1. UNCHANGED <<cfg, denied, at, alias, graph, outcome>>
    BY <1>4 DEF CleanupTurn, consumer, calls
  <2> QED
    BY <2>1 DEF EndInv
<1>5. ASSUME NEW c \in Calls, Acts(c) PROVE Outcomes
  <2>1. outcome' = outcome /\ outcome # "returned"
    BY <1>0, <1>5, CallMoves, CallsRun DEF CallMove, consumer
  <2> QED
    BY <2>1
<1>6. ASSUME FinishGraph \/ FailGraph PROVE Outcomes
  <2>1. outcome' = outcome /\ outcome # "returned"
    BY <1>6 DEF FinishGraph, FailGraph, consumer, EndInv
  <2> QED
    BY <2>1
<1>7. ASSUME UNCHANGED vars PROVE Outcomes
  BY <1>7 DEF vars, consumer, calls, EndInv
<1> HIDE DEF Outcomes
<1>8. Outcomes
  BY <1>1, <1>2, <1>3, <1>4, <1>5, <1>6, <1>7, NextSteps
<1> QED
  BY <1>8 DEF Outcomes

\* A stop a callback saw stays on its way until the consumer raises.
LEMMA StopWaits ==
  ASSUME TurnInv, EndInv, [Next]_vars, cfg.bridge, outcome' = "none",
         NEW c \in Stopped, at'[c] = "done", graph' # "failed"
  PROVE  <<"end", c>> \in Waiting'
<1>1. c \in Calls /\ rec[c].complete /\ rec[c].stash = "stop"
      /\ (at[c] = "done" /\ graph # "failed" => <<"end", c>> \in Waiting)
  BY DEF Stopped
<1>2. outcome' # "raised"
  OBVIOUS
<1>3. graph # "failed" /\ outcome # "raised" /\ (<<"end", c>> \in Waiting' \/ at[c] = "done")
  BY <1>1, <1>2, EndsQueued
<1>4. CASE <<"end", c>> \in Waiting
  <2>1. Consumes /\ Head(events) = <<"end", c>> => outcome' = "raised"
    BY <1>1, ConsumeSettles
  <2> QED
    BY <1>1, <1>2, <1>3, <1>4, <2>1, WaitsOn
<1> QED
  BY <1>1, <1>3, <1>4

\* Every step keeps account of what was denied.
LEMMA NextDenialInv == ASSUME TurnInv, EndInv, DenialInv, [Next]_vars PROVE DenialInv'
<1>0. /\ TypeInv /\ Stages /\ BridgeInv /\ cfg' = cfg
      /\ \A i \in Ids : /\ Complete(i) \in Enforced /\ Close(i) \in Enforced
                        /\ Complete(i) # Start("pre") /\ Close(i) # Start("pre")
      /\ \A c \in Tools : Start(c) \in Enforced /\ Start(c) # Start("pre") /\ c \in Calls
  BY Grows, RowFacts, IdFacts DEF TurnInv, Enforced
<1>1. ASSUME main' = "sending", pending'[1] \in Enforced PROVE pending'[2]
  <2>1. CASE UNCHANGED <<main, pending>>
    BY <1>1, <2>1 DEF DenialInv
  <2>2. CASE Screens
    BY <1>1, <2>2, PreScreenEnds DEF Screening
  <2>3. CASE Consumes
    <3>1. PICK r \in Rows : Sent(r)
      BY <1>1, <2>3, ConsumeReports DEF Quiet
    <3>2. Reports(r) /\ r \in Enforced
      BY <1>1, <3>1 DEF Sent
    <3>3. \A c \in Tools : r \in {Start(c), Complete(c)} => pending'[2] = TRUE
      BY <3>2, Reasons
    <3>4. (\A i \in Ids \ Tools : r # Complete(i)) /\ (\A i \in Ids : r = Close(i) => pending'[2] = TRUE)
      BY <3>2, Reasons
    <3> QED
      BY <3>2, <3>3, <3>4 DEF Enforced
  <2>4. CASE Settles
    BY <1>1, <2>4, SettleMoves DEF SettleMove
  <2>5. CASE CleanupTurn
    BY <1>1, <2>5 DEF CleanupTurn
  <2>6. ASSUME NEW c \in Calls, Acts(c) PROVE UNCHANGED <<main, pending>>
    BY <1>0, <2>6, StepFrame
  <2>7. CASE FinishGraph \/ FailGraph
    BY <2>1, <2>7 DEF FinishGraph, FailGraph, consumer
  <2>8. CASE UNCHANGED vars
    BY <2>1, <2>8 DEF vars, consumer
  <2> QED
    BY <2>1, <2>2, <2>3, <2>4, <2>5, <2>6, <2>7, <2>8, NextSteps
<1>2. ASSUME NEW c \in Bare PROVE at'[c] \notin Awaits
  <2>1. c \in Calls /\ at[c] \notin Awaits /\ rec[c] = NoRec
    BY <1>0 DEF DenialInv, Stages, Bare
  <2>2. CASE Acts(c)
    BY <1>0, <2>1, <2>2, Unrecorded
  <2>3. CASE ~Acts(c)
    BY <2>1, <2>3, Changes DEF CallChange, Awaits
  <2> QED
    BY <2>2, <2>3
<1>7. ASSUME NEW c \in Calls PROVE Stashing(c)'
  <2>0. Stashing(c) /\ (main = "done" => main' = "done")
    BY Grows DEF DenialInv
  <2>1. CASE c \in Bare /\ ~CleanupTurn
    <3>1. rec[c] = NoRec /\ at'[c] \notin Awaits
      BY <1>0, <1>2, <2>1 DEF Stages, Bare
    <3>2. rec'[c] = NoRec
      <4>1. CASE Acts(c)
        BY <1>0, <2>1, <3>1, <4>1, RecordsKept DEF Bare
      <4>2. CASE ~Acts(c)
        BY <2>1, <3>1, <4>2, Changes DEF CallChange
      <4> QED
        BY <4>1, <4>2
    <3> QED
      BY <3>1, <3>2 DEF Stashing, Awaits, NoRec
  <2>2. CASE c \notin Bare /\ Acts(c)
    BY <1>0, <2>0, <2>2, Recorded DEF Bare
  <2>3. CASE ~Acts(c) /\ ~CleanupTurn
    <3>1. /\ rec'[c] = rec[c]
          /\ at'[c] \in {"ending", "failing"} => at[c] = at'[c]
          /\ at[c] \in {"ending", "failing"} \/ at'[c] \notin {"ending", "failing"}
      BY <2>3, Changes DEF CallChange
    <3> QED
      BY <2>0, <3>1 DEF Stashing
  <2>4. CASE CleanupTurn
    <3>1. main' = "done" /\ rec'[c] = NoRec
      BY <2>4 DEF CleanupTurn
    <3> QED
      BY <3>1 DEF Stashing, NoRec
  <2> QED
    BY <2>1, <2>2, <2>3, <2>4
<1>8. ASSUME NEW c \in Calls \ Bare, Acts(c)
      PROVE  /\ \/ denied' \subseteq denied \cup {Start(c)}
                \/ /\ denied' = denied \cup {Complete(IdOf(c))} /\ IdOf(c) \in Ids
                   /\ main # "done" =>
                        rec'[c].complete /\ rec'[c].stash = "stop" /\ (c \in Llms => alias' = alias)
             /\ rec[c].complete /\ rec[c].stash = "stop" =>
                  /\ rec'[c].complete /\ rec'[c].stash = "stop"
                  /\ c \in Llms => alias'[c] = alias[c]
  <2>1. Stashing(c) /\ cfg.bridge /\ c \in Calls \ Unbound
    BY DEF DenialInv, Bare
  <2> QED
    BY <1>0, <1>8, <2>1, Recorded
<1>3. ASSUME outcome' = "none", NEW i \in Ids PROVE Close(i) \notin denied'
  <2>1. Close(i) \notin denied
    BY <1>3, Returns DEF DenialInv
  <2>2. ASSUME NEW c \in Calls \ Bare, Acts(c) PROVE Close(i) \notin denied'
    <3>1. (\A j \in Ids : Close(i) # Complete(j) /\ Close(i) # Start(j)) /\ c \in Ids
      BY RowFacts, IdFacts
    <3> QED
      BY <1>8, <2>1, <2>2, <3>1
  <2> QED
    BY <1>0, <1>3, <2>1, <2>2, NewlyDenied
<1>4. ASSUME outcome' = "none" PROVE \A c \in Tools : c \in Bare => Start(c) \notin denied'
  <2> SUFFICES ASSUME NEW c \in Tools, c \in Bare PROVE Start(c) \notin denied'
    OBVIOUS
  <2>1. Start(c) \notin denied /\ Start(c) \in Enforced /\ Start(c) # Start("pre")
    BY <1>0, <1>4, Returns DEF DenialInv
  <2>2. ASSUME NEW d \in Calls \ Bare, Acts(d) PROVE Start(c) \notin denied'
    <3>1. c # d /\ c \in Ids /\ d \in Ids
      BY <1>0, IdFacts
    <3>2. Start(c) # Start(d) /\ \A j \in Ids : Start(c) # Complete(j)
      BY <3>1, RowFacts
    <3> QED
      BY <1>8, <2>1, <2>2, <3>2
  <2> QED
    BY <1>4, <2>1, <2>2, NewlyDenied
<1>9. ASSUME outcome' = "none", ~cfg.bridge PROVE \A i \in Ids : Complete(i) \notin denied'
  <2>1. (\A i \in Ids : Complete(i) \notin denied) /\ Calls \subseteq Bare
    BY <1>9, Returns DEF DenialInv, Bare
  <2>2. \A r \in Enforced : r # Start("pre") => r \notin denied' \ denied
    BY <1>9, <2>1, NewlyDenied
  <2> QED
    BY <1>0, <2>1, <2>2
<1>5. ASSUME outcome' = "none", cfg.bridge, NEW i \in Ids, Complete(i) \in denied'
      PROVE  \E c \in Stopped' : IdOf(c)' = i
  <2>0. outcome = "none" /\ main # "done" /\ ~CleanupTurn
    <3>1. outcome = "none"
      BY <1>5, Returns
    <3> QED
      BY <3>1 DEF EndInv, CleanupTurn
  <2>1. CASE Complete(i) \in denied
    <3>1. PICK c \in Stopped : IdOf(c) = i
      BY <1>5, <2>0, <2>1 DEF DenialInv
    <3>2. c \in Calls /\ rec[c].complete /\ rec[c].stash = "stop"
      BY <3>1 DEF Stopped
    <3>3. rec'[c].complete /\ rec'[c].stash = "stop" /\ (c \in Llms => alias'[c] = alias[c])
      <4>1. CASE Acts(c)
        <5>1. c \notin Bare
          BY <1>0, <3>2, RecordFacts DEF Stages, Bare
        <5> QED
          BY <1>8, <3>2, <4>1, <5>1
      <4>2. CASE ~Acts(c)
        BY <2>0, <3>2, <4>2, Changes DEF CallChange
      <4> QED
        BY <4>1, <4>2
    <3>4. at'[c] = "done" /\ graph' # "failed" => <<"end", c>> \in Waiting'
      BY <1>5, <3>1, StopWaits
    <3>5. IdOf(c)' = i
      BY <3>1, <3>3 DEF IdOf
    <3> QED
      BY <3>2, <3>3, <3>4, <3>5 DEF Stopped
  <2>2. CASE Complete(i) \notin denied
    <3>1. PICK c \in Calls \ Bare : Acts(c) /\ Complete(i) \in denied' \ denied
      <4>1. PICK d \in Calls \ Bare : Acts(d)
        BY <1>0, <1>5, <2>2, NewlyDenied
      <4> QED
        BY <1>5, <2>2, <4>1
    <3>2. c \in Ids /\ Complete(i) # Start(c)
      BY IdFacts, RowFacts
    <3>3. /\ denied' = denied \cup {Complete(IdOf(c))} /\ IdOf(c) \in Ids
          /\ rec'[c].complete /\ rec'[c].stash = "stop" /\ (c \in Llms => alias' = alias)
      BY <1>8, <2>0, <3>1, <3>2
    <3>4. IdOf(c) = i
      BY <3>1, <3>3, RowFacts
    <3>5. IdOf(c)' = i
      BY <3>3, <3>4 DEF IdOf
    <3>6. at'[c] = "done" /\ graph' # "failed" => <<"end", c>> \in Waiting'
      BY <1>0, <2>0, <3>1, CallWaits, StepFrame
    <3> QED
      BY <3>3, <3>5, <3>6 DEF Stopped
  <2> QED
    BY <2>1, <2>2
<1>6. ReturnedMeansAllowed'
  <2> SUFFICES ASSUME outcome' = "returned" PROVE ReturnedMeansAllowed'
    BY DEF ReturnedMeansAllowed
  <2>1. UNCHANGED <<cfg, denied, at, alias>> /\ graph = "finished"
    BY Returns
  <2>2. CASE outcome = "returned"
    BY <2>1, <2>2 DEF DenialInv, ReturnedMeansAllowed
  <2>3. CASE outcome = "none" /\ events = <<>>
    <3>1. Waiting = {}
      BY <2>3 DEF Waiting
    <3>2. \A c \in Stopped : at[c] # "done"
      BY <2>1, <3>1 DEF Stopped
    <3>3. \A i \in Ids : Close(i) \notin denied
      BY <2>3 DEF DenialInv
    <3>4. ~cfg.bridge => \A i \in Ids : Complete(i) \notin denied
      BY <2>3 DEF DenialInv
    <3>9. \A c \in Tools : ~cfg.bridge \/ c \in Unbound => Start(c) \notin denied
      BY <1>0, <2>3 DEF DenialInv, Bare
    <3>5. ASSUME cfg.bridge, NEW i \in Ids, Complete(i) \in denied PROVE \E c \in Stopped : IdOf(c) = i
      BY <2>3, <3>5 DEF DenialInv
    <3>6. ASSUME NEW c \in Tools, at[c] = "done" PROVE Complete(c) \notin denied
      <4>1. ASSUME cfg.bridge, NEW d \in Stopped, IdOf(d) = c PROVE FALSE
        <5>1. d \in Calls /\ (d \in Llms => alias[d] \in {"none", "pre", d})
          BY <1>0, <4>1 DEF BridgeInv, LlmRec, Stopped
        <5>2. d = c
          BY <3>6, <4>1, <5>1, IdFacts DEF IdOf
        <5> QED
          BY <3>2, <3>6, <5>2
      <4> QED
        BY <3>4, <3>5, <4>1, IdFacts
    <3>7. ASSUME NEW c \in Llms, at[c] = "done", NEW i \in Ids,
                 i = c \/ i = alias[c]
          PROVE  Complete(i) \notin denied
      <4>1. ASSUME cfg.bridge, NEW d \in Stopped, IdOf(d) = i PROVE FALSE
        <5>1. d \in Calls /\ (\A e \in Llms : alias[e] \in {"none", "pre", e})
          BY <1>0, <4>1 DEF BridgeInv, LlmRec, Stopped
        <5>2. d \in Llms
          <6>1. d \notin Tools
            BY <3>7, <4>1, <5>1, IdFacts DEF IdOf
          <6> QED
            BY <5>1, <6>1, IdFacts
        <5>3. alias[d] = i /\ i # "none"
          BY <4>1, <5>2, IdFacts DEF IdOf
        <5>4. CASE i = c
          BY <3>7, <5>1, <5>2, <5>3, <5>4, <3>2, <4>1, IdFacts
        <5>5. CASE i = alias[c]
          BY <1>0, <3>2, <3>7, <4>1, <5>2, <5>3, <5>5, AliasOnce
        <5> QED
          BY <3>7, <5>4, <5>5
      <4> QED
        BY <3>4, <3>5, <4>1
    <3>8. ASSUME NEW c \in Llms, at[c] = "done"
          PROVE  /\ Close(c) \notin denied /\ Complete(c) \notin denied
                 /\ alias[c] = "pre" => Complete("pre") \notin denied
      BY <3>3, <3>7, <3>8, IdFacts
    <3> QED
      BY <2>1, <3>6, <3>8, <3>9 DEF ReturnedMeansAllowed
  <2> QED
    BY <2>2, <2>3, Returns
<1>10. Bare' = Bare
  BY <1>0 DEF Bare
<1> QED
  BY <1>0, <1>1, <1>2, <1>3, <1>4, <1>5, <1>6, <1>7, <1>9, <1>10 DEF DenialInv

-----------------------------------------------------------------------------
(* What holds of every turn *)

FlowInv ==
  /\ TurnInv /\ EndInv /\ SessionInv /\ ClaimInv /\ CloseInv
  /\ OrderInv /\ FallbackInv /\ ReportInv /\ DenialInv

\* A turn starts with an empty stream and nothing seen, claimed or denied.
LEMMA InitFlowInv == Init => FlowInv
<1> SUFFICES ASSUME Init PROVE FlowInv
  OBVIOUS
<1>1. TurnInv
  BY InitTurnInv
<1>2. /\ main = "signal" /\ outcome = "none" /\ graph = "idle" /\ events = <<>> /\ Len(events) = 0
      /\ opened = {} /\ claimed = {} /\ seen = {} /\ denied = {} /\ pre = FALSE /\ wfSent = FALSE
      /\ \A c \in Calls : at[c] = "idle" /\ rec[c] = NoRec
      /\ \A c \in Llms : alias[c] = "none" /\ c \in Calls
      /\ \A c \in Tools : c \in Calls
      /\ \A r \in Rows : rows[r] = 0
  BY IdFacts DEF Init
<1>3. Waiting = {}
  BY <1>2 DEF Waiting
<1>4. EndInv /\ SessionInv
  BY <1>2 DEF EndInv, SessionInv, Screening, InFlight
<1>5. ClaimInv
  <2>1. main # "prompt approval" /\ \A c \in Llms : alias[c] # "pre"
    BY <1>2
  <2>2. ASSUME NEW c \in Llms PROVE StreamClaim(c) /\ CallbackClaim(c)
    <3>1. c # "none" /\ alias[c] = "none"
      BY <1>2, IdFacts
    <3> QED
      BY <1>2, <3>1 DEF StreamClaim, CallbackClaim
  <2> QED
    BY <1>2, <2>1, <2>2 DEF ClaimInv
<1>6. CloseInv
  <2>1. \A i \in Llms \cup {"pre"} : rows[Complete(i)] = 0
    BY <1>2, RowFacts, IdFacts
  <2> QED
    BY <1>2, <1>3, <2>1 DEF CloseInv
<1>7. OrderInv
  <2>1. \A c \in Calls : c \in InOrder
    BY <1>2 DEF InOrder
  <2> QED
    BY <1>2, <2>1 DEF OrderInv, Bare
<1>8. FallbackInv
  BY <1>2 DEF FallbackInv
<1>9. ReportInv
  <2>1. ASSUME NEW c \in Tools PROVE ReportedTool(c)
    BY <1>2, RecordFacts DEF ReportedTool
  <2>2. ASSUME NEW c \in Llms PROVE ReportedLlm(c)
    BY <1>2, <1>3 DEF ReportedLlm
  <2> QED
    BY <1>2, <2>1, <2>2 DEF ReportInv
<1>10. DenialInv
  <2>1. \A c \in Calls : Stashing(c) /\ at[c] \notin Awaits
    BY <1>2 DEF Stashing, Awaits, NoRec
  <2> QED
    BY <1>2, <2>1 DEF DenialInv, ReturnedMeansAllowed, Bare
<1> QED
  BY <1>1, <1>4, <1>5, <1>6, <1>7, <1>8, <1>9, <1>10 DEF FlowInv

\* Every step keeps all of it;
LEMMA NextFlowInv == FlowInv /\ [Next]_vars => FlowInv'
  BY NextTurnInv, NextEndInv, NextSessionInv, NextClaimInv, NextCloseInv, NextOrderInv,
     NextFallbackInv, NextReportInv, NextDenialInv DEF FlowInv

\* so it holds throughout.
LEMMA SpecFlowInv == Spec => []FlowInv
  BY InitFlowInv, NextFlowInv, PTL DEF Spec

\* The client's count of a row that no callback sends.
LEMMA Counts ==
  ASSUME TurnInv, NEW r \in Rows, ~CallbackRow(r)
  PROVE  (r \in seen => rows[r] = 1) /\ (r \notin seen => rows[r] = 0)
  BY DEF TurnInv, SeenOnce, Bit

-----------------------------------------------------------------------------
(* What follows *)

\* Of the calls of a screened turn the first, for callbacks or consumer, takes
\* the pre-screen's row and opens none; every other one opens its own.
THEOREM PreScreenStandsForOneCall == Spec => []PreScreenRowReused
<1>1. FlowInv => PreScreenRowReused
  <2> SUFFICES ASSUME FlowInv PROVE PreScreenRowReused
    OBVIOUS
  <2> DEFINE
      began == IF cfg.bridge THEN {c \in Llms : alias[c] # "none"} ELSE opened
      first == IF cfg.bridge THEN {c \in Llms : alias[c] = "pre"} ELSE claimed
  <2>0. /\ TurnInv /\ TypeInv /\ BridgeInv /\ ClaimInv /\ opened \subseteq Llms /\ claimed \subseteq Llms
        /\ \A c \in Llms : Start(c) \in Rows /\ c \in Ids /\ c # "none"
        /\ ~cfg.bridge => \A c \in Llms : ~CallbackRow(Start(c))
    <3>1. TurnInv /\ TypeInv /\ BridgeInv /\ ClaimInv
      BY DEF FlowInv, TurnInv
    <3>2. opened \subseteq Llms /\ claimed \subseteq Llms
      BY <3>1 DEF TypeInv, SetTypes
    <3> QED
      BY <3>1, <3>2, RowFacts, IdFacts DEF CallbackRow
  <2>1. first = {} <=> ~pre \/ began = {}
    <3>1. CASE cfg.bridge
      <4>1. ASSUME NEW c \in Llms, alias[c] = "pre" PROVE pre /\ alias[c] # "none"
        BY <2>0, <3>1, <4>1 DEF ClaimInv, CallbackClaim
      <4>2. ASSUME NEW c \in Llms, alias[c] # "none", pre PROVE \E d \in Llms : alias[d] = "pre"
        BY <2>0, <3>1, <4>2 DEF ClaimInv, CallbackClaim
      <4> QED
        BY <3>1, <4>1, <4>2
    <3>2. CASE ~cfg.bridge
      BY <2>0, <3>2 DEF ClaimInv
    <3> QED
      BY <3>1, <3>2
  <2>2. ASSUME NEW c \in first, NEW d \in first PROVE c = d
    <3>1. CASE cfg.bridge
      BY <2>0, <2>2, <3>1 DEF BridgeInv, LlmRec
    <3>2. CASE ~cfg.bridge
      BY <2>0, <2>2, <3>2 DEF ClaimInv
    <3> QED
      BY <3>1, <3>2
  <2>3. Cardinality(first) <= 1
    <3>1. CASE first = {}
      <4>1. Cardinality({}) = 0
        BY FS_EmptySet
      <4> QED
        BY <3>1, <4>1
    <3>2. CASE first # {}
      <4>1. PICK c \in first : first = {c}
        BY <2>2, <3>2
      <4>2. Cardinality({c}) = 1
        BY FS_Singleton
      <4> QED
        BY <4>1, <4>2
    <3> QED
      BY <3>1, <3>2
  <2>4. first # {} => rows[Start("pre")] = 1
    <3>1. Start("pre") \in Rows /\ ~CallbackRow(Start("pre"))
      BY RowFacts, IdFacts, CallbackFacts
    <3>2. first # {} => Start("pre") \in seen
      BY <2>0, <2>1 DEF ClaimInv
    <3> QED
      BY <2>0, <3>1, <3>2, Counts
  <2>5. ASSUME NEW c \in first PROVE rows[Start(c)] = 0
    <3>1. CASE cfg.bridge
      BY <2>0, <2>5, <3>1 DEF ClaimInv, CallbackClaim
    <3>2. CASE ~cfg.bridge
      <4>1. Start(c) \notin seen
        BY <2>0, <2>5, <3>2 DEF ClaimInv, StreamClaim
      <4> QED
        BY <2>0, <2>5, <3>2, <4>1, Counts
    <3> QED
      BY <3>1, <3>2
  <2>6. ASSUME cfg.llmStart, NEW c \in began \ first PROVE rows[Start(c)] = 1
    <3>1. CASE cfg.bridge
      <4>1. c \in Llms /\ alias[c] = c
        BY <2>0, <2>6, <3>1 DEF BridgeInv, LlmRec
      <4>2. rows[Start(c)] # 0
        BY <2>0, <2>6, <3>1, <4>1 DEF ClaimInv, CallbackClaim
      <4>3. rows[Start(c)] \in Nat /\ rows[Start(c)] <= 1
        BY <2>0, <3>1, <4>1, CountedType DEF BridgeInv, LlmRec, TypeInv
      <4> QED
        BY <4>2, <4>3
    <3>2. CASE ~cfg.bridge
      <4>1. Start(c) \in seen
        BY <2>0, <2>6, <3>2 DEF ClaimInv, StreamClaim
      <4> QED
        BY <2>0, <2>6, <3>2, <4>1, Counts
    <3> QED
      BY <3>1, <3>2
  <2> HIDE DEF began, first
  <2>7. /\ first = {} <=> ~pre \/ began = {}
        /\ Cardinality(first) <= 1
        /\ first # {} => rows[Start("pre")] = 1
        /\ \A c \in first : rows[Start(c)] = 0
        /\ cfg.llmStart => \A c \in began \ first : rows[Start(c)] = 1
    BY <2>1, <2>3, <2>4, <2>5, <2>6
  <2> QED
    BY <2>7 DEF PreScreenRowReused, began, first
<1> QED
  BY <1>1, SpecFlowInv, PTL

\* A turn that returns has overlooked no stop and no refusal, whoever sent the
\* row: what a callback stashed was raised when the call's end was consumed.
THEOREM ReturnsOverlookNoStop == Spec => []ReturnedMeansAllowed
<1>1. FlowInv => ReturnedMeansAllowed
  BY DEF FlowInv, DenialInv
<1> QED
  BY <1>1, SpecFlowInv, PTL

\* In a turn that returns each model call that was reported and answered has its
\* completion reported once, by the callback or by the consumer and never by both.
THEOREM AnsweredCallsAreCompletedOnce == Spec => []LlmCompletedOnce
<1>1. ASSUME FlowInv, outcome = "returned", cfg.llmStart, cfg.bridge => cfg.llmEnd,
             NEW c \in Llms, at[c] = "done", c \in Silent => cfg.bridge
      PROVE  /\ rows[Start(LlmRow(c))] = 1
             /\ rows[Close(LlmRow(c))] + rows[Complete(LlmRow(c))] = 1
  <2>0. /\ TurnInv /\ TypeInv /\ c \in Calls /\ c \in Ids /\ "pre" \in Ids /\ events = <<>>
        /\ graph = "finished"
    BY <1>1, IdFacts DEF FlowInv, TurnInv, EndInv
  <2>1. CASE cfg.bridge
    <3>1. rows[Start(alias[c])] = 1 /\ alias[c] # "none" /\ rows[Complete(alias[c])] = 1
      BY <1>1, <2>1 DEF FlowInv, ReportInv, ReportedLlm
    <3>2. alias[c] \in Ids
      BY <2>0, <3>1 DEF TypeInv, CallTypes
    <3>3. Close(alias[c]) \notin seen
      BY <1>1, <2>1, <3>2 DEF FlowInv, ReportInv
    <3>4. rows[Close(alias[c])] = 0
      BY <2>0, <3>2, <3>3, Counts, RowFacts, CallbackFacts
    <3>5. LlmRow(c) = alias[c]
      BY <2>1 DEF LlmRow
    <3> QED
      BY <3>1, <3>4, <3>5
  <2>2. CASE ~cfg.bridge
    <3> DEFINE id == ClaimedId[c]
    <3>1. id = (IF c \in claimed THEN "pre" ELSE c) /\ id \in Ids /\ id \in Llms \cup {"pre"}
      BY <2>0 DEF ClaimedId
    <3>2. /\ \A i \in Ids : Start(i) \in Rows /\ Close(i) \in Rows /\ Complete(i) \in Rows
          /\ \A i \in Ids : ~CallbackRow(Start(i)) /\ ~CallbackRow(Close(i)) /\ ~CallbackRow(Complete(i))
      BY <2>2, RowFacts DEF CallbackRow
    <3>3. Close(id) \in seen
      <4>1. Waiting = {}
        BY <2>0 DEF Waiting
      <4> QED
        BY <1>1, <2>0, <2>2, <4>1 DEF FlowInv, FallbackInv
    <3>4. Complete(id) \notin seen
      BY <1>1, <2>2, <3>1 DEF FlowInv, FallbackInv
    <3>5. Start(id) \in seen
      <4>1. CASE c \in claimed
        BY <1>1, <3>1, <4>1 DEF FlowInv, ClaimInv
      <4>2. CASE c \notin claimed
        BY <1>1, <2>2, <3>1, <3>3, <4>2 DEF FlowInv, FallbackInv
      <4> QED
        BY <4>1, <4>2
    <3>6. rows[Start(id)] = 1 /\ rows[Close(id)] = 1 /\ rows[Complete(id)] = 0
      BY <2>0, <3>1, <3>2, <3>3, <3>4, <3>5, Counts
    <3>7. LlmRow(c) = id
      BY <2>2, <3>1 DEF LlmRow
    <3> HIDE DEF id
    <3> QED
      BY <3>6, <3>7
  <2> QED
    BY <2>1, <2>2
<1>2. FlowInv => LlmCompletedOnce
  BY <1>1 DEF LlmCompletedOnce
<1> QED
  BY <1>2, SpecFlowInv, PTL

-----------------------------------------------------------------------------
(* What a turn that returned leaves *)

ReturnedTurn == main = "done" /\ outcome = "returned"

\* No call of it is under way and no row is sent any more.
LEMMA ReturnedStays ==
  ASSUME FlowInv, ReturnedTurn, [Next]_vars
  PROVE  UNCHANGED <<cfg, main, outcome, rows, lost, denied, calls>>
<1>0. /\ TypeInv /\ Stages /\ EndInv /\ graph = "finished" /\ main = "done" /\ main \notin Screening
  BY DEF FlowInv, TurnInv, EndInv, ReturnedTurn, Screening
<1>1. ~Screens /\ ~CleanupTurn /\ ~FinishGraph /\ ~FailGraph
  BY <1>0, PreScreenEnds DEF CleanupTurn, FinishGraph, FailGraph
<1>2. ~Consumes /\ ~Settles
  BY <1>0, ConsumeTakes, SettleMoves DEF SettleMove
<1>3. ASSUME NEW c \in Calls, Acts(c) PROVE FALSE
  BY <1>0, <1>3, CallsRun
<1> QED
  BY <1>1, <1>2, <1>3, NextSteps DEF vars, consumer

\* It is over when it has been cleaned up.
LEMMA TurnReturns ==
  ASSUME FlowInv, [Next]_vars, ReturnedTurn', ~ReturnedTurn PROVE CleanupTurn
<1>0. TurnInv /\ TypeInv /\ Stages /\ "done" \notin Screening
  BY DEF FlowInv, TurnInv, Screening
<1>1. ~Screens
  BY <1>0, PreScreenEnds DEF ReturnedTurn
<1>2. ~Consumes /\ ~Settles
  <2>1. Consumes => main' # "done"
    BY <1>0, ConsumeReports, ConsumeTakes DEF Quiet, Sent
  <2> QED
    BY <2>1, SettleMoves DEF SettleMove, ReturnedTurn
<1>3. ASSUME NEW c \in Calls, Acts(c) PROVE FALSE
  BY <1>0, <1>3, StepFrame DEF ReturnedTurn
<1>4. ~FinishGraph /\ ~FailGraph /\ ~UNCHANGED vars
  BY DEF FinishGraph, FailGraph, vars, consumer, ReturnedTurn
<1> QED
  BY <1>1, <1>2, <1>3, <1>4, NextSteps

\* Once a turn has returned nothing of it goes on: no call of its graph moves,
\* none is retried, and Core is sent nothing more, by a callback or otherwise.
THEOREM ReturnedTurnsAreOver == Spec => [][ReturnedTurn => UNCHANGED <<rows, denied, calls>>]_vars
<1>1. FlowInv /\ [Next]_vars => [ReturnedTurn => UNCHANGED <<rows, denied, calls>>]_vars
  BY ReturnedStays
<1> QED
  BY <1>1, SpecFlowInv, PTL DEF Spec

\* A turn that returns has closed its session, once, where the chain's end is
\* sent: the root's end was the last event and none was left in the stream.
THEOREM ReturnedTurnsCloseTheirSession ==
  Spec => [](outcome = "returned" /\ cfg.chainEnd => rows[WorkflowEnd] = 1)
<1>1. ASSUME FlowInv, outcome = "returned", cfg.chainEnd PROVE rows[WorkflowEnd] = 1
  <2>1. TurnInv /\ EndInv /\ SessionInv /\ graph = "finished" /\ events = <<>>
    BY <1>1 DEF FlowInv, EndInv
  <2>2. WorkflowEnd \in seen
    BY <1>1, <2>1 DEF SessionInv, Waiting
  <2> QED
    BY <2>1, <2>2, Counts, RowFacts, CallbackFacts
<1> QED
  BY <1>1, SpecFlowInv, PTL

\* A tool without a record that ended in a turn that goes on has its completion
\* sent by the consumer, or its end is in the stream.
EndedInv ==
  cfg.toolEnd =>
    \A c \in Tools : c \in Bare =>
      (at[c] = "done" /\ graph # "failed" /\ outcome # "raised"
       => <<"end", c>> \in Waiting \/ Complete(c) \in seen)

\* Every step keeps that.
LEMMA NextEndedInv == ASSUME FlowInv, EndedInv, [Next]_vars PROVE EndedInv'
<1>0. TurnInv /\ TypeInv /\ Stages /\ EndInv /\ cfg' = cfg /\ seen \subseteq seen'
  BY Grows DEF FlowInv, TurnInv
<1>4. Bare' = Bare
  BY <1>0 DEF Bare
<1> SUFFICES ASSUME cfg.toolEnd, NEW c \in Tools, c \in Bare, at'[c] = "done",
                    graph' # "failed", outcome' # "raised", <<"end", c>> \notin Waiting'
             PROVE  Complete(c) \in seen'
  BY <1>0, <1>4 DEF EndedInv
<1>1. c \in Calls /\ at[c] = "done" /\ graph # "failed" /\ outcome # "raised"
  BY <1>0, EndsQueued, IdFacts
<1>2. CASE Complete(c) \in seen
  BY <1>0, <1>2
<1>3. CASE <<"end", c>> \in Waiting
  <2>1. Consumes /\ Head(events) = <<"end", c>>
    BY <1>0, <1>1, <1>3, WaitsOn
  <2>2. ~rec[c].complete
    BY <1>0, <1>1, RecordFacts DEF Stages, Bare
  <2>3. ConsumeToolEnd(c)
    BY <2>1, ConsumeHeads
  <2> QED
    BY <2>2, <2>3, EvaluateSees DEF ConsumeToolEnd
<1> QED
  BY <1>1, <1>2, <1>3 DEF EndedInv

\* The rows of a tool that ended are both sent when a turn has returned, unless
\* the gate failed the sweep's close.
ToolRowsClosed ==
  ReturnedTurn /\ cfg.toolStart /\ cfg.toolEnd =>
    \A c \in Tools :
      at[c] = "done" => rows[Start(c)] = 1 /\ (rows[Complete(c)] = 1 \/ c \in lost)

\* The consumer has sent them, or the callback and the sweep.
LEMMA NextToolRowsClosed ==
  ASSUME FlowInv, FlowInv', EndedInv', ToolRowsClosed, [Next]_vars PROVE ToolRowsClosed'
<1>0. TurnInv /\ TypeInv /\ Stages /\ BridgeInv /\ EndInv /\ ReportInv /\ cfg' = cfg
  BY Grows DEF FlowInv, TurnInv
<1> SUFFICES ASSUME ReturnedTurn', cfg.toolStart, cfg.toolEnd, NEW c \in Tools, at'[c] = "done"
             PROVE  rows'[Start(c)] = 1 /\ (rows'[Complete(c)] = 1 \/ c \in lost')
  BY <1>0 DEF ToolRowsClosed
<1>1. /\ c \in Calls /\ c \in Ids /\ c \notin Llms
      /\ Start(c) \in Rows /\ Complete(c) \in Rows /\ Start(c) # Complete(c)
  BY RowFacts, IdFacts
<1>2. CASE ReturnedTurn
  <2>1. UNCHANGED <<rows, lost, calls>>
    BY <1>2, ReturnedStays
  <2> QED
    BY <1>2, <2>1 DEF ToolRowsClosed, calls
<1>3. CASE ~ReturnedTurn /\ c \notin Bare
  <2>0. cfg.bridge /\ c \in Tools \ Unbound /\ ToolRec(c)
    BY <1>0, <1>1, <1>3 DEF Bare, BridgeInv
  <2>1. CleanupTurn
    BY <1>3, TurnReturns
  <2>2. rec[c] # NoRec /\ at[c] = "done"
    BY <1>1, <2>0, <2>1 DEF ToolRec, CleanupTurn, calls
  <2>3. rec[c].start
    BY <1>0, <2>0, <2>2 DEF ReportInv, ReportedTool
  <2>4. rows[Start(c)] = 1 /\ rows[Complete(c)] = Bit(rec[c].complete)
    BY <2>0, <2>2, <2>3 DEF ToolRec, Bit
  <2>5. PICK failed \in SUBSET Orphans :
          /\ lost' = failed
          /\ rows' = [r \in Rows |-> IF \E d \in Orphans \ failed : r = Complete(d)
                                      THEN rows[r] + 1 ELSE rows[r]]
    BY <2>1 DEF CleanupTurn
  <2>6. /\ rows'[Start(c)] = rows[Start(c)]
        /\ rows'[Complete(c)] = IF c \in Orphans \ failed THEN rows[Complete(c)] + 1
                                                          ELSE rows[Complete(c)]
    <3>1. /\ \A d \in Orphans : Complete(d) # Start(c)
          /\ \A d \in Orphans : Complete(d) = Complete(c) => d = c
      BY <1>1, RowFacts, IdFacts DEF Orphans
    <3> QED
      BY <1>1, <2>5, <3>1
  <2>7. c \in Orphans <=> ~rec[c].complete
    BY <2>3 DEF Orphans
  <2>8. CASE rec[c].complete
    BY <2>4, <2>6, <2>7, <2>8 DEF Bit
  <2>9. CASE ~rec[c].complete
    BY <2>4, <2>5, <2>6, <2>7, <2>9 DEF Bit
  <2> QED
    BY <2>8, <2>9
<1>4. CASE c \in Bare
  <2>1. TurnInv' /\ graph' = "finished" /\ events' = <<>> /\ outcome' = "returned"
    BY DEF FlowInv, EndInv, ReturnedTurn
  <2>2. Complete(c) \in seen'
    <3>1. <<"end", c>> \notin Waiting'
      BY <2>1 DEF Waiting
    <3>2. c \in Bare'
      BY <1>0, <1>4 DEF Bare
    <3> QED
      BY <1>0, <2>1, <3>1, <3>2 DEF EndedInv
  <2>3. Start(c) \in seen'
    BY <1>0, <2>2 DEF FlowInv, FallbackInv
  <2>4. ~CallbackRow(Start(c)) /\ ~CallbackRow(Complete(c))
    BY <1>4, CallbackFacts DEF Bare, CallbackRow
  <2>5. ~CallbackRow(Start(c))' /\ ~CallbackRow(Complete(c))'
    BY <1>0, <2>4 DEF CallbackRow
  <2> QED
    BY <1>1, <2>1, <2>2, <2>3, <2>5 DEF TurnInv, SeenOnce, Bit
<1> QED
  BY <1>2, <1>3, <1>4

\* A turn that returned leaves no tool's row open but those whose close the gate
\* failed: each tool that ended was reported at both ends, whoever owned it, and
\* however often it was executed.
THEOREM EndedToolsAreClosed == Spec => []ToolRowsClosed
<1>1. Init => EndedInv /\ ToolRowsClosed
  BY IdFacts DEF Init, EndedInv, ToolRowsClosed, ReturnedTurn
<1>2. FlowInv /\ EndedInv /\ ToolRowsClosed /\ [Next]_vars => (FlowInv /\ EndedInv /\ ToolRowsClosed)'
  BY NextFlowInv, NextEndedInv, NextToolRowsClosed
<1> QED
  BY <1>1, <1>2, InitFlowInv, PTL DEF Spec

-----------------------------------------------------------------------------
(* What the cleanup lost *)

\* Only calls a callback had a record of, which cannot get another.
LostInv ==
  /\ main # "done" => lost = {}
  /\ \A c \in lost : c \in Tools /\ at[c] # "idle" /\ rec[c] = NoRec

\* A call under way that has no record gets none.
LEMMA RecordLess ==
  ASSUME TypeInv, NEW c \in Calls, Acts(c), rec[c] = NoRec, at[c] # "idle" PROVE rec' = rec
<1>0. ~rec[c].start
  BY RecordFacts
<1>1. CASE ToolActs(c)
  BY <1>0, <1>1
  DEF ToolActs, PrepareTool, Ready, StartTool, CancelTool, ReexecuteTool, ReleaseTool
<1>2. ASSUME NEW v \in Verdicts, AnswerStart(c, v) \/ AnswerCompletion(c, v) PROVE rec' = rec
  BY <1>2 DEF AnswerStart, AnswerCompletion
<1>3. ASSUME NEW ok \in BOOLEAN, EndTool(c, ok) \/ EndLlm(c, ok) PROVE rec' = rec
  BY <1>3 DEF EndTool, EndLlm, SendCompletion
<1>4. ~StartLlm(c)
  BY DEF StartLlm, Ready
<1> QED
  BY <1>1, <1>2, <1>3, <1>4 DEF Acts

\* The pre-screen loses nothing.
LEMMA ScreeningLosesNone == ASSUME Screens PROVE lost' = lost
<1>1. ASSUME NEW v \in Answers, SendSignal(v) \/ SendWorkflow(v) \/ PreScreen(v) PROVE lost' = lost
  BY <1>1 DEF SendSignal, SendWorkflow, PreScreen
<1>2. ASSUME NEW g \in BOOLEAN, PreScreenApproval(g) PROVE lost' = lost
  BY <1>2 DEF PreScreenApproval
<1>3. BeginStream => lost' = lost
  BY DEF BeginStream
<1> QED
  BY <1>1, <1>2, <1>3 DEF Screens, PreScreenStep

\* Every step keeps that.
LEMMA NextLostInv == ASSUME FlowInv, LostInv, [Next]_vars PROVE LostInv'
<1>0. /\ TurnInv /\ TypeInv /\ Stages /\ EndInv /\ BridgeInv /\ \A c \in Tools : c \in Calls
      /\ Orphans \subseteq Tools
  BY IdFacts DEF FlowInv, TurnInv, Orphans
<1>1. /\ main = "done" => main' = "done"
      /\ \A c \in Calls : at[c] # "idle" => at'[c] # "idle"
  BY <1>0, Grows
<1>2. CASE CleanupTurn
  <2>1. /\ main' = "done" /\ lost' \subseteq Orphans /\ at' = at
        /\ \A c \in Calls : rec'[c] = NoRec
    BY <1>2 DEF CleanupTurn, calls
  <2>2. ASSUME NEW c \in Orphans PROVE at[c] # "idle"
    <3>1. c \in Tools /\ c \in Calls /\ rec[c] # NoRec
      BY <1>0, <2>2, RecordFacts DEF Orphans
    <3>2. cfg.bridge /\ c \notin Unbound
      BY <1>0, <3>1 DEF Stages
    <3> QED
      BY <1>0, <3>1, <3>2 DEF BridgeInv, ToolRec
  <2> QED
    BY <1>0, <2>1, <2>2 DEF LostInv
<1>3. ASSUME lost' = lost, ~CleanupTurn PROVE LostInv'
  <2>1. ASSUME NEW c \in lost PROVE rec'[c] = NoRec
    <3>1. c \in Calls /\ at[c] # "idle" /\ rec[c] = NoRec
      BY <1>0, <2>1 DEF LostInv
    <3>2. CASE Acts(c)
      BY <1>0, <3>1, <3>2, RecordLess
    <3>3. CASE ~Acts(c)
      BY <1>0, <1>3, <3>1, <3>3, Changes DEF CallChange
    <3> QED
      BY <3>2, <3>3
  <2> QED
    BY <1>0, <1>1, <1>3, <2>1 DEF LostInv
<1>4. CASE Screens \/ Consumes \/ Settles
  <2>1. lost' = lost /\ main # "cleanup"
    BY <1>0, <1>4, ScreeningLosesNone, PreScreenEnds, ConsumeMoves, SettleMoves
    DEF SettleMove, Screening
  <2> QED
    BY <1>3, <2>1 DEF CleanupTurn
<1>5. ASSUME NEW c \in Calls, Acts(c) PROVE LostInv'
  <2>1. lost' = lost /\ main' = main
    BY <1>0, <1>5, CallMoves DEF CallMove
  <2> QED
    BY <1>3, <2>1 DEF CleanupTurn
<1>6. CASE FinishGraph \/ FailGraph \/ UNCHANGED vars
  <2>1. lost' = lost /\ main' = main
    BY <1>6 DEF FinishGraph, FailGraph, vars
  <2> QED
    BY <1>3, <2>1 DEF CleanupTurn
<1> QED
  BY <1>2, <1>4, <1>5, <1>6, NextSteps

-----------------------------------------------------------------------------
(* The turn's contract: how its state is seen *)

\* The session is what the client has seen of it.
LEMMA SessionSeen ==
  ASSUME TurnInv
  PROVE  session = IF WorkflowEnd \in seen THEN "closed" ELSE IF Workflow \in seen THEN "open" ELSE "new"
<1>1. /\ WorkflowEnd \in Rows /\ ~CallbackRow(WorkflowEnd)
      /\ Workflow \in Rows /\ ~CallbackRow(Workflow)
  BY RowFacts, CallbackFacts
<1>2. /\ WorkflowEnd \in seen => rows[WorkflowEnd] = 1
      /\ WorkflowEnd \notin seen => rows[WorkflowEnd] = 0
      /\ Workflow \in seen => rows[Workflow] = 1
      /\ Workflow \notin seen => rows[Workflow] = 0
  BY <1>1, Counts
<1> QED
  BY <1>2 DEF session

\* An activity's row is as its counts and, for a tool, its record are;
LEMMA RowKept ==
  ASSUME NEW i \in Ids, rows'[Start(i)] = rows[Start(i)],
         rows'[Complete(i)] = rows[Complete(i)], rows'[Close(i)] = rows[Close(i)],
         i \in Tools => rec'[i].start = rec[i].start, lost' = lost
  PROVE  row'[i] = row[i]
  BY DEF row

\* as functions, row is its values.
LEMMA RowValues ==
  /\ (\A i \in Ids : row'[i] = row[i]) => row' = row
  /\ \A a \in Ids : \A s : row'[a] = s /\ (\A i \in Ids \ {a} : row'[i] = row[i])
       => row' = [row EXCEPT ![a] = s]
  BY DEF row

\* Sending one row of an activity changes that activity only.
LEMMA RowSent ==
  ASSUME rows \in [Rows -> Nat], NEW a \in Ids, NEW r \in {Start(a), Complete(a), Close(a)},
         rows' = Counted(r), \A i \in Tools \ {a} : rec'[i].start = rec[i].start, lost' = lost
  PROVE  /\ \A i \in Ids \ {a} : row'[i] = row[i]
         /\ session' = session
         /\ r # Start(a) => row'[a] = "ended"
         /\ r = Start(a) /\ row[a] = "new" /\ a \notin lost => row'[a] \in {"open", "owed"}
<1>1. /\ r \in Rows /\ WorkflowEnd \in Rows /\ Workflow \in Rows /\ r \notin {Workflow, WorkflowEnd}
      /\ Start(a) \in Rows /\ Complete(a) \in Rows /\ Close(a) \in Rows
      /\ Start(a) # Complete(a) /\ Start(a) # Close(a) /\ Complete(a) # Close(a)
  BY RowFacts
<1>2. rows' \in [Rows -> Nat] /\ rows'[r] = rows[r] + 1 /\ \A q \in Rows : q # r => rows'[q] = rows[q]
  BY <1>1, CountedType
<1>3. ASSUME NEW i \in Ids \ {a} PROVE row'[i] = row[i]
  <2>1. Start(i) # r /\ Complete(i) # r /\ Close(i) # r
    BY RowFacts
  <2>2. /\ rows'[Start(i)] = rows[Start(i)] /\ rows'[Complete(i)] = rows[Complete(i)]
        /\ rows'[Close(i)] = rows[Close(i)]
    BY <1>2, <2>1, RowFacts
  <2> QED
    BY <2>2, RowKept
<1>4. session' = session
  <2>1. rows'[WorkflowEnd] = rows[WorkflowEnd] /\ rows'[Workflow] = rows[Workflow]
    BY <1>1, <1>2
  <2> QED
    BY <2>1 DEF session
<1>5. ASSUME r # Start(a) PROVE row'[a] = "ended"
  <2>1. rows'[Complete(a)] \in Nat /\ rows'[Close(a)] \in Nat
    BY <1>1, <1>2
  <2>2. rows'[Complete(a)] > 0 \/ rows'[Close(a)] > 0
    BY <1>1, <1>2, <1>5
  <2>3. rows'[Complete(a)] + rows'[Close(a)] > 0
    BY <2>1, <2>2
  <2> QED
    BY <2>3 DEF row
<1>6. ASSUME r = Start(a), row[a] = "new", a \notin lost PROVE row'[a] \in {"open", "owed"}
  <2>1. ~(rows[Complete(a)] + rows[Close(a)] > 0)
    BY <1>6 DEF row
  <2>2. rows'[Complete(a)] = rows[Complete(a)] /\ rows'[Close(a)] = rows[Close(a)]
    BY <1>1, <1>2, <1>6
  <2>3. ~(rows'[Complete(a)] + rows'[Close(a)] > 0) /\ rows'[Start(a)] # 0
    BY <1>1, <1>2, <1>6, <2>1, <2>2
  <2> QED
    BY <1>6, <2>3 DEF row
<1> QED
  BY <1>3, <1>4, <1>5, <1>6

\* Nothing sent of an activity is a new row; nothing completed, one not ended.
LEMMA RowFree ==
  ASSUME NEW i \in Ids, rows[Complete(i)] = 0, rows[Close(i)] = 0
  PROVE  /\ i \notin lost => row[i] \notin {"ended", "lost"}
         /\ rows[Start(i)] = 0 => row[i] = "new"
  BY DEF row

\* The contract's view of a turn that is under way or whose calls go on.
LEMMA Lives ==
  ASSUME TurnInv, EndInv, PromptInv, graph # "idle", outcome # "returned"
  PROVE  /\ phase \in {"running", "raised"} /\ Start("pre") \notin denied
         /\ main # "done" => phase = "running"
<1>1. main = "done" => outcome = "raised"
  BY DEF EndInv, TurnInv, TypeInv, ControlTypes
<1> QED
  BY <1>1 DEF phase, PromptInv

\* A row that is opened,
LEMMA OpensRow ==
  ASSUME rows \in [Rows -> Nat], NEW a \in Ids, row[a] = "new", rows' = Counted(Start(a)),
         \A i \in Tools \ {a} : rec'[i].start = rec[i].start, lost' = lost, a \notin lost,
         phase \in {"running", "raised"}, phase' = phase, session # "closed",
         Start("pre") \notin denied, Start("pre") \notin denied'
  PROVE  Contract!Next
<1>1. /\ \A i \in Ids \ {a} : row'[i] = row[i]
      /\ session' = session /\ row'[a] \in {"open", "owed"}
  BY RowSent
<1>2. row' = [row EXCEPT ![a] = row'[a]]
  BY <1>1, RowValues
<1>3. \E s \in {"open", "owed"} : row' = [row EXCEPT ![a] = s]
  BY <1>1, <1>2
<1>4. UNCHANGED <<phase, Start("pre") \in denied, session>>
  BY <1>1
<1>5. Contract!Open(a)
  BY <1>3, <1>4, Zenon DEF Contract!Open, Contract!Live
<1> QED
  BY <1>5 DEF Contract!Next

\* and one that is ended.
LEMMA EndsRow ==
  ASSUME rows \in [Rows -> Nat], NEW a \in Ids, row[a] \notin {"ended", "lost"},
         NEW r \in {Complete(a), Close(a)}, rows' = Counted(r),
         \A i \in Tools \ {a} : rec'[i].start = rec[i].start, lost' = lost,
         phase \in {"running", "raised"}, phase' = phase,
         Start("pre") \notin denied, Start("pre") \notin denied'
  PROVE  Contract!Next
<1>1. /\ \A i \in Ids \ {a} : row'[i] = row[i]
      /\ session' = session /\ row'[a] = "ended"
  BY RowSent, RowFacts
<1>2. row' = [row EXCEPT ![a] = "ended"]
  BY <1>1, RowValues
<1>3. UNCHANGED <<phase, Start("pre") \in denied, session>>
  BY <1>1
<1>4. Contract!End(a)
  BY <1>2, <1>3, Zenon DEF Contract!End, Contract!Live
<1> QED
  BY <1>4 DEF Contract!Next


\* Rows of the turn itself change the session only.
LEMMA SessionSent ==
  ASSUME rows \in [Rows -> Nat], NEW r \in {Signal, Workflow, WorkflowEnd}, rows' = Counted(r),
         UNCHANGED <<rec, lost>>
  PROVE  /\ row' = row
         /\ r = Signal => session' = session
         /\ r = Workflow /\ session = "new" => session' = "open"
         /\ r = WorkflowEnd => session' = "closed"
<1>1. /\ r \in Rows /\ Workflow \in Rows /\ WorkflowEnd \in Rows
      /\ Signal # Workflow /\ Signal # WorkflowEnd /\ Workflow # WorkflowEnd
  BY RowFacts
<1>2. rows' \in [Rows -> Nat] /\ rows'[r] = rows[r] + 1 /\ \A q \in Rows : q # r => rows'[q] = rows[q]
  BY <1>1, CountedType
<1>3. ASSUME NEW i \in Ids PROVE row'[i] = row[i]
  <2>1. /\ Start(i) \in Rows /\ Complete(i) \in Rows /\ Close(i) \in Rows
        /\ Start(i) # r /\ Complete(i) # r /\ Close(i) # r
    BY RowFacts
  <2> QED
    BY <1>2, <2>1, RowKept
<1>4. row' = row
  BY <1>3, RowValues
<1>5. /\ r = Signal => session' = session
      /\ r = Workflow /\ session = "new" => session' = "open"
      /\ r = WorkflowEnd => session' = "closed"
  BY <1>1, <1>2 DEF session
<1> QED
  BY <1>4, <1>5

\* What is not sent is not seen.
LEMMA Unmoved ==
  ASSUME rows' = rows, \A i \in Tools : rec'[i].start = rec[i].start, lost' = lost
  PROVE  row' = row /\ session' = session
<1>1. \A i \in Ids : row'[i] = row[i]
  BY RowKept
<1> QED
  BY <1>1, RowValues DEF session

-----------------------------------------------------------------------------
(* The turn's contract: its steps *)

Refines == Contract!Next \/ UNCHANGED Contract!vars

\* A step nobody outside sees.
LEMMA Stutters ==
  ASSUME phase' = phase, row' = row, session' = session,
         Start("pre") \in denied' <=> Start("pre") \in denied
  PROVE  Refines
<1>1. UNCHANGED <<phase, Start("pre") \in denied, session, row>>
  OBVIOUS
<1>2. UNCHANGED Contract!vars
  BY <1>1, Zenon DEF Contract!vars
<1> QED
  BY <1>2 DEF Refines

\* The turn is left before its graph runs.
LEMMA ScreenRaises ==
  ASSUME phase = "screening", phase' = "raised", row' = row, session' = session,
         \A i \in Ids : row[i] # "owed", Start("pre") \in denied' <=> Start("pre") \in denied
  PROVE  Refines
<1>1. Contract!Settle
  <2>1. row' = [a \in Ids |-> IF row[a] # "owed" THEN row[a]
                             ELSE IF a \in {} THEN "lost" ELSE "ended"]
    BY DEF row
  <2> QED
    BY <2>1 DEF Contract!Settle
<1>2. UNCHANGED <<Start("pre") \in denied, session>>
  OBVIOUS
<1>3. Contract!Raise
  BY <1>1, <1>2, Zenon DEF Contract!Raise
<1> QED
  BY <1>3 DEF Refines, Contract!Next

\* What is seen of a turn before its graph runs: no row is owed, and the
\* prompt's is new until it is sent.
LEMMA ScreeningViews ==
  ASSUME FlowInv, PromptInv, Screens
  PROVE  /\ TypeInv /\ phase = "screening" /\ rec' = rec /\ lost' = lost /\ cfg' = cfg
         /\ main \in Screening /\ Start("pre") \notin denied
         /\ \A i \in Ids : row[i] # "owed"
         /\ rows[Complete("pre")] = 0 /\ rows[Close("pre")] = 0
         /\ phase' \in {"screening", "raised", "running"}
         /\ main' = "done" => phase' = "raised"
         /\ main' \in Screening => phase' = "screening"
<1>0. /\ TurnInv /\ TypeInv /\ Stages /\ BridgeInv /\ EndInv /\ CloseInv /\ FallbackInv
      /\ "pre" \in Ids /\ Close("pre") \in Rows /\ Complete("pre") \in Rows
      /\ \A c \in Tools : c \in Calls
      /\ \A c \in Llms : c \in Calls
  BY RowFacts, IdFacts DEF FlowInv, TurnInv
<1>1. main \in Screening /\ graph = "idle" /\ main # "done" /\ outcome = "none"
  BY <1>0, PreScreenEnds DEF Stages, Screening, EndInv
<1>2. phase = "screening" /\ Start("pre") \notin denied
  BY <1>1 DEF phase, PromptInv
<1>3. rec' = rec /\ lost' = lost /\ cfg' = cfg
  BY PreScreenEnds, ScreeningLosesNone
<1>4. /\ phase' \in {"screening", "raised", "running"}
      /\ main' = "done" => phase' = "raised"
      /\ main' \in Screening => phase' = "screening"
  <2>1. \/ main' = "done" /\ outcome' = "raised"
        \/ main' \in Screening /\ graph' = "idle"
        \/ main' = "stream" /\ graph' = "running"
    BY <1>1, PreScreenEnds
  <2>2. "done" \notin Screening /\ "stream" \notin Screening
    BY DEF Screening
  <2> QED
    BY <2>1, <2>2 DEF phase
<1>5. ASSUME NEW c \in Tools PROVE ~rec[c].start
  <2>1. at[c] = "idle"
    BY <1>0, <1>1 DEF Stages
  <2>2. rec[c] = NoRec
    BY <1>0, <2>1, IdFacts DEF Stages, BridgeInv, ToolRec
  <2> QED
    BY <2>2, RecordFacts
<1>6. \A i \in Ids : row[i] # "owed"
  BY <1>5 DEF row
<1>7. rows[Close("pre")] = 0
  BY <1>0, <1>1, Counts, CallbackFacts DEF CloseInv
<1>8. rows[Complete("pre")] = 0
  <2>1. CASE cfg.bridge
    <3>1. \A c \in Llms : alias[c] = "none"
      BY <1>0, <1>1, <2>1 DEF Stages, BridgeInv, LlmRec
    <3> QED
      BY <1>0, <2>1, <3>1 DEF BridgeInv, PreRow
  <2>2. CASE ~cfg.bridge
    BY <1>0, <2>2, Counts DEF FallbackInv, CallbackRow
  <2> QED
    BY <2>1, <2>2
<1> QED
  BY <1>0, <1>1, <1>2, <1>3, <1>4, <1>6, <1>7, <1>8

\* The signal is not part of the contract; the workflow's start opens the session.
LEMMA StartsRefine ==
  ASSUME FlowInv, PromptInv, NEW v \in Answers, SendSignal(v) \/ SendWorkflow(v)
  PROVE  Refines
<1>0. Screens
  BY DEF Screens, PreScreenStep
<1>1. /\ TypeInv /\ TurnInv /\ phase = "screening" /\ rec' = rec /\ lost' = lost /\ rows \in [Rows -> Nat]
      /\ (\A i \in Ids : row[i] # "owed")
      /\ main' = "done" => phase' = "raised"
      /\ main' \in Screening => phase' = "screening"
  BY <1>0, ScreeningViews DEF TypeInv, FlowInv
<1>2. denied' = denied /\ main' \in {"workflow", "prompt", "done"}
  BY DEF SendSignal, SendWorkflow, Escape
<1>3. phase' \in {"screening", "raised"}
  BY <1>1, <1>2 DEF Screening
<1>4. CASE row' = row /\ session' = session
  BY <1>1, <1>2, <1>3, <1>4, Stutters, ScreenRaises
<1>5. CASE rows' = rows
  BY <1>1, <1>4, <1>5, Unmoved
<1>6. CASE rows' = Counted(Signal)
  BY <1>1, <1>4, <1>6, SessionSent
<1>7. CASE SendWorkflow(v) /\ rows' = Counted(Workflow)
  <2>1. WorkflowEnd \notin seen /\ Workflow \notin seen
    BY <1>1, <1>7 DEF SendWorkflow, TurnInv, Unseen
  <2>2. session = "new"
    BY <1>1, <2>1, SessionSeen
  <2>3. session' = "open" /\ row' = row
    BY <1>1, <1>7, <2>2, SessionSent
  <2>4. UNCHANGED <<Start("pre") \in denied, row>>
    BY <1>2, <2>3
  <2>5. Contract!OpenSession
    BY <1>1, <1>3, <2>2, <2>3, <2>4, Zenon DEF Contract!OpenSession, Contract!Sent
  <2> QED
    BY <2>5 DEF Refines, Contract!Next
<1> QED
  BY <1>5, <1>6, <1>7 DEF SendSignal, SendWorkflow, Deliver


\* A prompt that is stopped or refused ends the turn.
LEMMA Refuses ==
  ASSUME phase = "screening", phase' = "raised", Start("pre") \in denied',
         session' = session \/ session' = "closed", row' = [row EXCEPT !["pre"] = "open"]
  PROVE  Refines
<1>1. Contract!RefusePrompt
  <2>1. session' \in {session, "closed"}
    OBVIOUS
  <2>2. (Start("pre") \in denied)' = TRUE
    OBVIOUS
  <2> QED
    BY <2>1, <2>2, Zenon DEF Contract!RefusePrompt
<1> QED
  BY <1>1 DEF Refines, Contract!Next

\* The pre-screen opens the prompt's row, or it is stopped.
LEMMA PreScreenRefines ==
  ASSUME ChainEvents, FlowInv, PromptInv, NEW v \in Answers, PreScreen(v) PROVE Refines
<1>0. Screens
  BY DEF Screens, PreScreenStep
<1>1. /\ TypeInv /\ TurnInv /\ phase = "screening" /\ rec' = rec /\ lost' = lost /\ rows \in [Rows -> Nat]
      /\ (\A i \in Ids : row[i] # "owed")
      /\ rows[Complete("pre")] = 0 /\ rows[Close("pre")] = 0
      /\ main' = "done" => phase' = "raised"
      /\ main' \in Screening => phase' = "screening"
      /\ "pre" \in Ids /\ "pre" \notin Tools /\ "pre" \notin lost /\ cfg.chainStart /\ cfg.chainEnd
  BY <1>0, ScreeningViews, IdFacts DEF ChainEvents, TypeInv, ControlTypes, FlowInv
<1>2. main = "prompt" /\ main' # "stream"
  <2>1. main = "prompt"
    BY DEF PreScreen
  <2>2. main' # "stream"
    BY Zenon DEF PreScreen, PreScreenStopped, Escape
  <2> QED
    BY <2>1, <2>2
<1>3. phase' \in {"screening", "raised"}
  <2>1. main' \in Screening \cup {"done"}
    BY <1>0, <1>2, PreScreenEnds
  <2> QED
    BY <1>1, <2>1
<1>4. /\ Start("pre") \in Rows /\ WorkflowEnd \in Rows /\ WorkflowEnd # Start("pre") /\ Workflow \in Rows
      /\ rows[Start("pre")] = 0 /\ ~CallbackRow(Start("pre"))
  <2>1. Start("pre") \in Rows /\ WorkflowEnd \in Rows /\ WorkflowEnd # Start("pre") /\ Workflow \in Rows
    BY <1>1, RowFacts
  <2>2. Start("pre") \notin seen
    BY <1>1, <1>2 DEF TurnInv, Unseen
  <2> QED
    BY <1>1, <2>1, <2>2, CallbackFacts, Counts
<1>5. row["pre"] = "new"
  BY <1>1, <1>4, RowFree
<1>6. \/ UNCHANGED <<rows, denied>>
      \/ rows' = Counted(Start("pre")) /\ denied' = denied
      \/ PreScreenStopped /\ Start("pre") \in denied'
  BY Zenon DEF PreScreen, Deliver
<1>7. CASE UNCHANGED <<rows, denied>>
  BY <1>1, <1>3, <1>7, Unmoved, Stutters, ScreenRaises
<1>8. CASE rows' = Counted(Start("pre")) /\ denied' = denied
  <2>1. /\ \A i \in Ids \ {"pre"} : row'[i] = row[i]
        /\ session' = session /\ row'["pre"] \in {"open", "owed"}
    <3>1. Start("pre") \in {Start("pre"), Complete("pre"), Close("pre")} /\ lost' = lost
      BY <1>1
    <3>2. \A i \in Tools \ {"pre"} : rec'[i].start = rec[i].start
      BY <1>1
    <3> QED
      BY <1>1, <1>5, <1>8, <3>1, <3>2, RowSent
  <2>2. row'["pre"] = "open"
    BY <1>1, <2>1 DEF row
  <2>3. row' = [row EXCEPT !["pre"] = "open"]
    BY <1>1, <2>1, <2>2, RowValues
  <2>4. UNCHANGED <<Start("pre") \in denied, session>>
    BY <1>8, <2>1
  <2>5. Contract!ScreenPrompt
    BY <1>1, <1>3, <1>5, <2>3, <2>4, Zenon DEF Contract!ScreenPrompt, Contract!Sent
  <2> QED
    BY <2>5 DEF Refines, Contract!Next
<1>9. CASE PreScreenStopped /\ Start("pre") \in denied'
  <2>1. wfSent
    BY <1>1, <1>2 DEF TurnInv, Stages
  <2>2. /\ rows' = [rows EXCEPT ![Start("pre")] = @ + 1, ![WorkflowEnd] = @ + 1]
        /\ main' = "done"
    BY <1>1, <1>9, <2>1 DEF PreScreenStopped, Escape
  <2>3. /\ rows'[Start("pre")] = 1 /\ rows'[WorkflowEnd] > 0
        /\ \A r \in Rows : r \notin {Start("pre"), WorkflowEnd} => rows'[r] = rows[r]
    BY <1>1, <1>4, <2>2
  <2>4. session' = "closed"
    BY <2>3 DEF session
  <2>5. ASSUME NEW i \in Ids \ {"pre"} PROVE row'[i] = row[i]
    <3>1. /\ Start(i) \in Rows /\ Complete(i) \in Rows /\ Close(i) \in Rows
          /\ {Start(i), Complete(i), Close(i)} \cap {Start("pre"), WorkflowEnd} = {}
      BY <1>1, RowFacts
    <3> QED
      BY <1>1, <2>3, <3>1, RowKept
  <2>6. row'["pre"] = "open"
    <3>1. /\ Complete("pre") \in Rows /\ Close("pre") \in Rows
          /\ {Complete("pre"), Close("pre")} \cap {Start("pre"), WorkflowEnd} = {}
      BY <1>1, RowFacts
    <3>2. rows'[Complete("pre")] = 0 /\ rows'[Close("pre")] = 0
      BY <1>1, <2>3, <3>1
    <3> QED
      BY <1>1, <2>3, <3>2 DEF row
  <2>7. row' = [row EXCEPT !["pre"] = "open"]
    BY <1>1, <2>5, <2>6, RowValues
  <2> QED
    BY <1>1, <1>9, <2>2, <2>4, <2>7, Refuses
<1> QED
  BY <1>6, <1>7, <1>8, <1>9

\* A refusal on the prompt's approval leaves its row open.
LEMMA PromptApprovalRefines ==
  ASSUME FlowInv, PromptInv, NEW g \in BOOLEAN, PreScreenApproval(g) PROVE Refines
<1>0. Screens
  BY DEF Screens, PreScreenStep
<1>1. /\ TypeInv /\ TurnInv /\ phase = "screening" /\ rec' = rec /\ lost' = lost
      /\ rows[Complete("pre")] = 0 /\ rows[Close("pre")] = 0
      /\ main' = "done" => phase' = "raised"
      /\ main' \in Screening => phase' = "screening"
      /\ "pre" \in Ids /\ "pre" \notin Tools /\ "pre" \notin lost
  BY <1>0, ScreeningViews, IdFacts DEF FlowInv, TypeInv
<1>2. rows' = rows /\ \/ main' = "begin" /\ denied' = denied
                      \/ main' = "done" /\ Start("pre") \in denied'
  BY DEF PreScreenApproval, Escape
<1>3. row' = row /\ session' = session
  BY <1>1, <1>2, Unmoved
<1>4. CASE main' = "begin" /\ denied' = denied
  <2>1. phase' = "screening"
    BY <1>1, <1>4 DEF Screening
  <2> QED
    BY <1>1, <1>3, <1>4, <2>1, Stutters
<1>5. CASE main' = "done" /\ Start("pre") \in denied'
  <2>1. Start("pre") \in seen
    BY DEF PreScreenApproval, FlowInv, ClaimInv
  <2>2. rows[Start("pre")] = 1
    BY <1>1, <2>1, Counts, CallbackFacts, RowFacts
  <2>3. row["pre"] = "open"
    BY <1>1, <2>2 DEF row
  <2>4. row' = [row EXCEPT !["pre"] = "open"]
    BY <1>1, <1>3, <2>3, RowValues
  <2> QED
    BY <1>1, <1>3, <1>5, <2>4, Refuses
<1> QED
  BY <1>2, <1>4, <1>5

\* The graph starts.
LEMMA BeginRefines ==
  ASSUME FlowInv, PromptInv, BeginStream PROVE Refines
<1>0. Screens
  BY DEF Screens, PreScreenStep
<1>1. phase = "screening" /\ Start("pre") \notin denied
  BY <1>0, ScreeningViews
<1>2. UNCHANGED <<rows, rec, lost, denied>> /\ main' = "stream" /\ graph' = "running"
  BY DEF BeginStream
<1>3. phase' = "running"
  BY <1>2 DEF phase
<1>4. row' = row /\ session' = session
  BY <1>2, Unmoved
<1>5. UNCHANGED <<Start("pre") \in denied, session, row>>
  BY <1>2, <1>4
<1>6. Contract!Run
  BY <1>1, <1>3, <1>5, Zenon DEF Contract!Run
<1> QED
  BY <1>6 DEF Refines, Contract!Next

\* The pre-screen as a whole.
LEMMA ScreeningRefines ==
  ASSUME ChainEvents, FlowInv, PromptInv, Screens PROVE Refines
  BY StartsRefine, PreScreenRefines, PromptApprovalRefines, BeginRefines
  DEF Screens, PreScreenStep


\* The consumer opens and closes rows, and closes the session.
LEMMA ConsumeRefines ==
  ASSUME ChainEvents, FlowInv, PromptInv, LostInv, Consumes PROVE Refines
<1>0. /\ TurnInv /\ TypeInv /\ Stages /\ EndInv /\ CloseInv /\ FallbackInv /\ ReportInv
      /\ rows \in [Rows -> Nat] /\ cfg.chainStart
  BY DEF FlowInv, TurnInv, TypeInv, ChainEvents, ControlTypes
<1>1. /\ main = "stream" /\ graph # "idle" /\ graph' = graph /\ denied' = denied /\ UNCHANGED <<rec, lost>>
      /\ events # <<>> /\ main' # "done" /\ Head(events) \in Waiting /\ lost = {}
  BY <1>0, ConsumeMoves, ConsumeTakes, ConsumeReports DEF calls, Quiet, Sent, LostInv
<1>2. outcome = "none"
  BY <1>0, <1>1 DEF EndInv
<1>3. phase = "running" /\ phase' = "running" /\ Start("pre") \notin denied /\ Start("pre") \notin denied'
  <2>1. phase = "running" /\ Start("pre") \notin denied
    BY <1>0, <1>1, <1>2, Lives
  <2> QED
    BY <1>1, <2>1 DEF phase
<1>4. WorkflowEnd \notin seen /\ session = "open"
  <2>1. WorkflowEnd \notin seen
    BY <1>1 DEF FlowInv, SessionInv
  <2>2. Workflow \in seen
    BY <1>0, <1>1 DEF Stages, EndInv
  <2> QED
    BY <1>0, <2>1, <2>2, SessionSeen
<1>5. CASE Quiet
  <2>1. row' = row /\ session' = session
    BY <1>1, <1>5, Unmoved DEF Quiet
  <2> QED
    BY <1>1, <1>3, <2>1, Stutters
<1>6. ASSUME NEW r \in Rows, Sent(r) PROVE Refines
  <2>1. rows' = Counted(r) /\ r \notin seen /\ Reports(r)
    BY <1>6 DEF Sent, Deliver
  <2>2. \A c \in Tools \cup Llms : c \in Calls /\ c \in Ids
    BY IdFacts
  <2>3. CASE r = WorkflowEnd
    <3>1. row' = row /\ session' = "closed"
      BY <1>0, <1>1, <2>1, <2>3, SessionSent
    <3>2. UNCHANGED <<phase, Start("pre") \in denied, row>>
      BY <1>1, <1>3, <3>1
    <3>3. Contract!CloseSession
      BY <1>3, <1>4, <3>1, <3>2, Zenon DEF Contract!CloseSession
    <3> QED
      BY <3>3 DEF Refines, Contract!Next
  <2>4. ASSUME NEW c \in Bare, r = Start(c), rows[Complete(c)] = 0, rows[Close(c)] = 0
        PROVE  Refines
    <3>1. c \in Ids /\ ~CallbackRow(r)
      BY <2>4, IdFacts, CallbackFacts DEF CallbackRow, Bare
    <3>2. rows[Start(c)] = 0
      BY <1>0, <2>1, <2>4, <3>1, Counts
    <3>3. row[c] = "new"
      BY <2>4, <3>1, <3>2, RowFree
    <3>4. \A i \in Tools \ {c} : rec'[i].start = rec[i].start
      BY <1>1
    <3>5. phase \in {"running", "raised"} /\ phase' = phase /\ session # "closed"
      BY <1>3, <1>4
    <3>6. Contract!Next
      BY <1>0, <1>1, <1>3, <2>1, <2>4, <3>1, <3>3, <3>4, <3>5, OpensRow
    <3> QED
      BY <3>6 DEF Refines
  <2>5. ASSUME NEW i \in Ids, r \in {Complete(i), Close(i)}, rows[Complete(i)] = 0, rows[Close(i)] = 0
        PROVE  Refines
    <3>1. row[i] \notin {"ended", "lost"}
      BY <1>1, <2>5, RowFree
    <3>2. \A d \in Tools \ {i} : rec'[d].start = rec[d].start
      BY <1>1
    <3>3. phase \in {"running", "raised"} /\ phase' = phase
      BY <1>3
    <3>4. Contract!Next
      BY <1>0, <1>1, <1>3, <2>1, <2>5, <3>1, <3>2, <3>3, EndsRow
    <3> QED
      BY <3>4 DEF Refines
  <2>6. ASSUME NEW c \in Tools, r \in {Start(c), Complete(c)}, c \in Bare,
               r = Start(c) => cfg.toolStart
        PROVE  Refines
    <3>1. c \in Calls /\ c \in Ids /\ c \notin Llms
      BY IdFacts
    <3>2. /\ Complete(c) \in Rows /\ Close(c) \in Rows /\ Start(c) # Complete(c)
          /\ ~CallbackRow(Complete(c)) /\ ~CallbackRow(Close(c))
      BY <2>6, <3>1, RowFacts, CallbackFacts DEF CallbackRow, Bare
    <3>3. rows[Close(c)] = 0
      BY <1>0, <3>1, <3>2, Counts DEF CloseInv
    <3>4. Complete(c) \notin seen
      BY <1>0, <2>1, <2>6 DEF FallbackInv
    <3>5. rows[Complete(c)] = 0
      BY <1>0, <3>2, <3>4, Counts
    <3> QED
      BY <2>4, <2>5, <2>6, <3>1, <3>3, <3>5
  <2>7. ASSUME NEW c \in Llms, r = Start(c), ~cfg.bridge PROVE Refines
    <3>1. c \in Calls /\ c \in Ids
      BY IdFacts
    <3>2. /\ Complete(c) \in Rows /\ Close(c) \in Rows
          /\ ~CallbackRow(Complete(c)) /\ ~CallbackRow(Close(c))
      BY <2>7, <3>1, RowFacts DEF CallbackRow
    <3>3. Complete(c) \notin seen /\ Close(c) \notin seen
      BY <1>0, <2>1, <2>7 DEF FallbackInv
    <3>4. rows[Complete(c)] = 0 /\ rows[Close(c)] = 0
      BY <1>0, <3>2, <3>3, Counts
    <3> QED
      BY <2>4, <2>7, <3>1, <3>4 DEF Bare
  <2>8. ASSUME NEW c \in Llms, r = Close(ClaimedId[c]), Head(events) = <<"end", c>>,
               cfg.llmStart, ~rec[c].complete
        PROVE  Refines
    <3> DEFINE i == ClaimedId[c]
    <3>1. i \in Ids /\ i \in Llms \cup {"pre"}
      BY IdFacts DEF ClaimedId
    <3>2. /\ Complete(i) \in Rows /\ Close(i) \in Rows /\ ~CallbackRow(Close(i))
          /\ (~cfg.bridge => ~CallbackRow(Complete(i)))
      BY <3>1, RowFacts, CallbackFacts DEF CallbackRow
    <3>3. rows[Close(i)] = 0
      BY <1>0, <2>1, <2>8, <3>2, Counts
    <3>4. rows[Complete(i)] = 0
      <4>1. CASE ~cfg.bridge
        <5>1. Complete(i) \notin seen
          BY <1>0, <3>1, <4>1 DEF FallbackInv
        <5> QED
          BY <1>0, <3>2, <4>1, <5>1, Counts
      <4>2. CASE cfg.bridge
        <5>1. ~cfg.llmEnd
          BY <1>0, <1>1, <2>8, <4>2 DEF ReportInv, ReportedLlm
        <5> QED
          BY <1>0, <3>1, <4>2, <5>1 DEF CloseInv
      <4> QED
        BY <4>1, <4>2
    <3> QED
      BY <2>5, <2>8, <3>1, <3>3, <3>4
  <2>9. \A c \in Tools : Start(c) # Complete(c)
    BY <2>2, RowFacts
  <2> QED
    BY <2>1, <2>3, <2>6, <2>7, <2>8, <2>9 DEF Reports
<1> QED
  BY <1>5, <1>6, ConsumeReports, <1>0

\* What the consumer learns is not seen outside.
LEMMA SettlesRefine ==
  ASSUME FlowInv, PromptInv, Settles PROVE Refines
<1>0. TurnInv /\ EndInv
  BY DEF FlowInv
<1>1. /\ UNCHANGED <<rows, rec, lost, graph>> /\ main' # "done" /\ main \in {"stream", "sending", "approval"}
      /\ \/ denied' = denied
         \/ main \in {"sending", "approval"} /\ denied' = denied \cup {pending[1]}
  BY SettleMoves DEF SettleMove, calls
<1>2. graph # "idle"
  BY <1>0, <1>1 DEF EndInv, Screening
<1>3. phase' = phase
  BY <1>1, <1>2 DEF phase
<1>4. row' = row /\ session' = session
  BY <1>1, Unmoved
<1>5. Start("pre") \in denied' <=> Start("pre") \in denied
  BY <1>1 DEF PromptInv
<1> QED
  BY <1>3, <1>4, <1>5, Stutters


\* The sweep ends what is owed or loses it, and the caller hears how the turn ended.
LEMMA CleanupRefines ==
  ASSUME ChainEvents, FlowInv, PromptInv, LostInv, CleanupTurn PROVE Refines
<1>0. /\ TurnInv /\ TypeInv /\ Stages /\ BridgeInv /\ EndInv /\ SessionInv /\ CloseInv
      /\ rows \in [Rows -> Nat] /\ rec \in [Calls -> Record] /\ cfg.chainEnd
  BY DEF FlowInv, TurnInv, TypeInv, ChainEvents, ControlTypes, CallTypes
<1>1. /\ main = "cleanup" /\ main' = "done" /\ UNCHANGED <<outcome, denied, graph>>
      /\ rec' = [c \in Calls |-> NoRec]
  BY DEF CleanupTurn, consumer, calls
<1>10. PICK failed \in SUBSET Orphans :
         /\ lost' = failed
         /\ rows' = [r \in Rows |-> IF \E c \in Orphans \ failed : r = Complete(c)
                                     THEN rows[r] + 1 ELSE rows[r]]
  BY DEF CleanupTurn
<1>11. lost = {} /\ Orphans \subseteq Tools /\ Orphans \subseteq Ids
  BY <1>1, IdFacts DEF LostInv, Orphans
<1>2. outcome \in {"returned", "raised"} /\ graph # "idle"
  BY <1>0, <1>1 DEF EndInv, Screening, TypeInv, ControlTypes
<1>3. phase = "running" /\ phase' = outcome
  BY <1>1, <1>2 DEF phase
<1>4. session' = session
  <2>1. /\ WorkflowEnd \in Rows /\ Workflow \in Rows
        /\ \A c \in Orphans : Complete(c) \notin {Workflow, WorkflowEnd}
    BY <1>11, RowFacts
  <2>2. rows'[WorkflowEnd] = rows[WorkflowEnd] /\ rows'[Workflow] = rows[Workflow]
    BY <1>10, <2>1
  <2> QED
    BY <2>2 DEF session
<1>5. ASSUME NEW i \in Ids
      PROVE  row'[i] = IF row[i] # "owed" THEN row[i]
                       ELSE IF i \in failed THEN "lost" ELSE "ended"
  <2>0. Start(i) \in Rows /\ Complete(i) \in Rows /\ Close(i) \in Rows
    BY RowFacts
  <2>1. rows'[Start(i)] = rows[Start(i)] /\ rows'[Close(i)] = rows[Close(i)]
    <3>1. \A c \in Orphans : Complete(c) # Start(i) /\ Complete(c) # Close(i)
      BY <1>11, RowFacts
    <3> QED
      BY <1>10, <2>0, <3>1
  <2>2. rows'[Complete(i)] = IF i \in Orphans \ failed THEN rows[Complete(i)] + 1
                                                       ELSE rows[Complete(i)]
    <3>1. \A c \in Orphans : Complete(i) = Complete(c) => c = i
      BY <1>11, RowFacts
    <3> QED
      BY <1>10, <2>0, <3>1
  <2>3. rows[Start(i)] \in Nat /\ rows[Complete(i)] \in Nat /\ rows[Close(i)] \in Nat
    BY <1>0, <2>0
  <2>4. i \in Tools => ~rec'[i].start
    BY <1>1, RecordFacts, IdFacts
  <2>5. CASE i \in Orphans
    <3>1. i \in Tools /\ i \in Calls /\ i \notin Llms /\ rec[i].start /\ ~rec[i].complete
      BY <2>5, IdFacts DEF Orphans
    <3>2. rec[i] # NoRec
      BY <3>1, RecordFacts
    <3>3. cfg.bridge /\ i \notin Unbound
      BY <1>0, <3>1, <3>2 DEF Stages
    <3>4. rows[Start(i)] = 1 /\ rows[Complete(i)] = 0
      BY <1>0, <3>1, <3>2, <3>3 DEF BridgeInv, ToolRec, Bit
    <3>5. rows[Close(i)] = 0
      BY <1>0, <2>0, <3>1, Counts, CallbackFacts DEF CloseInv
    <3>6. row[i] = "owed"
      BY <3>1, <3>4, <3>5 DEF row
    <3>7. CASE i \in failed
      <4>1. rows'[Complete(i)] + rows'[Close(i)] = 0 /\ rows'[Start(i)] = 1
        BY <2>1, <2>2, <3>4, <3>5, <3>7
      <4>2. row'[i] = "lost"
        BY <1>10, <2>4, <3>1, <3>7, <4>1 DEF row
      <4> QED
        BY <3>6, <3>7, <4>2
    <3>8. CASE i \notin failed
      <4>1. rows'[Complete(i)] + rows'[Close(i)] > 0
        BY <2>1, <2>2, <2>5, <3>4, <3>5, <3>8
      <4>2. row'[i] = "ended"
        BY <4>1 DEF row
      <4> QED
        BY <3>6, <3>8, <4>2
    <3> QED
      BY <3>7, <3>8
  <2>6. CASE i \notin Orphans
    <3>1. rows'[Complete(i)] = rows[Complete(i)] /\ i \notin lost /\ i \notin lost'
      BY <1>10, <1>11, <2>2, <2>6
    <3>2. row[i] # "owed"
      <4>1. ASSUME i \in Tools, rec[i].start PROVE rows[Complete(i)] + rows[Close(i)] > 0
        <5>1. i \in Calls /\ rec[i].complete /\ rec[i] # NoRec
          BY <2>6, <4>1, RecordFacts, IdFacts DEF Orphans
        <5>2. cfg.bridge /\ i \notin Unbound
          BY <1>0, <5>1 DEF Stages
        <5>3. rows[Complete(i)] = 1
          BY <1>0, <4>1, <5>1, <5>2 DEF BridgeInv, ToolRec, Bit
        <5> QED
          BY <2>3, <5>3
      <4> QED
        BY <4>1 DEF row
    <3>3. row'[i] = row[i]
      BY <2>1, <2>4, <3>1, <3>2 DEF row
    <3> QED
      BY <3>2, <3>3
  <2> QED
    BY <2>5, <2>6
<1>6. Contract!Settle
  <2>1. row' = [a \in Ids |-> IF row[a] # "owed" THEN row[a]
                             ELSE IF a \in failed THEN "lost" ELSE "ended"]
    BY <1>5 DEF row
  <2>2. failed \in SUBSET Ids
    BY <1>11
  <2> QED
    BY <2>1, <2>2 DEF Contract!Settle
<1>7. UNCHANGED <<Start("pre") \in denied, session>>
  BY <1>1, <1>4
<1>8. CASE outcome = "returned"
  <2>1. graph = "finished" /\ <<"chain", "end">> \notin Waiting
    BY <1>0, <1>8 DEF EndInv, Waiting
  <2>2. WorkflowEnd \in seen
    BY <1>0, <1>8, <2>1 DEF SessionInv
  <2>3. session = "closed"
    BY <1>0, <2>2, SessionSeen
  <2>4. Contract!Return
    BY <1>3, <1>6, <1>7, <1>8, <2>3, Zenon DEF Contract!Return
  <2> QED
    BY <2>4 DEF Refines, Contract!Next
<1>9. CASE outcome = "raised"
  <2>1. phase \in {"screening", "running"} /\ phase' = "raised"
    BY <1>3, <1>9
  <2>2. Contract!Raise
    BY <1>6, <1>7, <2>1, Zenon DEF Contract!Raise
  <2> QED
    BY <2>2 DEF Refines, Contract!Next
<1> QED
  BY <1>2, <1>8, <1>9

\* Which row a step of a call sends, and what its record says of it before.
LEMMA CallTells ==
  ASSUME TurnInv, NEW c \in Calls, Acts(c)
  PROVE  \/ rows' = rows /\ (c \in Tools => rec'[c].start = rec[c].start)
         \/ /\ cfg.bridge /\ rows' = Counted(Start(c))
            /\ c \in Tools => cfg.toolStart /\ rec[c] # NoRec /\ ~rec[c].start
            /\ c \in Llms => at[c] = "idle"
         \/ /\ cfg.bridge /\ IdOf(c) \in Ids /\ rows' = Counted(Complete(IdOf(c)))
            /\ rec[c] # NoRec /\ ~rec[c].complete
            /\ rec'[c].start = rec[c].start /\ (c \in Llms => cfg.llmEnd)
<1> DEFINE Tells ==
      \/ rows' = rows /\ (c \in Tools => rec'[c].start = rec[c].start)
      \/ /\ cfg.bridge /\ rows' = Counted(Start(c))
         /\ c \in Tools => cfg.toolStart /\ rec[c] # NoRec /\ ~rec[c].start
         /\ c \in Llms => at[c] = "idle"
      \/ /\ cfg.bridge /\ IdOf(c) \in Ids /\ rows' = Counted(Complete(IdOf(c)))
         /\ rec[c] # NoRec /\ ~rec[c].complete
         /\ rec'[c].start = rec[c].start /\ (c \in Llms => cfg.llmEnd)
<1>0. /\ TypeInv /\ Stages /\ BridgeInv /\ rec \in [Calls -> Record] /\ rec[c] \in Record
      /\ c \in Ids /\ Tools \cap Llms = {} /\ Calls = Tools \cup Llms
      /\ cfg.toolEnd \in BOOLEAN /\ cfg.llmEnd \in BOOLEAN
      /\ (rec[c] # NoRec => cfg.bridge) /\ at \in [Calls -> Places]
  BY IdFacts, ConfigAssumption DEF TurnInv, TypeInv, ControlTypes, CallTypes, PlaceTypes, Stages
<1>1. ASSUME c \in Tools, PrepareTool(c) PROVE Tells
  <2>1. rows' = rows /\ (rec' = rec \/ (cfg.bridge /\ c \notin Unbound /\ rec'[c] = Prepared))
        /\ at[c] = "idle"
    BY <1>0, <1>1 DEF PrepareTool, Ready
  <2>2. cfg.bridge /\ c \notin Unbound => rec[c] = NoRec
    BY <1>0, <1>1, <2>1 DEF BridgeInv, ToolRec
  <2>3. NoRec.start = FALSE /\ Prepared.start = FALSE
    BY DEF NoRec, Prepared
  <2> QED
    BY <2>1, <2>2, <2>3
<1>2. ASSUME ReexecuteTool(c) \/ CancelTool(c) PROVE Tells
  BY <1>2 DEF ReexecuteTool, CancelTool
<1>3. ASSUME c \in Tools, StartTool(c) PROVE Tells
  <2>1. \/ UNCHANGED <<rows, rec>>
        \/ rec[c] # NoRec /\ ~rec[c].start /\ cfg.toolStart /\ rows' = Counted(Start(c))
    BY <1>3 DEF StartTool
  <2> QED
    BY <1>0, <1>3, <2>1
<1>4. ASSUME NEW g \in BOOLEAN, ReleaseTool(c, g) PROVE Tells
  BY <1>4 DEF ReleaseTool
<1>5. ASSUME NEW v \in Verdicts, AnswerStart(c, v) PROVE Tells
  BY <1>5 DEF AnswerStart
<1>6. ASSUME NEW v \in Verdicts, AnswerCompletion(c, v) PROVE Tells
  <2>1. rows' = rows /\ (rec' = rec \/ rec' = [rec EXCEPT ![c].stash = v])
    BY <1>6 DEF AnswerCompletion
  <2>2. rec'[c].start = rec[c].start
    BY <1>0, <2>1 DEF Record
  <2> QED
    BY <2>1, <2>2
<1>7. ASSUME NEW id, NEW en \in BOOLEAN, NEW ok \in BOOLEAN, SendCompletion(c, id, en, ok),
             rec[c] # NoRec => id = IdOf(c) /\ id \in Ids, en => c \in Tools \/ cfg.llmEnd
      PROVE  Tells
  <2>1. CASE UNCHANGED <<rows, rec>>
    BY <2>1
  <2>2. CASE /\ rec[c] # NoRec /\ ~rec[c].complete /\ en /\ rows' = Counted(Complete(id))
             /\ rec' = [rec EXCEPT ![c].complete = TRUE]
    <3>1. rec'[c].start = rec[c].start
      BY <1>0, <2>2 DEF Record
    <3> QED
      BY <1>0, <1>7, <2>2, <3>1
  <2> HIDE DEF Tells
  <2> QED
    BY <1>7, <2>1, <2>2 DEF SendCompletion
<1>8. ASSUME NEW ok \in BOOLEAN, EndTool(c, ok) PROVE Tells
  <2>1. SendCompletion(c, c, cfg.toolEnd, ok) /\ c \in Tools /\ IdOf(c) = c
    BY <1>0, <1>8 DEF EndTool, IdOf
  <2> HIDE DEF Tells
  <2> QED
    BY <1>0, <1>7, <2>1
<1>9. ASSUME NEW ok \in BOOLEAN, EndLlm(c, ok) PROVE Tells
  <2>1. SendCompletion(c, alias[c], cfg.llmEnd /\ rec[c].start, ok) /\ c \in Llms
    BY <1>9 DEF EndLlm
  <2>2. IdOf(c) = alias[c] /\ (rec[c] # NoRec => alias[c] \in Ids)
    BY <1>0, <2>1 DEF IdOf, BridgeInv, LlmRec, TypeInv, CallTypes
  <2>3. (cfg.llmEnd /\ rec[c].start) \in BOOLEAN
    BY <1>0 DEF Record
  <2> HIDE DEF Tells
  <2> QED
    BY <1>7, <2>1, <2>2, <2>3
<1>10. ASSUME StartLlm(c) PROVE Tells
  <2>1. /\ c \in Llms /\ c \notin Tools /\ at[c] = "idle"
        /\ rows' = rows \/ (cfg.bridge /\ rows' = Counted(Start(c)))
    BY <1>0, <1>10 DEF StartLlm, Ready
  <2> QED
    BY <2>1
<1> HIDE DEF Tells
<1>11. Tells
  <2>1. CASE c \in Tools /\ ToolActs(c)
    BY <1>1, <1>2, <1>3, <1>4, <2>1 DEF ToolActs
  <2> QED
    BY <1>5, <1>6, <1>8, <1>9, <1>10, <2>1 DEF Acts
<1> QED
  BY <1>11 DEF Tells

\* A call opens its row once, in a session that is open, and closes the row it
\* goes by once.
LEMMA CallsRefine ==
  ASSUME FlowInv, PromptInv, LostInv, NEW c \in Calls, Acts(c) PROVE Refines
<1>0. /\ TurnInv /\ TypeInv /\ Stages /\ BridgeInv /\ EndInv /\ SessionInv /\ CloseInv /\ ReportInv
      /\ rows \in [Rows -> Nat] /\ c \in Ids /\ (c \in Tools <=> c \notin Llms)
      /\ \A i \in Ids : Start(i) \in Rows /\ Complete(i) \in Rows /\ Close(i) \in Rows
  BY RowFacts, IdFacts DEF FlowInv, TurnInv, TypeInv
<1>1. /\ UNCHANGED <<main, outcome, graph, lost>>
      /\ graph \in {"running", "failed"} /\ outcome # "returned"
      /\ \A d \in Tools \ {c} : rec'[d].start = rec[d].start
  <2>1. /\ UNCHANGED <<main, outcome, graph, lost>>
        /\ graph \in {"running", "failed"} /\ outcome # "returned"
    BY <1>0, StepFrame, CallsRun, CallMoves DEF CallMove
  <2>2. \A d \in Calls \ {c} : rec'[d] = rec[d]
    BY <1>0, CallMoves DEF CallMove
  <2> QED
    BY <2>1, <2>2, IdFacts
<1>2. phase \in {"running", "raised"} /\ phase' = phase /\ Start("pre") \notin denied
  <2>1. phase \in {"running", "raised"} /\ Start("pre") \notin denied
    BY <1>0, <1>1, Lives
  <2> QED
    BY <1>1, <2>1 DEF phase
<1>3. Start("pre") \notin denied'
  <2>1. "pre" \in Ids \ {c}
    BY IdFacts
  <2> QED
    BY <1>0, <1>2, <2>1, CallDenials
<1>4. ASSUME rows' = rows, c \in Tools => rec'[c].start = rec[c].start PROVE Refines
  <2>1. row' = row /\ session' = session
    BY <1>1, <1>4, Unmoved
  <2> QED
    BY <1>2, <1>3, <2>1, Stutters
<1>5. ASSUME cfg.bridge, rows' = Counted(Start(c)),
             c \in Tools => cfg.toolStart /\ rec[c] # NoRec /\ ~rec[c].start,
             c \in Llms => at[c] = "idle"
      PROVE  Refines
  <2>1. rows[Start(c)] = 0 /\ rows[Complete(c)] = 0
    <3>1. CASE c \in Tools
      <4>1. ~rec[c].complete /\ c \notin Unbound
        BY <1>0, <1>5, <3>1 DEF ReportInv, ReportedTool, Stages
      <4> QED
        BY <1>0, <1>5, <3>1, <4>1 DEF BridgeInv, ToolRec, Bit
    <3>2. CASE c \in Llms
      <4>1. "none" # c
        BY <1>0, IdFacts
      <4> QED
        BY <1>0, <1>5, <3>2, <4>1 DEF BridgeInv, LlmRec
    <3> QED
      BY <1>0, <3>1, <3>2
  <2>2. rows[Close(c)] = 0
    <3>1. Close(c) \notin seen
      BY <1>0, <1>5 DEF CloseInv
    <3> QED
      BY <1>0, <3>1, Counts, CallbackFacts
  <2>3. row[c] = "new"
    BY <1>0, <2>1, <2>2, RowFree
  <2>4. session # "closed"
    <3>1. WorkflowEnd \notin seen
      BY <1>0, <1>1 DEF SessionInv
    <3> QED
      BY <1>0, <3>1, SessionSeen
  <2>6. c \notin lost
    BY <1>0, <1>5 DEF LostInv
  <2>5. Contract!Next
    BY <1>0, <1>1, <1>2, <1>3, <1>5, <2>3, <2>4, <2>6, OpensRow
  <2> QED
    BY <2>5 DEF Refines
<1>6. ASSUME cfg.bridge, IdOf(c) \in Ids, rows' = Counted(Complete(IdOf(c))),
             rec[c] # NoRec, ~rec[c].complete, rec'[c].start = rec[c].start,
             c \in Llms => cfg.llmEnd
      PROVE  Refines
  <2> DEFINE i == IdOf(c)
  <2>0. /\ c \notin Unbound /\ i = IF c \in Tools THEN c ELSE alias[c]
        /\ c \in Tools => c \notin Llms
    BY <1>0, <1>6 DEF Stages, IdOf
  <2>7. c \in Llms => LlmRec(c) /\ i = alias[c] /\ i \in {"pre", c}
    <3>1. c \in Llms => LlmRec(c) /\ i = alias[c] /\ i # "none"
      BY <1>0, <1>6, <2>0, IdFacts DEF BridgeInv
    <3> QED
      BY <3>1 DEF LlmRec
  <2>8. c \in Tools => ToolRec(c) /\ i = c
    BY <1>0, <1>6, <2>0 DEF BridgeInv
  <2>1. rows[Complete(i)] = 0
    <3>1. c \in Tools => rows[Complete(i)] = 0
      BY <1>6, <2>8 DEF ToolRec, Bit
    <3>2. c \in Llms => rows[Complete(i)] = 0
      BY <1>6, <2>7 DEF LlmRec, Bit
    <3> QED
      BY <1>0, <3>1, <3>2
  <2>2. rows[Close(i)] = 0
    <3>1. Close(i) \notin seen
      <4>1. CASE c \in Tools
        BY <1>0, <4>1 DEF IdOf, CloseInv
      <4>2. CASE c \in Llms
        BY <1>6, <4>2, <1>0 DEF ReportInv
      <4> QED
        BY <1>0, <4>1, <4>2
    <3> QED
      BY <1>0, <1>6, <3>1, Counts, CallbackFacts
  <2>6. i \notin lost
    <3>1. CASE c \in Tools
      BY <1>6, <2>0, <3>1 DEF LostInv
    <3>2. CASE c \notin Tools
      <4>1. i \notin Tools
        BY <1>0, <2>7, <3>2, IdFacts
      <4> QED
        BY <4>1 DEF LostInv
    <3> QED
      BY <3>1, <3>2
  <2>3. row[i] \notin {"ended", "lost"}
    BY <1>6, <2>1, <2>2, <2>6, RowFree
  <2>4. \A d \in Tools \ {i} : rec'[d].start = rec[d].start
    BY <1>1, <1>6
  <2>5. Contract!Next
    BY <1>0, <1>1, <1>2, <1>3, <1>6, <2>3, <2>4, EndsRow
  <2> QED
    BY <2>5 DEF Refines
<1> QED
  BY <1>0, <1>4, <1>5, <1>6, CallTells

\* The graph's own end is not seen outside before the caller hears of it.
LEMMA GraphRefines ==
  ASSUME FlowInv, FinishGraph \/ FailGraph PROVE Refines
<1>1. /\ UNCHANGED <<main, outcome, rows, rec, lost, denied>>
      /\ graph = "running" /\ graph' \in {"finished", "failed"}
  BY DEF FinishGraph, FailGraph, consumer
<1>2. phase' = phase
  BY <1>1 DEF phase
<1>3. row' = row /\ session' = session
  BY <1>1, Unmoved
<1> QED
  BY <1>1, <1>2, <1>3, Stutters

\* Every step of a turn is one its contract allows, or is not seen outside.
LEMMA StepRefines ==
  ASSUME ChainEvents, FlowInv, PromptInv, LostInv, [Next]_vars
  PROVE  [Contract!Next]_(Contract!vars)
<1>1. ASSUME NEW c \in Calls, Acts(c) PROVE Refines
  BY <1>1, CallsRefine
<1>2. CASE UNCHANGED vars
  <2>1. UNCHANGED <<main, outcome, graph, rows, rec, lost, denied>>
    BY <1>2 DEF vars, consumer, calls
  <2>2. phase' = phase
    BY <2>1 DEF phase
  <2>3. row' = row /\ session' = session
    BY <2>1, Unmoved
  <2> QED
    BY <2>1, <2>2, <2>3, Stutters DEF Refines
<1>3. Refines
  BY <1>1, <1>2, ScreeningRefines, ConsumeRefines, SettlesRefine, CleanupRefines, GraphRefines,
     NextSteps DEF Refines
<1> QED
  BY <1>3 DEF Refines

\* A turn implements its contract, fairness aside, where the chain events that
\* open and close its session are on.
THEOREM Refinement == ASSUME ChainEvents PROVE Spec => Contract!SafeSpec
<1>1. Init => FlowInv /\ PromptInv /\ LostInv
  BY InitFlowInv DEF Init, PromptInv, LostInv
<1>2. FlowInv /\ PromptInv /\ LostInv /\ [Next]_vars => (FlowInv /\ PromptInv /\ LostInv)'
  <2>1. FlowInv => TypeInv /\ Stages
    BY DEF FlowInv, TurnInv
  <2> QED
    BY <2>1, NextFlowInv, NextPromptInv, NextLostInv
<1>3. Init => Contract!Init
  <2> SUFFICES ASSUME Init PROVE Contract!Init
    OBVIOUS
  <2>1. /\ main = "signal" /\ graph = "idle" /\ denied = {}
        /\ \A r \in Rows : rows[r] = 0
    BY DEF Init
  <2>2. phase = "screening"
    BY <2>1 DEF phase
  <2>3. session = "new"
    BY <2>1, RowFacts DEF session
  <2>4. row = [i \in Ids |-> "new"]
    <3>1. ASSUME NEW i \in Ids PROVE row[i] = "new"
      BY <2>1, RowFacts DEF row
    <3> QED
      BY <3>1 DEF row
  <2>5. (Start("pre") \in denied) = FALSE
    BY <2>1
  <2> QED
    BY <2>2, <2>3, <2>4, <2>5, Zenon DEF Contract!Init
<1>4. FlowInv /\ PromptInv /\ LostInv /\ [Next]_vars => [Contract!Next]_(Contract!vars)
  BY StepRefines
<1> QED
  BY <1>1, <1>2, <1>3, <1>4, PTL DEF Spec, Contract!SafeSpec

=============================================================================

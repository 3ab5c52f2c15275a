------------------------ MODULE ApprovalWaiterProofs ------------------------
(***************************************************************************)
(* Theorems about ApprovalWaiter, for any number of turns, activities,     *)
(* evaluations and waits.                                                  *)
(***************************************************************************)
EXTENDS ApprovalWaiter, TLAPS

\* A slot that says "approved" names an evaluation that was granted.
SlotsAreGranted ==
  \A a \in Activities :
    decision[a].outcome = "approved" => decision[a].eval \in granted

\* An approval in hand, not yet recorded, was counted as a grant unless the
\* turn had ended when it arrived.
AnswersAreGranted ==
  \A w \in Waits :
    /\ pc[w] \in {"answered", "recording"}
    /\ Outcome(answer[w]) = "approved"
    /\ w \notin late
    => EvalOf[w] \in granted

\* A wait that has begun found its predecessors released.
OrderKept ==
  \A w \in Waits : pc[w] # "idle" => \A v \in After[w] : pc[v] = "released"

\* Until the repeated enforcement has run, the slot keeps the approval.
SlotKeptForRepeat ==
  \A w \in Waits, v \in Waits :
    /\ v \in After[w]
    /\ EvalOf[v] = EvalOf[w]
    /\ pc[v] = "released"
    /\ pc[w] # "released"
    => decision[act(w)] = [eval |-> EvalOf[w], outcome |-> "approved"]

\* A repeated enforcement never reaches the polling loop.
RepeatStaysOut ==
  \A w \in Waits : Repeats(w) =>
    pc[w] \notin {"looping", "polling", "answered", "recording", "sleeping"}

\* A late wait is stuck before its check, in a turn that has ended.
LateIsStuck ==
  \A w \in late : TurnOver(w) /\ pc[w] \in {"answered", "cancelled"}

\* _turns has what the handler opened, and end_turn has popped and cancelled
\* the entries of the turns that ended and of no other.
Table ==
  \A t \in Turns : entry[t] = CASE turn[t] = "unborn" -> "none"
                                [] turn[t] = "active" -> "open"
                                [] OTHER              -> "cancelled"

\* What makes releases sound ...
GrantInv ==
  /\ ReleasedOnGrant
  /\ SlotsAreGranted
  /\ AnswersAreGranted
  /\ LateIsStuck

\* ... and what makes the second enforcement of an evaluation free of polls.
RepeatInv ==
  /\ OrderKept
  /\ SlotKeptForRepeat
  /\ RepeatStaysOut
  /\ RepeatReusesDecision

-----------------------------------------------------------------------------
(* Types *)

\* What a wait is about: its activity and its turn exist.
LEMMA WaitTypes ==
  ASSUME NEW w \in Waits
  PROVE  EvalOf[w] \in Evals /\ act(w) \in Activities /\ wturn(w) \in Turns
  BY WaitAssumption DEF act, wturn

\* The outcome of an answer is one of the three.
LEMMA OutcomeType ==
  ASSUME NEW r
  PROVE  Outcome(r) \in Outcomes
  BY DEF Outcome, Outcomes

\* _record_response leaves well-typed slots, answers and marks.
LEMMA RecordTypes ==
  ASSUME TypeOK, NEW w \in Waits, RecordAnswer(w)
  PROVE  /\ decision' \in [Activities -> Decisions \cup {NoDecision}]
         /\ pc' \in [Waits -> {"idle"} \cup Running \cup Settled]
         /\ answer' \in [Waits -> Response]
         /\ aborted' \subseteq Activities
  <1> DEFINE o == Outcome(answer[w])
  <1>1. NoAnswer \in Response
    BY DEF NoAnswer, Response
  <1>2. answer' = [answer EXCEPT ![w] = NoAnswer]
    BY DEF RecordAnswer
  <1>3. CASE o = "pending"
    BY <1>1, <1>2, <1>3 DEF RecordAnswer, TypeOK, GoTo, Running, Outcomes
  <1>4. CASE o \in {"approved", "failed"}
    <2>1. [eval |-> EvalOf[w], outcome |-> o] \in Decisions
      BY <1>4, WaitTypes DEF Decisions
    <2>2. decision' = [decision EXCEPT
                         ![act(w)] = [eval |-> EvalOf[w], outcome |-> o]]
      BY <1>4 DEF RecordAnswer
    <2>3. /\ pc' = [pc EXCEPT ![w] = "released"] \/ pc' = [pc EXCEPT ![w] = "failed"]
          /\ aborted' = aborted \/ aborted' = aborted \cup {act(w)}
      BY <1>4 DEF RecordAnswer, Fail, GoTo
    <2> QED
      BY <1>1, <1>2, <2>1, <2>2, <2>3, WaitTypes DEF TypeOK, Settled
  <1> QED
    BY <1>3, <1>4, OutcomeType DEF Outcomes

\* The initial state has the declared types.
LEMMA InitTypeOK == Init => TypeOK
  BY DEF Init, TypeOK, TurnStates, Response, NoAnswer

\* Every step keeps the declared types.
LEMMA NextTypeOK == TypeOK /\ [Next]_vars => TypeOK'
  <1> SUFFICES ASSUME TypeOK, [Next]_vars PROVE TypeOK'
    OBVIOUS
  <1> USE WaitTypes DEF TypeOK, TurnStates, Running, Settled
  <1>1. ASSUME NEW t \in Turns, BeginTurn(t) PROVE TypeOK'
    BY <1>1 DEF BeginTurn
  <1>2. ASSUME NEW t \in Turns, EndTurn(t) PROVE TypeOK'
    <2>1. entry' \in [Turns -> {"none", "open", "cancelled"}]
      BY <1>2 DEF EndTurn
    <2> QED
      BY <1>2, <2>1 DEF EndTurn
  <1>3. ASSUME NEW t \in Turns, SweepTurn(t) PROVE TypeOK'
    BY <1>3 DEF SweepTurn
  <1>4. ASSUME NEW w \in Waits, EnterOnLoop(w) PROVE TypeOK'
    BY <1>4 DEF EnterOnLoop, Reuse, StartPoll, Fail, GoTo, MayBegin
  <1>5. ASSUME NEW w \in Waits, EnterOnThread(w) PROVE TypeOK'
    BY <1>5 DEF EnterOnThread, Fail, GoTo, MayBegin
  <1>6. ASSUME NEW w \in Waits, CheckOnEntry(w) PROVE TypeOK'
    BY <1>6 DEF CheckOnEntry, Cancel, GoTo
  <1>7. ASSUME NEW w \in Waits, ReuseOnThread(w) PROVE TypeOK'
    BY <1>7 DEF ReuseOnThread, Reuse, Fail, GoTo
  <1>8. ASSUME NEW w \in Waits, CheckBeforePoll(w) PROVE TypeOK'
    BY <1>8 DEF CheckBeforePoll, Cancel, StartPoll, GoTo
  <1>9. ASSUME NEW w \in Waits, NEW r \in Response, Answer(w, r) PROVE TypeOK'
    BY <1>9 DEF Answer, GoTo
  <1>10. ASSUME NEW w \in Waits, PollError(w) PROVE TypeOK'
    BY <1>10 DEF PollError, Fail, GoTo
  <1>11. ASSUME NEW w \in Waits, CheckAnswer(w) PROVE TypeOK'
    BY <1>11 DEF CheckAnswer, Cancel, GoTo
  <1>12. ASSUME NEW w \in Waits, RecordOnThread(w) PROVE TypeOK'
    BY <1>12, RecordTypes DEF RecordOnThread
  <1>13. ASSUME NEW w \in Waits, ResumeOnLoop(w) PROVE TypeOK'
    BY <1>13, RecordTypes DEF ResumeOnLoop, Cancel, GoTo
  <1>14. ASSUME NEW w \in Waits, WakeThread(w) PROVE TypeOK'
    BY <1>14 DEF WakeThread, GoTo
  <1>15. ASSUME NEW w \in Waits, WakeOnLoop(w) PROVE TypeOK'
    BY <1>15 DEF WakeOnLoop, Cancel, StartPoll, GoTo
  <1>16. ASSUME NEW w \in Waits, CancelTask(w) PROVE TypeOK'
    BY <1>16 DEF CancelTask, Cancel, GoTo
  <1>17. CASE UNCHANGED vars
    BY <1>17 DEF vars
  <1> QED
    BY <1>1, <1>2, <1>3, <1>4, <1>5, <1>6, <1>7, <1>8, <1>9, <1>10, <1>11, <1>12, <1>13, <1>14, <1>15, <1>16, <1>17
    DEF Next, Enter, Step, AnyAnswer, Terminating

\* The state of the waiter and of every wait has the declared types.
THEOREM TypeCorrect == Spec => []TypeOK
  BY InitTypeOK, NextTypeOK, PTL DEF Spec

-----------------------------------------------------------------------------
(* The table of turns *)

\* The table is empty before the first turn.
LEMMA InitTable == Init => Table
  BY DEF Init, Table

\* end_turn finds by its workflow the entry of its turn and no other.
LEMMA NextTable == TypeOK /\ Table /\ [Next]_vars => Table'
  <1> SUFFICES ASSUME TypeOK, Table, [Next]_vars PROVE Table'
    OBVIOUS
  <1> USE DEF TypeOK, TurnStates, Table
  <1>1. ASSUME NEW t \in Turns, BeginTurn(t) PROVE Table'
    BY <1>1 DEF BeginTurn
  <1>2. ASSUME NEW t \in Turns, EndTurn(t) PROVE Table'
    BY <1>2, WorkflowAssumption DEF EndTurn
  <1>3. ASSUME NEW t \in Turns, SweepTurn(t) PROVE Table'
    BY <1>3 DEF SweepTurn
  <1>4. ASSUME NEW w \in Waits,
               Enter(w) \/ Step(w) \/ AnyAnswer(w) \/ PollError(w) \/ CancelTask(w)
        PROVE  UNCHANGED <<turn, entry>>
    BY <1>4
    DEF Enter, EnterOnLoop, EnterOnThread, Step, CheckOnEntry, ReuseOnThread,
        CheckBeforePoll, CheckAnswer, RecordOnThread, ResumeOnLoop, WakeThread,
        WakeOnLoop, AnyAnswer, Answer, PollError, CancelTask
  <1>5. CASE UNCHANGED vars
    BY <1>5 DEF vars
  <1> QED
    BY <1>1, <1>2, <1>3, <1>4, <1>5 DEF Next, Terminating

\* What a wait reads of the table tells how far its own turn is.
LEMMA TableFacts ==
  ASSUME TypeOK, Table, NEW w \in Waits
  PROVE  /\ Registered(w) <=> turn[wturn(w)] = "active"
         /\ Cancelled(w) <=> TurnOver(w)
  BY WaitTypes DEF TypeOK, TurnStates, Table, Registered, Cancelled, TurnOver

-----------------------------------------------------------------------------
(* Grants *)

\* Nothing is granted, released or late in the initial state.
LEMMA InitGrantInv == Init => GrantInv
  <1> SUFFICES ASSUME Init PROVE GrantInv
    OBVIOUS
  <1>1. \A a \in Activities : decision[a].outcome = "pending"
    BY DEF Init, NoDecision
  <1>2. \A w \in Waits : pc[w] = "idle"
    BY DEF Init
  <1> QED
    BY <1>1, <1>2
    DEF Init, GrantInv, ReleasedOnGrant, SlotsAreGranted, AnswersAreGranted, LateIsStuck

\* Every step keeps releases, slots and answers within what was granted.
LEMMA NextGrantInv == TypeOK /\ Table /\ GrantInv /\ [Next]_vars => GrantInv'
  <1> SUFFICES ASSUME TypeOK, Table, GrantInv, [Next]_vars PROVE GrantInv'
    OBVIOUS
  <1> USE WaitTypes DEF TypeOK, GrantInv, ReleasedOnGrant, SlotsAreGranted,
        AnswersAreGranted, LateIsStuck, TurnOver, act, wturn
  <1>1. ASSUME NEW t \in Turns, BeginTurn(t) PROVE GrantInv'
    BY <1>1 DEF BeginTurn
  <1>2. ASSUME NEW t \in Turns, EndTurn(t) PROVE GrantInv'
    BY <1>2 DEF EndTurn
  <1>3. ASSUME NEW t \in Turns, SweepTurn(t) PROVE GrantInv'
    BY <1>3 DEF SweepTurn
  <1>4. ASSUME NEW w \in Waits, EnterOnLoop(w) PROVE GrantInv'
    BY <1>4 DEF EnterOnLoop, MayBegin, Reuse, Reusable, StartPoll, Fail, GoTo
  <1>5. ASSUME NEW w \in Waits, EnterOnThread(w) PROVE GrantInv'
    BY <1>5 DEF EnterOnThread, MayBegin, Fail, GoTo
  <1>6. ASSUME NEW w \in Waits, CheckOnEntry(w) PROVE GrantInv'
    BY <1>6 DEF CheckOnEntry, Cancel, GoTo
  <1>7. ASSUME NEW w \in Waits, ReuseOnThread(w) PROVE GrantInv'
    BY <1>7 DEF ReuseOnThread, Reuse, Reusable, Fail, GoTo
  <1>8. ASSUME NEW w \in Waits, CheckBeforePoll(w) PROVE GrantInv'
    BY <1>8 DEF CheckBeforePoll, Cancel, StartPoll, GoTo
  <1>9. ASSUME NEW w \in Waits, NEW r \in Response, Answer(w, r) PROVE GrantInv'
    BY <1>9 DEF Answer, Outcome, GoTo
  <1>10. ASSUME NEW w \in Waits, PollError(w) PROVE GrantInv'
    BY <1>10 DEF PollError, Fail, GoTo
  <1>11. ASSUME NEW w \in Waits, CheckAnswer(w) PROVE GrantInv'
    BY <1>11, TableFacts DEF CheckAnswer, Cancel, GoTo
  <1>12. ASSUME NEW w \in Waits, RecordOnThread(w) PROVE GrantInv'
    BY <1>12 DEF RecordOnThread, RecordAnswer, Fail, GoTo
  <1>13. ASSUME NEW w \in Waits, ResumeOnLoop(w) PROVE GrantInv'
    BY <1>13, TableFacts DEF ResumeOnLoop, RecordAnswer, Cancel, Fail, GoTo
  <1>14. ASSUME NEW w \in Waits, WakeThread(w) PROVE GrantInv'
    BY <1>14 DEF WakeThread, GoTo
  <1>15. ASSUME NEW w \in Waits, WakeOnLoop(w) PROVE GrantInv'
    BY <1>15 DEF WakeOnLoop, Cancel, StartPoll, GoTo
  <1>16. ASSUME NEW w \in Waits, CancelTask(w) PROVE GrantInv'
    BY <1>16 DEF CancelTask, Cancel, Suspended, GoTo
  <1>17. CASE UNCHANGED vars
    BY <1>17 DEF vars
  <1> QED
    BY <1>1, <1>2, <1>3, <1>4, <1>5, <1>6, <1>7, <1>8, <1>9,
       <1>10, <1>11, <1>12, <1>13, <1>14, <1>15, <1>16, <1>17
    DEF Next, Enter, Step, AnyAnswer, Terminating

\* No operation that requires approval runs without a grant of the very
\* evaluation it enforces, given while its turn lived: whatever the number of
\* turns, threads and hooks that share an activity's slot.
THEOREM ApprovalSafety == Spec => []ReleasedOnGrant
  <1>1. Init => TypeOK /\ Table /\ GrantInv
    BY InitTypeOK, InitTable, InitGrantInv
  <1>2. TypeOK /\ Table /\ GrantInv /\ [Next]_vars => (TypeOK /\ Table /\ GrantInv)'
    BY NextTypeOK, NextTable, NextGrantInv
  <1>3. GrantInv => ReleasedOnGrant
    BY DEF GrantInv
  <1> QED
    BY <1>1, <1>2, <1>3, PTL DEF Spec

\* An answer that arrives after end_turn never releases its wait.
THEOREM NoLateRelease == Spec => []LateAnswerNeverReleases
  <1>1. Init => TypeOK /\ Table /\ GrantInv
    BY InitTypeOK, InitTable, InitGrantInv
  <1>2. TypeOK /\ Table /\ GrantInv /\ [Next]_vars => (TypeOK /\ Table /\ GrantInv)'
    BY NextTypeOK, NextTable, NextGrantInv
  <1>3. GrantInv => LateAnswerNeverReleases
    BY DEF GrantInv, LateIsStuck, LateAnswerNeverReleases
  <1> QED
    BY <1>1, <1>2, <1>3, PTL DEF Spec

-----------------------------------------------------------------------------
(* Repeated enforcement *)

\* No wait has begun in the initial state.
LEMMA InitRepeatInv == Init => RepeatInv
  BY DEF Init, RepeatInv, OrderKept, SlotKeptForRepeat, RepeatStaysOut,
         RepeatReusesDecision

\* A wait moves: it had not been released, and if it starts, its
\* predecessors were.
Moves(w, l) ==
  /\ pc[w] # "released"
  /\ pc[w] # "idle" \/ MayBegin(w)
  /\ pc' = [pc EXCEPT ![w] = l]

\* A wait moves only after its predecessors were released, and no release is
\* taken back: the order of the callbacks is kept.
LEMMA OrderStep ==
  ASSUME TypeOK, OrderKept, NEW w \in Waits, NEW l, Moves(w, l)
  PROVE  OrderKept'
  BY WaitAssumption DEF TypeOK, OrderKept, Moves, MayBegin

\* A step that leaves the slots alone and releases nobody, unless on the
\* slot's own decision.
LEMMA SlotStep ==
  ASSUME TypeOK, SlotKeptForRepeat, NEW w \in Waits, NEW l, Moves(w, l),
         UNCHANGED decision,
         \/ l # "released"
         \/ decision[act(w)] = [eval |-> EvalOf[w], outcome |-> "approved"]
  PROVE  SlotKeptForRepeat'
  BY WaitAssumption DEF TypeOK, SlotKeptForRepeat, Moves, act

\* Only a first enforcement records, and it cannot overwrite a slot that a
\* repeat still has to read.
LEMMA RecordStep ==
  ASSUME TypeOK, OrderKept, SlotKeptForRepeat, RepeatStaysOut,
         NEW w \in Waits, pc[w] \in {"answered", "recording"}, RecordAnswer(w)
  PROVE  SlotKeptForRepeat'
  <1> SUFFICES ASSUME NEW f \in Waits, NEW v \in Waits,
                      v \in After[f], EvalOf[v] = EvalOf[f],
                      pc'[v] = "released", pc'[f] # "released"
               PROVE  decision'[act(f)] = [eval |-> EvalOf[f], outcome |-> "approved"]
    BY DEF SlotKeptForRepeat, act
  <1>1. PICK l : l # "idle" /\ pc' = [pc EXCEPT ![w] = l]
    BY DEF RecordAnswer, Fail, GoTo
  <1>2. Repeats(f) /\ ~Repeats(w) /\ f # w
    BY DEF Repeats, RepeatStaysOut
  <1>3. pc[f] # "released"
    BY <1>1, <1>2 DEF TypeOK
  <1>4. CASE EvalOf[w] # EvalOf[f] /\ act(w) = act(f)
    <2>1. f \in After[w]
      BY <1>2, <1>4, CallbackOrder DEF act
    <2> QED
      BY <2>1, <1>3 DEF OrderKept
  <1>5. CASE act(w) # act(f)
    <2>1. v # w
      BY <1>5 DEF act
    <2>2. pc[v] = "released"
      BY <2>1, <1>1 DEF TypeOK
    <2>3. decision'[act(f)] = decision[act(f)]
      BY <1>5, WaitTypes DEF RecordAnswer, TypeOK
    <2> QED
      BY <1>3, <2>2, <2>3 DEF SlotKeptForRepeat
  <1>6. CASE EvalOf[w] = EvalOf[f] /\ v = w
    BY <1>6, WaitTypes DEF RecordAnswer, Fail, GoTo, TypeOK, act
  <1>7. CASE EvalOf[w] = EvalOf[f] /\ v # w
    <2>1. pc[v] = "released"
      BY <1>1, <1>7 DEF TypeOK
    <2>2. Repeats(v)
      BY <1>2, <1>7, CallbackOrder
    <2>3. PICK u \in After[v] : EvalOf[u] = EvalOf[v] /\ ~Repeats(u)
      BY <2>2, CallbackOrder
    <2>4. u \in Waits /\ u = w
      BY <1>2, <1>7, <2>3, CallbackOrder, WaitAssumption
    <2> QED
      BY <2>1, <2>3, <2>4 DEF OrderKept
  <1> QED
    BY <1>4, <1>5, <1>6, <1>7

\* A repeated enforcement that starts, or has started, finds the slot holding
\* its approval.
LEMMA RepeatFindsSlot ==
  ASSUME TypeOK, OrderKept, SlotKeptForRepeat, NEW w \in Waits, Repeats(w),
         pc[w] # "released", MayBegin(w) \/ pc[w] # "idle"
  PROVE  Reusable(w) /\ decision[act(w)].outcome = "approved"
  <1>1. PICK v \in After[w] : EvalOf[v] = EvalOf[w]
    BY DEF Repeats
  <1>2. v \in Waits /\ pc[v] = "released"
    BY WaitAssumption DEF OrderKept, MayBegin
  <1>3. decision[act(w)] = [eval |-> EvalOf[w], outcome |-> "approved"]
    BY <1>1, <1>2 DEF SlotKeptForRepeat
  <1> QED
    BY <1>3, WaitTypes DEF Reusable, Decisions

\* Every step keeps a repeated enforcement out of the polling loop.
LEMMA NextRepeatInv == TypeOK /\ Table /\ RepeatInv /\ [Next]_vars => RepeatInv'
  <1> SUFFICES ASSUME TypeOK, Table, RepeatInv, [Next]_vars PROVE RepeatInv'
    OBVIOUS
  <1> USE DEF RepeatInv
  <1>1. ASSUME NEW t \in Turns, BeginTurn(t) PROVE RepeatInv'
    BY <1>1 DEF BeginTurn, OrderKept, SlotKeptForRepeat, RepeatStaysOut, RepeatReusesDecision, TypeOK, TurnOver, act, wturn
  <1>2. ASSUME NEW t \in Turns, EndTurn(t) PROVE RepeatInv'
    BY <1>2 DEF EndTurn, OrderKept, SlotKeptForRepeat, RepeatStaysOut, RepeatReusesDecision, TypeOK, TurnOver, act, wturn
  <1>3. ASSUME NEW t \in Turns, SweepTurn(t) PROVE RepeatInv'
    BY <1>3 DEF SweepTurn, OrderKept, SlotKeptForRepeat, RepeatStaysOut, RepeatReusesDecision, TypeOK, TurnOver, act, wturn
  <1>4. ASSUME NEW w \in Waits, EnterOnLoop(w) PROVE RepeatInv'
    <2>1. PICK l \in {"released", "failed", "polling"} : Moves(w, l)
      BY <1>4 DEF EnterOnLoop, Reuse, StartPoll, Fail, GoTo, Moves, MayBegin
    <2>2. OrderKept'
      BY <2>1, OrderStep
    <2>3. l = "released" =>
            decision[act(w)] = [eval |-> EvalOf[w], outcome |-> "approved"]
      BY <1>4, <2>1, WaitTypes
      DEF EnterOnLoop, Reuse, Reusable, Decisions, StartPoll, Fail, GoTo, Moves, TypeOK
    <2>4. SlotKeptForRepeat'
      BY <1>4, <2>1, <2>3, SlotStep DEF EnterOnLoop
    <2>5. Repeats(w) => Reusable(w) /\ decision[act(w)].outcome = "approved"
      BY <1>4, <2>1, RepeatFindsSlot DEF EnterOnLoop, Moves
    <2>6. RepeatStaysOut'
      BY <1>4, <2>5
      DEF RepeatStaysOut, EnterOnLoop, Reuse, StartPoll, Fail, GoTo, TypeOK
    <2>7. RepeatReusesDecision'
      BY <1>4, <2>5, WaitTypes, TableFacts
      DEF RepeatReusesDecision, EnterOnLoop, MayBegin, Reuse,
          StartPoll, Fail, GoTo, TurnOver, wturn, act, TypeOK, TurnStates
    <2> QED
      BY <2>2, <2>4, <2>6, <2>7
  <1>5. ASSUME NEW w \in Waits, EnterOnThread(w) PROVE RepeatInv'
    <2>1. Moves(w, "failed") \/ Moves(w, "entered")
      BY <1>5 DEF EnterOnThread, Moves, MayBegin, Fail, GoTo
    <2>2. OrderKept'
      BY <2>1, OrderStep
    <2>3. SlotKeptForRepeat'
      BY <1>5, <2>1, SlotStep DEF EnterOnThread
    <2>4. RepeatStaysOut' /\ RepeatReusesDecision'
      BY <1>5, WaitTypes, TableFacts
      DEF EnterOnThread, MayBegin, Fail, GoTo, RepeatStaysOut, RepeatReusesDecision, TypeOK, TurnOver, act, wturn, TurnStates
    <2> QED
      BY <2>2, <2>3, <2>4
  <1>6. ASSUME NEW w \in Waits, CheckOnEntry(w) PROVE RepeatInv'
    <2>1. Moves(w, "cancelled") \/ Moves(w, "checked")
      BY <1>6 DEF Moves, CheckOnEntry, Cancel, GoTo
    <2>2. OrderKept'
      BY <2>1, OrderStep
    <2>3. SlotKeptForRepeat'
      BY <1>6, <2>1, SlotStep DEF CheckOnEntry
    <2>4. RepeatStaysOut' /\ RepeatReusesDecision'
      BY <1>6, WaitTypes DEF CheckOnEntry, Cancel, GoTo, RepeatStaysOut, RepeatReusesDecision, TypeOK, TurnOver, act, wturn
    <2> QED
      BY <2>2, <2>3, <2>4
  <1>7. ASSUME NEW w \in Waits, ReuseOnThread(w) PROVE RepeatInv'
    <2>1. PICK l \in {"released", "failed", "looping"} : Moves(w, l)
      BY <1>7 DEF ReuseOnThread, Reuse, Fail, GoTo, Moves
    <2>2. OrderKept'
      BY <2>1, OrderStep
    <2>3. l = "released" =>
            decision[act(w)] = [eval |-> EvalOf[w], outcome |-> "approved"]
      BY <1>7, <2>1, WaitTypes
      DEF ReuseOnThread, Reuse, Reusable, Decisions, Fail, GoTo, Moves, TypeOK
    <2>4. SlotKeptForRepeat'
      BY <1>7, <2>1, <2>3, SlotStep DEF ReuseOnThread
    <2>5. Repeats(w) => Reusable(w) /\ decision[act(w)].outcome = "approved"
      BY <1>7, RepeatFindsSlot DEF ReuseOnThread
    <2>6. RepeatStaysOut' /\ RepeatReusesDecision'
      BY <1>7, <2>5, WaitTypes
      DEF ReuseOnThread, Reuse, Fail, GoTo, RepeatStaysOut, RepeatReusesDecision, TypeOK, TurnOver, act, wturn
    <2> QED
      BY <2>2, <2>4, <2>6
  <1>8. ASSUME NEW w \in Waits, CheckBeforePoll(w) PROVE RepeatInv'
    <2>1. Moves(w, "cancelled") \/ Moves(w, "polling")
      BY <1>8 DEF Moves, CheckBeforePoll, Cancel, StartPoll, GoTo
    <2>2. OrderKept'
      BY <2>1, OrderStep
    <2>3. SlotKeptForRepeat'
      BY <1>8, <2>1, SlotStep DEF CheckBeforePoll
    <2>4. RepeatStaysOut' /\ RepeatReusesDecision'
      BY <1>8, WaitTypes DEF CheckBeforePoll, Cancel, StartPoll, GoTo, RepeatStaysOut, RepeatReusesDecision, TypeOK, TurnOver, act, wturn
    <2> QED
      BY <2>2, <2>3, <2>4
  <1>9. ASSUME NEW w \in Waits, NEW r \in Response, Answer(w, r) PROVE RepeatInv'
    <2>1. Moves(w, "answered")
      BY <1>9 DEF Moves, Answer, GoTo
    <2>2. OrderKept'
      BY <2>1, OrderStep
    <2>3. SlotKeptForRepeat'
      BY <1>9, <2>1, SlotStep DEF Answer
    <2>4. RepeatStaysOut' /\ RepeatReusesDecision'
      BY <1>9, WaitTypes DEF Answer, GoTo, RepeatStaysOut, RepeatReusesDecision, TypeOK, TurnOver, act, wturn
    <2> QED
      BY <2>2, <2>3, <2>4
  <1>10. ASSUME NEW w \in Waits, PollError(w) PROVE RepeatInv'
    <2>1. Moves(w, "failed")
      BY <1>10 DEF Moves, PollError, Fail, GoTo
    <2>2. OrderKept'
      BY <2>1, OrderStep
    <2>3. SlotKeptForRepeat'
      BY <1>10, <2>1, SlotStep DEF PollError
    <2>4. RepeatStaysOut' /\ RepeatReusesDecision'
      BY <1>10, WaitTypes DEF PollError, Fail, GoTo, RepeatStaysOut, RepeatReusesDecision, TypeOK, TurnOver, act, wturn
    <2> QED
      BY <2>2, <2>3, <2>4
  <1>11. ASSUME NEW w \in Waits, CheckAnswer(w) PROVE RepeatInv'
    <2>1. Moves(w, "cancelled") \/ Moves(w, "recording")
      BY <1>11 DEF Moves, CheckAnswer, Cancel, GoTo
    <2>2. OrderKept'
      BY <2>1, OrderStep
    <2>3. SlotKeptForRepeat'
      BY <1>11, <2>1, SlotStep DEF CheckAnswer
    <2>4. RepeatStaysOut' /\ RepeatReusesDecision'
      BY <1>11, WaitTypes DEF CheckAnswer, Cancel, GoTo, RepeatStaysOut, RepeatReusesDecision, TypeOK, TurnOver, act, wturn
    <2> QED
      BY <2>2, <2>3, <2>4
  <1>12. ASSUME NEW w \in Waits, RecordOnThread(w) PROVE RepeatInv'
    <2>1. Moves(w, "sleeping") \/ Moves(w, "released") \/ Moves(w, "failed")
      BY <1>12 DEF RecordOnThread, RecordAnswer, Fail, GoTo, Moves
    <2>2. OrderKept'
      BY <2>1, OrderStep
    <2>3. SlotKeptForRepeat'
      BY <1>12, RecordStep DEF RecordOnThread
    <2>4. RepeatStaysOut' /\ RepeatReusesDecision'
      BY <1>12, WaitTypes DEF RecordOnThread, RecordAnswer, Fail, GoTo, RepeatStaysOut, RepeatReusesDecision, TypeOK, TurnOver, act, wturn
    <2> QED
      BY <2>2, <2>3, <2>4
  <1>13. ASSUME NEW w \in Waits, ResumeOnLoop(w) PROVE RepeatInv'
    <2>1. \/ Moves(w, "cancelled") \/ Moves(w, "sleeping")
          \/ Moves(w, "released") \/ Moves(w, "failed")
      BY <1>13 DEF ResumeOnLoop, RecordAnswer, Cancel, Fail, GoTo, Moves
    <2>2. OrderKept'
      BY <2>1, OrderStep
    <2>3. ASSUME Cancelled(w) PROVE SlotKeptForRepeat'
      <3>1. Moves(w, "cancelled") /\ UNCHANGED decision
        BY <1>13, <2>3 DEF ResumeOnLoop, Cancel, GoTo, Moves
      <3> QED
        BY <3>1, SlotStep
    <2>4. ASSUME ~Cancelled(w) PROVE SlotKeptForRepeat'
      BY <1>13, <2>4, RecordStep DEF ResumeOnLoop
    <2>5. RepeatStaysOut' /\ RepeatReusesDecision'
      BY <1>13, WaitTypes
      DEF ResumeOnLoop, RecordAnswer, Cancel, Fail, GoTo, RepeatStaysOut, RepeatReusesDecision, TypeOK, TurnOver, act, wturn
    <2> QED
      BY <2>2, <2>3, <2>4, <2>5
  <1>14. ASSUME NEW w \in Waits, WakeThread(w) PROVE RepeatInv'
    <2>1. Moves(w, "looping")
      BY <1>14 DEF Moves, WakeThread, GoTo
    <2>2. OrderKept'
      BY <2>1, OrderStep
    <2>3. SlotKeptForRepeat'
      BY <1>14, <2>1, SlotStep DEF WakeThread
    <2>4. RepeatStaysOut' /\ RepeatReusesDecision'
      BY <1>14, WaitTypes DEF WakeThread, GoTo, RepeatStaysOut, RepeatReusesDecision, TypeOK, TurnOver, act, wturn
    <2> QED
      BY <2>2, <2>3, <2>4
  <1>15. ASSUME NEW w \in Waits, WakeOnLoop(w) PROVE RepeatInv'
    <2>1. Moves(w, "cancelled") \/ Moves(w, "polling")
      BY <1>15 DEF Moves, WakeOnLoop, Cancel, StartPoll, GoTo
    <2>2. OrderKept'
      BY <2>1, OrderStep
    <2>3. SlotKeptForRepeat'
      BY <1>15, <2>1, SlotStep DEF WakeOnLoop
    <2>4. RepeatStaysOut' /\ RepeatReusesDecision'
      BY <1>15, WaitTypes DEF WakeOnLoop, Cancel, StartPoll, GoTo, RepeatStaysOut, RepeatReusesDecision, TypeOK, TurnOver, act, wturn
    <2> QED
      BY <2>2, <2>3, <2>4
  <1>16. ASSUME NEW w \in Waits, CancelTask(w) PROVE RepeatInv'
    <2>1. Moves(w, "cancelled")
      BY <1>16 DEF Moves, CancelTask, Cancel, Suspended, GoTo
    <2>2. OrderKept'
      BY <2>1, OrderStep
    <2>3. SlotKeptForRepeat'
      BY <1>16, <2>1, SlotStep DEF CancelTask
    <2>4. RepeatStaysOut' /\ RepeatReusesDecision'
      BY <1>16, WaitTypes DEF CancelTask, Cancel, Suspended, GoTo, RepeatStaysOut, RepeatReusesDecision, TypeOK, TurnOver, act, wturn
    <2> QED
      BY <2>2, <2>3, <2>4
  <1>17. CASE UNCHANGED vars
    BY <1>17 DEF vars, OrderKept, SlotKeptForRepeat, MayBegin, RepeatStaysOut, RepeatReusesDecision, TypeOK, TurnOver, act, wturn
  <1> QED
    BY <1>1, <1>2, <1>3, <1>4, <1>5, <1>6, <1>7, <1>8, <1>9,
       <1>10, <1>11, <1>12, <1>13, <1>14, <1>15, <1>16, <1>17
    DEF Next, Enter, Step, AnyAnswer, Terminating

\* The second callback of an event never asks Core again, and does not fail
\* while its turn lives.
THEOREM RepeatSafety == Spec => []RepeatReusesDecision
  <1>1. Init => TypeOK /\ Table /\ RepeatInv
    BY InitTypeOK, InitTable, InitRepeatInv
  <1>2. TypeOK /\ Table /\ RepeatInv /\ [Next]_vars => (TypeOK /\ Table /\ RepeatInv)'
    BY NextTypeOK, NextTable, NextRepeatInv
  <1>3. RepeatInv => RepeatReusesDecision
    BY DEF RepeatInv
  <1> QED
    BY <1>1, <1>2, <1>3, PTL DEF Spec
-----------------------------------------------------------------------------
(* The contract *)

\* How a move of one wait looks to the contract.
LEMMA StatusMove ==
  ASSUME TypeOK, NEW w \in Waits, NEW l, pc' = [pc EXCEPT ![w] = l]
  PROVE  status' = [status EXCEPT ![w] = IF l \in Running THEN "waiting" ELSE l]
  BY DEF TypeOK, status

\* How a turn's state looks to the contract while it does not change.
LEMMA PhaseSame == UNCHANGED turn => UNCHANGED phase
  BY DEF phase

\* A wait that goes on waiting is a stuttering step of the contract.
LEMMA StutterMove ==
  ASSUME TypeOK, NEW w \in Waits, NEW l \in Running, pc[w] \in Running,
         pc' = [pc EXCEPT ![w] = l], UNCHANGED turn
  PROVE  UNCHANGED status /\ UNCHANGED phase
  <1>1. status' = [status EXCEPT ![w] = "waiting"]
    BY StatusMove
  <1>2. status[w] = "waiting" /\ status = [v \in Waits |-> status[v]]
    BY DEF status
  <1> QED
    BY <1>1, <1>2, PhaseSame DEF status

\* The turn of a wait, as the contract names it.
LEMMA ContractTurn ==
  ASSUME NEW w \in Waits
  PROVE  Contract!turnOf(w) = wturn(w) /\ phase[wturn(w)] = IF turn[wturn(w)] = "swept" THEN "ended" ELSE turn[wturn(w)]
  BY WaitTypes DEF Contract!turnOf, wturn, act, phase

\* A wait that settles is Release, Refuse or Abandon in the contract.
LEMMA SettleMove ==
  ASSUME TypeOK, ReleasedOnGrant', NEW w \in Waits, NEW l \in Settled,
         pc' = [pc EXCEPT ![w] = l], UNCHANGED <<turn, granted>>,
         \/ pc[w] \in Running
         \/ pc[w] = "idle" /\ l = "failed" /\ turn[wturn(w)] # "unborn"
         \/ pc[w] = "idle" /\ l = "released" /\ turn[wturn(w)] = "active",
         pc[w] \in Running => turn[wturn(w)] # "unborn"
  PROVE  Contract!Next
  <1>1. status' = [status EXCEPT ![w] = l] /\ UNCHANGED phase
    BY StatusMove, PhaseSame DEF Settled, Running
  <1>2. status[w] = IF pc[w] \in Running THEN "waiting" ELSE pc[w]
    BY DEF status
  <1>3. CASE l = "released"
    <2>1. EvalOf[w] \in granted
      BY <1>3 DEF ReleasedOnGrant, TypeOK
    <2>2. Contract!Release(w)
      BY <1>1, <1>2, <1>3, <2>1, ContractTurn
      DEF Contract!Release, Contract!Move, Running
    <2> QED
      BY <2>2 DEF Contract!Next
  <1>4. CASE l = "failed"
    <2>1. Contract!Refuse(w)
      BY <1>1, <1>2, <1>4, ContractTurn
      DEF Contract!Refuse, Contract!Move, Running
    <2> QED
      BY <2>1 DEF Contract!Next
  <1>5. CASE l = "cancelled"
    <2>1. Contract!Abandon(w)
      BY <1>1, <1>2, <1>5 DEF Contract!Abandon, Contract!Move
    <2> QED
      BY <2>1 DEF Contract!Next
  <1> QED
    BY <1>3, <1>4, <1>5 DEF Settled

\* A wait that has begun belongs to a turn that has begun.
BegunInBegunTurn ==
  \A w \in Waits : pc[w] # "idle" => turn[wturn(w)] # "unborn"

\* No step makes a wait begin in a turn that has not.
LEMMA NextBegun == TypeOK /\ BegunInBegunTurn /\ [Next]_vars => BegunInBegunTurn'
  <1> SUFFICES ASSUME TypeOK, BegunInBegunTurn, [Next]_vars
               PROVE  BegunInBegunTurn'
    OBVIOUS
  <1> USE WaitTypes DEF TypeOK, BegunInBegunTurn, wturn, act
  <1>1. ASSUME NEW t \in Turns, BeginTurn(t) \/ EndTurn(t) \/ SweepTurn(t)
        PROVE  BegunInBegunTurn'
    BY <1>1 DEF BeginTurn, EndTurn, SweepTurn
  <1>2. ASSUME NEW w \in Waits, Enter(w) PROVE BegunInBegunTurn'
    BY <1>2 DEF Enter, EnterOnLoop, EnterOnThread, MayBegin, Reuse, StartPoll, Fail, GoTo
  <1>3. ASSUME NEW w \in Waits, Step(w) PROVE BegunInBegunTurn'
    BY <1>3
    DEF Step, CheckOnEntry, ReuseOnThread, CheckBeforePoll, CheckAnswer,
        RecordOnThread, ResumeOnLoop, WakeThread, WakeOnLoop, Reuse,
        RecordAnswer, StartPoll, Cancel, Fail, GoTo
  <1>4. ASSUME NEW w \in Waits, AnyAnswer(w) \/ PollError(w) \/ CancelTask(w)
        PROVE  BegunInBegunTurn'
    BY <1>4 DEF AnyAnswer, Answer, PollError, CancelTask, Suspended, Cancel, Fail, GoTo
  <1>5. CASE UNCHANGED vars
    BY <1>5 DEF vars
  <1> QED
    BY <1>1, <1>2, <1>3, <1>4, <1>5 DEF Next, Terminating

\* Every step of the waiter is a step of the contract or stutters.
LEMMA StepRefines ==
  ASSUME TypeOK, Table, BegunInBegunTurn, ReleasedOnGrant', [Next]_vars
  PROVE  [Contract!Next]_(Contract!vars)
  <1> DEFINE Same == UNCHANGED Contract!vars
  <1> USE DEF Contract!vars
  <1>1. ASSUME NEW t \in Turns, BeginTurn(t) PROVE Contract!Next
    <2>1. phase' = [phase EXCEPT ![t] = "active"] /\ phase[t] = "unborn"
      BY <1>1 DEF BeginTurn, phase, TypeOK
    <2>2. Contract!Open(t)
      BY <1>1, <2>1 DEF Contract!Open, BeginTurn, status
    <2> QED
      BY <2>2 DEF Contract!Next
  <1>2. ASSUME NEW t \in Turns, EndTurn(t) PROVE Contract!Next
    <2>1. phase' = [phase EXCEPT ![t] = "ended"] /\ phase[t] = "active"
      BY <1>2 DEF EndTurn, phase, TypeOK
    <2>2. Contract!Close(t)
      BY <1>2, <2>1 DEF Contract!Close, EndTurn, status
    <2> QED
      BY <2>2 DEF Contract!Next
  <1>3. ASSUME NEW t \in Turns, SweepTurn(t) PROVE Same
    BY <1>3 DEF SweepTurn, phase, status, TypeOK
  <1>4. ASSUME NEW w \in Waits, EnterOnLoop(w) PROVE Contract!Next
    <2>1. CASE ~Registered(w) \/ Reusable(w) \/ KindOf[w] # "async"
      <3>1. PICK l \in {"released", "failed"} :
               /\ pc' = [pc EXCEPT ![w] = l]
               /\ l = "released" => Registered(w)
        BY <1>4, <2>1 DEF EnterOnLoop, Reuse, Fail, GoTo
      <3> QED
        BY <1>4, <3>1, SettleMove, TableFacts DEF EnterOnLoop, MayBegin, Settled, Running
    <2>2. CASE Registered(w) /\ ~Reusable(w) /\ KindOf[w] = "async"
      <3>1. pc' = [pc EXCEPT ![w] = "polling"] /\ UNCHANGED <<turn, granted>>
        BY <1>4, <2>2 DEF EnterOnLoop, Reuse, StartPoll, GoTo
      <3>2. status[w] = "idle" /\ status' = [status EXCEPT ![w] = "waiting"]
        BY <1>4, <3>1, StatusMove DEF EnterOnLoop, MayBegin, status, Running
      <3>3. Contract!Hold(w)
        BY <2>2, <3>1, <3>2, ContractTurn, PhaseSame, TableFacts
        DEF Contract!Hold, Contract!Move
      <3> QED
        BY <3>3 DEF Contract!Next
    <2> QED
      BY <2>1, <2>2
  <1>5. ASSUME NEW w \in Waits, EnterOnThread(w) PROVE Contract!Next
    <2>1. CASE ~Registered(w)
      <3>1. pc' = [pc EXCEPT ![w] = "failed"]
        BY <1>5, <2>1 DEF EnterOnThread, Fail, GoTo
      <3> QED
        BY <1>5, <3>1, SettleMove DEF EnterOnThread, MayBegin, Settled, Running
    <2>2. CASE Registered(w)
      <3>1. pc' = [pc EXCEPT ![w] = "entered"] /\ UNCHANGED <<turn, granted>>
        BY <1>5, <2>2 DEF EnterOnThread, GoTo
      <3>2. status[w] = "idle" /\ status' = [status EXCEPT ![w] = "waiting"]
        BY <1>5, <3>1, StatusMove DEF EnterOnThread, MayBegin, status, Running
      <3>3. Contract!Hold(w)
        BY <2>2, <3>1, <3>2, ContractTurn, PhaseSame, TableFacts
        DEF Contract!Hold, Contract!Move
      <3> QED
        BY <3>3 DEF Contract!Next
    <2> QED
      BY <2>1, <2>2
  <1>6. ASSUME NEW w \in Waits, Step(w) \/ PollError(w) \/ CancelTask(w)
        PROVE  Contract!Next \/ Same
    <2>1. /\ pc[w] \in Running
          /\ turn[wturn(w)] # "unborn"
          /\ UNCHANGED <<turn, granted>>
      BY <1>6
      DEF Step, CheckOnEntry, ReuseOnThread, CheckBeforePoll, CheckAnswer,
          RecordOnThread, ResumeOnLoop, WakeThread, WakeOnLoop, PollError,
          CancelTask, Suspended, Running, BegunInBegunTurn
    <2>2. PICK l \in Running \cup Settled : pc' = [pc EXCEPT ![w] = l]
      BY <1>6
      DEF Step, CheckOnEntry, ReuseOnThread, CheckBeforePoll, CheckAnswer,
          RecordOnThread, ResumeOnLoop, WakeThread, WakeOnLoop, PollError,
          CancelTask, Reuse, RecordAnswer, StartPoll, Cancel, Fail, GoTo,
          Running, Settled
    <2>3. CASE l \in Running
      BY <2>1, <2>2, <2>3, StutterMove
    <2>4. CASE l \in Settled
      BY <2>1, <2>2, <2>4, SettleMove
    <2> QED
      BY <2>2, <2>3, <2>4
  <1>7. ASSUME NEW w \in Waits, NEW r \in Response, Answer(w, r)
        PROVE  Contract!Next \/ Same
    <2>1. UNCHANGED status /\ UNCHANGED phase
      BY <1>7, StutterMove DEF Answer, GoTo, Running
    <2>2. CASE granted' = granted
      BY <2>1, <2>2
    <2>3. CASE granted' # granted
      <3>1. granted' = granted \cup {EvalOf[w]} /\ ~TurnOver(w)
        BY <1>7, <2>3 DEF Answer
      <3>2. status[w] = "waiting"
        BY <1>7 DEF Answer, status, Running
      <3>3. turn[wturn(w)] = "active"
        BY <1>7, <3>1, WaitTypes
        DEF Answer, TurnOver, BegunInBegunTurn, TypeOK, TurnStates
      <3>4. Contract!Grant(w)
        BY <2>1, <3>1, <3>2, <3>3, ContractTurn DEF Contract!Grant
      <3> QED
        BY <3>4 DEF Contract!Next
    <2> QED
      BY <2>2, <2>3
  <1>8. CASE UNCHANGED vars
    BY <1>8 DEF vars, status, phase
  <1> QED
    BY <1>1, <1>2, <1>3, <1>4, <1>5, <1>6, <1>7, <1>8
    DEF Next, Enter, AnyAnswer, Terminating

\* The waiter keeps the contract's safety part: seen from outside, operations
\* are held, released on a grant, refused or abandoned, and nothing else.
THEOREM Refinement == Spec => Contract!SafeSpec
  <1>1. Init => TypeOK /\ Table /\ GrantInv /\ BegunInBegunTurn
    BY InitTypeOK, InitTable, InitGrantInv DEF Init, BegunInBegunTurn
  <1>2. TypeOK /\ Table /\ GrantInv /\ BegunInBegunTurn /\ [Next]_vars
        => (TypeOK /\ Table /\ GrantInv /\ BegunInBegunTurn)'
    BY NextTypeOK, NextTable, NextGrantInv, NextBegun
  <1>3. Init => Contract!Init
    BY DEF Init, Contract!Init, phase, status, Running
  <1>4. TypeOK /\ Table /\ BegunInBegunTurn /\ GrantInv' /\ [Next]_vars
        => [Contract!Next]_(Contract!vars)
    BY StepRefines DEF GrantInv
  <1> QED
    BY <1>1, <1>2, <1>3, <1>4, PTL DEF Spec, Contract!SafeSpec

-----------------------------------------------------------------------------
(* Cancellation and abort marks *)

\* A step of a wait moves that wait alone; it fails with a mark on its
\* activity, or it leaves the marks alone; and it is cancelled only as a task
\* somebody drops, or once its turn's event is set.
LEMMA WaitMoves ==
  ASSUME TypeOK, NEW w \in Waits,
         Enter(w) \/ Step(w) \/ AnyAnswer(w) \/ PollError(w) \/ CancelTask(w)
  PROVE  /\ turn' = turn
         /\ dropped \subseteq dropped'
         /\ pc[w] \notin Settled
         /\ \/ pc' = [pc EXCEPT ![w] = "failed"] /\ aborted' = aborted \cup {act(w)}
            \/ /\ \E l : pc' = [pc EXCEPT ![w] = l] /\ l # "failed"
                         /\ (l = "cancelled" => w \in dropped' \/ Cancelled(w))
               /\ aborted' = aborted
  <1> USE DEF GoTo, Settled
  <1>1. CASE Enter(w)
    BY <1>1 DEF Enter, EnterOnLoop, EnterOnThread, MayBegin, Reuse, StartPoll, Fail
  <1>2. CASE CheckOnEntry(w) \/ CheckBeforePoll(w) \/ CheckAnswer(w)
    BY <1>2 DEF CheckOnEntry, CheckBeforePoll, CheckAnswer, Cancel, StartPoll
  <1>3. CASE ReuseOnThread(w)
    BY <1>3 DEF ReuseOnThread, Reuse, Fail
  <1>4. CASE RecordOnThread(w)
    BY <1>4 DEF RecordOnThread, RecordAnswer, Fail
  <1>5. CASE ResumeOnLoop(w)
    <2>1. CASE Cancelled(w)
      BY <1>5, <2>1 DEF ResumeOnLoop, Cancel
    <2>2. CASE ~Cancelled(w)
      BY <1>5, <2>2 DEF ResumeOnLoop, RecordAnswer, Fail
    <2> QED
      BY <2>1, <2>2
  <1>6. CASE WakeThread(w) \/ WakeOnLoop(w)
    BY <1>6 DEF WakeThread, WakeOnLoop, Cancel, StartPoll
  <1>7. CASE AnyAnswer(w) \/ PollError(w) \/ CancelTask(w)
    BY <1>7 DEF AnyAnswer, Answer, PollError, Fail, CancelTask, Cancel, Suspended
  <1> QED
    BY <1>1, <1>2, <1>3, <1>4, <1>5, <1>6, <1>7 DEF Step

\* No step cancels a wait of a turn that lives, but for a task that is dropped.
LEMMA NextCancelled ==
  TypeOK /\ Table /\ CancelledOnlyByOwnTurn /\ [Next]_vars => CancelledOnlyByOwnTurn'
  <1> SUFFICES ASSUME TypeOK, Table, CancelledOnlyByOwnTurn, [Next]_vars,
                      NEW v \in Waits, pc'[v] = "cancelled", v \notin dropped'
               PROVE  TurnOver(v)'
    BY DEF CancelledOnlyByOwnTurn
  <1> USE WaitTypes DEF TypeOK, TurnOver, CancelledOnlyByOwnTurn, wturn, act
  <1>1. ASSUME NEW t \in Turns, BeginTurn(t) \/ EndTurn(t) \/ SweepTurn(t)
        PROVE  TurnOver(v)'
    BY <1>1 DEF BeginTurn, EndTurn, SweepTurn
  <1>2. ASSUME NEW w \in Waits,
               Enter(w) \/ Step(w) \/ AnyAnswer(w) \/ PollError(w) \/ CancelTask(w)
        PROVE  TurnOver(v)'
    BY <1>2, WaitMoves, TableFacts
  <1>3. CASE UNCHANGED vars
    BY <1>3 DEF vars
  <1> QED
    BY <1>1, <1>2, <1>3 DEF Next, Terminating

\* However many turns the table holds, one that ends cancels the waits of no
\* other, neither of its coroutines nor of its threads.
THEOREM OnlyOwnTurnCancels == Spec => []CancelledOnlyByOwnTurn
  <1>1. Init => TypeOK /\ Table /\ CancelledOnlyByOwnTurn
    BY InitTypeOK, InitTable DEF Init, CancelledOnlyByOwnTurn
  <1>2. TypeOK /\ Table /\ CancelledOnlyByOwnTurn /\ [Next]_vars
        => (TypeOK /\ Table /\ CancelledOnlyByOwnTurn)'
    BY NextTypeOK, NextTable, NextCancelled
  <1> QED
    BY <1>1, <1>2, PTL DEF Spec

\* Every step keeps marks and failures together until the sweep.
LEMMA NextAbortMarks ==
  TypeOK /\ AbortMarksAreFailures /\ [Next]_vars => AbortMarksAreFailures'
  <1> SUFFICES ASSUME TypeOK, AbortMarksAreFailures, [Next]_vars,
                      NEW a \in Activities, turn'[TurnOf[a]] # "swept"
               PROVE  a \in aborted' <=> \E v \in Waits : act(v) = a /\ pc'[v] = "failed"
    BY DEF AbortMarksAreFailures, act
  <1> DEFINE Goal == a \in aborted' <=> \E v \in Waits : act(v) = a /\ pc'[v] = "failed"
  <1> USE WaitTypes DEF TypeOK, AbortMarksAreFailures
  <1>1. ASSUME NEW t \in Turns, BeginTurn(t) \/ EndTurn(t) \/ SweepTurn(t) PROVE Goal
    <2>1. turn[TurnOf[a]] # "swept" /\ pc' = pc
      <3>1. TurnOf[a] \in Turns
        BY WaitAssumption
      <3>2. turn'[TurnOf[a]] = turn[TurnOf[a]] \/ TurnOf[a] = t
        BY <1>1, <3>1 DEF BeginTurn, EndTurn, SweepTurn
      <3> QED
        BY <1>1, <3>2 DEF BeginTurn, EndTurn, SweepTurn
    <2>2. a \in aborted' <=> a \in aborted
      BY <1>1 DEF BeginTurn, EndTurn, SweepTurn
    <2> QED
      BY <2>1, <2>2
  <1>2. ASSUME NEW w \in Waits,
               Enter(w) \/ Step(w) \/ AnyAnswer(w) \/ PollError(w) \/ CancelTask(w)
        PROVE  Goal
    <2>1. turn' = turn /\ pc[w] # "failed"
      BY <1>2, WaitMoves DEF Settled
    <2>2. CASE pc' = [pc EXCEPT ![w] = "failed"] /\ aborted' = aborted \cup {act(w)}
      BY <2>1, <2>2
    <2>3. CASE /\ \E l : pc' = [pc EXCEPT ![w] = l] /\ l # "failed"
               /\ aborted' = aborted
      BY <2>1, <2>3
    <2> QED
      BY <1>2, <2>2, <2>3, WaitMoves
  <1>3. CASE UNCHANGED vars
    BY <1>3 DEF vars
  <1> QED
    BY <1>1, <1>2, <1>3 DEF Next, Terminating

\* Until its turn is swept an activity carries the abort mark exactly when one
\* of its waits failed.
THEOREM MarksAreFailures == Spec => []AbortMarksAreFailures
  <1>1. Init => TypeOK /\ AbortMarksAreFailures
    BY InitTypeOK DEF Init, AbortMarksAreFailures
  <1>2. TypeOK /\ AbortMarksAreFailures /\ [Next]_vars
        => (TypeOK /\ AbortMarksAreFailures)'
    BY NextTypeOK, NextAbortMarks
  <1> QED
    BY <1>1, <1>2, PTL DEF Spec
=============================================================================

--------------------------- MODULE ApprovalWaiter ---------------------------
(***************************************************************************)
(* ActivityApprovalWaiter (activity_approval.py) as the framework adapter  *)
(* drives it (core_adapter.py, handle_approval and handle_approval_sync).  *)
(*                                                                         *)
(* A "wait" is one enforcement of a REQUIRE_APPROVAL evaluation: a tool    *)
(* callback or a hook that may not let its operation run before Core has   *)
(* granted it.  Three kinds of wait exist in the code:                     *)
(*   "async"   the coroutine wait(), suspended only at its two awaits;     *)
(*   "thread"  wait_sync() in an executor thread, which interleaves with   *)
(*             the event loop between any two of its reads;                *)
(*   "loop"    wait_sync() called on the event-loop thread itself.         *)
(* begin_turn and end_turn run on the event loop.  What the event loop     *)
(* executes between two awaits is one step; a thread's step is one access  *)
(* to shared state.                                                        *)
(***************************************************************************)
EXTENDS Naturals

CONSTANTS
  Turns,        \* governed turns
  WorkflowOf,   \* the workflow id of a turn
  Activities,   \* activity ids
  Evals,        \* evaluation objects with verdict REQUIRE_APPROVAL
  Waits,        \* enforcements of those evaluations
  TurnOf,       \* the turn an activity belongs to
  ActOf,        \* the activity an evaluation is about
  EvalOf,       \* the evaluation a wait enforces
  KindOf,       \* "async", "thread" or "loop"
  After,        \* the waits that must have released before a wait begins
  Verdicts      \* verdicts a poll may answer with, "none" for no answer

Kinds == {"async", "thread", "loop"}

ASSUME WaitAssumption ==
  /\ TurnOf \in [Activities -> Turns]
  /\ ActOf  \in [Evals -> Activities]
  /\ EvalOf \in [Waits -> Evals]
  /\ KindOf \in [Waits -> Kinds]
  /\ After  \in [Waits -> SUBSET Waits]
  /\ Verdicts \subseteq {"none", "allow", "constrain", "require_approval",
                         "block", "halt"}

\* The handler draws a workflow id for every turn.
ASSUME WorkflowAssumption ==
  \A t, u \in Turns : WorkflowOf[t] = WorkflowOf[u] => t = u

\* A wait repeats an enforcement that precedes it: the second callback of the
\* same event enforces the evaluation the first one stashed.
Repeats(w) == \E v \in After[w] : EvalOf[v] = EvalOf[w]

\* The callbacks of an event run one after the other, and before the body
\* whose hooks bring further evaluations to the same activity.
ASSUME CallbackOrder ==
  /\ \A w \in Waits : Repeats(w) =>
       \E v \in After[w] : EvalOf[v] = EvalOf[w] /\ ~Repeats(v)
  /\ \A v, w \in Waits :
       EvalOf[v] = EvalOf[w] /\ ~Repeats(v) /\ ~Repeats(w) => v = w
  /\ \A v, w \in Waits :
       /\ Repeats(w)
       /\ EvalOf[v] # EvalOf[w]
       /\ ActOf[EvalOf[v]] = ActOf[EvalOf[w]]
       => w \in After[v]

VARIABLES
  turn,      \* how far the handler is with each turn
  entry,     \* its _ApprovalTurn: none, open in _turns, or popped and cancelled
  decision,  \* _ApprovalTurn.decisions, one slot per activity
  pc,        \* where each wait is
  answer,    \* the poll response a wait holds
  aborted,   \* activities the adapter marked aborted in the context store
  granted,   \* history: evaluations some wait saw granted in a live turn
  late,      \* history: waits whose last answer arrived after end_turn
  polled,    \* history: waits that sent a poll to Core
  dropped    \* history: waits whose task was cancelled from outside

vars == <<turn, entry, decision, pc, answer, aborted, granted, late, polled, dropped>>

act(w)   == ActOf[EvalOf[w]]
wturn(w) == TurnOf[act(w)]

-----------------------------------------------------------------------------
(* Values *)

Response  == [verdict : Verdicts \cup {"none"}, expired : BOOLEAN]
NoAnswer  == [verdict |-> "none", expired |-> FALSE]
Outcomes  == {"pending", "approved", "failed"}
Decisions == [eval : Evals, outcome : {"approved", "failed"}]
NoDecision == [outcome |-> "pending"]

TurnStates == {"unborn", "active", "ended", "swept"}
Running    == {"entered", "checked", "looping", "polling", "answered",
               "recording", "sleeping"}
Settled    == {"released", "failed", "cancelled"}
Suspended  == {"polling", "answered", "sleeping"}

TypeOK ==
  /\ turn     \in [Turns -> TurnStates]
  /\ entry    \in [Turns -> {"none", "open", "cancelled"}]
  /\ decision \in [Activities -> Decisions \cup {NoDecision}]
  /\ pc       \in [Waits -> {"idle"} \cup Running \cup Settled]
  /\ answer   \in [Waits -> Response]
  /\ aborted  \subseteq Activities
  /\ granted  \subseteq Evals
  /\ late     \subseteq Waits
  /\ polled   \subseteq Waits
  /\ dropped  \subseteq Waits

Init ==
  /\ turn     = [t \in Turns |-> "unborn"]
  /\ entry    = [t \in Turns |-> "none"]
  /\ decision = [a \in Activities |-> NoDecision]
  /\ pc       = [w \in Waits |-> "idle"]
  /\ answer   = [w \in Waits |-> NoAnswer]
  /\ aborted  = {}
  /\ granted  = {}
  /\ late     = {}
  /\ polled   = {}
  /\ dropped  = {}

-----------------------------------------------------------------------------
(* Helpers *)

\* _turn(): the turn is still registered.
Registered(w) == entry[wturn(w)] = "open"

\* The turn of the wait is over.
TurnOver(w) == turn[wturn(w)] \in {"ended", "swept"}

\* Mutant: an event nobody sets.
CancelledNever(w) == FALSE

\* _check_cancelled(): the turn's event is set.
Cancelled(w) == entry[wturn(w)] = "cancelled"

\* Mutant: an expiry is no decision.
OutcomeExpiryPending(r) ==
  IF r.verdict \in {"block", "halt"} THEN "failed"
  ELSE IF r.verdict = "allow" /\ ~r.expired THEN "approved"
  ELSE "pending"

\* _approved(): expiry outranks the verdict, only ALLOW approves.
Outcome(r) ==
  IF r.expired \/ r.verdict \in {"block", "halt"} THEN "failed"
  ELSE IF r.verdict = "allow" THEN "approved"
  ELSE "pending"

\* Mutant: any decision about the activity is reused.
ReusableByActivity(w) == decision[act(w)] \in Decisions

\* _reuse_decision(): the activity's slot holds this very evaluation.
Reusable(w) ==
  /\ decision[act(w)] \in Decisions
  /\ decision[act(w)].eval = EvalOf[w]

GoTo(w, label) == pc' = [pc EXCEPT ![w] = label]

\* Mutant: the error escapes without marking the activity.
FailUnmarked(w) ==
  /\ GoTo(w, "failed")
  /\ UNCHANGED aborted

\* The adapter's "except Exception": the activity is marked, the error raised.
Fail(w) ==
  /\ GoTo(w, "failed")
  /\ aborted' = aborted \cup {act(w)}

\* CancelledError is no Exception: it passes the adapter without a mark.
Cancel(w) ==
  /\ GoTo(w, "cancelled")
  /\ UNCHANGED aborted

StartPoll(w) ==
  /\ GoTo(w, "polling")
  /\ polled' = polled \cup {w}
  /\ UNCHANGED aborted

\* _reuse_decision() with a decision to reuse: return, or raise what it holds.
Reuse(w) ==
  /\ Reusable(w)
  /\ IF decision[act(w)].outcome = "approved"
       THEN GoTo(w, "released") /\ UNCHANGED aborted
       ELSE Fail(w)
  /\ UNCHANGED polled

\* Mutants: pending answers are stored too; approvals are not stored.
RecordAlways(w) ==
  LET o == Outcome(answer[w]) IN
  /\ answer' = [answer EXCEPT ![w] = NoAnswer]
  /\ decision' = [decision EXCEPT
                     ![act(w)] = [eval |-> EvalOf[w], outcome |-> o]]
  /\ CASE o = "pending"  -> GoTo(w, "sleeping") /\ UNCHANGED aborted
       [] o = "approved" -> GoTo(w, "released") /\ UNCHANGED aborted
       [] o = "failed"   -> Fail(w)
RecordFailuresOnly(w) ==
  LET o == Outcome(answer[w]) IN
  /\ answer' = [answer EXCEPT ![w] = NoAnswer]
  /\ IF o = "failed"
       THEN /\ Fail(w)
            /\ decision' = [decision EXCEPT
                              ![act(w)] = [eval |-> EvalOf[w], outcome |-> o]]
       ELSE /\ GoTo(w, IF o = "pending" THEN "sleeping" ELSE "released")
            /\ UNCHANGED <<aborted, decision>>

\* _record_response() past its check, and the return or sleep that follows.
RecordAnswer(w) ==
  LET o == Outcome(answer[w]) IN
  /\ answer' = [answer EXCEPT ![w] = NoAnswer]
  /\ \/ /\ o = "pending"
        /\ GoTo(w, "sleeping")
        /\ UNCHANGED <<aborted, decision>>
     \/ /\ o # "pending"
        /\ decision' = [decision EXCEPT
                          ![act(w)] = [eval |-> EvalOf[w], outcome |-> o]]
        /\ IF o = "approved"
             THEN GoTo(w, "released") /\ UNCHANGED aborted
             ELSE Fail(w)

-----------------------------------------------------------------------------
(* The event loop *)

BeginTurn(t) ==
  /\ turn[t] = "unborn"
  /\ turn' = [turn EXCEPT ![t] = "active"]
  /\ entry' = [entry EXCEPT ![t] = "open"]
  /\ UNCHANGED <<decision, pc, answer, aborted, granted, late, polled, dropped>>

\* Mutant: the table is emptied, whose the entries are.
EndTurnOfAll(t) ==
  /\ turn[t] = "active"
  /\ turn' = [turn EXCEPT ![t] = "ended"]
  /\ entry' = [u \in Turns |-> IF entry[u] = "open" THEN "cancelled" ELSE entry[u]]
  /\ UNCHANGED <<decision, pc, answer, aborted, granted, late, polled, dropped>>

\* end_turn: what the table has under the workflow is popped, its event set.
EndTurn(t) ==
  /\ turn[t] = "active"
  /\ turn' = [turn EXCEPT ![t] = "ended"]
  /\ entry' = [u \in Turns |->
                 IF entry[u] = "open" /\ WorkflowOf[u] = WorkflowOf[t]
                   THEN "cancelled" ELSE entry[u]]
  /\ UNCHANGED <<decision, pc, answer, aborted, granted, late, polled, dropped>>

\* The rest of _cleanup_turn clears the abort marks of the turn's activities.
SweepTurn(t) ==
  /\ turn[t] = "ended"
  /\ turn' = [turn EXCEPT ![t] = "swept"]
  /\ aborted' = {a \in aborted : TurnOf[a] # t}
  /\ UNCHANGED <<entry, decision, pc, answer, granted, late, polled, dropped>>

-----------------------------------------------------------------------------
(* Entering a wait *)

\* An operation starts waiting in a turn that has begun, after the
\* enforcements that precede it have let it run.
MayBegin(w) ==
  /\ pc[w] = "idle"
  /\ turn[wturn(w)] # "unborn"
  /\ \A v \in After[w] : pc[v] = "released"

\* wait() up to its first await, and all of wait_sync() on the loop thread.
EnterOnLoop(w) ==
  /\ KindOf[w] \in {"async", "loop"}
  /\ MayBegin(w)
  /\ \/ ~Registered(w) /\ Fail(w) /\ UNCHANGED polled
     \/ Registered(w) /\ Reuse(w)
     \/ /\ Registered(w) /\ ~Reusable(w)
        /\ IF KindOf[w] = "async" THEN StartPoll(w) ELSE Fail(w) /\ UNCHANGED polled
  /\ UNCHANGED <<turn, entry, decision, answer, granted, late, dropped>>

EnterOnThread(w) ==
  /\ KindOf[w] = "thread"
  /\ MayBegin(w)
  /\ \/ ~Registered(w) /\ Fail(w)
     \/ Registered(w) /\ GoTo(w, "entered") /\ UNCHANGED aborted
  /\ UNCHANGED <<turn, entry, decision, answer, granted, late, polled, dropped>>

CheckOnEntry(w) ==
  /\ pc[w] = "entered"
  /\ IF Cancelled(w) THEN Cancel(w) ELSE GoTo(w, "checked") /\ UNCHANGED aborted
  /\ UNCHANGED <<turn, entry, decision, answer, granted, late, polled, dropped>>

ReuseOnThread(w) ==
  /\ pc[w] = "checked"
  /\ \/ Reuse(w)
     \/ ~Reusable(w) /\ GoTo(w, "looping") /\ UNCHANGED <<aborted, polled>>
  /\ UNCHANGED <<turn, entry, decision, answer, granted, late, dropped>>

-----------------------------------------------------------------------------
(* The polling loop *)

CheckBeforePoll(w) ==
  /\ pc[w] = "looping"
  /\ IF Cancelled(w) THEN Cancel(w) /\ UNCHANGED polled ELSE StartPoll(w)
  /\ UNCHANGED <<turn, entry, decision, answer, granted, late, dropped>>

\* Core answers: any verdict, any number of times, whatever it said before.
Answer(w, r) ==
  /\ pc[w] = "polling"
  /\ GoTo(w, "answered")
  /\ answer' = [answer EXCEPT ![w] = r]
  /\ late' = IF TurnOver(w) THEN late \cup {w} ELSE late
  /\ granted' = IF r.verdict = "allow" /\ ~r.expired /\ ~TurnOver(w)
                  THEN granted \cup {EvalOf[w]} ELSE granted
  /\ UNCHANGED <<turn, entry, decision, aborted, polled, dropped>>

\* The poll itself raises; no check of the cancelled event precedes this.
PollError(w) ==
  /\ pc[w] = "polling"
  /\ Fail(w)
  /\ UNCHANGED <<turn, entry, decision, answer, granted, late, polled, dropped>>

\* Mutant: the answer is recorded without looking at the event again.
CheckAnswerSkipped(w) ==
  /\ KindOf[w] = "thread"
  /\ pc[w] = "answered"
  /\ GoTo(w, "recording")
  /\ UNCHANGED <<turn, entry, decision, answer, aborted, granted, late, polled, dropped>>

\* A thread checks and records in separate steps (the two consecutive checks
\* are one read: the second decides).
CheckAnswer(w) ==
  /\ KindOf[w] = "thread"
  /\ pc[w] = "answered"
  /\ IF Cancelled(w) THEN Cancel(w) ELSE GoTo(w, "recording") /\ UNCHANGED aborted
  /\ UNCHANGED <<turn, entry, decision, answer, granted, late, polled, dropped>>

RecordOnThread(w) ==
  /\ pc[w] = "recording"
  /\ RecordAnswer(w)
  /\ UNCHANGED <<turn, entry, granted, late, polled, dropped>>

\* The coroutine resumes: it checks and records before it can be suspended.
ResumeOnLoop(w) ==
  /\ KindOf[w] = "async"
  /\ pc[w] = "answered"
  /\ IF Cancelled(w) THEN Cancel(w) /\ UNCHANGED <<answer, decision>>
                     ELSE RecordAnswer(w)
  /\ UNCHANGED <<turn, entry, granted, late, polled, dropped>>

\* cancelled.wait() returns at the interval's end or when the event is set.
WakeThread(w) ==
  /\ KindOf[w] = "thread"
  /\ pc[w] = "sleeping"
  /\ GoTo(w, "looping")
  /\ UNCHANGED <<turn, entry, decision, answer, aborted, granted, late, polled, dropped>>

WakeOnLoop(w) ==
  /\ KindOf[w] = "async"
  /\ pc[w] = "sleeping"
  /\ IF Cancelled(w) THEN Cancel(w) /\ UNCHANGED polled ELSE StartPoll(w)
  /\ UNCHANGED <<turn, entry, decision, answer, granted, late, dropped>>

\* The task running wait() is cancelled at an await (a sibling failed, or the
\* caller gave up); an executor thread cannot be.
CancelTask(w) ==
  /\ KindOf[w] = "async"
  /\ pc[w] \in Suspended
  /\ Cancel(w)
  /\ dropped' = dropped \cup {w}
  /\ UNCHANGED <<turn, entry, decision, answer, granted, late, polled>>

-----------------------------------------------------------------------------
(* Specification *)

Enter(w) == EnterOnLoop(w) \/ EnterOnThread(w)

Step(w) ==
  \/ CheckOnEntry(w) \/ ReuseOnThread(w) \/ CheckBeforePoll(w)
  \/ CheckAnswer(w) \/ RecordOnThread(w) \/ ResumeOnLoop(w)
  \/ WakeThread(w) \/ WakeOnLoop(w)

AnyAnswer(w) == \E r \in Response : Answer(w, r)

\* Every turn is over and every wait that began has settled.
Quiescent ==
  /\ \A t \in Turns : turn[t] = "swept"
  /\ \A w \in Waits : pc[w] \in Settled \cup {"idle"} /\ ~MayBegin(w)

Terminating == Quiescent /\ UNCHANGED vars

Next ==
  \/ \E t \in Turns : BeginTurn(t) \/ EndTurn(t) \/ SweepTurn(t)
  \/ \E w \in Waits : Enter(w) \/ Step(w) \/ AnyAnswer(w) \/ PollError(w)
                      \/ CancelTask(w)
  \/ Terminating

Spec == Init /\ [][Next]_vars

\* The loop and the executor run what is ready; a poll returns (the client
\* has a timeout).  Nothing is assumed of what Core answers.
Scheduling ==
  /\ \A w \in Waits : WF_vars(Step(w)) /\ WF_vars(AnyAnswer(w) \/ PollError(w))
  /\ \A t \in Turns : WF_vars(SweepTurn(t))

FairSpec == Spec /\ Scheduling

\* A human decides or the approval lapses, and Core says so.
Final(r) == r.expired \/ r.verdict \in {"allow", "block", "halt"}
Decides(w) == \E r \in Response : Final(r) /\ Answer(w, r)
-----------------------------------------------------------------------------
(* Properties *)

\* A wait lets its operation run only if Core granted the very evaluation it
\* enforces, unexpired and while the turn lived: never on the decision of
\* another evaluation in the same slot (_reuse_decision, _approved).
ReleasedOnGrant ==
  \A w \in Waits : pc[w] = "released" => EvalOf[w] \in granted

\* "A late approval cannot run an abandoned tool" (_check_cancelled): once an
\* answer has arrived after end_turn, its wait is never released by it.
LateAnswerNeverReleases ==
  \A w \in late : pc[w] \notin {"recording", "released"}

\* A wait that repeats an enforcement already granted (the other callback of
\* the same event) reuses the decision: it never asks Core again, and while
\* the turn lives it does not fail, even on the event-loop thread where it
\* could not have waited.
RepeatReusesDecision ==
  \A w \in Waits : Repeats(w) =>
    /\ w \notin polled
    /\ pc[w] = "failed" => TurnOver(w)

\* end_turn reaches through the table of all turns, but stops no wait of
\* another turn, in whatever coroutine or thread it is suspended: a wait nobody
\* dropped is cancelled only when its own turn is over.
CancelledOnlyByOwnTurn ==
  \A w \in Waits : pc[w] = "cancelled" /\ w \notin dropped => TurnOver(w)

\* Until cleanup sweeps the turn, an activity is marked aborted exactly when
\* one of its waits failed: a cancelled wait leaves no mark, and no failure
\* goes unmarked (handle_approval's except clause).
AbortMarksAreFailures ==
  \A a \in Activities : turn[TurnOf[a]] # "swept" =>
    (a \in aborted <=> \E w \in Waits : act(w) = a /\ pc[w] = "failed")

\* A wait whose approval is eventually decided does settle: asked again and
\* again, Core gives a final answer, which is never mistaken for a pending one.
DecidedWaitsSettle ==
  \A w \in Waits : SF_vars(Decides(w)) => (pc[w] \in Running ~> pc[w] \in Settled)

-----------------------------------------------------------------------------
(* What the waiter promises its callers (ApprovalContract) *)

status == [w \in Waits |->
             IF pc[w] \in Running THEN "waiting" ELSE pc[w]]
phase  == [t \in Turns |-> IF turn[t] = "swept" THEN "ended" ELSE turn[t]]

Contract == INSTANCE ApprovalContract
              WITH Operations <- Waits, Requests <- Evals,
                   TurnOfRequest <- [e \in Evals |-> TurnOf[ActOf[e]]],
                   RequestOf <- EvalOf

\* Every behaviour of the waiter is one the contract allows, with the
\* contract's promise that the end of a turn ends its waits: whatever Core
\* answers, no thread is left polling for an abandoned turn.
ImplementsContract == Contract!Spec
=============================================================================

-------------------------- MODULE EnforcementProofs --------------------------
(***************************************************************************)
(* Type correctness of enforcement, and the two sides of a human approval: *)
(* nothing held is released without one and nothing is refused without a   *)
(* cause, for any places, event types and words outside the vocabulary.    *)
(***************************************************************************)
EXTENDS Enforcement, TLAPS

\* What an answer read as a decision, or as lapsed, says is so.
AnswerTrue ==
  pc = "answered" =>
    /\ answer.expired => overdue
    /\ ~answer.expired /\ ApprovalVerdict(answer) = "allow" => approval = "approved"
    /\ ~answer.expired /\ ShouldStop(ApprovalVerdict(answer)) => approval = "rejected"

\* There is an approval exactly where enforcement held the operation.
HeldHasApproval ==
  /\ pc = "evaluating" => approval = "none" /\ ~overdue
  /\ pc \in Polling => approval # "none"

\* The inductive invariant.
ApprovalInv ==
  TypeOK /\ AnswerTrue /\ HeldHasApproval /\ ReleasedByApproval /\ RefusalHasCause

-----------------------------------------------------------------------------

\* The lenient parser yields a verdict for every word.
LEMMA FromStringType == \A w : FromString(w) \in Verdicts
  BY DEF FromString, Verdicts

\* Enforcement releases, refuses or holds.
LEMMA EnforcedType ==
  \A c, v, g : Enforced(c, v, g) \in {"released", "halted", "blocked", "invalid", "held"}
  BY DEF Enforced

\* A poll ends with the decision, or is repeated.
LEMMA SurfacedType ==
  \A r : Surfaced(Outcome(r)) \in {"released", "expired", "rejected", "halted", "held"}
  BY DEF Surfaced, Outcome

\* An answer sent while nothing is decided, unless it says that it lapsed,
\* reads as neither an approval nor a refusal: unknown words are pending.
LEMMA UndecidedReads ==
  ASSUME NEW r \in Undecided
  PROVE  /\ r \in Answers
         /\ r.expired => overdue
         /\ ~r.expired => ApprovalVerdict(r) \in {"require_approval", "constrain"}
<1>1. r \in Answers /\ (r.expired => overdue)
  BY DEF Undecided
<1>2. ASSUME ~r.expired
      PROVE  DecisionWord(r) \in {"require_approval", "constrain", Absent} \cup Junk
  BY <1>2 DEF Undecided, DecisionWord
<1>3. \A w \in {Absent} \cup Junk : w \notin Verdicts
  BY JunkAssumption DEF Absent, Verdicts
<1>4. ASSUME ~r.expired
      PROVE  ApprovalVerdict(r) \in {"require_approval", "constrain"}
  BY <1>2, <1>3, <1>4 DEF ApprovalVerdict
<1> QED
  BY <1>1, <1>4

\* An answer sent after the decision reads as that decision.
LEMMA DecidedReads ==
  ASSUME NEW r \in Decided, approval \in {"approved", "rejected"}
  PROVE  /\ r \in Answers
         /\ r.expired => overdue
         /\ ApprovalVerdict(r) \in Decision
<1>1. r \in Answers /\ (r.expired => overdue)
  BY DEF Decided
<1>2. Absent \notin Decision
  BY DEF Decision, Absent
<1>3. DecisionWord(r) \in Decision
  BY <1>2 DEF Decided, DecisionWord
<1>4. Decision \subseteq Verdicts
  BY DEF Decision, Verdicts
<1> QED
  BY <1>1, <1>3, <1>4 DEF ApprovalVerdict

\* The initial state satisfies the invariant.
LEMMA InitApprovalInv == Init => ApprovalInv
<1> SUFFICES ASSUME Init PROVE ApprovalInv
  OBVIOUS
<1>1. Blank \in Answers
  BY DEF Blank, Answers, Words
<1>2. TypeOK
  BY <1>1 DEF Init, TypeOK
<1>3. AnswerTrue /\ HeldHasApproval /\ ReleasedByApproval /\ RefusalHasCause
  BY DEF Init, AnswerTrue, HeldHasApproval, ReleasedByApproval, RefusalHasCause, Polling
<1> QED
  BY <1>2, <1>3 DEF ApprovalInv

\* Every step preserves the types.
LEMMA NextTypeOK == TypeOK /\ [Next]_vars => TypeOK'
<1> SUFFICES ASSUME TypeOK, [Next]_vars PROVE TypeOK'
  OBVIOUS
<1> USE DEF Polling, Ended, Raised
<1>1. CASE Respond
  <2>1. PICK v, a \in Words, g \in {"none", "passed", "failed"} :
          /\ verdict' = ResponseVerdict(v, a)
          /\ guard' = g
          /\ pc' = Enforced(Context, ResponseVerdict(v, a), g)
    BY <1>1 DEF Respond
  <2>2. verdict' \in Verdicts
    BY <2>1, FromStringType DEF ResponseVerdict
  <2>3. pc' \in {"released", "halted", "blocked", "invalid", "held"}
    BY <2>1, EnforcedType
  <2> QED
    BY <1>1, <2>1, <2>2, <2>3 DEF Respond, TypeOK
<1>2. CASE GoOn
  BY <1>2 DEF GoOn, TypeOK
<1>3. CASE Decide
  BY <1>3 DEF Decide, TypeOK
<1>4. CASE Lapse
  BY <1>4 DEF Lapse, TypeOK
<1>5. CASE ReplyPending
  BY <1>5, UndecidedReads DEF ReplyPending, Reply, TypeOK
<1>6. CASE ReplyDecided
  BY <1>6, DecidedReads DEF ReplyDecided, Reply, TypeOK
<1>7. CASE ReplyLost
  BY <1>7 DEF ReplyLost, TypeOK
<1>8. CASE Poll
  BY <1>8 DEF Poll, TypeOK
<1>9. CASE TakeAnswer
  <2>1. Blank \in Answers
    BY DEF Blank, Answers, Words
  <2> QED
    BY <1>9, <2>1, SurfacedType DEF TakeAnswer, TypeOK
<1>10. CASE PollAgain
  BY <1>10 DEF PollAgain, TypeOK
<1>11. CASE PollFails
  BY <1>11 DEF PollFails, TypeOK
<1>12. CASE CancelTurn
  <2>1. Blank \in Answers
    BY DEF Blank, Answers, Words
  <2> QED
    BY <1>12, <2>1 DEF CancelTurn, TypeOK
<1>13. CASE Terminating \/ UNCHANGED vars
  BY <1>13 DEF Terminating, vars, TypeOK
<1> QED
  BY <1>1, <1>2, <1>3, <1>4, <1>5, <1>6, <1>7, <1>8, <1>9, <1>10, <1>11, <1>12, <1>13
     DEF Next

\* Every step preserves the rest of the invariant.
LEMMA NextApprovalInv == ApprovalInv /\ [Next]_vars => ApprovalInv'
<1> SUFFICES ASSUME ApprovalInv, [Next]_vars PROVE ApprovalInv'
  OBVIOUS
<1>0. TypeOK'
  BY NextTypeOK DEF ApprovalInv
<1> DEFINE Rest == AnswerTrue /\ HeldHasApproval /\ ReleasedByApproval /\ RefusalHasCause
<1>a. TypeOK /\ Rest
  BY DEF ApprovalInv
<1> SUFFICES Rest'
  BY <1>0 DEF ApprovalInv
<1> USE DEF AnswerTrue, HeldHasApproval, ReleasedByApproval, RefusalHasCause, Polling
<1>1. CASE Respond
  <2>1. pc' \in {"released", "halted", "blocked", "invalid", "held"}
    BY <1>1, EnforcedType DEF Respond
  <2>2. pc = "evaluating" /\ approval = "none" /\ ~overdue
    BY <1>1, <1>a DEF Respond
  <2>3. approval' = IF pc' = "held" THEN "pending" ELSE approval
    BY <1>1 DEF Respond
  <2> QED
    BY <2>1, <2>2, <2>3
<1>2. CASE GoOn
  BY <1>2, <1>a DEF GoOn
<1>3. CASE Decide
  BY <1>3, <1>a DEF Decide, ApprovalVerdict, DecisionWord
<1>4. CASE Lapse
  BY <1>4, <1>a DEF Lapse, ApprovalVerdict, DecisionWord
<1>5. CASE ReplyPending
  <2>1. PICK r \in Undecided : Reply(r)
    BY <1>5 DEF ReplyPending
  <2>2. ~r.expired => ApprovalVerdict(r) # "allow" /\ ~ShouldStop(ApprovalVerdict(r))
    BY UndecidedReads DEF ShouldStop
  <2>3. pc = "asked" /\ pc' = "answered" /\ answer' = r
        /\ UNCHANGED <<approval, overdue>>
    BY <2>1 DEF Reply
  <2>4. ApprovalVerdict(answer)' = ApprovalVerdict(r)
    BY <2>3 DEF ApprovalVerdict, DecisionWord
  <2> QED
    BY <2>2, <2>3, <2>4, <1>a, UndecidedReads DEF ShouldStop
<1>6. CASE ReplyDecided
  <2>1. PICK r \in Decided : Reply(r)
    BY <1>6 DEF ReplyDecided
  <2>2. approval \in {"approved", "rejected"}
    BY <1>6 DEF ReplyDecided
  <2>3. pc = "asked" /\ pc' = "answered" /\ answer' = r
        /\ UNCHANGED <<approval, overdue>>
    BY <2>1 DEF Reply
  <2>4. ApprovalVerdict(answer)' = ApprovalVerdict(r)
    BY <2>3 DEF ApprovalVerdict, DecisionWord
  <2>5. /\ r.expired => overdue
        /\ ApprovalVerdict(r) = "allow" => approval = "approved"
        /\ ShouldStop(ApprovalVerdict(r)) => approval = "rejected"
    BY <2>2, DecidedReads DEF Decision, ShouldStop
  <2> QED
    BY <2>2, <2>3, <2>4, <2>5, <1>a DEF ShouldStop
<1>7. CASE ReplyLost
  BY <1>7, <1>a DEF ReplyLost
<1>8. CASE Poll
  BY <1>8, <1>a DEF Poll
<1>9. CASE TakeAnswer
  <2>1. pc = "answered" /\ approval # "none" /\ UNCHANGED <<approval, overdue>>
    BY <1>9, <1>a DEF TakeAnswer
  <2>2. Outcome(answer) = "released" => approval = "approved"
    BY <2>1, <1>a DEF Outcome, ShouldStop
  <2>3. Outcome(answer) \in {"expired", "rejected"} => approval = "rejected" \/ overdue
    BY <2>1, <1>a DEF Outcome
  <2>4. pc' = Surfaced(Outcome(answer))
    BY <1>9 DEF TakeAnswer
  <2>5. Outcome(answer) \in {"released", "expired", "rejected", "held"}
    BY DEF Outcome
  <2> QED
    BY <2>1, <2>2, <2>3, <2>4, <2>5 DEF Surfaced
<1>10. CASE PollAgain
  BY <1>10, <1>a DEF PollAgain
<1>11. CASE PollFails
  BY <1>11, <1>a DEF PollFails
<1>12. CASE CancelTurn
  BY <1>12, <1>a DEF CancelTurn
<1>13. CASE Terminating \/ UNCHANGED vars
  BY <1>13, <1>a DEF Terminating, vars, ApprovalVerdict, DecisionWord, ShouldStop
<1> QED
  BY <1>1, <1>2, <1>3, <1>4, <1>5, <1>6, <1>7, <1>8, <1>9, <1>10, <1>11, <1>12, <1>13
     DEF Next

-----------------------------------------------------------------------------

\* The invariant holds in every state.
LEMMA ApprovalAlways == Spec => []ApprovalInv
  BY InitApprovalInv, NextApprovalInv, PTL DEF Spec

\* Type correctness (Respond, TakeAnswer: every word is parsed to a verdict
\* and every outcome is known).
THEOREM EnforcementTypeCorrect == Spec => []TypeOK
<1>1. ApprovalInv => TypeOK
  BY DEF ApprovalInv
<1> QED
  BY <1>1, ApprovalAlways, PTL

\* A held operation is released only if the person approved it in time,
\* whatever Core answers and however often (poll_until_decision).
THEOREM ApprovalNeeded == Spec => []ReleasedByApproval
<1>1. ApprovalInv => ReleasedByApproval
  BY DEF ApprovalInv
<1> QED
  BY <1>1, ApprovalAlways, PTL

\* A held operation is refused only if the person rejected it or the approval
\* lapsed (poll_until_decision and the wrappers around it).
THEOREM RefusalJustified == Spec => []RefusalHasCause
<1>1. ApprovalInv => RefusalHasCause
  BY DEF ApprovalInv
<1> QED
  BY <1>1, ApprovalAlways, PTL

-----------------------------------------------------------------------------

\* How far enforcement lets an operation go under a verdict: never further
\* than under a milder one.
LEMMA EnforcementMonotone ==
  ASSUME NEW c, NEW g, NEW v \in Verdicts, NEW w \in Verdicts, Priority[w] > Priority[v]
  PROVE  Severity[Enforced(c, w, g)] >= Severity[Enforced(c, v, g)]
<1>1. /\ Severity["released"] = 0 /\ Severity["held"] = 1
      /\ \A o \in {"halted", "blocked", "invalid"} : Severity[o] = 2
  BY DEF Severity, Raised
<1>2. /\ Priority["allow"] = 0 /\ Priority["constrain"] = 1
      /\ Priority["require_approval"] = 2 /\ Priority["block"] = 3 /\ Priority["halt"] = 4
  BY DEF Priority, Verdicts
<1>3. /\ ShouldStop(w) <=> Priority[w] >= 3
      /\ ShouldStop(v) <=> Priority[v] >= 3
      /\ w = "require_approval" <=> Priority[w] = 2
      /\ v = "require_approval" <=> Priority[v] = 2
      /\ Priority[v] \in Nat /\ Priority[w] \in Nat
  BY <1>2 DEF ShouldStop, Verdicts
<1>4. CASE c \in ObservationOnly
  BY <1>1, <1>4 DEF Enforced
<1>5. CASE c \notin ObservationOnly /\ ShouldStop(w)
  <2>1. Severity[Enforced(c, w, g)] = 2
    BY <1>1, <1>5 DEF Enforced
  <2>2. Severity[Enforced(c, v, g)] \in {0, 1, 2}
    BY <1>1 DEF Enforced
  <2> QED
    BY <2>1, <2>2
<1>6. CASE c \notin ObservationOnly /\ ~ShouldStop(w)
  <2>1. ~ShouldStop(v) /\ v # "require_approval"
    BY <1>3, <1>6
  <2>2. CASE g = "failed"
    BY <1>1, <1>6, <2>1, <2>2 DEF Enforced
  <2>3. CASE g # "failed"
    <3>1. Severity[Enforced(c, v, g)] = 0
      BY <1>1, <1>6, <2>1, <2>3 DEF Enforced
    <3>2. Severity[Enforced(c, w, g)] \in {0, 1, 2}
      BY <1>1 DEF Enforced
    <3> QED
      BY <3>1, <3>2
  <2> QED
    BY <2>2, <2>3
<1> QED
  BY <1>4, <1>5, <1>6

\* Whatever the context and the guardrails, enforcement lets no operation
\* further for a verdict more restrictive than the one that came
\* (Verdict.priority, enforce_verdict).
THEOREM OrderKept == Spec => []StricterNeverLooser
<1>1. TypeOK => StricterNeverLooser
  BY EnforcementMonotone DEF TypeOK, StricterNeverLooser
<1> QED
  BY <1>1, EnforcementTypeCorrect, PTL
=============================================================================

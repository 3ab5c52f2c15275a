----------------------------- MODULE Enforcement -----------------------------
(***************************************************************************)
(* One governed event from Core's response to its end: parsing the verdict *)
(* (types.py), enforcing it in its context (verdict_handler.py), and, when *)
(* a person must approve, poll_until_decision (hitl.py) at the three kinds *)
(* of places the handler calls it from.                                    *)
(*                                                                         *)
(* Core and the person decide concurrently with the polling: an answer may *)
(* be lost, may come late, and may be shaped in several ways.  Words stand *)
(* for strings up to case and up to "-" for "_".                           *)
(***************************************************************************)
EXTENDS Naturals

CONSTANTS
  Sites,   \* of "prescreen", "stream" and "fallback"
  Kinds,   \* LangGraph event types
  Junk     \* words outside the vocabulary

Verdicts == {"allow", "constrain", "require_approval", "block", "halt"}
Absent   == "absent"
Words    == Verdicts \cup {"continue", "stop", "request_approval", Absent} \cup Junk

ASSUME SiteAssumption == Sites \subseteq {"prescreen", "stream", "fallback"}
ASSUME JunkAssumption ==
  Junk \cap (Verdicts \cup {"continue", "stop", "request_approval", Absent}) = {}

VARIABLES
  site, kind, root,   \* where and for which event the response is enforced
  pc,
  verdict,    \* the parsed verdict, or Absent
  guard,      \* the guardrails part of the response
  approval,   \* what the person has decided
  overdue,    \* the approval's expiration time has passed
  answer      \* Core's answer to the poll, Blank if there is none

vars == <<site, kind, root, pc, verdict, guard, approval, overdue, answer>>

Answers == [action : Words, verdict : Words, expired : BOOLEAN]
Blank   == [action |-> Absent, verdict |-> Absent, expired |-> FALSE]

\* "held": asleep between polls; "asked", "answered", "missed": a poll is in
\* flight, has its answer, has none.  The others are ends: the operation goes
\* on, or the caller sees the exception named.
Polling == {"held", "asked", "answered", "missed"}
Raised  == {"halted", "blocked", "invalid", "rejected", "expired", "failed",
            "cancelled"}
Ended   == {"released"} \cup Raised

TypeOK ==
  /\ site \in Sites /\ kind \in Kinds /\ root \in BOOLEAN
  /\ pc \in {"evaluating"} \cup Polling \cup Ended
  /\ verdict \in Verdicts \cup {Absent}
  /\ guard \in {"none", "passed", "failed"}
  /\ approval \in {"none", "pending", "approved", "rejected"}
  /\ overdue \in BOOLEAN
  /\ answer \in Answers

\* The fallback closes a model call.
Init ==
  /\ site \in Sites /\ kind \in Kinds /\ root \in BOOLEAN
  /\ site = "fallback" => kind = "on_chat_model_end"
  /\ pc = "evaluating"
  /\ verdict = Absent /\ guard = "none"
  /\ approval = "none" /\ overdue = FALSE
  /\ answer = Blank

-----------------------------------------------------------------------------
(* Verdict *)

\* from_string(): lenient, whatever is not known allows.
FromString(w) ==
  IF w \in Verdicts THEN w
  ELSE IF w = "stop" THEN "halt"
  ELSE IF w = "request_approval" THEN "require_approval"
  ELSE "allow"

\* from_dict(): the verdict field, or else the action field of v1.0.
ResponseVerdict(v, a) == FromString(IF v # Absent THEN v ELSE a)

Priority == [v \in Verdicts |->
  CASE v = "allow" -> 0 [] v = "constrain" -> 1 [] v = "require_approval" -> 2
    [] v = "block" -> 3 [] v = "halt" -> 4]

ShouldStop(v) == v \in {"block", "halt"}

-----------------------------------------------------------------------------
(* enforce_verdict *)

\* lang_graph_event_to_context(); the pre-screen names its context itself.
Context ==
  IF site = "prescreen" THEN "llm_start"
  ELSE CASE kind = "on_chain_start" /\ root -> "graph_root_start"
         [] kind = "on_chain_start" /\ ~root -> "graph_node_start"
         [] kind = "on_chain_end" /\ root -> "graph_root_end"
         [] kind = "on_chain_end" /\ ~root -> "graph_node_end"
         [] kind = "on_chat_model_start" -> "llm_start"
         [] kind = "on_chat_model_end" -> "llm_end"
         [] kind \in {"on_tool_start", "on_retriever_start"} -> "tool_start"
         [] kind \in {"on_tool_end", "on_retriever_end"} -> "tool_end"
         [] OTHER -> "other"

ObservationOnly == {"chain_end", "graph_root_end", "agent_finish", "other"}

HitlApplicable(c) ==
  c \in {"tool_start", "tool_end", "llm_start", "llm_end", "graph_node_start",
         "agent_action"}

\* Mutant: the guardrails are consulted after the approval.
EnforcedApprovalFirst(c, v, g) ==
  IF c \in ObservationOnly THEN "released"
  ELSE IF ShouldStop(v) THEN IF v = "halt" THEN "halted" ELSE "blocked"
  ELSE IF v = "require_approval" /\ HitlApplicable(c) THEN "held"
  ELSE IF v = "require_approval" THEN "blocked"
  ELSE IF g = "failed" THEN "invalid"
  ELSE "released"

Enforced(c, v, g) ==
  IF c \in ObservationOnly THEN "released"
  ELSE IF ShouldStop(v) THEN IF v = "halt" THEN "halted" ELSE "blocked"
  ELSE IF g = "failed" THEN "invalid"
  ELSE IF v = "require_approval" /\ HitlApplicable(c) THEN "held"
  ELSE IF v = "require_approval" THEN "blocked"
  ELSE "released"

\* Mutant: a response that was not understood is remembered as it came.
RespondUnparsed ==
  /\ pc = "evaluating"
  /\ \E v, a \in Words, g \in {"none", "passed", "failed"} :
       /\ verdict' = v
       /\ guard' = g
       /\ pc' = Enforced(Context, ResponseVerdict(v, a), g)
  /\ approval' = IF pc' = "held" THEN "pending" ELSE approval
  /\ UNCHANGED <<site, kind, root, overdue, answer>>

\* Core's response is parsed and enforced.
Respond ==
  /\ pc = "evaluating"
  /\ \E v, a \in Words, g \in {"none", "passed", "failed"} :
       /\ verdict' = ResponseVerdict(v, a)
       /\ guard' = g
       /\ pc' = Enforced(Context, ResponseVerdict(v, a), g)
  /\ approval' = IF pc' = "held" THEN "pending" ELSE approval
  /\ UNCHANGED <<site, kind, root, overdue, answer>>

\* No response: the caller goes on.
GoOn ==
  /\ pc = "evaluating"
  /\ pc' = "released"
  /\ UNCHANGED <<site, kind, root, verdict, guard, approval, overdue, answer>>

-----------------------------------------------------------------------------
(* The person and Core *)

Decide ==
  /\ approval = "pending" /\ ~overdue
  /\ approval' \in {"approved", "rejected"}
  /\ UNCHANGED <<site, kind, root, pc, verdict, guard, overdue, answer>>

Lapse ==
  /\ approval # "none" /\ ~overdue
  /\ overdue' = TRUE
  /\ UNCHANGED <<site, kind, root, pc, verdict, guard, approval, answer>>

Decision == IF approval = "approved" THEN {"allow"} ELSE {"block", "halt"}

\* The decision is in the action field, beside the verdict that asked for it,
\* or in the verdict field alone.
Decided ==
  {r \in Answers :
     /\ r.expired => overdue
     /\ \/ r.action \in Decision /\ r.verdict \in {"require_approval", Absent}
        \/ r.action = Absent /\ r.verdict \in Decision}

\* Nothing is decided: an answer says so, or nothing that is understood.  One
\* that has lapsed may say anything as long as it says that too; with a
\* malformed timestamp it does not.
Undecided ==
  {r \in Answers :
     \/ /\ ~r.expired
        /\ {r.action, r.verdict} \subseteq {"require_approval", "constrain", Absent} \cup Junk
     \/ overdue /\ r.expired}

Reply(r) ==
  /\ pc = "asked"
  /\ pc' = "answered"
  /\ answer' = r
  /\ UNCHANGED <<site, kind, root, verdict, guard, approval, overdue>>

ReplyPending == approval = "pending" /\ \E r \in Undecided : Reply(r)
ReplyDecided == approval \in {"approved", "rejected"} /\ \E r \in Decided : Reply(r)

\* Core is not reached, or answers with an error: poll_approval gives None.
ReplyLost ==
  /\ pc = "asked"
  /\ pc' = "missed"
  /\ UNCHANGED <<site, kind, root, verdict, guard, approval, overdue, answer>>

-----------------------------------------------------------------------------
(* poll_until_decision *)

\* ApprovalResult.from_dict() of the base SDK: action first, strict.  What is
\* not understood is pending, which from_result() makes "require_approval".
DecisionWord(r) == IF r.action # Absent THEN r.action ELSE r.verdict

\* Mutants: the lenient parser of the lifecycle verdicts; the verdict first.
ApprovalVerdictLenient(r) == FromString(DecisionWord(r))
ApprovalVerdictFirst(r) ==
  LET w == IF r.verdict # Absent THEN r.verdict ELSE r.action IN
  IF w \in Verdicts THEN w ELSE "require_approval"

ApprovalVerdict(r) ==
  IF DecisionWord(r) \in Verdicts THEN DecisionWord(r) ELSE "require_approval"

Outcome(r) ==
  IF r.expired THEN "expired"
  ELSE IF ApprovalVerdict(r) = "allow" THEN "released"
  ELSE IF ShouldStop(ApprovalVerdict(r)) THEN "rejected"
  ELSE "held"

\* Pre-screen and consumer turn a refusal into a halt; the model call's
\* fallback lets it through.
Surfaced(o) ==
  IF o \in {"expired", "rejected"} /\ site # "fallback" THEN "halted" ELSE o

Poll ==
  /\ pc = "held"
  /\ pc' = "asked"
  /\ UNCHANGED <<site, kind, root, verdict, guard, approval, overdue, answer>>

TakeAnswer ==
  /\ pc = "answered"
  /\ pc' = Surfaced(Outcome(answer))
  /\ answer' = Blank
  /\ UNCHANGED <<site, kind, root, verdict, guard, approval, overdue>>

\* Mutant: an unreachable Core is a refusal.
PollAgainRefused ==
  /\ pc = "missed"
  /\ pc' = Surfaced("rejected")
  /\ UNCHANGED <<site, kind, root, verdict, guard, approval, overdue, answer>>

\* "API unreachable - keep polling".
PollAgain ==
  /\ pc = "missed"
  /\ pc' = "held"
  /\ UNCHANGED <<site, kind, root, verdict, guard, approval, overdue, answer>>

\* Authentication and bootstrap errors of the poll are raised as they are.
PollFails ==
  /\ pc = "asked"
  /\ pc' = "failed"
  /\ UNCHANGED <<site, kind, root, verdict, guard, approval, overdue, answer>>

\* The turn is cancelled where it is suspended.
CancelTurn ==
  /\ pc \in Polling
  /\ pc' = "cancelled"
  /\ answer' = Blank
  /\ UNCHANGED <<site, kind, root, verdict, guard, approval, overdue>>

-----------------------------------------------------------------------------
(* Specification *)

Terminating == pc \in Ended /\ UNCHANGED vars

Next ==
  \/ Respond \/ GoOn
  \/ Decide \/ Lapse
  \/ ReplyPending \/ ReplyDecided \/ ReplyLost
  \/ Poll \/ TakeAnswer \/ PollAgain \/ PollFails \/ CancelTurn
  \/ Terminating

Spec == Init /\ [][Next]_vars

\* The event loop runs the poller; Core replies, not always in vain.
FairSpec ==
  /\ Spec
  /\ WF_vars(Poll) /\ WF_vars(TakeAnswer) /\ WF_vars(PollAgain)
  /\ WF_vars(ReplyPending \/ ReplyLost) /\ SF_vars(ReplyDecided)

-----------------------------------------------------------------------------
(* Properties *)

Severity == [o \in {"released", "held"} \cup Raised |->
  CASE o = "released" -> 0 [] o = "held" -> 1 [] OTHER -> 2]

\* The verdict order is kept by enforcement: whatever the context and the
\* guardrails, no more restrictive verdict would have let the operation
\* further than the one that came (Verdict.priority, enforce_verdict).
StricterNeverLooser ==
  verdict # Absent =>
    \A v \in Verdicts :
      Priority[v] > Priority[verdict] =>
        Severity[Enforced(Context, v, guard)] >= Severity[Enforced(Context, verdict, guard)]

\* "A malformed or truncated response body must never resolve to approved",
\* and an approval that lapsed never counts: a held operation is released only
\* if the person approved it in time.
ReleasedByApproval ==
  pc = "released" /\ approval # "none" => approval = "approved"

\* A held operation is not refused for nothing: the person rejected it or the
\* approval lapsed; an unreachable Core or an odd answer refuses nothing.
RefusalHasCause ==
  pc \in {"halted", "rejected", "expired"} /\ approval # "none" =>
    approval = "rejected" \/ overdue

\* A decision the person has taken ends the wait, however often the poll is
\* in vain before.
DecidedSettles == approval \in {"approved", "rejected"} ~> pc \in Ended

=============================================================================

-------------------------- MODULE ApprovalContract --------------------------
(***************************************************************************)
(* What waiting in place for an approval promises the governed operation,  *)
(* stated without slots, polls, threads or tasks: an operation that        *)
(* requires approval runs only after its own request was granted, and a    *)
(* grant only counts while the turn it was asked in is still open.         *)
(***************************************************************************)

CONSTANTS
  Turns,
  Requests,       \* approvals asked of a human
  Operations,     \* governed operations, each held until its request is granted
  TurnOfRequest,  \* the turn a request belongs to
  RequestOf       \* the request an operation depends on

VARIABLES
  phase,    \* of a turn: "unborn", "active" or "ended"
  status,   \* of an operation: "idle", "waiting" or how it settled
  granted   \* the requests granted so far

vars == <<phase, status, granted>>

turnOf(o) == TurnOfRequest[RequestOf[o]]

Init ==
  /\ phase   = [t \in Turns |-> "unborn"]
  /\ status  = [o \in Operations |-> "idle"]
  /\ granted = {}

Open(t) ==
  /\ phase[t] = "unborn"
  /\ phase' = [phase EXCEPT ![t] = "active"]
  /\ UNCHANGED <<status, granted>>

Close(t) ==
  /\ phase[t] = "active"
  /\ phase' = [phase EXCEPT ![t] = "ended"]
  /\ UNCHANGED <<status, granted>>

\* An approval reaches an operation that waits for it in an open turn.
Grant(o) ==
  /\ status[o] = "waiting"
  /\ phase[turnOf(o)] = "active"
  /\ granted' = granted \cup {RequestOf[o]}
  /\ UNCHANGED <<phase, status>>

Move(o, to) ==
  /\ status' = [status EXCEPT ![o] = to]
  /\ UNCHANGED <<phase, granted>>

\* Waiting starts in an open turn only.
Hold(o) ==
  /\ status[o] = "idle"
  /\ phase[turnOf(o)] = "active"
  /\ Move(o, "waiting")

Release(o) ==
  /\ status[o] \in {"idle", "waiting"}
  /\ status[o] = "idle" => phase[turnOf(o)] = "active"
  /\ RequestOf[o] \in granted
  /\ Move(o, "released")

Refuse(o) ==
  /\ status[o] \in {"idle", "waiting"}
  /\ phase[turnOf(o)] # "unborn"
  /\ Move(o, "failed")

Abandon(o) ==
  /\ status[o] = "waiting"
  /\ Move(o, "cancelled")

Next ==
  \/ \E t \in Turns : Open(t) \/ Close(t)
  \/ \E o \in Operations :
       Grant(o) \/ Hold(o) \/ Release(o) \/ Refuse(o) \/ Abandon(o)

\* The end of a turn is the end of every wait in it.
ClosedTurnsDrain ==
  \A o \in Operations :
    WF_vars(/\ phase[turnOf(o)] = "ended"
            /\ status[o] = "waiting"
            /\ Release(o) \/ Refuse(o) \/ Abandon(o))

SafeSpec == Init /\ [][Next]_vars
Spec     == SafeSpec /\ ClosedTurnsDrain
=============================================================================

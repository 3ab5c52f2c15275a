-------------------------- MODULE MCApprovalWaiter --------------------------
(***************************************************************************)
(* Two concurrent turns.  In t1 an async tool asks for approval: its async *)
(* callback waits, its sync callback enforces the same evaluation again on *)
(* the loop thread, then the body makes two concurrent hook calls from     *)
(* threads, each with an evaluation of its own in the activity's one slot. *)
(* Turn t2 asks nothing; it begins and ends beside the waits of t1.        *)
(***************************************************************************)
EXTENDS ApprovalWaiter

MCWorkflowOf == [t \in Turns |-> <<"thread", t>>]
MCTurnOf == [a \in Activities |-> "t1"]
MCActOf  == [e \in Evals |-> "a1"]

MCEvalOf == [w \in Waits |->
  CASE w \in {"callback", "repeat"} -> "start"
    [] w = "h1" -> "hook1"
    [] w = "h2" -> "hook2"]

MCKindOf == [w \in Waits |->
  CASE w = "callback" -> "async"
    [] w = "repeat"   -> "loop"
    [] OTHER          -> "thread"]

MCAfter == [w \in Waits |->
  CASE w = "repeat"       -> {"callback"}
    [] w \in {"h1", "h2"} -> {"callback", "repeat"}
    [] OTHER              -> {}]
=============================================================================

---------------------------- MODULE TurnContract ----------------------------
(***************************************************************************)
(* What a governed turn promises Core, which keeps a session and a row per *)
(* activity, and its caller, stated without a stream, a consumer, records  *)
(* or callbacks: nothing runs before the prompt is screened and nothing    *)
(* after it was refused; a row is opened once, never in a closed session,  *)
(* and never again after its activity was reported ended; a turn that      *)
(* returns has closed its session and seen to every row it owes, and Core  *)
(* hears no more of it.  A turn that raises is over for its caller only:   *)
(* calls under way may go on, but its session is left as it is.            *)
(***************************************************************************)

CONSTANTS
  Activities,
  Prompt        \* the activity of the pre-screened prompt

VARIABLES
  phase,     \* "screening", "running", "returned" or "raised"
  refused,   \* the prompt was stopped or its approval refused
  session,   \* "new", "open" or "closed"
  row        \* of an activity: "new", "open", "owed", "ended" or "lost"

vars == <<phase, refused, session, row>>

Init ==
  /\ phase = "screening" /\ refused = FALSE /\ session = "new"
  /\ row = [a \in Activities |-> "new"]

\* A message of the pre-screen may fail after Core took it.
Sent(step) ==
  /\ phase = "screening"
  /\ step
  /\ phase' \in {"screening", "raised"}
  /\ UNCHANGED refused

OpenSession ==
  Sent(session = "new" /\ session' = "open" /\ UNCHANGED row)

ScreenPrompt ==
  Sent(row[Prompt] = "new" /\ row' = [row EXCEPT ![Prompt] = "open"]
       /\ UNCHANGED session)

\* The refusal ends the turn; the session may be closed with it.
RefusePrompt ==
  /\ phase = "screening"
  /\ phase' = "raised" /\ refused' = TRUE
  /\ session' \in {session, "closed"}
  /\ row' = [row EXCEPT ![Prompt] = "open"]

Run ==
  /\ phase = "screening" /\ ~refused
  /\ phase' = "running"
  /\ UNCHANGED <<refused, session, row>>

Live == phase \in {"running", "raised"} /\ ~refused

\* "owed": the turn will try to end the activity when it leaves.
Open(a) ==
  /\ Live /\ session # "closed"
  /\ row[a] = "new"
  /\ \E s \in {"open", "owed"} : row' = [row EXCEPT ![a] = s]
  /\ UNCHANGED <<phase, refused, session>>

End(a) ==
  /\ Live
  /\ row[a] \notin {"ended", "lost"}
  /\ row' = [row EXCEPT ![a] = "ended"]
  /\ UNCHANGED <<phase, refused, session>>

CloseSession ==
  /\ phase = "running" /\ session = "open"
  /\ session' = "closed"
  /\ UNCHANGED <<phase, refused, row>>

\* What is owed is ended on the way out, or lost where Core does not answer.
Settle ==
  row' \in {[a \in Activities |-> IF row[a] # "owed" THEN row[a]
                                  ELSE IF a \in failed THEN "lost" ELSE "ended"] :
             failed \in SUBSET Activities}

Return ==
  /\ phase = "running" /\ session = "closed"
  /\ phase' = "returned"
  /\ Settle
  /\ UNCHANGED <<refused, session>>

Raise ==
  /\ phase \in {"screening", "running"}
  /\ phase' = "raised"
  /\ Settle
  /\ UNCHANGED <<refused, session>>

Next ==
  \/ OpenSession \/ ScreenPrompt \/ RefusePrompt \/ Run
  \/ \E a \in Activities : Open(a) \/ End(a)
  \/ CloseSession \/ Return \/ Raise

SafeSpec == Init /\ [][Next]_vars

\* A turn leaves its caller in the end.
Leaves == <>[](phase \in {"returned", "raised"})
=============================================================================

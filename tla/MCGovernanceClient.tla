------------------------- MODULE MCGovernanceClient -------------------------
(***************************************************************************)
(* Two runs on one client.  In r1 an event is sent, sent again while the   *)
(* first is under way or over (a re-executed tool), and retried after a    *)
(* rejection; a second event is sent synchronously.  r2 sends the same     *)
(* activity and type once, after r1.                                       *)
(***************************************************************************)
EXTENDS GovernanceClient

MCRunOf == [s \in Sends |-> IF s = "other" THEN "r2" ELSE "r1"]
MCKeyOf == [s \in Sends |-> IF s = "sync" THEN "k2" ELSE "k1"]
MCRetryOf == [s \in Sends |-> IF s = "retry" THEN {"first"} ELSE {}]

\* Turns of one handler one after the other.
OneByOne == [s \in Sends |-> IF s = "other" THEN Sends \ {"other"} ELSE {}]
Policies == {FALSE, TRUE}
BaseModes == [route : {"gate", "core"}, failClosed : Policies]
             \cup {[route |-> "legacy", failClosed |-> FALSE]}
LegacyClosed == {[route |-> "legacy", failClosed |-> TRUE]}
=============================================================================

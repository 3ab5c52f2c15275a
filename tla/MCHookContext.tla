---------------------------- MODULE MCHookContext ----------------------------
(***************************************************************************)
(* Two concurrent turns.  In t1 a tool and then a model call, in t2 a model *)
(* call, all under one trace of the caller's.  The spans are the tool's.   *)
(***************************************************************************)
EXTENDS HookContext

MCTurnOf == [a \in Acts |-> IF a = "other" THEN "t2" ELSE "t1"]
OneTrace == [a \in Acts |-> "k1"]
MCActOf == [s \in Spans |-> "tool"]
=============================================================================

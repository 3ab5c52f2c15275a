--------------------------- MODULE MCHandlerSetup ---------------------------
(***************************************************************************)
(* An agent that signs, one with a workload key and no identity, a bare    *)
(* initialize, a handler constructed directly, and the ways a startup is   *)
(* turned away or keeps to an injected client; in an empty environment, in *)
(* one that sets an identity, and in one that sets it for this SDK alone.  *)
(***************************************************************************)
EXTENDS HandlerSetup, TLC

Signing ==
  [entry |-> "factory", url |-> "u1", key |-> "k1", did |-> "d1", seed |-> "s1",
   workload |-> Absent, validate |-> TRUE, client |-> FALSE, core |-> TRUE,
   graph |-> "g1", options |-> {"session"}]
Workload ==
  [Signing EXCEPT !.url = "u2", !.key = "k2", !.did = Absent, !.seed = Absent,
                  !.workload = "w2", !.validate = FALSE]

Update == [Workload EXCEPT !.entry = "initialize", !.key = "k3", !.workload = Absent]
Direct == [Signing EXCEPT !.entry = "constructor"]
Insecure == [Signing EXCEPT !.url = "insecure"]

AllRequests ==
  {Signing, Workload, Update, Direct, Insecure,
   [Signing EXCEPT !.seed = "blank"],
   [Signing EXCEPT !.did = "blank", !.seed = "empty", !.graph = "g2"],
   [Signing EXCEPT !.core = FALSE],
   [Signing EXCEPT !.client = TRUE]}

\* Every two requests, and two threes.
MCPlans ==
  {("a" :> r1) @@ ("b" :> r2) : r1, r2 \in AllRequests}
    \cup {("a" :> r) @@ ("b" :> Update) @@ ("c" :> Direct) : r \in {Signing, Workload}}

OptionPlans ==
  [Startups -> {Signing, [Signing EXCEPT !.options = {"session", "skip tools"}]}]

Empty == [did |-> Absent, seed |-> Absent, workload |-> Absent,
          ownDid |-> Absent, ownSeed |-> Absent, ownWorkload |-> Absent]
MCEnvironments ==
  {Empty, [Empty EXCEPT !.did = "d9", !.seed = "s9", !.ownWorkload = "w9"],
          [Empty EXCEPT !.ownDid = "d8", !.ownSeed = "s8"]}
OneEnvironment == {Empty}
=============================================================================

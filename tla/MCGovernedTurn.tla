--------------------------- MODULE MCGovernedTurn ---------------------------
(***************************************************************************)
(* Turns as agents make them: a model call "m1", then concurrent tools, one *)
(* of them retried by a user wrapper, and one that carries no turn; or      *)
(* concurrent model calls.                                                 *)
(***************************************************************************)
EXTENDS GovernedTurn

\* "t3" comes after the other tools.
MCAfter == [c \in Calls |-> CASE c = "m1" -> {}
                              [] c = "t3" -> Tools \ {"t3"}
                              [] OTHER -> Llms \cap {"m1"}]

Default == [bridge |-> TRUE, prompt |-> TRUE, strict |-> FALSE,
            chainStart |-> TRUE, chainEnd |-> TRUE,
            llmStart |-> TRUE, llmEnd |-> TRUE,
            toolStart |-> TRUE, toolEnd |-> TRUE]
Fallback == [Default EXCEPT !.bridge = FALSE]

\* Every option off at least once, with and without a bridge, while chain
\* events stay on.  The pre-screen is no business of the tools: one of these
\* configurations screens a prompt.
Unscreened == [Default EXCEPT !.prompt = FALSE]
ToolConfigs ==
  {Unscreened, Fallback,
   [Unscreened EXCEPT !.toolStart = FALSE],
   [Unscreened EXCEPT !.toolEnd = FALSE, !.strict = TRUE],
   [Unscreened EXCEPT !.toolStart = FALSE, !.bridge = FALSE],
   [Unscreened EXCEPT !.toolEnd = FALSE, !.bridge = FALSE]}

LlmConfigs ==
  {Default, Fallback,
   [Default EXCEPT !.prompt = FALSE], [Fallback EXCEPT !.prompt = FALSE],
   [Default EXCEPT !.llmStart = FALSE], [Fallback EXCEPT !.llmStart = FALSE],
   [Default EXCEPT !.llmEnd = FALSE]}

FallbackConfigs == {Fallback}

NoChainConfigs ==
  {[Fallback EXCEPT !.chainStart = FALSE], [Fallback EXCEPT !.chainEnd = FALSE]}
=============================================================================

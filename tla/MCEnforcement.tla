---------------------------- MODULE MCEnforcement ----------------------------
(***************************************************************************)
(* Every place, every event type of the mapping and one outside it, and    *)
(* one word outside the vocabulary.                                        *)
(***************************************************************************)
EXTENDS Enforcement

MCKinds ==
  {"on_chain_start", "on_chain_end", "on_chat_model_start", "on_chat_model_end",
   "on_tool_start", "on_tool_end", "on_retriever_start", "on_retriever_end",
   "on_chain_stream"}
=============================================================================

------------------------- MODULE MCRequestPipeline -------------------------
(* Model checking of RequestPipeline: one provider for heavy requests, the one  *)
(* the engine switches to, and the two role models.                             *)
EXTENDS RequestPipeline, TLC

CONSTANTS oss, lfm, coder, llama, groq, openrouter

MCProvider == (oss :> groq) @@ (lfm :> openrouter)
MCRole == [coder |-> coder, general |-> llama]
MCDefault == [coder |-> coder, general |-> llama]
MCTemplate == (coder :> "chatml") @@ (llama :> "llama")
MCNameTemplate == MCTemplate @@ (oss :> "chatml") @@ (lfm :> "chatml")
\* One body for each thing the engine decides after an answer.
FewBodies == {"stop", "length", "tool_calls", "safety", "empty"}
\* One more, that analyze and is_acceptable judge differently.
OneOfEach == FewBodies \cup {"error"}
\* A reduction, a switch of the model, a final failure.
FewErrors == {<<400, "context">>, <<429, "rate">>, <<401, "denied">>}
=============================================================================

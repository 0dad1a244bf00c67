------------------------------ MODULE MCLineage ------------------------------
(* Values of the constants of Lineage for TLC. *)
EXTENDS Lineage, TLC

MCLibrary == <<"verify", "defer", "clause">>

MCAllowed == DOMAIN Root \ {"tools.selection_policy"}

\* Fields next to their bounds, a prompt that is long enough to be simplified.
MCRoot ==
     ("prompt.system_prompt" :> <<"role", "tone", "verify">>)
  @@ ("prompt.strategy" :> "direct")
  @@ ("prompt.include_examples" :> FALSE)
  @@ ("model.name" :> "reasoning-small")
  @@ ("model.temperature" :> 90)
  @@ ("retrieval.top_k" :> 45)
  @@ ("retrieval.chunk_size" :> 600)
  @@ ("retrieval.reranker" :> "none")
  @@ ("tools.selection_policy" :> "greedy")
  @@ ("context.ordering" :> "relevance")
  @@ ("context.deduplicate" :> FALSE)
  @@ ("agent.planning_strategy" :> "single_shot")

MCFocuses == {{"prompt"}, {"model", "tools", "context"}, {"retrieval", "agent"}}

\* The default pair, whose second field no operator changes, and one that two operators could make.
MCPairs == {{"model.temperature", "output.format"}, {"prompt.strategy", "prompt.include_examples"}}

MCSpace == ("model.temperature" :> {20, 90}) @@ ("retrieval.top_k" :> {45, 50})
=============================================================================

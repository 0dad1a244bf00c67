------------------------------ MODULE Mutations ------------------------------
(***************************************************************************)
(* The mutation operators and the policy around them.  A configuration is  *)
(* a function from the fields an operator or a search may change to their  *)
(* values; a system prompt is the sequence of its non-blank lines and a    *)
(* temperature is in hundredths.  A proposal is <<operator, field, value>>.*)
(***************************************************************************)
EXTENDS Integers, SequencesExt

CONSTANTS ConstraintLibrary,  \* CONSTRAINT_LIBRARY: lines a prompt may be given
          MaxChanges,         \* policy.max_changes_per_candidate
          Allowed, Forbidden, \* fields of the policy
          ForbiddenPairs      \* policy.forbidden_combinations

ASSUME PolicyAssumption == MaxChanges \in 1..10 /\ ConstraintLibrary \in Seq(STRING)

\* The fields an operator may change.
Fields == {"prompt.system_prompt", "prompt.strategy", "prompt.include_examples", "model.temperature",
           "model.name", "retrieval.top_k", "retrieval.chunk_size", "retrieval.reranker",
           "tools.selection_policy", "context.ordering", "context.deduplicate", "agent.planning_strategy"}

\* The other choices of a field.
Alternatives(operator, field, choices, config) ==
  {<<operator, field, v>> : v \in choices \ {config[field]}}

\* The first two lines of the library that the prompt does not have.
AddConstraint(config) ==
  LET lines == config["prompt.system_prompt"]
      missing == {i \in DOMAIN ConstraintLibrary : \A k \in DOMAIN lines : lines[k] # ConstraintLibrary[i]}
      first == {i \in missing : \A j, k \in missing : j < k => i <= k}
  IN {<<"prompt.add_constraint", "prompt.system_prompt", Append(lines, ConstraintLibrary[i])>> : i \in first}

Simplify(config) ==
  LET lines == config["prompt.system_prompt"]
  IN IF Len(lines) <= 2 THEN {}
     ELSE {<<"prompt.simplify", "prompt.system_prompt", SubSeq(lines, 1, Max({2, Len(lines) \div 2}))>>}

ChangeStrategy(config) ==
  Alternatives("prompt.change_strategy", "prompt.strategy",
    {"direct", "structured_reasoning", "chain_of_thought", "few_shot", "constrained"}, config)

ToggleExamples(config) ==
  Alternatives("prompt.toggle_examples", "prompt.include_examples", BOOLEAN, config)

\* Steps of 0.15 within 0..1, though a configuration may go up to 2.
ChangeTemperature(config) ==
  LET t == config["model.temperature"]
  IN Alternatives("model.change_temperature", "model.temperature",
                  {Max({0, t - 15}), Min({100, t + 15})}, config)

SwitchModel(config) ==
  Alternatives("model.switch_model", "model.name", {"reasoning-small", "reasoning-large", "fast-cheap"}, config)

\* Faulty: the largest step is not kept within the bounds of the schema.
UnclampedTopK(config) ==
  LET k == config["retrieval.top_k"]
  IN Alternatives("retrieval.change_top_k", "retrieval.top_k", {Max({1, k - 2}), Min({50, k + 2}), k + 4}, config)

ChangeTopK(config) ==
  LET k == config["retrieval.top_k"]
  IN Alternatives("retrieval.change_top_k", "retrieval.top_k",
                  {Max({1, k - 2}), Min({50, k + 2}), Min({50, k + 4})}, config)

ChangeChunkSize(config) ==
  Alternatives("retrieval.change_chunk_size", "retrieval.chunk_size", {400, 600, 800, 1000}, config)

ChangeReranker(config) ==
  Alternatives("retrieval.change_reranker", "retrieval.reranker", {"none", "cross_encoder", "mmr"}, config)

ChangeSelectionPolicy(config) ==
  Alternatives("tools.change_selection_policy", "tools.selection_policy",
    {"greedy", "risk_aware", "conservative"}, config)

ChangeOrdering(config) ==
  Alternatives("context.change_ordering", "context.ordering",
    {"relevance", "recency", "source_priority"}, config)

ToggleDedup(config) == Alternatives("context.toggle_dedup", "context.deduplicate", BOOLEAN, config)

ChangePlanning(config) ==
  Alternatives("agent.change_planning_strategy", "agent.planning_strategy",
    {"single_shot", "react", "plan_and_execute"}, config)

\* OPERATORS, by the category their names begin with.
Operators(config) ==
  [prompt    |-> {AddConstraint(config), Simplify(config), ChangeStrategy(config), ToggleExamples(config)},
   model     |-> {ChangeTemperature(config), SwitchModel(config)},
   retrieval |-> {ChangeTopK(config), ChangeChunkSize(config), ChangeReranker(config)},
   tools     |-> {ChangeSelectionPolicy(config)},
   context   |-> {ChangeOrdering(config), ToggleDedup(config)},
   agent     |-> {ChangePlanning(config)}]

\* Faulty: a field that is listed as allowed is, forbidden or not.
ListedAllowed(field) == field \in Allowed

\* A field that is forbidden is not allowed, listed or not.
IsAllowed(field) == field \notin Forbidden /\ field \in Allowed

\* Faulty: two operators may rewrite the same field.
OnePerOperator(draft) == \A p, q \in draft : p # q => p[1] # q[1]

\* One change per operator and per field.
OneEach(draft) == \A p, q \in draft : p # q => p[1] # q[1] /\ p[2] # q[2]

FieldsOf(draft) == {p[2] : p \in draft}

\* validate_change_set.
ValidChangeSet(draft) ==
  /\ Cardinality(draft) <= MaxChanges
  /\ \A f \in FieldsOf(draft) : IsAllowed(f)
  /\ \A pair \in ForbiddenPairs : ~ (pair \subseteq FieldsOf(draft))

\* The categories asked for; all of them when none is, or none that has operators.
Focused(config, focus) ==
  LET known == DOMAIN Operators(config)
  IN IF focus \cap known = {} THEN known ELSE focus \cap known

\* What one attempt of propose can come up with: up to MaxChanges operators of the categories in
\* focus, each with one of its options on an allowed field that is not taken yet.
Drafts(config, focus) ==
  LET options == {p \in UNION UNION {Operators(config)[c] : c \in Focused(config, focus)} : IsAllowed(p[2])}
  IN {draft \in UNION {kSubset(k, options) : k \in 1..MaxChanges} : OneEach(draft) /\ ValidChangeSet(draft)}
=============================================================================

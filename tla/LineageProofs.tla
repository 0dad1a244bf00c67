---------------------------- MODULE LineageProofs ----------------------------
(***************************************************************************)
(* Proofs about Lineage: for every first genome, policy, search space and  *)
(* number of proposals.                                                    *)
(***************************************************************************)
EXTENDS Lineage, FiniteSetTheorems, SequenceTheorems, WellFoundedInduction, TLAPS

-----------------------------------------------------------------------------
(* What the mutation operators propose *)

\* The part of the schema that is about one field.
InSchema(field, value) ==
  /\ field = "prompt.system_prompt" => value \in Seq(STRING)
  /\ field = "model.temperature" => value \in 0..200
  /\ field = "retrieval.top_k" => value \in 1..50
  /\ field = "retrieval.chunk_size" => value \in 50..4000
  /\ field \in {"prompt.include_examples", "context.deduplicate"} => value \in BOOLEAN

LEMMA SchemaByField ==
  ASSUME NEW config
  PROVE  Valid(config) <=> \A f \in Fields : InSchema(f, config[f])
BY DEF Valid, InSchema, Fields

\* A configuration of the application.
Config(h) == DOMAIN h = DOMAIN Root /\ Valid(h)

\* A proposal that changes its field, to a value of the schema.
Change(config, p) ==
  /\ p[2] \in Fields
  /\ p[3] # config[p[2]]
  /\ InSchema(p[2], p[3])

LEMMA LeastOfTwo ==
  ASSUME NEW a \in Int, NEW b \in Int
  PROVE  Min({a, b}) = IF a <= b THEN a ELSE b
<1> DEFINE m == IF a <= b THEN a ELSE b
<1>1. m \in {a, b} /\ \A y \in {a, b} : m <= y
  OBVIOUS
<1>2. \A x \in {a, b} : (\A y \in {a, b} : x <= y) => x = m
  OBVIOUS
<1> HIDE DEF m
<1>3. Min({a, b}) = m
  BY <1>1, <1>2 DEF Min
<1> QED BY <1>3 DEF m

LEMMA GreatestOfTwo ==
  ASSUME NEW a \in Int, NEW b \in Int
  PROVE  Max({a, b}) = IF a >= b THEN a ELSE b
<1> DEFINE m == IF a >= b THEN a ELSE b
<1>1. m \in {a, b} /\ \A y \in {a, b} : m >= y
  OBVIOUS
<1>2. \A x \in {a, b} : (\A y \in {a, b} : x >= y) => x = m
  OBVIOUS
<1> HIDE DEF m
<1>3. Max({a, b}) = m
  BY <1>1, <1>2 DEF Max
<1> QED BY <1>3 DEF m

\* The other choices of a field are changes of it.
LEMMA AlternativesChange ==
  ASSUME NEW config, NEW operator, NEW field \in Fields, NEW choices,
         \A v \in choices : InSchema(field, v)
  PROVE  \A p \in Alternatives(operator, field, choices, config) : Change(config, p)
BY DEF Alternatives, Change

\* A line of the library makes a prompt longer.
LEMMA AddConstraintChanges ==
  ASSUME NEW config, Valid(config)
  PROVE  \A p \in AddConstraint(config) : Change(config, p)
<1> DEFINE lines == config["prompt.system_prompt"]
<1> SUFFICES ASSUME NEW i \in DOMAIN ConstraintLibrary
             PROVE  Change(config, <<"prompt.add_constraint", "prompt.system_prompt",
                                     Append(lines, ConstraintLibrary[i])>>)
  BY DEF AddConstraint
<1>1. lines \in Seq(STRING) /\ ConstraintLibrary[i] \in STRING
  BY PolicyAssumption DEF Valid
<1> HIDE DEF lines
<1>2. Append(lines, ConstraintLibrary[i]) \in Seq(STRING)
  BY <1>1
<1>3. Append(lines, ConstraintLibrary[i]) # lines
  <2>1. Len(Append(lines, ConstraintLibrary[i])) = Len(lines) + 1 /\ Len(lines) \in Nat
    BY <1>1
  <2> QED BY <2>1
<1> QED BY <1>2, <1>3 DEF Change, Fields, InSchema, lines

\* Half of the lines of a prompt of more than two make a shorter one.
LEMMA SimplifyChanges ==
  ASSUME NEW config, Valid(config)
  PROVE  \A p \in Simplify(config) : Change(config, p)
<1> DEFINE lines == config["prompt.system_prompt"]
           half == Len(lines) \div 2
           n == Max({2, half})
<1> SUFFICES ASSUME ~ (Len(lines) <= 2)
             PROVE  Change(config, <<"prompt.simplify", "prompt.system_prompt", SubSeq(lines, 1, n)>>)
  <2> HIDE DEF n
  <2>1. Simplify(config) = IF Len(lines) <= 2 THEN {}
                           ELSE {<<"prompt.simplify", "prompt.system_prompt", SubSeq(lines, 1, n)>>}
    BY DEF Simplify, n
  <2> HIDE DEF lines
  <2> QED BY <2>1
<1>1. lines \in Seq(STRING) /\ Len(lines) \in Nat
  BY DEF Valid
<1>2. n \in 2..(Len(lines) - 1)
  <2> DEFINE length == Len(lines)
  <2>1. length \in Nat /\ length > 2 /\ half = length \div 2
    BY <1>1
  <2> HIDE DEF half, length
  <2>2. half \in Nat /\ half < length
    BY <2>1
  <2>3. n = IF 2 >= half THEN 2 ELSE half
    BY <2>2, GreatestOfTwo
  <2>4. n \in 2..(length - 1)
    BY <2>1, <2>2, <2>3
  <2> QED BY <2>4 DEF length
<1> HIDE DEF n, lines
<1>3. SubSeq(lines, 1, n) \in Seq(STRING) /\ Len(SubSeq(lines, 1, n)) = n
  BY <1>1, <1>2, SubSeqProperties
<1>4. SubSeq(lines, 1, n) # lines
  BY <1>1, <1>2, <1>3
<1> QED BY <1>3, <1>4 DEF Change, Fields, InSchema, lines

\* Steps of the temperature and of top_k stay within the schema's bounds.
LEMMA StepsChange ==
  ASSUME NEW config, Valid(config)
  PROVE  /\ \A p \in ChangeTemperature(config) : Change(config, p)
         /\ \A p \in ChangeTopK(config) : Change(config, p)
<1>1. ASSUME NEW t \in 0..200
      PROVE  Max({0, t - 15}) \in 0..200 /\ Min({100, t + 15}) \in 0..200
  <2>1. t - 15 \in Int /\ t + 15 \in Int
    OBVIOUS
  <2>2. Max({0, t - 15}) = IF 0 >= t - 15 THEN 0 ELSE t - 15
    BY <2>1, GreatestOfTwo
  <2>3. Min({100, t + 15}) = IF 100 <= t + 15 THEN 100 ELSE t + 15
    BY <2>1, LeastOfTwo
  <2> QED BY <2>2, <2>3
<1>2. ASSUME NEW k \in 1..50
      PROVE  Max({1, k - 2}) \in 1..50 /\ Min({50, k + 2}) \in 1..50 /\ Min({50, k + 4}) \in 1..50
  <2>1. k - 2 \in Int /\ k + 2 \in Int /\ k + 4 \in Int
    OBVIOUS
  <2>2. Max({1, k - 2}) = IF 1 >= k - 2 THEN 1 ELSE k - 2
    BY <2>1, GreatestOfTwo
  <2>3. Min({50, k + 2}) = IF 50 <= k + 2 THEN 50 ELSE k + 2
    BY <2>1, LeastOfTwo
  <2>4. Min({50, k + 4}) = IF 50 <= k + 4 THEN 50 ELSE k + 4
    BY <2>1, LeastOfTwo
  <2> QED BY <2>2, <2>3, <2>4
<1>3. \A p \in ChangeTemperature(config) : Change(config, p)
  <2> DEFINE t == config["model.temperature"]
             choices == {Max({0, t - 15}), Min({100, t + 15})}
  <2>1. \A v \in choices : InSchema("model.temperature", v)
    <3>1. t \in 0..200
      BY DEF Valid
    <3> HIDE DEF t
    <3>2. \A v \in choices : v \in 0..200
      BY <3>1, <1>1
    <3> QED BY <3>2 DEF InSchema
  <2> HIDE DEF choices
  <2>2. \A p \in Alternatives("model.change_temperature", "model.temperature", choices, config) :
           Change(config, p)
    BY <2>1, AlternativesChange DEF Fields
  <2> QED BY <2>2 DEF ChangeTemperature, choices
<1>4. \A p \in ChangeTopK(config) : Change(config, p)
  <2> DEFINE k == config["retrieval.top_k"]
             choices == {Max({1, k - 2}), Min({50, k + 2}), Min({50, k + 4})}
  <2>1. \A v \in choices : InSchema("retrieval.top_k", v)
    <3>1. k \in 1..50
      BY DEF Valid
    <3> HIDE DEF k
    <3>2. \A v \in choices : v \in 1..50
      BY <3>1, <1>2
    <3> QED BY <3>2 DEF InSchema
  <2> HIDE DEF choices
  <2>2. \A p \in Alternatives("retrieval.change_top_k", "retrieval.top_k", choices, config) :
           Change(config, p)
    BY <2>1, AlternativesChange DEF Fields
  <2> QED BY <2>2 DEF ChangeTopK, choices
<1> QED BY <1>3, <1>4

\* So do the choices of the other operators.
LEMMA ChoicesChange ==
  ASSUME NEW config
  PROVE  \A p \in UNION {ChangeStrategy(config), ToggleExamples(config), SwitchModel(config),
                         ChangeChunkSize(config), ChangeReranker(config), ChangeSelectionPolicy(config),
                         ChangeOrdering(config), ToggleDedup(config), ChangePlanning(config)} :
            Change(config, p)
<1>1. \A p \in ChangeStrategy(config) : Change(config, p)
  BY DEF ChangeStrategy, Alternatives, Change, Fields, InSchema
<1>2. \A p \in ToggleExamples(config) : Change(config, p)
  <2>1. \A v \in BOOLEAN : InSchema("prompt.include_examples", v)
    BY DEF InSchema
  <2>2. "prompt.include_examples" \in Fields
    BY DEF Fields
  <2> QED BY <2>1, <2>2, AlternativesChange DEF ToggleExamples
<1>3. \A p \in SwitchModel(config) : Change(config, p)
  BY DEF SwitchModel, Alternatives, Change, Fields, InSchema
<1>4. \A p \in ChangeChunkSize(config) : Change(config, p)
  <2>1. \A v \in {400, 600, 800, 1000} : InSchema("retrieval.chunk_size", v)
    BY DEF InSchema
  <2>2. "retrieval.chunk_size" \in Fields
    BY DEF Fields
  <2> QED BY <2>1, <2>2, AlternativesChange DEF ChangeChunkSize
<1>5. \A p \in ChangeReranker(config) : Change(config, p)
  BY DEF ChangeReranker, Alternatives, Change, Fields, InSchema
<1>6. \A p \in ChangeSelectionPolicy(config) : Change(config, p)
  BY DEF ChangeSelectionPolicy, Alternatives, Change, Fields, InSchema
<1>7. \A p \in ChangeOrdering(config) : Change(config, p)
  BY DEF ChangeOrdering, Alternatives, Change, Fields, InSchema
<1>8. \A p \in ToggleDedup(config) : Change(config, p)
  <2>1. \A v \in BOOLEAN : InSchema("context.deduplicate", v)
    BY DEF InSchema
  <2>2. "context.deduplicate" \in Fields
    BY DEF Fields
  <2> QED BY <2>1, <2>2, AlternativesChange DEF ToggleDedup
<1>9. \A p \in ChangePlanning(config) : Change(config, p)
  BY DEF ChangePlanning, Alternatives, Change, Fields, InSchema
<1> QED BY <1>1, <1>2, <1>3, <1>4, <1>5, <1>6, <1>7, <1>8, <1>9

(* Whatever is focused on, every option of every operator changes its field *)
(* and keeps it within the schema.                                          *)
LEMMA OptionsChange ==
  ASSUME NEW config, Valid(config), NEW focus,
         NEW p \in UNION UNION {Operators(config)[c] : c \in Focused(config, focus)}
  PROVE  Change(config, p)
<1>1. PICK c \in DOMAIN Operators(config) : p \in UNION (Operators(config)[c])
  BY DEF Focused
<1>2. \/ p \in UNION {AddConstraint(config), Simplify(config), ChangeTemperature(config), ChangeTopK(config)}
      \/ p \in UNION {ChangeStrategy(config), ToggleExamples(config), SwitchModel(config),
                      ChangeChunkSize(config), ChangeReranker(config), ChangeSelectionPolicy(config),
                      ChangeOrdering(config), ToggleDedup(config), ChangePlanning(config)}
  BY <1>1 DEF Operators
<1>3. CASE p \in UNION {AddConstraint(config), Simplify(config), ChangeTemperature(config), ChangeTopK(config)}
  BY <1>3, AddConstraintChanges, SimplifyChanges, StepsChange
<1> QED BY <1>2, <1>3, ChoicesChange

-----------------------------------------------------------------------------
(* How a child differs from its parent *)

\* The fields of b that a has with another value, and both values.
Difference(a, b) == {<<f, a[f], b[f]>> : f \in {d \in DOMAIN b : b[d] # a[d]}}

\* A configuration that keeps what the policy does not allow to change.
KeepsPolicyFields(a, b) == \A f \in DOMAIN Root : ~ IsAllowed(f) => b[f] = a[f]

(* The child a draft makes is a configuration within the schema, its records *)
(* are what it changes, and what the policy protects is as it was.           *)
LEMMA DraftMakesChild ==
  ASSUME NEW parent, Config(parent), NEW focus, NEW draft \in Drafts(parent, focus)
  PROVE  LET child == Overridden(parent, OverridesOf(draft))
         IN /\ Config(child)
            /\ {<<p[2], parent[p[2]], p[3]>> : p \in draft} = Difference(parent, child)
            /\ KeepsPolicyFields(parent, child)
<1> DEFINE overrides == OverridesOf(draft)
           child == Overridden(parent, overrides)
<1>1. /\ \A p \in draft : Change(parent, p) /\ IsAllowed(p[2])
      /\ OneEach(draft)
  <2>1. \A p \in draft : p \in UNION UNION {Operators(parent)[c] : c \in Focused(parent, focus)}
    BY DEF Drafts, kSubset
  <2>2. \A p \in draft : Change(parent, p)
    BY <2>1, OptionsChange DEF Config
  <2> QED BY <2>2 DEF Drafts, ValidChangeSet, FieldsOf
<1>2. /\ DOMAIN overrides = FieldsOf(draft)
      /\ \A p \in draft : overrides[p[2]] = p[3]
  <2>1. ASSUME NEW p \in draft PROVE overrides[p[2]] = p[3]
    <3> DEFINE q == CHOOSE q \in draft : q[2] = p[2]
    <3>1. q \in draft /\ q[2] = p[2]
      OBVIOUS
    <3>2. q = p
      BY <3>1, <1>1 DEF OneEach
    <3> QED BY <3>2 DEF OverridesOf, FieldsOf
  <2> QED BY <2>1 DEF OverridesOf
<1> HIDE DEF overrides
<1>3. /\ DOMAIN child = DOMAIN Root
      /\ \A p \in draft : child[p[2]] = p[3]
      /\ \A f \in DOMAIN Root \ FieldsOf(draft) : child[f] = parent[f]
  BY <1>1, <1>2, RootAssumption DEF Overridden, Config, Change, FieldsOf
<1> HIDE DEF child
<1>4. Valid(child)
  <2>1. ASSUME NEW f \in Fields PROVE InSchema(f, child[f])
    <3>1. CASE f \in FieldsOf(draft)
      BY <3>1, <1>1, <1>3 DEF FieldsOf, Change
    <3>2. CASE f \notin FieldsOf(draft)
      <4>1. InSchema(f, parent[f])
        BY SchemaByField DEF Config
      <4> QED BY <3>2, <4>1, <1>3, RootAssumption
    <3> QED BY <3>1, <3>2
  <2> QED BY <2>1, SchemaByField
<1>5. \A f \in DOMAIN Root : child[f] # parent[f] <=> f \in FieldsOf(draft)
  BY <1>1, <1>3 DEF FieldsOf, Change
<1>6. {<<p[2], parent[p[2]], p[3]>> : p \in draft} = Difference(parent, child)
  <2>1. ASSUME NEW p \in draft
        PROVE  <<p[2], parent[p[2]], p[3]>> \in Difference(parent, child)
    <3>1. p[2] \in DOMAIN child /\ child[p[2]] # parent[p[2]] /\ child[p[2]] = p[3]
      BY <1>1, <1>3, <1>5, RootAssumption DEF FieldsOf, Change
    <3> QED BY <3>1 DEF Difference
  <2>2. ASSUME NEW f \in DOMAIN child, child[f] # parent[f]
        PROVE  <<f, parent[f], child[f]>> \in {<<p[2], parent[p[2]], p[3]>> : p \in draft}
    <3>1. PICK p \in draft : p[2] = f
      BY <2>2, <1>3, <1>5 DEF FieldsOf
    <3> QED BY <3>1, <1>3
  <2> QED BY <2>1, <2>2 DEF Difference
<1>7. KeepsPolicyFields(parent, child)
  BY <1>1, <1>3 DEF KeepsPolicyFields, FieldsOf
<1> QED BY <1>3, <1>4, <1>6, <1>7 DEF Config, child, overrides

\* So does a point of a space that is on the policy's list.
LEMMA PointMakesChild ==
  ASSUME NEW parent, Config(parent), NEW point \in Points,
         \A f \in DOMAIN Space : IsAllowed(f), Valid(Overridden(parent, point))
  PROVE  LET child == Overridden(parent, point)
         IN /\ Config(child)
            /\ Changes(parent, point) = Difference(parent, child)
            /\ KeepsPolicyFields(parent, child)
<1> DEFINE child == Overridden(parent, point)
<1>1. DOMAIN point = DOMAIN Space /\ DOMAIN Space \subseteq DOMAIN Root
  BY LineageAssumption DEF Points
<1>2. /\ DOMAIN child = DOMAIN Root
      /\ \A f \in DOMAIN point : child[f] = point[f]
      /\ \A f \in DOMAIN Root \ DOMAIN point : child[f] = parent[f]
  BY <1>1 DEF Overridden, Config
<1>3. Valid(child)
  OBVIOUS
<1> HIDE DEF child
<1>4. {d \in DOMAIN child : child[d] # parent[d]} = {d \in DOMAIN point : parent[d] # point[d]}
  BY <1>1, <1>2
<1>5. Changes(parent, point) = Difference(parent, child)
  BY <1>2, <1>4 DEF Changes, Difference
<1>6. KeepsPolicyFields(parent, child)
  BY <1>1, <1>2 DEF KeepsPolicyFields
<1> QED BY <1>2, <1>3, <1>5, <1>6 DEF Config, child

-----------------------------------------------------------------------------
(* The inductive invariant *)

\* Every genome but the first has a stored parent, which is older.
FamilyOK ==
  /\ IsFiniteSet(DOMAIN store)
  /\ Root \in DOMAIN store /\ store[Root].parent = NoParent
  /\ \A h \in DOMAIN store \ {Root} :
       store[h].parent \in DOMAIN store /\ store[store[h].parent].version < store[h].version

\* Versions are given out once; a propose that is under way has a stored parent.
WorkOK ==
  /\ \A h \in DOMAIN store : store[h].version < version
  /\ DOMAIN proposal = {"parent", "focus", "left", "seen"}
  /\ proposal.left > 0 => proposal.parent \in DOMAIN store

LineageInv == TypeOK /\ FamilyOK /\ WorkOK /\ RecordsExplainTheGenome /\ PolicyFieldsNeverMove

\* NoParent has no fields, and every configuration has some.
LEMMA NoGenomeIsNoParent ==
  ASSUME NEW g, DOMAIN g = DOMAIN Root
  PROVE  g # NoParent
<1>1. "prompt.strategy" \in DOMAIN g
  BY RootAssumption DEF Fields
<1>2. DOMAIN << >> = {}
  OBVIOUS
<1> QED BY <1>1, <1>2 DEF NoParent

LEMMA InitHolds == Init => LineageInv
<1> SUFFICES ASSUME Init PROVE LineageInv
  OBVIOUS
<1>1. /\ DOMAIN store = {Root} /\ store[Root].version = 1 /\ store[Root].parent = NoParent
  BY DEF Init
<1>2. TypeOK
  BY <1>1, RootAssumption, LineageAssumption DEF Init, TypeOK, NoProposal
<1>3. FamilyOK
  BY <1>1, FS_Singleton DEF FamilyOK
<1>4. WorkOK
  BY <1>1 DEF Init, WorkOK, NoProposal
<1>5. RecordsExplainTheGenome /\ PolicyFieldsNeverMove
  BY <1>1 DEF RecordsExplainTheGenome, PolicyFieldsNeverMove
<1> QED BY <1>2, <1>3, <1>4, <1>5 DEF LineageInv

(* Storing a child of a stored genome: the one step that changes the store,  *)
(* whoever takes it.                                                         *)
LEMMA ChildIsStored ==
  ASSUME LineageInv, NEW parent \in DOMAIN store, NEW child,
         Config(child), KeepsPolicyFields(parent, child),
         version <= MaxVersion,
         store' = Added(child, Derived(parent, Difference(parent, child))),
         version' = version + 1
  PROVE  /\ \A h \in DOMAIN store' :
              /\ Config(h)
              /\ store'[h].version \in 1..MaxVersion /\ store'[h].version < version'
              /\ store'[h].parent \in DOMAIN store' \cup {NoParent}
         /\ version' \in 2..(MaxVersion + 1)
         /\ FamilyOK' /\ RecordsExplainTheGenome' /\ PolicyFieldsNeverMove'
         /\ DOMAIN store \subseteq DOMAIN store'
<1>1. version \in 2..MaxVersion /\ MaxVersion \in Nat
  BY LineageAssumption DEF LineageInv, TypeOK
<1>2. \A h \in DOMAIN store :
        /\ Config(h)
        /\ store[h].version \in 1..MaxVersion /\ store[h].version < version
        /\ store[h].parent \in DOMAIN store \cup {NoParent}
  BY DEF LineageInv, TypeOK, WorkOK, Config
<1>3. CASE child \in DOMAIN store
  <2>1. store' = store
    BY <1>3 DEF Added
  <2> QED BY <2>1, <1>1, <1>2
        DEF LineageInv, FamilyOK, RecordsExplainTheGenome, PolicyFieldsNeverMove
<1>4. CASE child \notin DOMAIN store
  <2> DEFINE genome == Derived(parent, Difference(parent, child))
  <2>1. /\ DOMAIN store' = DOMAIN store \cup {child}
        /\ store'[child] = genome
        /\ \A h \in DOMAIN store : store'[h] = store[h] /\ h # child
    BY <1>4 DEF Added, Replaced
  <2>2. genome.version = version /\ genome.parent = parent /\ genome.mutations = Difference(parent, child)
    BY DEF Derived
  <2> HIDE DEF genome
  <2>3. \A h \in DOMAIN store' :
          /\ Config(h)
          /\ store'[h].version \in 1..MaxVersion /\ store'[h].version < version'
          /\ store'[h].parent \in DOMAIN store' \cup {NoParent}
    <3>1. ASSUME NEW h \in DOMAIN store
          PROVE  /\ Config(h)
                 /\ store'[h].version \in 1..MaxVersion /\ store'[h].version < version'
                 /\ store'[h].parent \in DOMAIN store' \cup {NoParent}
      BY <2>1, <1>1, <1>2
    <3>2. /\ Config(child)
          /\ store'[child].version \in 1..MaxVersion /\ store'[child].version < version'
          /\ store'[child].parent \in DOMAIN store' \cup {NoParent}
      BY <2>1, <2>2, <1>1
    <3> QED BY <2>1, <3>1, <3>2
  <2>4. FamilyOK'
    <3>1. IsFiniteSet(DOMAIN store')
      BY <2>1, FS_AddElement DEF LineageInv, FamilyOK
    <3>2. Root \in DOMAIN store' /\ store'[Root].parent = NoParent
      BY <2>1 DEF LineageInv, FamilyOK
    <3>3. ASSUME NEW h \in DOMAIN store' \ {Root}
          PROVE  store'[h].parent \in DOMAIN store' /\ store'[store'[h].parent].version < store'[h].version
      <4>1. CASE h \in DOMAIN store
        <5>1. store[h].parent \in DOMAIN store /\ store[store[h].parent].version < store[h].version
          BY <4>1 DEF LineageInv, FamilyOK
        <5> QED BY <5>1, <4>1, <2>1
      <4>2. CASE h = child
        BY <4>2, <2>1, <2>2, <1>2
      <4> QED BY <4>1, <4>2, <2>1
    <3> QED BY <3>1, <3>2, <3>3 DEF FamilyOK
  <2>5. RecordsExplainTheGenome'
    <3>1. ASSUME NEW h \in DOMAIN store' \ {Root}
          PROVE  LET mother == store'[h].parent
                 IN store'[h].mutations = Difference(mother, h)
      <4>1. CASE h \in DOMAIN store
        <5>1. store[h].mutations = Difference(store[h].parent, h)
          BY <4>1 DEF LineageInv, RecordsExplainTheGenome, Difference
        <5> QED BY <5>1, <4>1, <2>1
      <4>2. CASE h = child
        BY <4>2, <2>1, <2>2
      <4> QED BY <4>1, <4>2, <2>1
    <3> QED BY <3>1 DEF RecordsExplainTheGenome, Difference
  <2>6. PolicyFieldsNeverMove'
    <3>1. ASSUME NEW h \in DOMAIN store', NEW f \in DOMAIN Root, ~ IsAllowed(f)
          PROVE  h[f] = Root[f]
      <4>1. \A g \in DOMAIN store : g[f] = Root[f]
        BY <3>1 DEF LineageInv, PolicyFieldsNeverMove, IsAllowed
      <4> QED BY <4>1, <3>1, <2>1 DEF KeepsPolicyFields
    <3> QED BY <3>1 DEF PolicyFieldsNeverMove, IsAllowed
  <2> QED BY <2>1, <2>3, <2>4, <2>5, <2>6, <1>1
<1> QED BY <1>3, <1>4

LEMMA StepHolds == LineageInv /\ [Next]_vars => LineageInv'
<1> SUFFICES ASSUME LineageInv, [Next]_vars PROVE LineageInv'
  OBVIOUS
<1>1. CASE Propose
  <2>1. PICK parent \in DOMAIN store, focus \in Focuses, n \in 1..MaxCandidates :
          proposal' = [parent |-> parent, focus |-> focus, left |-> n, seen |-> {}]
    BY <1>1 DEF Propose
  <2>2. store' = store /\ version' = version
    BY <1>1 DEF Propose
  <2> QED BY <2>1, <2>2, LineageAssumption
          DEF LineageInv, TypeOK, FamilyOK, WorkOK, RecordsExplainTheGenome, PolicyFieldsNeverMove
<1>2. CASE Mutate
  <2>1. PICK draft \in Drafts(proposal.parent, proposal.focus) :
          LET signature == {<<p[2], p[3]>> : p \in draft}
              records == {<<p[2], proposal.parent[p[2]], p[3]>> : p \in draft}
          IN /\ proposal' = [proposal EXCEPT !.left = @ - 1, !.seen = @ \cup {signature}]
             /\ store' = Added(Overridden(proposal.parent, OverridesOf(draft)),
                               Derived(proposal.parent, records))
    BY <1>2 DEF Mutate
  <2> DEFINE parent == proposal.parent
             child == Overridden(parent, OverridesOf(draft))
  <2>2. /\ proposal.left > 0 /\ version <= MaxVersion /\ version' = version + 1
        /\ parent \in DOMAIN store
    BY <1>2 DEF Mutate, LineageInv, WorkOK
  <2>3. Config(parent)
    BY <2>2 DEF LineageInv, TypeOK, Config
  <2>4. /\ Config(child)
        /\ {<<p[2], parent[p[2]], p[3]>> : p \in draft} = Difference(parent, child)
        /\ KeepsPolicyFields(parent, child)
    BY <2>3, DraftMakesChild
  <2>5. store' = Added(child, Derived(parent, Difference(parent, child)))
    BY <2>1, <2>4
  <2> HIDE DEF child
  <2>6. /\ \A h \in DOMAIN store' :
             /\ Config(h)
             /\ store'[h].version \in 1..MaxVersion /\ store'[h].version < version'
             /\ store'[h].parent \in DOMAIN store' \cup {NoParent}
        /\ version' \in 2..(MaxVersion + 1)
        /\ FamilyOK' /\ RecordsExplainTheGenome' /\ PolicyFieldsNeverMove'
        /\ DOMAIN store \subseteq DOMAIN store'
    BY <2>2, <2>4, <2>5, ChildIsStored
  <2>7. /\ DOMAIN proposal' = {"parent", "focus", "left", "seen"}
        /\ proposal'.parent = parent
        /\ proposal'.left = proposal.left - 1 /\ proposal.left \in 0..MaxCandidates
    BY <2>1 DEF LineageInv, WorkOK, TypeOK
  <2>8. TypeOK'
    BY <2>2, <2>6, <2>7, LineageAssumption DEF TypeOK, Config
  <2>9. WorkOK'
    BY <2>2, <2>6, <2>7 DEF WorkOK
  <2> QED BY <2>6, <2>8, <2>9 DEF LineageInv
<1>3. CASE GiveUp
  <2>1. proposal' = NoProposal /\ store' = store /\ version' = version
    BY <1>3 DEF GiveUp
  <2> QED BY <2>1, LineageAssumption
          DEF LineageInv, TypeOK, FamilyOK, WorkOK, RecordsExplainTheGenome, PolicyFieldsNeverMove, NoProposal
<1>4. CASE Search
  <2>1. PICK parent \in DOMAIN store, point \in Points :
          /\ Valid(Overridden(parent, point))
          /\ store' = Added(Overridden(parent, point), Derived(parent, Changes(parent, point)))
    BY <1>4 DEF Search
  <2> DEFINE child == Overridden(parent, point)
  <2>2. /\ version <= MaxVersion /\ version' = version + 1 /\ proposal' = proposal
        /\ \A f \in DOMAIN Space : IsAllowed(f)
    BY <1>4 DEF Search
  <2>3. Config(parent)
    BY DEF LineageInv, TypeOK, Config
  <2>4. /\ Config(child)
        /\ Changes(parent, point) = Difference(parent, child)
        /\ KeepsPolicyFields(parent, child)
    BY <2>1, <2>2, <2>3, PointMakesChild
  <2>5. store' = Added(child, Derived(parent, Difference(parent, child)))
    BY <2>1, <2>4
  <2> HIDE DEF child
  <2>6. /\ \A h \in DOMAIN store' :
             /\ Config(h)
             /\ store'[h].version \in 1..MaxVersion /\ store'[h].version < version'
             /\ store'[h].parent \in DOMAIN store' \cup {NoParent}
        /\ version' \in 2..(MaxVersion + 1)
        /\ FamilyOK' /\ RecordsExplainTheGenome' /\ PolicyFieldsNeverMove'
        /\ DOMAIN store \subseteq DOMAIN store'
    BY <2>2, <2>4, <2>5, ChildIsStored
  <2>7. TypeOK'
    BY <2>2, <2>6, LineageAssumption DEF LineageInv, TypeOK, Config
  <2>8. WorkOK'
    BY <2>2, <2>6 DEF LineageInv, WorkOK
  <2> QED BY <2>6, <2>7, <2>8 DEF LineageInv
<1>5. CASE UNCHANGED vars
  BY <1>5 DEF vars, LineageInv, TypeOK, FamilyOK, WorkOK, RecordsExplainTheGenome, PolicyFieldsNeverMove
<1> QED BY <1>1, <1>2, <1>3, <1>4, <1>5 DEF Next

\* The invariant the theorems below rest on.
THEOREM LineageInvariant == Spec => []LineageInv
<1> QED BY InitHolds, StepHolds, PTL DEF Spec

(* Types, and the bounds of the schema, however many mutations a genome is   *)
(* away from the first: no operator ever proposes what the schema refuses    *)
(* (mutations/operators.py against genomes/schema.py).                       *)
THEOREM TypeCorrect == Spec => []TypeOK
<1>1. LineageInv => TypeOK
  BY DEF LineageInv
<1> QED BY <1>1, LineageInvariant, PTL

(* The recorded mutations of a genome are exactly what it changes of its     *)
(* parent, whoever derived it and however often a configuration comes up     *)
(* again (mutations/engine.py:47-61, genomes/lineage.py:29-37).              *)
THEOREM RecordsAreTrue == Spec => []RecordsExplainTheGenome
<1>1. LineageInv => RecordsExplainTheGenome
  BY DEF LineageInv
<1> QED BY <1>1, LineageInvariant, PTL

(* What the policy forbids or does not list is what it was in the first      *)
(* version, in every descendant (mutations/policy.py:55-72).                 *)
THEOREM PolicyHolds == Spec => []PolicyFieldsNeverMove
<1>1. LineageInv => PolicyFieldsNeverMove
  BY DEF LineageInv
<1> QED BY <1>1, LineageInvariant, PTL

-----------------------------------------------------------------------------
(* Walking up the tree *)

(* A nonempty set of naturals has a least element: the shortest counterexample. *)
LEMMA NatMin ==
  ASSUME NEW T \in SUBSET Nat, T # {}
  PROVE  \E m \in T : \A n \in T : m <= n
<1> DEFINE R == {ss \in Nat \X Nat : ss[1] < ss[2]}
<1>1. IsWellFoundedOn(R, Nat)
  BY NatLessThanWellFounded DEF OpToRel
<1>2. PICK m \in T : \A y \in T : ~(<<y, m>> \in R)
  <2> HIDE DEF R
  <2> QED BY <1>1, WFMin
<1>3. \A y \in T : ~(y < m)
  BY <1>2
<1> QED BY <1>3

\* f lists h and its first n ancestors.
IsWalk(f, h, n) ==
  f = [i \in 0..n |-> IF i = 0 THEN h
                      ELSE IF f[i - 1] = NoParent THEN NoParent ELSE store[f[i - 1]].parent]

\* Every walk exists, by the shortest one that would not.
LEMMA WalkExists ==
  ASSUME NEW h, NEW len \in Nat
  PROVE  \E f : IsWalk(f, h, len)
<1> DEFINE Bad == {n \in Nat : ~ \E f : IsWalk(f, h, n)}
<1> SUFFICES ASSUME Bad # {} PROVE FALSE
  OBVIOUS
<1>1. PICK m \in Bad : \A n \in Bad : m <= n
  <2>1. Bad \in SUBSET Nat /\ Bad # {}
    OBVIOUS
  <2> HIDE DEF Bad
  <2> QED BY <2>1, NatMin
<1>2. m # 0
  <2> DEFINE g == [i \in 0..0 |-> h]
  <2>1. IsWalk(g, h, 0)
    BY DEF IsWalk
  <2> QED BY <2>1
<1>3. PICK f : IsWalk(f, h, m - 1)
  BY <1>1, <1>2
<1> DEFINE up(g, i) == IF g[i - 1] = NoParent THEN NoParent ELSE store[g[i - 1]].parent
           g == [i \in 0..m |-> IF i = m THEN up(f, m) ELSE f[i]]
<1>4. IsWalk(g, h, m)
  <2>0. m \in Nat /\ m # 0 /\ f = [i \in 0..(m-1) |-> IF i = 0 THEN h ELSE up(f, i)]
    BY <1>1, <1>2, <1>3 DEF IsWalk
  <2>1. ASSUME NEW i \in 0..m PROVE g[i] = IF i = 0 THEN h ELSE up(g, i)
    <3>1. CASE i = 0
      BY <3>1, <2>0
    <3>2. CASE i # 0
      <4>1. i - 1 \in 0..(m-1) /\ i - 1 # m /\ g[i - 1] = f[i - 1]
        BY <3>2, <2>0
      <4>2. up(g, i) = up(f, i)
        BY <4>1
      <4>3. g[i] = up(f, i)
        BY <3>2, <2>0
      <4> QED BY <3>2, <4>2, <4>3
    <3> QED BY <3>1, <3>2
  <2> QED BY <2>1 DEF IsWalk
<1> QED BY <1>1, <1>4

(* From any genome, as many steps up as there are genomes lead past the      *)
(* first one: versions fall on the way, so no genome is met twice.           *)
LEMMA WalkEnds ==
  ASSUME LineageInv, NEW h \in DOMAIN store
  PROVE  Ancestor(h, Cardinality(DOMAIN store)) = NoParent
<1> DEFINE n == Cardinality(DOMAIN store)
           walk == CHOOSE f : IsWalk(f, h, n)
<1>1. IsFiniteSet(DOMAIN store) /\ n \in Nat
  BY FS_CardinalityType DEF LineageInv, FamilyOK
<1>2. IsWalk(walk, h, n)
  BY <1>1, WalkExists
<1>3. Ancestor(h, n) = walk[n]
  BY DEF Ancestor, IsWalk
<1> HIDE DEF n
<1> SUFFICES ASSUME walk[n] # NoParent PROVE FALSE
  BY <1>3 DEF n
<1> HIDE DEF walk
<1>4. /\ walk[0] = h
      /\ \A i \in 1..n : walk[i] = IF walk[i - 1] = NoParent THEN NoParent ELSE store[walk[i - 1]].parent
  BY <1>1, <1>2 DEF IsWalk
<1>5. \A g \in DOMAIN store :
        /\ g # NoParent
        /\ store[g].version \in Nat
        /\ \/ store[g].parent = NoParent
           \/ store[g].parent \in DOMAIN store /\ store[store[g].parent].version < store[g].version
  <2>1. ASSUME NEW g \in DOMAIN store PROVE g # NoParent
    BY NoGenomeIsNoParent DEF LineageInv, TypeOK
  <2>2. ASSUME NEW g \in DOMAIN store PROVE store[g].version \in Nat
    BY LineageAssumption DEF LineageInv, TypeOK
  <2> QED BY <2>1, <2>2 DEF LineageInv, FamilyOK
\* Whoever is past the first genome stays there, so the walk never was.
<1>6. \A i \in 0..n : walk[i] # NoParent
  <2> DEFINE Bad == {j \in Nat : j <= n /\ walk[n - j] = NoParent}
  <2> SUFFICES ASSUME Bad # {} PROVE FALSE
    <3>1. ASSUME NEW i \in 0..n, walk[i] = NoParent PROVE n - i \in Bad
      <4>1. n - i \in Nat /\ n - i <= n /\ n - (n - i) = i
        BY <1>1
      <4> QED BY <4>1, <3>1
    <3> QED BY <3>1
  <2>1. PICK m \in Bad : \A j \in Bad : m <= j
    <3>1. Bad \in SUBSET Nat
      OBVIOUS
    <3> HIDE DEF Bad
    <3> QED BY <3>1, NatMin
  <2>2. m # 0
    BY <1>1
  <2>3. PICK k \in 1..n : k - 1 = n - m /\ n - (m - 1) = k /\ m - 1 \in Nat /\ m - 1 <= n
    <3>1. n - m + 1 \in 1..n
      BY <1>1, <2>2
    <3> QED BY <3>1, <1>1, <2>2
  <2>4. walk[k - 1] = NoParent
    BY <2>3
  <2>5. walk[k] = NoParent
    BY <2>4, <1>4
  <2>6. m - 1 \in Bad
    BY <2>3, <2>5
  <2> QED BY <2>1, <2>6
<1>7. \A i \in 0..n : walk[i] \in DOMAIN store
  <2> DEFINE Bad == {i \in Nat : i <= n /\ walk[i] \notin DOMAIN store}
  <2> SUFFICES ASSUME Bad # {} PROVE FALSE
    BY <1>1
  <2>1. PICK m \in Bad : \A j \in Bad : m <= j
    <3>1. Bad \in SUBSET Nat
      OBVIOUS
    <3> HIDE DEF Bad
    <3> QED BY <3>1, NatMin
  <2>2. m # 0
    BY <1>4
  <2>3. m \in 1..n /\ m - 1 \in 0..n /\ m - 1 \in Nat /\ m \in 0..n
    BY <1>1, <2>1, <2>2
  <2>4. walk[m - 1] \in DOMAIN store
    BY <2>1, <2>3, <1>1
  <2>5. walk[m] = store[walk[m - 1]].parent
    BY <2>3, <2>4, <1>4, <1>6
  <2>6. walk[m] # NoParent
    BY <2>3, <1>6
  <2> QED BY <2>1, <2>4, <2>5, <2>6, <1>5
<1> DEFINE age(i) == store[walk[i]].version
<1>8. \A i \in 1..n : age(i) < age(i - 1)
  <2> SUFFICES ASSUME NEW i \in 1..n PROVE age(i) < age(i - 1)
    OBVIOUS
  <2>1. i \in 0..n /\ i - 1 \in 0..n
    BY <1>1
  <2>2. walk[i] = store[walk[i - 1]].parent
    BY <1>4, <1>6, <2>1
  <2> QED BY <2>1, <2>2, <1>5, <1>6, <1>7
<1>9. \A i \in 0..n : age(i) \in Nat
  BY <1>5, <1>7
<1>10. \A i, j \in 0..n : i < j => age(j) < age(i)
  <2> SUFFICES ASSUME NEW i \in 0..n PROVE \A j \in 0..n : i < j => age(j) < age(i)
    OBVIOUS
  <2> DEFINE Bad == {j \in Nat : j <= n /\ i < j /\ ~ (age(j) < age(i))}
  <2> HIDE DEF age
  <2> SUFFICES ASSUME Bad # {} PROVE FALSE
    BY <1>1
  <2>1. PICK m \in Bad : \A j \in Bad : m <= j
    <3>1. Bad \in SUBSET Nat
      OBVIOUS
    <3> HIDE DEF Bad
    <3> QED BY <3>1, NatMin
  <2>2. m \in 1..n /\ m - 1 \in 0..n /\ m - 1 \in Nat /\ m \in 0..n
    BY <1>1, <2>1
  <2>3. age(m) < age(m - 1)
    BY <2>2, <1>8
  <2>4. CASE m - 1 = i
    BY <2>1, <2>3, <2>4
  <2>5. CASE m - 1 # i
    <3>1. i < m - 1 /\ m - 1 <= n
      BY <2>1, <2>2, <2>5
    <3>2. age(m - 1) < age(i)
      BY <3>1, <2>1, <2>2
    <3> QED BY <3>2, <2>1, <2>2, <2>3, <1>9
  <2> QED BY <2>4, <2>5
<1>11. \A i, j \in 0..n : walk[i] = walk[j] => i = j
  <2> SUFFICES ASSUME NEW i \in 0..n, NEW j \in 0..n, walk[i] = walk[j], i # j PROVE FALSE
    OBVIOUS
  <2>1. age(i) = age(j)
    OBVIOUS
  <2> HIDE DEF age
  <2> QED BY <2>1, <1>1, <1>9, <1>10
<1> DEFINE names == [i \in 0..n |-> walk[i]]
<1>12. names \in Injection(0..n, DOMAIN store)
  BY <1>7, <1>11 DEF Injection, IsInjective
<1>13. Cardinality(0..n) <= n
  <2> HIDE DEF names
  <2> QED BY <1>1, <1>12, FS_Injection DEF n
<1>14. Cardinality(0..n) = n + 1
  BY <1>1, FS_Interval
<1> QED BY <1>1, <1>13, <1>14

(* Lineage is a tree with the first version at its root: however mutations   *)
(* lead back to configurations that were there before, every walk up from a  *)
(* genome ends there (genomes/lineage.py:48-55).                             *)
THEOREM OneTree == Spec => []LineageIsATree
<1>1. LineageInv => LineageIsATree
  <2> SUFFICES ASSUME LineageInv PROVE LineageIsATree
    OBVIOUS
  <2>1. \A h \in DOMAIN store : Ancestor(h, Cardinality(DOMAIN store)) = NoParent
    BY WalkEnds
  <2>2. NoParent \notin DOMAIN store
    BY NoGenomeIsNoParent DEF LineageInv, TypeOK
  <2>3. {h \in DOMAIN store : store[h].parent = NoParent} = {Root}
    BY <2>2 DEF LineageInv, FamilyOK
  <2> QED BY <2>1, <2>3 DEF LineageIsATree
<1> QED BY <1>1, LineageInvariant, PTL
=============================================================================

------------------------------- MODULE Lineage -------------------------------
(***************************************************************************)
(* The genomes of one application: each but the first is derived from one  *)
(* that is stored, by the mutation engine or by a point of a search, and   *)
(* stored under the hash of its configuration.  Here the configuration     *)
(* itself stands for its hash.                                             *)
(***************************************************************************)
EXTENDS Mutations

CONSTANTS Root,          \* configuration of version 1
          Focuses,       \* sets of categories propose may be asked to focus on
          Space,         \* what a search may set each of its fields to
          MaxCandidates, \* n_candidates of a propose
          MaxVersion     \* bound: version numbers given out

ASSUME LineageAssumption ==
  /\ MaxCandidates \in Nat \ {0} /\ MaxVersion \in Nat \ {0}
  /\ DOMAIN Space \subseteq DOMAIN Root

\* The parent of the first genome: a configuration no genome has.
NoParent == << >>

\* The bounds of the schema: a configuration outside them cannot be built, so an operator that
\* proposed one would end the generation of candidates.
Valid(config) ==
  /\ config["prompt.system_prompt"] \in Seq(STRING)
  /\ config["model.temperature"] \in 0..200
  /\ config["retrieval.top_k"] \in 1..50
  /\ config["retrieval.chunk_size"] \in 50..4000
  /\ config["prompt.include_examples"] \in BOOLEAN /\ config["context.deduplicate"] \in BOOLEAN

ASSUME RootAssumption == Fields \subseteq DOMAIN Root /\ Valid(Root)

VARIABLES store,    \* GenomeStore, and the system_genomes table: configuration -> genome
          proposal, \* the propose that is under way
          version   \* next version number

vars == <<store, proposal, version>>

NoProposal == [parent |-> NoParent, focus |-> {}, left |-> 0, seen |-> {}]

Init ==
  /\ store = [h \in {Root} |-> [version |-> 1, parent |-> NoParent, mutations |-> {}]]
  /\ proposal = NoProposal
  /\ version = 2

\* The store with this genome, in place of the one it may have had: faulty as a way to add one.
Replaced(config, genome) == [h \in DOMAIN store \cup {config} |-> IF h = config THEN genome ELSE store[h]]

\* add, save_genome: a configuration that is there keeps its first genome.
Added(config, genome) == IF config \in DOMAIN store THEN store ELSE Replaced(config, genome)

\* _deep_set.
Overridden(config, overrides) ==
  [f \in DOMAIN config |-> IF f \in DOMAIN overrides THEN overrides[f] ELSE config[f]]

\* derive: the child's parent is the genome with this configuration.
Derived(parent, mutations) == [version |-> version, parent |-> parent, mutations |-> mutations]

\* The overrides of a draft; a field has one value, whatever is recorded.
OverridesOf(draft) == [f \in FieldsOf(draft) |-> (CHOOSE p \in draft : p[2] = f)[3]]

Propose ==
  /\ proposal.left = 0
  /\ \E parent \in DOMAIN store, focus \in Focuses, n \in 1..MaxCandidates :
       proposal' = [parent |-> parent, focus |-> focus, left |-> n, seen |-> {}]
  /\ UNCHANGED <<store, version>>

\* One more child that changes the parent in a way none before it did.
Mutate ==
  /\ proposal.left > 0 /\ version <= MaxVersion
  /\ \E draft \in Drafts(proposal.parent, proposal.focus) :
       LET signature == {<<p[2], p[3]>> : p \in draft}
           records == {<<p[2], proposal.parent[p[2]], p[3]>> : p \in draft}
       IN /\ signature \notin proposal.seen
          /\ proposal' = [proposal EXCEPT !.left = @ - 1, !.seen = @ \cup {signature}]
          /\ store' = Added(Overridden(proposal.parent, OverridesOf(draft)), Derived(proposal.parent, records))
  /\ version' = version + 1

\* The attempts run out, as they do when nothing is left to try.
GiveUp ==
  /\ proposal.left > 0
  /\ proposal' = NoProposal
  /\ UNCHANGED <<store, version>>

Points == {p \in [DOMAIN Space -> UNION {Space[f] : f \in DOMAIN Space}] : \A f \in DOMAIN Space : p[f] \in Space[f]}

\* A search point sets every dimension; only those that change are recorded.
Changes(config, point) == {<<f, config[f], point[f]>> : f \in {d \in DOMAIN point : config[d] # point[d]}}

\* A search derives a candidate from its baseline; a space outside the allow-list stops it, and so
\* does a point outside the schema.
Search ==
  /\ proposal.left = 0 /\ version <= MaxVersion
  /\ \A f \in DOMAIN Space : IsAllowed(f)
  /\ \E baseline \in DOMAIN store, point \in Points :
       /\ Valid(Overridden(baseline, point))
       /\ store' = Added(Overridden(baseline, point), Derived(baseline, Changes(baseline, point)))
  /\ version' = version + 1
  /\ UNCHANGED proposal

Next == Propose \/ Mutate \/ GiveUp \/ Search

Spec == Init /\ [][Next]_vars

-----------------------------------------------------------------------------
(* Properties *)

\* The types, and the schema's bounds however many mutations a configuration is away from the first.
TypeOK ==
  /\ \A h \in DOMAIN store :
       /\ DOMAIN h = DOMAIN Root /\ Valid(h)
       /\ store[h].version \in 1..MaxVersion
       /\ store[h].parent \in DOMAIN store \cup {NoParent}
  /\ proposal.left \in 0..MaxCandidates
  /\ version \in 2..(MaxVersion + 1)

\* The n-th ancestor of a genome.
Ancestor(h, n) ==
  LET Up[i \in 0..n] == IF i = 0 THEN h ELSE IF Up[i - 1] = NoParent THEN NoParent ELSE store[Up[i - 1]].parent
  IN Up[n]

\* Lineage is a tree with the first version at its root, and walking up from any genome ends there.
\* It does although mutations lead back: a child whose configuration an ancestor had has that
\* ancestor's hash, so storing it again would close a cycle.
LineageIsATree ==
  /\ \A h \in DOMAIN store : Ancestor(h, Cardinality(DOMAIN store)) = NoParent
  /\ {h \in DOMAIN store : store[h].parent = NoParent} = {Root}

\* The recorded mutations of a genome are exactly what it changes of its parent, with the values the
\* parent has: no change is recorded that was not applied, none is applied unrecorded.
RecordsExplainTheGenome ==
  \A h \in DOMAIN store \ {Root} :
    LET parent == store[h].parent
    IN store[h].mutations = {<<f, parent[f], h[f]>> : f \in {d \in DOMAIN h : h[d] # parent[d]}}

\* A field the policy forbids or does not list has the value it had in the first version, in every descendant.
PolicyFieldsNeverMove ==
  \A h \in DOMAIN store, f \in DOMAIN Root : f \in Forbidden \/ f \notin Allowed => h[f] = Root[f]
=============================================================================

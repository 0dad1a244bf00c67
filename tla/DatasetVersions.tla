--------------------------- MODULE DatasetVersions ---------------------------
(* The versions of one dataset (datasets/evolution.py and datasets/holdout.py): *)
(* how the first is generated, how the next extends it, and which split each    *)
(* challenge falls into.  A challenge is its id, its body (what it asks) and    *)
(* its split; what a generator makes is determined by its arguments.            *)
EXTENDS Integers, FiniteSets

CONSTANTS SplitOf(_, _)   \* the stable hash of a seed and a challenge id

NoVersion == 0

\* generate_cases(n, difficulty, seed): ids say the seed and the position only, bodies depend on
\* every argument.
Generated(difficulty, seed, n) ==
  {[id |-> [seed |-> seed, pos |-> i, renamed |-> NoVersion], body |-> <<difficulty, seed, n, i>>] :
     i \in 1..n}

\* deterministic_split of challenges that have no split yet.
Assigned(cases, seed) ==
  {[id |-> c.id, body |-> c.body, split |-> SplitOf(seed, c.id)] : c \in cases}

IdsOf(challenges) == {c.id : c \in challenges}

\* Faulty: generated ids are kept, taken or not.
KeptIds(cases, taken, version) == cases

\* An id that is taken gets the number of the new version as a suffix.
Renamed(cases, taken, version) ==
  {IF c.id \in taken THEN [c EXCEPT !.id.renamed = version] ELSE c : c \in cases}

\* seed_dataset: version 1.
SeedVersion(seed, n) ==
  [version |-> 1, parent |-> NoVersion, challenges |-> Assigned(Generated(<<"easy", 0>>, seed, n), seed)]

\* Faulty: every challenge is split again by the seed of the evolution.
ResplitVersion(current, cases, seed) ==
  LET new == Renamed(cases, IdsOf(current.challenges), current.version + 1)
  IN [version |-> current.version + 1, parent |-> current.version,
      challenges |-> Assigned(current.challenges \cup new, seed)]

\* _extend: only the new challenges are assigned a split.
ExtendedVersion(current, cases, seed) ==
  LET new == Renamed(cases, IdsOf(current.challenges), current.version + 1)
  IN [version |-> current.version + 1, parent |-> current.version,
      challenges |-> current.challenges \cup Assigned(new, seed)]

\* evolve_if_saturated works in a band above the current difficulty, evolve_from_failures always in
\* the hard band; the first gives nothing while the benchmark is not saturated.
Evolved(mode, current, seed, n) ==
  ExtendedVersion(current,
    Generated(IF mode = "failures" THEN <<"hard", 0>> ELSE <<"harder", current.version>>, seed, n), seed)
=============================================================================

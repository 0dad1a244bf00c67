---------------------------- MODULE CatalogProofs ----------------------------
(* Proofs about Catalog, for any number of concurrent requests, experiments and *)
(* dataset versions: how versions extend each other, when two rows stand for    *)
(* one version, and when two experiments can be given the same numbers.         *)
EXTENDS Catalog, FiniteSetTheorems, FunctionTheorems, WellFoundedInduction, TLAPS

-----------------------------------------------------------------------------
(* The invariant *)

\* A version has each id once, and no id with the suffix of a later version.
ChallengesOK(version, challenges) ==
  /\ IsFiniteSet(challenges)
  /\ \A c, d \in challenges : c.id = d.id => c = d
  /\ \A c \in challenges : c.id.renamed \in Nat /\ c.id.renamed <= version

\* A row that is stored, or will be: it extends one that is.
RowOK(row) ==
  /\ row.version \in 1..MaxVersion
  /\ IF row.version = 1 THEN row.parent = NoVersion
     ELSE /\ row.parent = row.version - 1
          /\ \E parent \in OfVersion(row.parent) : parent.challenges \subseteq row.challenges
  /\ ChallengesOK(row.version, row.challenges)

\* What is given is stored, and nothing else was found in its place.
GivenOK == \A a \in given : a.row \in rows /\ \A stored \in a.found : stored = a.row

DatasetsOK == GivenOK /\ \A row \in rows : RowOK(row)

\* Numbers an experiment may have: none yet, or a range from 2 on, and as many used from its start.
Ranges == [first : 0..MaxNumber, reserved : 0..MaxNumber, evaluated : 0..MaxNumber]

RangeOK(range) ==
  /\ range \in Ranges
  /\ range.first >= 2 /\ range.reserved >= 1
  /\ range.first + range.reserved - 1 <= MaxNumber
  /\ range.first + range.evaluated - 1 <= MaxNumber

ExperimentsOK ==
  /\ experiment \in [Experiments -> Ranges]
  /\ \A e \in Created : RangeOK(experiment[e])
  /\ newest \in 1..MaxNumber

\* No reservation an experiment's own took into account starts inside it.
SawOK ==
  /\ DOMAIN saw = Experiments
  /\ \A e \in Created : \A s \in saw[e] : s.first \notin NumbersOf(e)

\* A budget that may be written over the one of an experiment: it runs into no reservation seen.
BudgetOK(e, budget, seen) ==
  /\ e \in Created /\ budget \in 1..MaxNumber
  /\ experiment[e].first + budget - 1 <= MaxNumber
  /\ \A s \in seen : s.first \notin experiment[e].first..(experiment[e].first + budget - 1)

\* What a request knows still holds: a new range starts behind every reservation it has looked at,
\* and a budget that is put back or raised runs into none of them.
RequestOK(r) ==
  LET q == request[r] IN
  /\ q.at \in Steps
  /\ q.at = "save" => q = [at |-> "save", op |-> q.op, row |-> q.row] /\ RowOK(q.row)
  /\ q.at = "insert" => RowOK(q.row) /\ q.found = {}
  /\ q.at \in {"found", "reserve"} =>
       /\ q = [at |-> q.at, id |-> q.id, size |-> q.size, seeded |-> q.seeded]
       /\ q.id \in Experiments /\ q.size \in Sizes /\ RowOK(q.seeded)
  /\ q.at = "commit" =>
       /\ q.id \in Experiments /\ (q.row = NoRow \/ (RowOK(q.row) /\ q.found = {}))
       /\ RangeOK(q.range)
       /\ \A s \in q.seen :
            /\ s.first + s.reserved <= q.range.first
            /\ s.first \notin q.range.first..(q.range.first + q.range.reserved - 1)
  /\ q.at = "start" => q = [at |-> "start", id |-> q.id, budget |-> q.budget, seen |-> q.seen]
  /\ q.at \in {"start", "search", "record"} => BudgetOK(q.id, q.budget, q.seen)
  /\ q.at = "record" => q.best \in 1..MaxNumber
  /\ q.at = "check" => BudgetOK(q.id, q.total, {})
  /\ q.at = "raise" => BudgetOK(q.id, q.total, q.seen)

\* While there is no application, only its founder can get past its flush.
FounderOK ==
  /\ Created # {} => application
  /\ founder \in Requests \cup {Nobody}
  /\ founder # Nobody => ~ application /\ request[founder].at \in {"reserve", "commit"}
  /\ ~ application => \A r \in Requests : request[r].at \in {"reserve", "commit"} => founder = r

RequestsOK ==
  /\ DOMAIN request = Requests
  /\ \A r \in Requests : RequestOK(r)

CatalogInv ==
  /\ DatasetsOK /\ ExperimentsOK /\ SawOK
  /\ RequestsOK /\ FounderOK

-----------------------------------------------------------------------------
(* Lemmas about the versions of a dataset *)

\* What a function makes of a finite set is finite.
LEMMA FiniteImage ==
  ASSUME NEW S, IsFiniteSet(S), NEW T, NEW f \in [S -> T], \A y \in T : \E x \in S : f[x] = y
  PROVE  IsFiniteSet(T)
BY Fun_IsSurj, FS_Surjection

\* As many ids as challenges: each id is one challenge's.
LEMMA OneIdEach ==
  ASSUME NEW challenges, IsFiniteSet(challenges), \A c, d \in challenges : c.id = d.id => c = d
  PROVE  Cardinality(IdsOf(challenges)) = Cardinality(challenges)
<1> DEFINE f == [c \in challenges |-> c.id]
<1>1. f \in [challenges -> IdsOf(challenges)]
  BY DEF IdsOf
<1>2. \A i \in IdsOf(challenges) : \E c \in challenges : f[c] = i
  BY DEF IdsOf
<1>3. \A c, d \in challenges : f[c] = f[d] => c = d
  OBVIOUS
<1> HIDE DEF f
<1>4. f \in Surjection(challenges, IdsOf(challenges)) /\ f \in Injection(challenges, IdsOf(challenges))
  BY <1>1, <1>2, <1>3, Fun_IsInj, Fun_IsSurj
<1> QED BY <1>4, FS_Surjection

\* A generator makes as many challenges as it is asked for, each with an id of its own.
LEMMA GeneratedOnce ==
  ASSUME NEW difficulty, NEW seed, NEW n \in Nat
  PROVE  /\ IsFiniteSet(Generated(difficulty, seed, n))
         /\ \A c \in Generated(difficulty, seed, n) : \E i \in 1..n :
              c = [id |-> [seed |-> seed, pos |-> i, renamed |-> NoVersion], body |-> <<difficulty, seed, n, i>>]
<1> DEFINE case(i) == [id |-> [seed |-> seed, pos |-> i, renamed |-> NoVersion], body |-> <<difficulty, seed, n, i>>]
           f == [i \in 1..n |-> case(i)]
           T == Generated(difficulty, seed, n)
<1>1. T = {case(i) : i \in 1..n}
  BY DEF Generated
<1>2. f \in [1..n -> T] /\ \A c \in T : \E i \in 1..n : f[i] = c
  <2> HIDE DEF case
  <2> QED BY <1>1
<1>3. IsFiniteSet(1..n)
  BY FS_Interval
<1>4. IsFiniteSet(T)
  <2> HIDE DEF f, T
  <2> QED BY <1>2, <1>3, FiniteImage
<1> QED BY <1>1, <1>4

\* A suffix keeps a taken id apart from the others, and from all that have an earlier suffix.
LEMMA RenamedOnce ==
  ASSUME NEW difficulty, NEW seed, NEW n \in Nat, NEW version \in Nat \ {0}, NEW taken,
         \A i \in taken : i.renamed \in Nat /\ i.renamed < version
  PROVE  LET cases == Generated(difficulty, seed, n)
             new == Renamed(cases, taken, version)
         IN  /\ IsFiniteSet(new)
             /\ \A c \in new : c.id \notin taken /\ c.id.renamed \in Nat /\ c.id.renamed <= version
             /\ \A c, d \in new : c.id = d.id => c = d
<1> DEFINE cases == Generated(difficulty, seed, n)
           name(c) == IF c.id \in taken THEN [c EXCEPT !.id.renamed = version] ELSE c
           new == Renamed(cases, taken, version)
           f == [c \in cases |-> name(c)]
<1>1. new = {name(c) : c \in cases}
  BY DEF Renamed
<1>2. f \in [cases -> new] /\ \A c \in new : \E d \in cases : f[d] = c
  <2> HIDE DEF name
  <2> QED BY <1>1
<1>3. IsFiniteSet(new)
  <2>1. IsFiniteSet(cases)
    BY GeneratedOnce
  <2> HIDE DEF f, new, cases
  <2> QED BY <1>2, <2>1, FiniteImage
<1>4. \A c \in cases : \E i \in 1..n :
        /\ c = [id |-> [seed |-> seed, pos |-> i, renamed |-> NoVersion], body |-> <<difficulty, seed, n, i>>]
        /\ name(c) = [id |-> [seed |-> seed, pos |-> i, renamed |-> IF c.id \in taken THEN version ELSE NoVersion],
                      body |-> <<difficulty, seed, n, i>>]
  <2> SUFFICES ASSUME NEW c \in cases
               PROVE  \E i \in 1..n :
        /\ c = [id |-> [seed |-> seed, pos |-> i, renamed |-> NoVersion], body |-> <<difficulty, seed, n, i>>]
        /\ name(c) = [id |-> [seed |-> seed, pos |-> i, renamed |-> IF c.id \in taken THEN version ELSE NoVersion],
                      body |-> <<difficulty, seed, n, i>>]
    OBVIOUS
  <2>1. PICK i \in 1..n :
          c = [id |-> [seed |-> seed, pos |-> i, renamed |-> NoVersion], body |-> <<difficulty, seed, n, i>>]
    BY GeneratedOnce
  <2>2. CASE c.id \in taken
    <3>1. name(c) = [c EXCEPT !.id.renamed = version]
      BY <2>2
    <3>2. [c EXCEPT !.id.renamed = version]
            = [id |-> [seed |-> seed, pos |-> i, renamed |-> version], body |-> <<difficulty, seed, n, i>>]
      BY <2>1
    <3> QED BY <2>1, <2>2, <3>1, <3>2
  <2>3. CASE c.id \notin taken
    BY <2>1, <2>3
  <2> QED BY <2>2, <2>3
<1>5. ASSUME NEW c \in new
      PROVE  \E i \in 1..n, suffix \in {NoVersion, version} :
               /\ c = [id |-> [seed |-> seed, pos |-> i, renamed |-> suffix], body |-> <<difficulty, seed, n, i>>]
               /\ suffix = version <=> [seed |-> seed, pos |-> i, renamed |-> NoVersion] \in taken
  <2>1. PICK d \in cases : c = name(d)
    BY <1>1
  <2>2. PICK i \in 1..n :
          /\ d = [id |-> [seed |-> seed, pos |-> i, renamed |-> NoVersion], body |-> <<difficulty, seed, n, i>>]
          /\ name(d) = [id |-> [seed |-> seed, pos |-> i, renamed |-> IF d.id \in taken THEN version ELSE NoVersion],
                        body |-> <<difficulty, seed, n, i>>]
    BY <1>4
  <2>3. d.id = [seed |-> seed, pos |-> i, renamed |-> NoVersion]
    BY <2>2
  <2>4. version # NoVersion
    BY DEF NoVersion
  <2> HIDE DEF name
  <2>5. CASE d.id \in taken
    BY <2>1, <2>2, <2>3, <2>5
  <2>6. CASE d.id \notin taken
    BY <2>1, <2>2, <2>3, <2>4, <2>6
  <2> QED BY <2>5, <2>6
<1>6. ASSUME NEW c \in new
      PROVE  c.id \notin taken /\ c.id.renamed \in Nat /\ c.id.renamed <= version
  <2>1. PICK i \in 1..n, suffix \in {NoVersion, version} :
          /\ c = [id |-> [seed |-> seed, pos |-> i, renamed |-> suffix], body |-> <<difficulty, seed, n, i>>]
          /\ suffix = version <=> [seed |-> seed, pos |-> i, renamed |-> NoVersion] \in taken
    BY <1>5
  <2>2. c.id = [seed |-> seed, pos |-> i, renamed |-> suffix] /\ c.id.renamed = suffix
    BY <2>1
  <2>3. suffix \in Nat /\ suffix <= version
    BY <2>1 DEF NoVersion
  <2>4. CASE suffix = version
    BY <2>2, <2>3, <2>4
  <2>5. CASE suffix # version
    BY <2>1, <2>2, <2>3, <2>5
  <2> QED BY <2>4, <2>5
<1>7. ASSUME NEW c \in new, NEW d \in new, c.id = d.id
      PROVE  c = d
  <2>1. PICK i \in 1..n, s1 \in {NoVersion, version} :
          c = [id |-> [seed |-> seed, pos |-> i, renamed |-> s1], body |-> <<difficulty, seed, n, i>>]
    BY <1>5
  <2>2. PICK j \in 1..n, s2 \in {NoVersion, version} :
          d = [id |-> [seed |-> seed, pos |-> j, renamed |-> s2], body |-> <<difficulty, seed, n, j>>]
    BY <1>5
  <2>3. c.id.pos = i /\ d.id.pos = j /\ c.id.renamed = s1 /\ d.id.renamed = s2
    BY <2>1, <2>2
  <2>4. i = j /\ s1 = s2
    BY <1>7, <2>3
  <2> QED BY <2>1, <2>2, <2>4
<1> QED BY <1>3, <1>6, <1>7

\* Giving challenges their split changes neither how many they are nor their ids.
LEMMA AssignedOnce ==
  ASSUME NEW cases, IsFiniteSet(cases), \A c, d \in cases : c.id = d.id => c = d, NEW seed
  PROVE  LET assigned == Assigned(cases, seed)
         IN  /\ IsFiniteSet(assigned)
             /\ \A c \in assigned : \E d \in cases : c.id = d.id
             /\ \A c, d \in assigned : c.id = d.id => c = d
<1> DEFINE assigned == Assigned(cases, seed)
           split(c) == [id |-> c.id, body |-> c.body, split |-> SplitOf(seed, c.id)]
           f == [c \in cases |-> split(c)]
<1>1. assigned = {split(c) : c \in cases}
  BY DEF Assigned
<1>2. \A c \in cases : split(c).id = c.id
  OBVIOUS
<1> HIDE DEF split
<1>3. f \in [cases -> assigned] /\ \A c \in assigned : \E d \in cases : f[d] = c
  BY <1>1
<1>4. IsFiniteSet(assigned)
  <2> HIDE DEF f, assigned
  <2> QED BY <1>3, FiniteImage
<1>5. \A c \in assigned : \E d \in cases : c = split(d) /\ c.id = d.id
  BY <1>1, <1>2
<1>6. \A c, d \in assigned : c.id = d.id => c = d
  BY <1>5
<1> QED BY <1>4, <1>5, <1>6

\* The first version of a dataset has each id once.
LEMMA SeedRow ==
  ASSUME NEW seed, NEW n \in Nat
  PROVE  RowOK(SeedVersion(seed, n))
<1> DEFINE difficulty == <<"easy", 0>>
           cases == Generated(difficulty, seed, n)
           challenges == Assigned(cases, seed)
<1>1. SeedVersion(seed, n) = [version |-> 1, parent |-> NoVersion, challenges |-> challenges]
  BY DEF SeedVersion
<1>2. /\ IsFiniteSet(cases)
      /\ \A c, d \in cases : c.id = d.id => c = d
      /\ \A c \in cases : c.id.renamed = 0
  <2>1. \A c \in cases : \E i \in 1..n :
          c = [id |-> [seed |-> seed, pos |-> i, renamed |-> NoVersion], body |-> <<difficulty, seed, n, i>>]
    <3> HIDE DEF difficulty
    <3> QED BY GeneratedOnce
  <2>2. IsFiniteSet(cases)
    <3> HIDE DEF difficulty
    <3> QED BY GeneratedOnce
  <2> HIDE DEF cases, difficulty
  <2>3. \A c \in cases : \E i \in 1..n :
          /\ c = [id |-> [seed |-> seed, pos |-> i, renamed |-> NoVersion], body |-> <<difficulty, seed, n, i>>]
          /\ c.id.pos = i /\ c.id.renamed = 0
    BY <2>1 DEF NoVersion
  <2> QED BY <2>2, <2>3
<1> HIDE DEF cases
<1>3. /\ IsFiniteSet(challenges)
      /\ \A c \in challenges : \E d \in cases : c.id = d.id
      /\ \A c, d \in challenges : c.id = d.id => c = d
  BY <1>2, AssignedOnce
<1> HIDE DEF challenges
<1>4. ChallengesOK(1, challenges)
  BY <1>2, <1>3 DEF ChallengesOK
<1>5. 1 \in 1..MaxVersion
  BY CatalogAssumption
<1> QED BY <1>1, <1>4, <1>5 DEF RowOK

\* An evolved version keeps the challenges of the one it extends, and each of its ids is one challenge's.
LEMMA EvolvedRow ==
  ASSUME NEW current \in rows, RowOK(current), current.version < MaxVersion,
         NEW mode, NEW seed, NEW n \in Nat
  PROVE  RowOK(Evolved(mode, current, seed, n))
<1> DEFINE difficulty == IF mode = "failures" THEN <<"hard", 0>> ELSE <<"harder", current.version>>
           cases == Generated(difficulty, seed, n)
           version == current.version + 1
           taken == IdsOf(current.challenges)
           new == Renamed(cases, taken, version)
           added == Assigned(new, seed)
           challenges == current.challenges \cup added
<1>1. Evolved(mode, current, seed, n) = [version |-> version, parent |-> current.version, challenges |-> challenges]
  BY DEF Evolved, ExtendedVersion
<1>2. version \in 1..MaxVersion /\ version # 1 /\ version \in Nat \ {0} /\ version - 1 = current.version
  BY CatalogAssumption DEF RowOK
<1>3. \A i \in taken : i.renamed \in Nat /\ i.renamed < version
  BY <1>2 DEF RowOK, ChallengesOK, IdsOf
<1> HIDE DEF difficulty, version, taken
<1>4. /\ IsFiniteSet(new)
      /\ \A c \in new : c.id \notin taken /\ c.id.renamed \in Nat /\ c.id.renamed <= version
      /\ \A c, d \in new : c.id = d.id => c = d
  BY <1>2, <1>3, RenamedOnce
<1> HIDE DEF new
<1>5. /\ IsFiniteSet(added)
      /\ \A c \in added : \E d \in new : c.id = d.id
      /\ \A c, d \in added : c.id = d.id => c = d
  BY <1>4, AssignedOnce
<1> HIDE DEF added
<1>6. \A c \in current.challenges : c.id \in taken
  BY DEF IdsOf, taken
<1>7. ChallengesOK(version, challenges)
  <2>1. IsFiniteSet(challenges)
    BY <1>5, FS_Union DEF RowOK, ChallengesOK
  <2>2. \A c, d \in challenges : c.id = d.id => c = d
    BY <1>4, <1>5, <1>6 DEF RowOK, ChallengesOK
  <2>3. \A c \in challenges : c.id.renamed \in Nat /\ c.id.renamed <= version
    BY <1>2, <1>4, <1>5 DEF RowOK, ChallengesOK
  <2> QED BY <2>1, <2>2, <2>3 DEF ChallengesOK
<1>8. current \in OfVersion(current.version) /\ current.challenges \subseteq challenges
  BY DEF OfVersion
<1> HIDE DEF challenges
<1> QED BY <1>1, <1>2, <1>7, <1>8 DEF RowOK

\* A row that is stored stays as good as it was when more rows come.
LEMMA RowStaysOK ==
  ASSUME NEW row, RowOK(row), rows \subseteq rows'
  PROVE  RowOK(row)'
<1>1. \A v : OfVersion(v) \subseteq OfVersion(v)'
  BY DEF OfVersion
<1> QED BY <1>1 DEF RowOK, ChallengesOK

-----------------------------------------------------------------------------
(* Lemmas about candidate numbers *)

\* A set of numbers with a bound has a largest one.
LEMMA MaxIsLargest ==
  ASSUME NEW S \in SUBSET Int, S # {}, NEW b \in Int, \A x \in S : x <= b
  PROVE  Max(S) \in S /\ \A x \in S : Max(S) >= x
<1> DEFINE T == {n \in Nat : b - n \in S}
           R == {ss \in Nat \X Nat : ss[1] < ss[2]}
<1>1. IsWellFoundedOn(R, Nat)
  BY NatLessThanWellFounded DEF OpToRel
<1>2. T \subseteq Nat /\ T # {}
  <2>1. PICK x \in S : TRUE
    OBVIOUS
  <2>2. b - x \in Nat /\ b - (b - x) = x
    BY <2>1
  <2> QED BY <2>1, <2>2
<1>3. PICK m \in T : \A n \in T : ~ (<<n, m>> \in R)
  <2> HIDE DEF R, T
  <2> QED BY <1>1, <1>2, WFMin
<1>4. b - m \in S /\ m \in Nat
  BY <1>3
<1>5. ASSUME NEW x \in S PROVE b - m >= x
  <2>1. b - x \in Nat /\ b - (b - x) = x
    OBVIOUS
  <2>2. ~ (b - x < m)
    BY <1>3, <2>1
  <2> QED BY <1>4, <2>1, <2>2
<1> QED BY <1>4, <1>5 DEF Max

\* The next free number lies behind every reservation.
LEMMA NextIsFree ==
  ASSUME ExperimentsOK
  PROVE  /\ NextCandidateVersion \in Nat /\ NextCandidateVersion >= 2
         /\ \A e \in Created : experiment[e].first + experiment[e].reserved <= NextCandidateVersion
<1> DEFINE S == {newest + 1} \cup {experiment[e].first + experiment[e].reserved : e \in Created}
<1>1. S \in SUBSET Int /\ newest + 1 \in S /\ newest + 1 >= 2 /\ \A x \in S : x <= MaxNumber + 2
  BY CatalogAssumption DEF ExperimentsOK, RangeOK, Ranges, Created
<1>2. Max(S) \in S /\ \A x \in S : Max(S) >= x
  <2>1. MaxNumber + 2 \in Int
    BY CatalogAssumption
  <2> HIDE DEF S
  <2> QED BY <1>1, <2>1, MaxIsLargest
<1>3. NextCandidateVersion = Max(S)
  BY DEF NextCandidateVersion
<1>4. \A e \in Created : experiment[e].first + experiment[e].reserved \in S
  OBVIOUS
<1> HIDE DEF S
<1>5. Max(S) \in Int /\ Max(S) >= 2
  <2>1. Max(S) \in Int /\ newest + 1 \in Int /\ Max(S) >= newest + 1
    BY <1>1, <1>2
  <2>2. newest + 1 >= 2
    BY <1>1
  <2> QED BY <2>1, <2>2
<1> QED BY <1>2, <1>3, <1>4, <1>5

-----------------------------------------------------------------------------
(* Every step keeps the invariant *)

\* At the start there is nothing to go wrong.
LEMMA InitCatalog == Init => CatalogInv
<1> SUFFICES ASSUME Init PROVE CatalogInv
  OBVIOUS
<1>1. Created = {}
  BY DEF Init, Created
<1>2. None \in Ranges
  BY CatalogAssumption DEF None, Ranges
<1>3. DatasetsOK /\ ExperimentsOK /\ SawOK
  BY <1>1, <1>2, CatalogAssumption DEF Init, DatasetsOK, GivenOK, ExperimentsOK, SawOK
<1>4. RequestsOK
  BY DEF Init, RequestsOK, RequestOK, Idle, Steps
<1>5. FounderOK
  BY <1>1 DEF Init, FounderOK, Idle
<1> QED BY <1>3, <1>4, <1>5 DEF CatalogInv, Init

\* Every experiment that is created stays where it is.
Placed == \A e \in Created : e \in Created' /\ experiment'[e].first = experiment[e].first

\* What a request knows stays true while the experiments keep their place.
LEMMA RequestKept ==
  ASSUME NEW r, RequestOK(r), request'[r] = request[r], rows \subseteq rows', Placed
  PROVE  RequestOK(r)'
<1> DEFINE q == request[r]
<1>1. q' = q
  OBVIOUS
<1>2. \A row : RowOK(row) => RowOK(row)'
  BY RowStaysOK
<1>3. ASSUME NEW e, NEW budget, NEW seen, BudgetOK(e, budget, seen)
      PROVE  BudgetOK(e, budget, seen)'
  BY <1>3 DEF BudgetOK, Placed
<1> QED BY <1>1, <1>2, <1>3 DEF RequestOK, RangeOK

\* A step of one request that adds rows at most leaves the others what they know.
LEMMA RequestsKept ==
  ASSUME RequestsOK, NEW r \in Requests, NEW state, Becomes(r, state), rows \subseteq rows', Placed,
         RequestOK(r)'
  PROVE  RequestsOK'
<1>1. DOMAIN request' = Requests /\ \A q \in Requests \ {r} : request'[q] = request[q]
  BY DEF RequestsOK, Becomes
<1>2. ASSUME NEW q \in Requests \ {r} PROVE RequestOK(q)'
  <2>1. RequestOK(q) /\ request'[q] = request[q]
    BY <1>1 DEF RequestsOK
  <2> QED BY <2>1, RequestKept
<1> QED BY <1>1, <1>2 DEF RequestsOK

\* The founder stays the founder unless its request ends.
LEMMA FounderKept ==
  ASSUME FounderOK, RequestsOK, NEW r \in Requests, NEW state, Becomes(r, state),
         Created' = Created, UNCHANGED <<application, founder>>,
         state.at \in {"reserve", "commit"} => application \/ founder = r,
         founder = r => state.at \in {"reserve", "commit"}
  PROVE  FounderOK'
<1>1. \A q \in Requests : request'[q] = IF q = r THEN state ELSE request[q]
  BY DEF RequestsOK, Becomes
<1> QED BY <1>1 DEF FounderOK

\* Who is not in the middle of a new application is not its founder.
LEMMA NotFounder ==
  ASSUME FounderOK, NEW r \in Requests, request[r].at \notin {"reserve", "commit"}
  PROVE  founder # r
BY CatalogAssumption DEF FounderOK

\* What stays as it is stays right.
LEMMA ExperimentsUnchanged ==
  ASSUME ExperimentsOK, SawOK, UNCHANGED <<experiment, newest, saw>>
  PROVE  ExperimentsOK' /\ SawOK' /\ Created' = Created /\ Placed
<1>1. Created' = Created
  BY DEF Created
<1>2. ExperimentsOK'
  BY <1>1 DEF ExperimentsOK, RangeOK
<1>3. SawOK'
  BY <1>1 DEF SawOK, NumbersOf
<1> QED BY <1>1, <1>2, <1>3 DEF Placed

\* The requests about datasets only store rows that extend what is stored.
LEMMA DatasetSteps ==
  ASSUME CatalogInv, NEW r \in Requests, Seed(r) \/ Evolve(r) \/ Save(r) \/ Insert(r)
  PROVE  CatalogInv'
<1> USE DEF CatalogInv
<1>0. RequestOK(r) /\ UNCHANGED <<experiment, newest, application, founder, saw>>
  BY DEF RequestsOK, Seed, Evolve, Save, Insert
<1>1. ExperimentsOK' /\ SawOK' /\ Created' = Created /\ Placed
  BY <1>0, ExperimentsUnchanged
<1>2. founder # r
  BY NotFounder DEF Seed, Evolve, Save, Insert
<1>3. ASSUME NEW state, Becomes(r, state), state.at \notin {"reserve", "commit"}, rows \subseteq rows',
             RequestOK(r)', DatasetsOK'
      PROVE  CatalogInv'
  <2>1. RequestsOK'
    BY <1>1, <1>3, RequestsKept
  <2>2. FounderOK'
    BY <1>0, <1>1, <1>2, <1>3, FounderKept
  <2> QED BY <1>0, <1>1, <1>3, <2>1, <2>2
<1>4. ASSUME NEW state, Becomes(r, state) PROVE request'[r] = state
  BY <1>4 DEF RequestsOK, Becomes
<1>5. \A row : RowOK(row) /\ rows' = rows => RowOK(row)'
  BY RowStaysOK
<1>6. Becomes(r, Idle) => RequestOK(r)'
  BY <1>4 DEF RequestOK, Idle, Steps
<1>7. ASSUME NEW row, NEW op, RowOK(row), Becomes(r, [at |-> "save", op |-> op, row |-> row]),
             UNCHANGED <<rows, given>>
      PROVE  CatalogInv'
  <2> DEFINE state == [at |-> "save", op |-> op, row |-> row]
  <2>1. request'[r] = state
    BY <1>4, <1>7
  <2>2. RequestOK(r)'
    BY <1>5, <1>7, <2>1 DEF RequestOK, Steps
  <2>3. DatasetsOK'
    BY <1>5, <1>7 DEF DatasetsOK, GivenOK
  <2>4. Becomes(r, state) /\ state.at \notin {"reserve", "commit"} /\ rows \subseteq rows'
    BY <1>7
  <2> HIDE DEF state
  <2> QED BY <1>3, <2>2, <2>3, <2>4
<1>8. CASE Seed(r)
  <2>1. PICK seed \in Seeds, n \in Batches :
          Becomes(r, [at |-> "save", op |-> "seed", row |-> SeedVersion(seed, n)])
    BY <1>8 DEF Seed
  <2>2. RowOK(SeedVersion(seed, n))
    BY CatalogAssumption, SeedRow
  <2>3. UNCHANGED <<rows, given>>
    BY <1>8 DEF Seed
  <2> QED BY <1>7, <2>1, <2>2, <2>3
<1>9. CASE Evolve(r)
  <2>1. PICK current \in Latest, mode \in {"failures", "saturated"}, seed \in Seeds, n \in Batches,
             op \in {"evolve", "evolve from the CLI"} :
          /\ current.version < MaxVersion
          /\ Becomes(r, [at |-> "save", op |-> op, row |-> Evolved(mode, current, seed, n)])
    BY <1>9 DEF Evolve
  <2>2. current \in rows /\ RowOK(current)
    BY DEF Latest, DatasetsOK
  <2>3. RowOK(Evolved(mode, current, seed, n))
    BY <2>1, <2>2, CatalogAssumption, EvolvedRow
  <2>4. UNCHANGED <<rows, given>>
    BY <1>9 DEF Evolve
  <2> QED BY <1>7, <2>1, <2>3, <2>4
<1>10. CASE Save(r)
  <2> DEFINE q == request[r]
  <2>0. q = [at |-> "save", op |-> q.op, row |-> q.row] /\ RowOK(q.row) /\ rows' = rows
    BY <1>0, <1>10 DEF Save, RequestOK
  <2>1. CASE Existing(q.row) = {}
    <3> DEFINE state == [at |-> "insert", row |-> q.row, found |-> OfVersion(q.row.version)]
    <3>1. Becomes(r, state) /\ UNCHANGED given
      BY <1>10, <2>1 DEF Save
    <3>2. OfVersion(q.row.version) = {}
      BY <2>1 DEF Existing, OfVersion
    <3>3. request'[r] = state
      BY <1>4, <3>1
    <3>4. RequestOK(r)'
      <4>1. request'[r].at = "insert" /\ request'[r].row = q.row /\ request'[r].found = {}
        BY <3>2, <3>3
      <4>3. PICK row : row = q.row
        OBVIOUS
      <4>4. RowOK(row)' /\ request'[r].row = row
        BY <2>0, <4>1, <4>3, RowStaysOK
      <4> QED BY <4>1, <4>4 DEF RequestOK, Steps
    <3>5. DatasetsOK'
      BY <1>5, <2>0, <3>1 DEF DatasetsOK, GivenOK
    <3>6. state.at \notin {"reserve", "commit"}
      OBVIOUS
    <3> HIDE DEF state
    <3> QED BY <1>3, <2>0, <3>1, <3>4, <3>5, <3>6
  <2>2. ASSUME NEW stored \in Existing(q.row), Becomes(r, Idle),
               IF q.op # "evolve" \/ Conflicts(q.op, stored, q.row) THEN UNCHANGED given
               ELSE Reported(r, {stored})
        PROVE  CatalogInv'
    <3>1. GivenOK'
      <4>1. CASE UNCHANGED given
        BY <2>0, <4>1 DEF DatasetsOK, GivenOK
      <4>2. CASE q.op = "evolve" /\ ~ Conflicts(q.op, stored, q.row) /\ Reported(r, {stored})
        <5>1. q.row = stored
          BY <4>2 DEF Conflicts
        <5>2. stored \in rows
          BY DEF Existing
        <5>3. given' = given \cup {[row |-> q.row, found |-> {stored}]}
          BY <4>2 DEF Reported
        <5> QED BY <2>0, <5>1, <5>2, <5>3 DEF DatasetsOK, GivenOK
      <4> QED BY <2>2, <4>1, <4>2
    <3>2. DatasetsOK'
      BY <1>5, <2>0, <3>1 DEF DatasetsOK
    <3> QED BY <1>3, <1>6, <2>0, <2>2, <3>2 DEF Idle
  <2> QED BY <1>10, <2>1, <2>2 DEF Save
<1>11. CASE Insert(r)
  <2> DEFINE q == request[r]
  <2>0. RowOK(q.row) /\ q.found = {} /\ rows' = rows \cup {q.row} /\ Becomes(r, Idle)
    BY <1>0, <1>11 DEF Insert, RequestOK
  <2>1. \A row \in rows' : RowOK(row)'
    BY <2>0, RowStaysOK DEF DatasetsOK
  <2>2. given' = given \/ given' = given \cup {[row |-> q.row, found |-> q.found]}
    BY <1>11 DEF Insert, Reported
  <2>3. GivenOK'
    BY <2>0, <2>2 DEF DatasetsOK, GivenOK
  <2>4. DatasetsOK'
    BY <2>1, <2>3 DEF DatasetsOK
  <2> QED BY <1>3, <1>6, <2>0, <2>4 DEF Idle
<1> QED BY <1>8, <1>9, <1>10, <1>11

\* A request that only moves on leaves the experiments and the datasets alone.
LEMMA MovesOn ==
  ASSUME CatalogInv, NEW r \in Requests, NEW state, Becomes(r, state), RequestOK(r)',
         UNCHANGED <<rows, experiment, newest, application, given, saw>>, FounderOK'
  PROVE  CatalogInv'
<1> USE DEF CatalogInv
<1>1. DatasetsOK'
  BY RowStaysOK DEF DatasetsOK, GivenOK
<1>2. ExperimentsOK' /\ SawOK' /\ Placed
  BY ExperimentsUnchanged
<1>3. RequestsOK'
  BY <1>2, RequestsKept
<1> QED BY <1>1, <1>2, <1>3

\* The requests that create an experiment, up to their commit.
LEMMA CreateSteps ==
  ASSUME CatalogInv, NEW r \in Requests, Create(r) \/ Found(r) \/ Reserve(r) \/ RollBack(r)
  PROVE  CatalogInv'
<1> USE DEF CatalogInv
<1> DEFINE q == request[r]
<1>0. RequestOK(r) /\ UNCHANGED <<rows, experiment, newest, application, given, saw>>
  BY DEF RequestsOK, Create, Found, Reserve, RollBack
<1>1. ASSUME NEW state, Becomes(r, state) PROVE request'[r] = state
  BY <1>1 DEF RequestsOK, Becomes
<1>2. \A row : RowOK(row) => RowOK(row)'
  BY <1>0, RowStaysOK
<1>3. Created' = Created
  BY <1>0 DEF Created
<1>4. CASE Create(r)
  <2>1. PICK e \in Experiments \ Created, size \in Sizes, seed \in Seeds :
          Becomes(r, [at |-> IF application THEN "reserve" ELSE "found", id |-> e, size |-> size,
                      seeded |-> SeedVersion(seed, DefaultSize)])
    BY <1>4 DEF Create
  <2> DEFINE state == [at |-> IF application THEN "reserve" ELSE "found", id |-> e, size |-> size,
                       seeded |-> SeedVersion(seed, DefaultSize)]
  <2>2. RowOK(SeedVersion(seed, DefaultSize))'
    BY <1>2, CatalogAssumption, SeedRow
  <2>3. request'[r] = state
    BY <1>1, <2>1
  <2>4. RequestOK(r)'
    BY <2>2, <2>3 DEF RequestOK, Steps
  <2>5. founder # r /\ UNCHANGED founder
    BY <1>4, NotFounder DEF Create
  <2>6. (state.at \in {"reserve", "commit"} => application) /\ Becomes(r, state)
    BY <2>1
  <2> HIDE DEF state
  <2>7. FounderOK'
    BY <1>0, <1>3, <2>5, <2>6, FounderKept
  <2> QED BY <1>0, <2>4, <2>6, <2>7, MovesOn
<1>5. CASE Found(r)
  <2>0. q = [at |-> "found", id |-> q.id, size |-> q.size, seeded |-> q.seeded]
    BY <1>0, <1>5 DEF Found, RequestOK
  <2>1. founder = Nobody
    BY <1>5 DEF Found
  <2>2. CASE application
    <3>1. Becomes(r, Idle) /\ UNCHANGED founder /\ founder # r
      BY <1>5, <2>1, <2>2, CatalogAssumption DEF Found
    <3>2. RequestOK(r)'
      BY <1>1, <3>1 DEF RequestOK, Idle, Steps
    <3>3. FounderOK'
      BY <1>0, <1>3, <3>1, FounderKept DEF Idle
    <3> QED BY <1>0, <3>1, <3>2, <3>3, MovesOn
  <2>3. CASE ~ application
    <3> DEFINE state == [q EXCEPT !.at = "reserve"]
    <3>1. Becomes(r, state) /\ founder' = r
      BY <1>5, <2>3 DEF Found
    <3>2. state = [at |-> "reserve", id |-> q.id, size |-> q.size, seeded |-> q.seeded]
      BY <2>0
    <3>3. request'[r] = state
      BY <1>1, <3>1
    <3>4. RowOK(q.seeded) /\ q.id \in Experiments /\ q.size \in Sizes
      BY <1>0, <2>0 DEF RequestOK
    <3>5. RequestOK(r)'
      BY <1>2, <3>2, <3>3, <3>4 DEF RequestOK, Steps
    <3>6. \A p \in Requests \ {r} : request'[p] = request[p]
      BY <3>1 DEF Becomes, RequestsOK
    <3>7. FounderOK'
      BY <1>0, <1>3, <2>1, <2>3, <3>1, <3>2, <3>3, <3>6, CatalogAssumption DEF FounderOK
    <3> HIDE DEF state
    <3> QED BY <1>0, <3>1, <3>5, <3>7, MovesOn
  <2> QED BY <2>2, <2>3
<1>6. CASE Reserve(r)
  <2> DEFINE range == [first |-> NextCandidateVersion, reserved |-> q.size, evaluated |-> 0]
             seen == {Reservation(e) : e \in Created}
             row == IF rows = {} THEN q.seeded ELSE NoRow
             found == OfVersion(1)
             state == [at |-> "commit", id |-> q.id, row |-> row, found |-> found, range |-> range, seen |-> seen]
  <2>0. q.id \in Experiments /\ q.size \in Sizes /\ RowOK(q.seeded)
    BY <1>0, <1>6 DEF Reserve, RequestOK
  <2>1. Becomes(r, state)
    BY <1>6 DEF Reserve
  <2>2. RangeOK(range)
    <3>1. q.size \in Nat \ {0} /\ NextCandidateVersion + q.size - 1 <= MaxNumber
      BY <1>6, <2>0, CatalogAssumption DEF Reserve
    <3> QED BY <3>1, NextIsFree, CatalogAssumption DEF RangeOK, Ranges
  <2>3. \A s \in seen : /\ s.first + s.reserved <= range.first
                       /\ s.first \notin range.first..(range.first + range.reserved - 1)
    <3>1. ASSUME NEW e \in Created
          PROVE  /\ experiment[e].first + experiment[e].reserved <= NextCandidateVersion
                 /\ experiment[e].first < NextCandidateVersion
      <4>1. experiment[e].first \in Int /\ experiment[e].reserved \in Int /\ experiment[e].reserved >= 1
        BY DEF ExperimentsOK, RangeOK, Ranges
      <4>2. experiment[e].first + experiment[e].reserved <= NextCandidateVersion /\ NextCandidateVersion \in Int
        BY NextIsFree
      <4> QED BY <4>1, <4>2
    <3>2. NextCandidateVersion \in Int /\ \A e \in Created : experiment[e].first \in Int
      BY NextIsFree DEF ExperimentsOK, RangeOK, Ranges
    <3> QED BY <3>1, <3>2 DEF Reservation
  <2>4. request'[r] = state
    BY <1>1, <2>1
  <2>5. row = NoRow \/ (row = q.seeded /\ found = {})
    BY DEF OfVersion
  <2>7. /\ state.at = "commit" /\ state.id = q.id /\ state.row = row /\ state.found = found
        /\ state.range = range /\ state.seen = seen
    OBVIOUS
  <2> HIDE DEF range, seen, row, found, state
  <2>8. RequestOK(r)'
    <3>0. PICK seeded : seeded = q.seeded
      OBVIOUS
    <3>1. request'[r].row = NoRow \/ (request'[r].row = seeded /\ request'[r].found = {})
      BY <2>4, <2>5, <2>7, <3>0
    <3>2. RowOK(seeded)'
      BY <1>2, <2>0, <3>0
    <3>3. /\ request'[r].at = "commit" /\ request'[r].id \in Experiments
          /\ \A s \in request'[r].seen :
               /\ s.first + s.reserved <= request'[r].range.first
               /\ s.first \notin request'[r].range.first
                                 ..(request'[r].range.first + request'[r].range.reserved - 1)
      BY <2>0, <2>3, <2>4, <2>7
    <3>4. RangeOK(request'[r].range)
      BY <2>2, <2>4, <2>7
    <3> QED BY <3>1, <3>2, <3>3, <3>4 DEF RequestOK, Steps, RangeOK
  <2>9. FounderOK'
    <3>1. request[r].at = "reserve" /\ UNCHANGED founder
      BY <1>6 DEF Reserve
    <3>2. application \/ founder = r
      BY <3>1 DEF FounderOK
    <3> QED BY <1>0, <1>3, <2>1, <2>7, <3>1, <3>2, FounderKept
  <2> QED BY <1>0, <2>1, <2>8, <2>9, MovesOn
<1>7. CASE RollBack(r)
  <2>1. Becomes(r, Idle) /\ founder' = (IF founder = r THEN Nobody ELSE founder)
    BY <1>7 DEF RollBack
  <2>2. RequestOK(r)'
    BY <1>1, <2>1 DEF RequestOK, Idle, Steps
  <2>3. /\ request'[r] = Idle
        /\ \A p \in Requests \ {r} : request'[p] = request[p]
    BY <2>1 DEF Becomes, RequestsOK
  <2>4. ASSUME ~ application, NEW p \in Requests \ {r}, request[p].at \in {"reserve", "commit"}
        PROVE  founder = p
    BY <2>4 DEF FounderOK
  <2>5. request[r].at \in {"reserve", "commit"}
    BY <1>7 DEF RollBack
  <2>6. FounderOK'
    BY <1>0, <1>3, <2>1, <2>3, <2>4, <2>5 DEF FounderOK, Idle
  <2> QED BY <1>0, <2>1, <2>2, <2>6, MovesOn
<1> QED BY <1>4, <1>5, <1>6, <1>7

\* A budget that may be written over the one of an experiment leaves all in order.
LEMMA PersistKeeps ==
  ASSUME ExperimentsOK, SawOK, NEW e, NEW budget, NEW seen, BudgetOK(e, budget, seen),
         Persist(e, budget, seen), newest' \in 1..MaxNumber
  PROVE  ExperimentsOK' /\ SawOK' /\ Created' = Created /\ Placed
<1>1. e \in Experiments /\ e \in Created /\ budget \in 1..MaxNumber /\ experiment[e].first + budget - 1 <= MaxNumber
  BY DEF BudgetOK, Created
<1>2. /\ RangeOK(experiment[e]) /\ experiment \in [Experiments -> Ranges]
      /\ experiment' = [experiment EXCEPT ![e].reserved = budget] /\ saw' = [saw EXCEPT ![e] = seen]
  BY <1>1 DEF ExperimentsOK, Persist
<1>3. experiment'[e] = [experiment[e] EXCEPT !.reserved = budget]
  BY <1>1, <1>2
<1>4. /\ experiment'[e].first = experiment[e].first /\ experiment'[e].reserved = budget
      /\ experiment'[e].evaluated = experiment[e].evaluated /\ experiment'[e] \in Ranges
  BY <1>1, <1>2, <1>3, CatalogAssumption DEF Ranges, RangeOK
<1>5. RangeOK(experiment'[e])
  BY <1>1, <1>2, <1>4 DEF RangeOK
<1>6. \A i \in Experiments \ {e} : experiment'[i] = experiment[i] /\ saw'[i] = saw[i]
  BY <1>1, <1>2 DEF SawOK
<1>7. experiment'[e] # None /\ experiment[e] # None
  BY <1>2, <1>5, CatalogAssumption DEF RangeOK, None
<1>8. Created' = Created
  BY <1>6, <1>7 DEF Created
<1>9. ExperimentsOK'
  <2>1. experiment' \in [Experiments -> Ranges]
    BY <1>2, <1>4, <1>6
  <2>2. \A i \in Created' : RangeOK(experiment'[i])
    BY <1>5, <1>6, <1>8 DEF ExperimentsOK, Created
  <2> QED BY <2>1, <2>2 DEF ExperimentsOK, RangeOK
<1>10. SawOK'
  <2>1. saw'[e] = seen /\ DOMAIN saw' = Experiments
    BY <1>1, <1>2 DEF SawOK
  <2>2. \A s \in saw'[e] : s.first \notin NumbersOf(e)'
    BY <1>4, <2>1 DEF BudgetOK, NumbersOf
  <2>3. ASSUME NEW i \in Created' \ {e} PROVE \A s \in saw'[i] : s.first \notin NumbersOf(i)'
    <3>1. i \in Created /\ experiment'[i] = experiment[i] /\ saw'[i] = saw[i]
      BY <1>6, <1>8 DEF Created
    <3> QED BY <3>1 DEF SawOK, NumbersOf
  <2> QED BY <2>1, <2>2, <2>3 DEF SawOK
<1> QED BY <1>4, <1>6, <1>8, <1>9, <1>10 DEF Placed, Created

\* A run or a resume that keeps what it knows disturbs neither the requests nor the datasets.
LEMMA RunMovesOn ==
  ASSUME CatalogInv, NEW r \in Requests, NEW state, Becomes(r, state), RequestOK(r)',
         request[r].at \notin {"reserve", "commit"}, state.at \notin {"reserve", "commit"},
         UNCHANGED <<rows, application, founder, given>>,
         ExperimentsOK', SawOK', Created' = Created, Placed
  PROVE  CatalogInv'
<1> USE DEF CatalogInv
<1>1. DatasetsOK'
  BY RowStaysOK DEF DatasetsOK, GivenOK
<1>2. RequestsOK'
  BY RequestsKept
<1>3. founder # r
  BY NotFounder
<1>4. FounderOK'
  BY <1>3, FounderKept
<1> QED BY <1>1, <1>2, <1>4

\* What a request commits is a range of its own.
LEMMA CommitStep ==
  ASSUME CatalogInv, NEW r \in Requests, Commit(r)
  PROVE  CatalogInv'
<1> USE DEF CatalogInv
<1> DEFINE q == request[r]
<1>0. RequestOK(r) /\ q.at = "commit" /\ ~ Duplicate(r) /\ Becomes(r, Idle) /\ application' /\ newest' = newest
  BY DEF RequestsOK, Commit
<1>1. /\ q.id \in Experiments \ Created /\ RangeOK(q.range)
      /\ q.row = NoRow \/ (RowOK(q.row) /\ q.found = {})
      /\ \A s \in q.seen : s.first \notin q.range.first..(q.range.first + q.range.reserved - 1)
  BY <1>0 DEF RequestOK, Duplicate
<1>2. /\ experiment' = [experiment EXCEPT ![q.id] = q.range] /\ saw' = [saw EXCEPT ![q.id] = q.seen]
      /\ rows' = rows \cup ({q.row} \ {NoRow}) /\ founder' = (IF founder = r THEN Nobody ELSE founder)
      /\ IF q.row = NoRow THEN given' = given ELSE given' = given \cup {[row |-> q.row, found |-> q.found]}
  BY DEF Commit, Reported
<1>3. None \in Ranges /\ q.range \in Ranges /\ q.range # None
  BY <1>1, CatalogAssumption DEF None, Ranges, RangeOK
<1>4. /\ experiment'[q.id] = q.range
      /\ \A e \in Experiments \ {q.id} : experiment'[e] = experiment[e] /\ saw'[e] = saw[e]
      /\ experiment' \in [Experiments -> Ranges]
      /\ saw'[q.id] = q.seen /\ DOMAIN saw' = Experiments
  BY <1>1, <1>2, <1>3 DEF ExperimentsOK, SawOK
<1>5. Created' = Created \cup {q.id}
  BY <1>1, <1>3, <1>4 DEF Created
<1>6. ExperimentsOK'
  <2>1. \A i \in Created' : RangeOK(experiment'[i])
    BY <1>1, <1>4, <1>5 DEF ExperimentsOK, Created
  <2> QED BY <1>0, <1>4, <2>1 DEF ExperimentsOK, RangeOK
<1>7. SawOK'
  <2>1. ASSUME NEW i \in Created', i = q.id PROVE \A s \in saw'[i] : s.first \notin NumbersOf(i)'
    BY <1>1, <1>4, <2>1 DEF NumbersOf
  <2>2. ASSUME NEW i \in Created', i # q.id PROVE \A s \in saw'[i] : s.first \notin NumbersOf(i)'
    <3>1. i \in Created /\ experiment'[i] = experiment[i] /\ saw'[i] = saw[i]
      BY <1>4, <1>5, <2>2 DEF Created
    <3> QED BY <3>1 DEF SawOK, NumbersOf
  <2> QED BY <1>4, <2>1, <2>2 DEF SawOK
<1>8. DatasetsOK'
  <2>1. rows \subseteq rows'
    BY <1>2
  <2>2. \A row : RowOK(row) => RowOK(row)'
    BY <2>1, RowStaysOK
  <2>3. \A row \in rows' : RowOK(row)
    BY <1>1, <1>2 DEF DatasetsOK
  <2>4. GivenOK'
    <3>1. CASE q.row = NoRow
      BY <1>2, <2>1, <3>1 DEF DatasetsOK, GivenOK
    <3>2. CASE q.row # NoRow
      <4>1. q.row \in rows' /\ q.found = {} /\ given' = given \cup {[row |-> q.row, found |-> q.found]}
        BY <1>1, <1>2, <3>2
      <4> QED BY <2>1, <4>1 DEF DatasetsOK, GivenOK
    <3> QED BY <3>1, <3>2
  <2> QED BY <2>2, <2>3, <2>4 DEF DatasetsOK
<1>9. rows \subseteq rows' /\ Placed
  BY <1>1, <1>2, <1>4, <1>5 DEF Placed, Created
<1>10. request'[r] = Idle
  BY <1>0 DEF RequestsOK, Becomes
<1>11. RequestOK(r)'
  BY <1>10 DEF RequestOK, Idle, Steps
<1>12. RequestsOK'
  BY <1>0, <1>9, <1>11, RequestsKept
<1>13. FounderOK'
  <2>1. founder # Nobody => founder = r
    BY <1>0 DEF FounderOK
  <2> QED BY <1>0, <1>2, <2>1 DEF FounderOK
<1> QED BY <1>6, <1>7, <1>8, <1>12, <1>13

\* What runs and resumes put back and use up stays clear of the reservations that were seen.
LEMMA RunSteps ==
  ASSUME CatalogInv, NEW r \in Requests,
         \/ Load(r) \/ Start(r) \/ Evaluate(r) \/ End(r) \/ Record(r) \/ Die(r)
         \/ Resume(r) \/ CheckClash(r) \/ Raise(r)
  PROVE  CatalogInv'
<1> USE DEF CatalogInv
<1> DEFINE q == request[r]
<1>0. RequestOK(r) /\ UNCHANGED <<rows, application, founder, given>>
  BY DEF RequestsOK, Load, Start, Evaluate, End, Record, Die, Resume, CheckClash, Raise, Persist
<1>1. q.at \notin {"reserve", "commit"}
  BY DEF Load, Start, Evaluate, End, Record, Die, Resume, CheckClash, Raise
<1>2. ASSUME NEW state, Becomes(r, state) PROVE request'[r] = state
  BY <1>2 DEF RequestsOK, Becomes
<1>a. UNCHANGED <<experiment, newest, saw>> => Placed
  BY ExperimentsUnchanged
<1>3. ASSUME NEW state, Becomes(r, state), RequestOK(r)', state.at \notin {"reserve", "commit"},
             UNCHANGED <<experiment, newest, saw>>
      PROVE  CatalogInv'
  <2>1. ExperimentsOK' /\ SawOK' /\ Created' = Created /\ Placed
    BY <1>3, ExperimentsUnchanged
  <2> QED BY <1>0, <1>1, <1>3, <2>1, RunMovesOn
<1>4. ASSUME Becomes(r, Idle) PROVE RequestOK(r)'
  BY <1>2, <1>4 DEF RequestOK, Idle, Steps
<1>5. ASSUME NEW e, NEW budget, NEW seen, BudgetOK(e, budget, seen), Persist(e, budget, seen),
             newest' \in 1..MaxNumber, Becomes(r, Idle)
      PROVE  CatalogInv'
  <2>1. ExperimentsOK' /\ SawOK' /\ Created' = Created /\ Placed
    BY <1>5, PersistKeeps
  <2>2. RequestOK(r)'
    BY <1>4, <1>5
  <2> QED BY <1>0, <1>1, <1>5, <2>1, <2>2, RunMovesOn DEF Idle
<1>6. CASE Load(r)
  <2>1. PICK e \in Created :
          Becomes(r, [at |-> "start", id |-> e, budget |-> experiment[e].reserved, seen |-> saw[e]])
    BY <1>6 DEF Load
  <2> DEFINE state == [at |-> "start", id |-> e, budget |-> experiment[e].reserved, seen |-> saw[e]]
  <2>2. UNCHANGED <<experiment, newest, saw>>
    BY <1>6 DEF Load
  <2>3. BudgetOK(e, experiment[e].reserved, saw[e])
    <3>1. RangeOK(experiment[e]) /\ experiment[e].reserved \in 1..MaxNumber
      BY CatalogAssumption DEF ExperimentsOK, RangeOK, Ranges
    <3> QED BY <3>1 DEF BudgetOK, SawOK, NumbersOf, RangeOK
  <2>4. BudgetOK(e, experiment[e].reserved, saw[e])'
    BY <2>2, <2>3 DEF BudgetOK, Created
  <2>5. /\ request'[r] = state /\ request'[r].at = "start" /\ request'[r].id = e
        /\ request'[r].budget = experiment'[e].reserved /\ request'[r].seen = saw'[e]
    BY <1>2, <2>1, <2>2
  <2>6. RequestOK(r)'
    BY <2>4, <2>5 DEF RequestOK, BudgetOK, Steps
  <2>7. Becomes(r, state) /\ state.at \notin {"reserve", "commit"}
    BY <2>1
  <2> HIDE DEF state
  <2> QED BY <1>3, <2>2, <2>6, <2>7
<1>7. CASE Start(r)
  <2>1. /\ BudgetOK(q.id, q.budget, q.seen) /\ Persist(q.id, q.budget, q.seen) /\ newest' = newest
        /\ q.at = "start"
    BY <1>0, <1>7 DEF Start, RequestOK
  <2>2. newest' \in 1..MaxNumber
    BY <2>1 DEF ExperimentsOK
  <2>3. CASE Searching(q.id)
    <3>1. Becomes(r, Idle)
      BY <1>7, <2>3 DEF Start
    <3> QED BY <1>5, <2>1, <2>2, <3>1
  <2>4. CASE ~ Searching(q.id)
    <3> DEFINE state == [q EXCEPT !.at = "search"]
    <3>1. Becomes(r, state)
      BY <1>7, <2>4 DEF Start
    <3>2. ExperimentsOK' /\ SawOK' /\ Created' = Created /\ Placed
      BY <2>1, <2>2, PersistKeeps
    <3>3. q = [at |-> "start", id |-> q.id, budget |-> q.budget, seen |-> q.seen]
      BY <1>0, <2>1 DEF RequestOK
    <3>4. state = [at |-> "search", id |-> q.id, budget |-> q.budget, seen |-> q.seen]
      BY <3>3
    <3>5. request'[r] = [at |-> "search", id |-> q.id, budget |-> q.budget, seen |-> q.seen]
      BY <1>2, <3>1, <3>4
    <3>6. RequestOK(r)'
      <4>1. /\ request'[r].at = "search" /\ request'[r].id = q.id
            /\ request'[r].budget = q.budget /\ request'[r].seen = q.seen
        BY <3>5
      <4> QED BY <2>1, <3>2, <4>1 DEF RequestOK, BudgetOK, Placed, Steps
    <3>7. state.at \notin {"reserve", "commit"}
      BY <3>4
    <3> HIDE DEF state
    <3> QED BY <1>0, <1>1, <3>1, <3>2, <3>6, <3>7, RunMovesOn
  <2> QED BY <2>3, <2>4
<1>8. CASE Evaluate(r)
  <2> DEFINE e == q.id
  <2>0. /\ q.at = "search" /\ experiment[e].evaluated < q.budget /\ UNCHANGED <<newest, request, saw>>
        /\ experiment' = [experiment EXCEPT ![e].evaluated = experiment[e].evaluated + 1]
    BY <1>8 DEF Evaluate
  <2>1. e \in Created /\ e \in Experiments /\ q.budget \in 1..MaxNumber /\ experiment[e].first + q.budget - 1 <= MaxNumber
    BY <1>0, <2>0 DEF RequestOK, BudgetOK, Created
  <2>2. RangeOK(experiment[e]) /\ experiment[e] \in Ranges
    BY <2>1 DEF ExperimentsOK
  <2>3. experiment'[e] = [experiment[e] EXCEPT !.evaluated = experiment[e].evaluated + 1]
    BY <2>0, <2>1 DEF ExperimentsOK
  <2>4. /\ experiment'[e].first = experiment[e].first /\ experiment'[e].reserved = experiment[e].reserved
        /\ experiment'[e].evaluated = experiment[e].evaluated + 1 /\ experiment[e].evaluated + 1 \in 0..MaxNumber
        /\ experiment[e].evaluated + 1 <= q.budget
    BY <2>0, <2>1, <2>2, <2>3, CatalogAssumption DEF Ranges
  <2>5. RangeOK(experiment'[e])
    <3>1. experiment'[e] \in Ranges
      BY <2>2, <2>3, <2>4 DEF Ranges
    <3>2. experiment[e].first \in Int /\ experiment[e].evaluated \in Int /\ q.budget \in Int
      BY <2>1, <2>2 DEF Ranges
    <3>3. experiment[e].first + (experiment[e].evaluated + 1) - 1 <= MaxNumber
      BY <2>1, <2>4, <3>2, CatalogAssumption
    <3> QED BY <2>2, <2>4, <3>1, <3>3 DEF RangeOK
  <2>6. \A i \in Experiments \ {e} : experiment'[i] = experiment[i]
    BY <2>0 DEF ExperimentsOK
  <2>7. None \notin {experiment[e], experiment'[e]}
    BY <2>2, <2>5, CatalogAssumption DEF RangeOK, None
  <2>8. Created' = Created
    BY <2>1, <2>6, <2>7 DEF Created
  <2>9. ExperimentsOK'
    <3>1. experiment' \in [Experiments -> Ranges]
      BY <2>0, <2>5, <2>6 DEF ExperimentsOK, RangeOK
    <3>2. \A i \in Created' : RangeOK(experiment'[i])
      BY <2>5, <2>6, <2>8 DEF ExperimentsOK, Created
    <3> QED BY <2>0, <3>1, <3>2 DEF ExperimentsOK, RangeOK
  <2>10. \A i \in Created : experiment'[i].first = experiment[i].first /\ experiment'[i].reserved = experiment[i].reserved
    BY <2>4, <2>6 DEF Created
  <2>11. SawOK'
    BY <2>0, <2>8, <2>10 DEF SawOK, NumbersOf
  <2>12. Placed
    BY <2>8, <2>10 DEF Placed
  <2>13. RequestsOK'
    <3>1. ASSUME NEW p \in Requests PROVE RequestOK(p)'
      <4>1. RequestOK(p) /\ request'[p] = request[p] /\ rows' = rows
        BY <1>0, <2>0 DEF RequestsOK
      <4> QED BY <2>12, <4>1, RequestKept
    <3> QED BY <2>0, <3>1 DEF RequestsOK
  <2>14. DatasetsOK'
    BY <1>0, RowStaysOK DEF DatasetsOK, GivenOK
  <2>15. FounderOK'
    BY <1>0, <2>0, <2>8 DEF FounderOK
  <2> QED BY <2>9, <2>11, <2>13, <2>14, <2>15
<1>9. CASE End(r)
  <2> DEFINE e == q.id
  <2>0. q.at = "search" /\ UNCHANGED <<experiment, newest, saw>> /\ BudgetOK(e, q.budget, q.seen)
    BY <1>0, <1>9 DEF End, RequestOK
  <2>1. PICK n \in 0..experiment[e].evaluated :
          Becomes(r, [at |-> "record", id |-> e, budget |-> q.budget, seen |-> q.seen,
                      best |-> IF n = 0 THEN 1 ELSE experiment[e].first + n - 1])
    BY <1>9 DEF End
  <2> DEFINE best == IF n = 0 THEN 1 ELSE experiment[e].first + n - 1
             state == [at |-> "record", id |-> e, budget |-> q.budget, seen |-> q.seen, best |-> best]
  <2>2. best \in 1..MaxNumber
    <3>1. RangeOK(experiment[e])
      BY <2>0 DEF BudgetOK, ExperimentsOK
    <3>2. /\ experiment[e].first \in Int /\ experiment[e].evaluated \in Int /\ experiment[e].first >= 2
          /\ experiment[e].first + experiment[e].evaluated - 1 <= MaxNumber
      BY <3>1 DEF RangeOK, Ranges
    <3> QED BY <3>2, CatalogAssumption
  <2>3. Placed
    BY <1>a, <2>0
  <2>4. Becomes(r, state)
    BY <2>1
  <2>5. request'[r] = state
    BY <1>2, <2>4
  <2>6. /\ state.at = "record" /\ state.id = e /\ state.budget = q.budget /\ state.seen = q.seen
        /\ state.best = best
    OBVIOUS
  <2> HIDE DEF best, state
  <2>7. RequestOK(r)'
    <3>1. /\ request'[r].at = "record" /\ request'[r].id = e /\ request'[r].budget = q.budget
          /\ request'[r].seen = q.seen /\ request'[r].best \in 1..MaxNumber
      BY <2>2, <2>5, <2>6
    <3> QED BY <2>0, <2>3, <3>1 DEF RequestOK, BudgetOK, Placed, Steps
  <2> QED BY <1>3, <2>0, <2>4, <2>6, <2>7
<1>10. CASE Record(r)
  <2>1. /\ BudgetOK(q.id, q.budget, q.seen) /\ Persist(q.id, q.budget, q.seen) /\ Becomes(r, Idle)
        /\ newest' = Max({newest, q.best}) /\ q.best \in 1..MaxNumber
    BY <1>0, <1>10 DEF Record, RequestOK
  <2>2. newest' \in 1..MaxNumber
    <3>1. newest \in 1..MaxNumber
      BY DEF ExperimentsOK
    <3>2. Max({newest, q.best}) \in {newest, q.best}
      BY <2>1, <3>1, CatalogAssumption, MaxIsLargest
    <3> QED BY <2>1, <3>1, <3>2
  <2> QED BY <1>5, <2>1, <2>2
<1>11. CASE Die(r)
  <2>1. Becomes(r, Idle) /\ UNCHANGED <<experiment, newest, saw>>
    BY <1>11 DEF Die
  <2> QED BY <1>3, <1>4, <2>1 DEF Idle
<1>12. CASE Resume(r)
  <2>1. PICK e \in Created, extra \in Sizes :
          /\ experiment[e].first + (experiment[e].evaluated + extra) - 1 <= MaxNumber
          /\ Becomes(r, [at |-> "check", id |-> e, total |-> experiment[e].evaluated + extra])
    BY <1>12 DEF Resume
  <2> DEFINE total == experiment[e].evaluated + extra
             state == [at |-> "check", id |-> e, total |-> total]
  <2>2. UNCHANGED <<experiment, newest, saw>>
    BY <1>12 DEF Resume
  <2>3. RangeOK(experiment[e]) /\ extra \in Nat \ {0}
    BY CatalogAssumption DEF ExperimentsOK
  <2>4. total \in 1..MaxNumber /\ experiment[e].first + total - 1 <= MaxNumber
    BY <2>1, <2>3, CatalogAssumption DEF RangeOK, Ranges
  <2>5. Becomes(r, state)
    BY <2>1
  <2>6. request'[r] = state
    BY <1>2, <2>5
  <2>7. state.at = "check" /\ state.id = e /\ state.total = total
    OBVIOUS
  <2> HIDE DEF total, state
  <2>8. Placed
    BY <1>a, <2>2
  <2>9. RequestOK(r)'
    <3>1. request'[r].at = "check" /\ request'[r].id = e /\ request'[r].total = total
      BY <2>6, <2>7
    <3> QED BY <2>4, <2>8, <3>1 DEF RequestOK, BudgetOK, Placed, Steps
  <2> QED BY <1>3, <2>2, <2>5, <2>7, <2>9
<1>13. CASE CheckClash(r)
  <2> DEFINE e == q.id
             seen == {Reservation(i) : i \in Created \ {e}}
             state == [at |-> "raise", id |-> e, total |-> q.total, seen |-> seen]
  <2>0. UNCHANGED <<experiment, newest, saw>> /\ q.at = "check" /\ BudgetOK(e, q.total, {})
    BY <1>0, <1>13 DEF CheckClash, RequestOK
  <2>1. CASE Clashes(e, q.total)
    <3>1. Becomes(r, Idle)
      BY <1>13, <2>1 DEF CheckClash
    <3> QED BY <1>3, <1>4, <2>0, <3>1 DEF Idle
  <2>2. CASE ~ Clashes(e, q.total)
    <3>1. Becomes(r, state)
      BY <1>13, <2>2 DEF CheckClash
    <3>2. \A s \in seen : s.first \notin experiment[e].first..(experiment[e].first + q.total - 1)
      BY <2>2 DEF Clashes, Reservation
    <3>3. request'[r] = state
      BY <1>2, <3>1
    <3>4. state.at = "raise" /\ state.id = e /\ state.total = q.total /\ state.seen = seen
      OBVIOUS
    <3> HIDE DEF seen, state
    <3>5. Placed
      BY <1>a, <2>0
    <3>6. RequestOK(r)'
      <4>1. /\ request'[r].at = "raise" /\ request'[r].id = e /\ request'[r].total = q.total
            /\ request'[r].seen = seen
        BY <3>3, <3>4
      <4> QED BY <2>0, <3>2, <3>5, <4>1 DEF RequestOK, BudgetOK, Placed, Steps
    <3> QED BY <1>3, <2>0, <3>1, <3>4, <3>6
  <2> QED BY <2>1, <2>2
<1>14. CASE Raise(r)
  <2>1. /\ BudgetOK(q.id, q.total, q.seen) /\ Persist(q.id, q.total, q.seen) /\ Becomes(r, Idle)
        /\ newest' \in 1..MaxNumber
    BY <1>0, <1>14 DEF Raise, RequestOK, ExperimentsOK
  <2> QED BY <1>5, <2>1
<1> QED BY <1>6, <1>7, <1>8, <1>9, <1>10, <1>11, <1>12, <1>13, <1>14

\* Every step keeps the invariant.
LEMMA NextCatalog == CatalogInv /\ [Next]_vars => CatalogInv'
<1> SUFFICES ASSUME CatalogInv, [Next]_vars PROVE CatalogInv'
  OBVIOUS
<1>1. CASE UNCHANGED vars
  <2>0. UNCHANGED <<rows, experiment, newest, application, founder, request, given, saw>>
    BY <1>1 DEF vars
  <2>1. DatasetsOK'
    BY <2>0, RowStaysOK DEF CatalogInv, DatasetsOK, GivenOK
  <2>2. ExperimentsOK' /\ SawOK' /\ Created' = Created /\ Placed
    BY <2>0, ExperimentsUnchanged DEF CatalogInv
  <2>3. ASSUME NEW r \in Requests PROVE RequestOK(r)'
    <3>1. RequestOK(r) /\ request'[r] = request[r] /\ rows' = rows
      BY <2>0 DEF CatalogInv, RequestsOK
    <3> QED BY <2>2, <3>1, RequestKept
  <2>4. RequestsOK' /\ FounderOK'
    BY <2>0, <2>2, <2>3 DEF CatalogInv, RequestsOK, FounderOK
  <2> QED BY <2>1, <2>2, <2>4 DEF CatalogInv
<1> QED BY <1>1, DatasetSteps, CreateSteps, CommitStep, RunSteps DEF Next

\* However the requests interleave, what is stored and what they know fits together.
THEOREM CatalogInvariant == Spec => []CatalogInv
<1> QED BY InitCatalog, NextCatalog, PTL DEF Spec

(* Types: the numbers that are reserved and those that are evaluated stay in their bounds, though *)
(* a run may evaluate more than the row says; nothing exists before the application, and its      *)
(* founder is a request still under way.                                                          *)
THEOREM TypeCorrect == Spec => []TypeOK
<1>1. CatalogInv => TypeOK
  <2> SUFFICES ASSUME CatalogInv PROVE TypeOK
    OBVIOUS
  <2>1. \A row \in rows : row.version \in 1..MaxVersion
    BY DEF CatalogInv, DatasetsOK, RowOK
  <2>2. ASSUME NEW e \in Experiments PROVE NumbersOf(e) \subseteq 2..MaxNumber
    <3>1. CASE experiment[e] = None
      BY <3>1, CatalogAssumption DEF None, NumbersOf
    <3>2. CASE experiment[e] # None
      <4>1. RangeOK(experiment[e])
        BY <3>2 DEF CatalogInv, ExperimentsOK, Created
      <4> QED BY <4>1, CatalogAssumption DEF RangeOK, Ranges, NumbersOf
    <3> QED BY <3>1, <3>2
  <2>3. ASSUME NEW e \in Created PROVE experiment[e].first + experiment[e].evaluated - 1 \in 1..MaxNumber
    <3>1. RangeOK(experiment[e])
      BY DEF CatalogInv, ExperimentsOK
    <3> QED BY <3>1, CatalogAssumption DEF RangeOK, Ranges
  <2>4. \A r \in Requests : request[r].at \in Steps
    BY DEF CatalogInv, RequestsOK, RequestOK
  <2>5. newest \in 1..MaxNumber
    BY DEF CatalogInv, ExperimentsOK
  <2> QED BY <2>1, <2>2, <2>3, <2>4, <2>5 DEF TypeOK, CatalogInv, FounderOK
<1> QED BY <1>1, CatalogInvariant, PTL

(* Every version after the first has a parent that is stored, and keeps its challenges with the  *)
(* splits they have, whichever requests extended the dataset at the same time.                   *)
THEOREM VersionsKeepTheirChallenges == Spec => []VersionsExtendTheirParents
<1>1. CatalogInv => VersionsExtendTheirParents
  BY DEF CatalogInv, DatasetsOK, RowOK, VersionsExtendTheirParents
<1> QED BY <1>1, CatalogInvariant, PTL

(* However often a seed is used again, the suffix of a version keeps its ids apart from those    *)
(* that are there: no id stands twice in a version.                                              *)
THEOREM IdsStandOnce == Spec => []ChallengesCountOnce
<1>1. CatalogInv => ChallengesCountOnce
  <2> SUFFICES ASSUME CatalogInv, NEW row \in rows
               PROVE  Cardinality(IdsOf(row.challenges)) = Cardinality(row.challenges)
    BY DEF ChallengesCountOnce
  <2>1. IsFiniteSet(row.challenges) /\ \A c, d \in row.challenges : c.id = d.id => c = d
    BY DEF CatalogInv, DatasetsOK, RowOK, ChallengesOK
  <2> QED BY <2>1, OneIdEach
<1> QED BY <1>1, CatalogInvariant, PTL

(* What a request stores or reports is stored, and two rows stand for one version of a dataset   *)
(* only when the two requests raced: neither had found the other's row where it put its own.     *)
THEOREM ForksAreConcurrent == Spec => []VersionsForkOnlyWhenConcurrent
<1>1. CatalogInv => VersionsForkOnlyWhenConcurrent
  BY DEF CatalogInv, DatasetsOK, GivenOK, VersionsForkOnlyWhenConcurrent
<1> QED BY <1>1, CatalogInvariant, PTL

-----------------------------------------------------------------------------
(* When candidate numbers clash *)

\* A range that starts behind a reservation shares no number with it.
LEMMA BehindIsApart ==
  ASSUME NEW a \in Int, NEW n \in Int, NEW b \in Int, NEW m \in Int, b + m <= a
  PROVE  a..(a + n - 1) \cap b..(b + m - 1) = {}
OBVIOUS

\* A larger range runs into another only where the other starts, or where they met before.
LEMMA GrowthMeetsStarts ==
  ASSUME NEW a \in Int, NEW n \in Int, NEW k \in Int, NEW b \in Int, NEW m \in Int, n >= 1,
         a..(a + n - 1) \cap b..(b + m - 1) = {}, b \notin a..(a + k - 1)
  PROVE  a..(a + k - 1) \cap b..(b + m - 1) = {}
<1> SUFFICES ASSUME NEW x \in Int, a <= x, x <= a + k - 1, b <= x, x <= b + m - 1 PROVE FALSE
  OBVIOUS
<1>1. b < a
  OBVIOUS
<1>2. a \in a..(a + n - 1) /\ a \in b..(b + m - 1)
  BY <1>1
<1> QED BY <1>2

\* A budget that is written over another takes no number of a reservation that was seen.
LEMMA PersistApart ==
  ASSUME CatalogInv, NEW i, NEW budget, NEW seen, BudgetOK(i, budget, seen), Persist(i, budget, seen),
         NEW e \in Experiments, NEW f \in Experiments,
         Clash(e, f)', ~ Clash(e, f), experiment'[e] # experiment[e]
  PROVE  Reservation(f) \notin saw'[e]
<1> SUFFICES ASSUME Reservation(f) \in saw'[e] PROVE FALSE
  OBVIOUS
<1>0. /\ e # f /\ NumbersOf(e) \cap NumbersOf(f) = {} /\ NumbersOf(e)' \cap NumbersOf(f)' # {}
      /\ experiment \in [Experiments -> Ranges] /\ DOMAIN saw = Experiments
  BY DEF Clash, CatalogInv, ExperimentsOK, SawOK
<1>1. /\ experiment' = [experiment EXCEPT ![i].reserved = budget] /\ saw' = [saw EXCEPT ![i] = seen]
  BY DEF Persist
<1>2. i = e
  BY <1>0, <1>1
<1>3. /\ e \in Created /\ budget \in Int /\ Reservation(f) \in seen
      /\ \A s \in seen : s.first \notin experiment[e].first..(experiment[e].first + budget - 1)
  BY <1>0, <1>1, <1>2 DEF BudgetOK
<1>4. /\ experiment'[e].first = experiment[e].first /\ experiment'[e].reserved = budget
      /\ experiment'[f] = experiment[f]
  BY <1>0, <1>1, <1>2 DEF Ranges
<1>5. RangeOK(experiment[e])
  BY <1>3 DEF CatalogInv, ExperimentsOK
<1>6. /\ experiment[e].first \in Int /\ experiment[e].reserved \in Int /\ experiment[e].reserved >= 1
      /\ experiment[f].first \in Int /\ experiment[f].reserved \in Int
  BY <1>0, <1>5 DEF RangeOK, Ranges
<1>7. experiment[f].first \notin experiment[e].first..(experiment[e].first + budget - 1)
  BY <1>3 DEF Reservation
<1>8. NumbersOf(e)' = experiment[e].first..(experiment[e].first + budget - 1)
  BY <1>4 DEF NumbersOf
<1>9. NumbersOf(f)' = experiment[f].first..(experiment[f].first + experiment[f].reserved - 1)
  BY <1>4 DEF NumbersOf
<1>10. experiment[e].first..(experiment[e].first + experiment[e].reserved - 1)
         \cap experiment[f].first..(experiment[f].first + experiment[f].reserved - 1) = {}
  BY <1>0 DEF NumbersOf
<1> QED BY <1>0, <1>3, <1>6, <1>7, <1>8, <1>9, <1>10, GrowthMeetsStarts

\* What a step gives an experiment shares nothing with a reservation the request looked at.
LEMMA ClashStep ==
  ASSUME CatalogInv, Next, NEW e \in Experiments, NEW f \in Experiments,
         Clash(e, f)', ~ Clash(e, f), experiment'[e] # experiment[e]
  PROVE  Reservation(f) \notin saw'[e]
<1>0. /\ e # f /\ NumbersOf(e) \cap NumbersOf(f) = {} /\ NumbersOf(e)' \cap NumbersOf(f)' # {}
      /\ experiment \in [Experiments -> Ranges] /\ DOMAIN saw = Experiments
  BY DEF Clash, CatalogInv, ExperimentsOK, SawOK
<1>1. experiment[f].first \in Int /\ experiment[f].reserved \in Int
  BY <1>0 DEF Ranges
<1>2. ASSUME NEW r \in Requests, Evaluate(r) PROVE FALSE
  <2>1. \A j \in Experiments : experiment'[j].first = experiment[j].first /\ experiment'[j].reserved = experiment[j].reserved
    BY <1>0, <1>2 DEF Evaluate, Ranges
  <2>2. NumbersOf(e)' = NumbersOf(e) /\ NumbersOf(f)' = NumbersOf(f)
    BY <2>1 DEF NumbersOf
  <2> QED BY <1>0, <2>2
<1>3. ASSUME NEW r \in Requests, Commit(r) PROVE Reservation(f) \notin saw'[e]
  <2> SUFFICES ASSUME Reservation(f) \in saw'[e] PROVE FALSE
    OBVIOUS
  <2>1. /\ RequestOK(r) /\ request[r].at = "commit"
        /\ experiment' = [experiment EXCEPT ![request[r].id] = request[r].range]
        /\ saw' = [saw EXCEPT ![request[r].id] = request[r].seen]
    BY <1>3 DEF Commit, CatalogInv, RequestsOK
  <2>2. request[r].id = e
    BY <1>0, <2>1
  <2>3. /\ RangeOK(request[r].range) /\ experiment'[e] = request[r].range /\ experiment'[f] = experiment[f]
        /\ \A s \in request[r].seen : s.first + s.reserved <= request[r].range.first
        /\ Reservation(f) \in request[r].seen
    BY <1>0, <2>1, <2>2 DEF RequestOK
  <2>4. experiment[f].first + experiment[f].reserved <= request[r].range.first
    BY <2>3 DEF Reservation
  <2>5. request[r].range.first \in Int /\ request[r].range.reserved \in Int
    BY <2>3 DEF RangeOK, Ranges
  <2>6. NumbersOf(e)' = request[r].range.first..(request[r].range.first + request[r].range.reserved - 1)
    BY <2>3 DEF NumbersOf
  <2>7. NumbersOf(f)' = experiment[f].first..(experiment[f].first + experiment[f].reserved - 1)
    BY <2>3 DEF NumbersOf
  <2> QED BY <1>0, <1>1, <2>4, <2>5, <2>6, <2>7, BehindIsApart
<1>4. ASSUME NEW r \in Requests, Start(r) \/ Record(r) PROVE Reservation(f) \notin saw'[e]
  <2>1. /\ BudgetOK(request[r].id, request[r].budget, request[r].seen)
        /\ Persist(request[r].id, request[r].budget, request[r].seen)
    BY <1>4 DEF Start, Record, CatalogInv, RequestsOK, RequestOK
  <2> QED BY <2>1, PersistApart
<1>5. ASSUME NEW r \in Requests, Raise(r) PROVE Reservation(f) \notin saw'[e]
  <2>1. /\ BudgetOK(request[r].id, request[r].total, request[r].seen)
        /\ Persist(request[r].id, request[r].total, request[r].seen)
    BY <1>5 DEF Raise, CatalogInv, RequestsOK, RequestOK
  <2> QED BY <2>1, PersistApart
<1>6. ASSUME NEW r \in Requests,
             \/ Seed(r) \/ Evolve(r) \/ Save(r) \/ Insert(r)
             \/ Create(r) \/ Found(r) \/ Reserve(r) \/ RollBack(r)
             \/ Load(r) \/ End(r) \/ Die(r) \/ Resume(r) \/ CheckClash(r)
      PROVE  FALSE
  BY <1>6 DEF Seed, Evolve, Save, Insert, Create, Found, Reserve, RollBack, Load, End, Die, Resume, CheckClash
<1> QED BY <1>2, <1>3, <1>4, <1>5, <1>6 DEF Next

(* Two experiments are given the same candidate numbers only when what gave them overlapped:     *)
(* never by a request that had looked at the other's reservation as it still stands, nor by a    *)
(* run that puts a budget back of which that is true.                                            *)
THEOREM ClashesAreConcurrent == Spec => NumbersClashOnlyWhenConcurrent
<1> DEFINE Apart == \A e, f \in Experiments :
                      Clash(e, f)' /\ ~ Clash(e, f) /\ experiment'[e] # experiment[e]
                        => Reservation(f) \notin saw'[e]
<1>1. ASSUME CatalogInv, [Next]_vars PROVE [Apart]_vars
  <2> SUFFICES ASSUME Next PROVE Apart
    BY <1>1
  <2> QED BY <1>1, ClashStep
<1>2. CatalogInv /\ [Next]_vars => [Apart]_vars
  BY <1>1
<1> QED BY <1>2, CatalogInvariant, PTL DEF Spec, NumbersClashOnlyWhenConcurrent
=============================================================================

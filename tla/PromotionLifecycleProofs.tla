---------------------- MODULE PromotionLifecycleProofs ----------------------
(***************************************************************************)
(* Proofs about PromotionLifecycle, for any number of genomes, admins and  *)
(* operators and a log of any length.                                      *)
(***************************************************************************)
EXTENDS PromotionLifecycle, WellFoundedInduction, TLAPS

-----------------------------------------------------------------------------
(* Replaying a log of any length: the stack holds each genome once, one      *)
(* more event is one step of the replay, and removing a genome removes it    *)
(* and nothing else.                                                         *)

(* A nonempty set of naturals has a least element: the shortest counterexample. *)
LEMMA NatMin ==
  ASSUME NEW T \in SUBSET Nat, T # {}
  PROVE  \E m \in T : \A n \in T : m <= n
<1> DEFINE R == {ss \in Nat \X Nat : ss[1] < ss[2]}
<1>1. IsWellFoundedOn(R, Nat)
  BY NatLessThanWellFounded DEF OpToRel
<1>2. PICK m \in T : \A y \in T : ~(<<y, m>> \in R)
  <2> HIDE DEF R
  <2> QED BY <1>1, WFMin
<1>3. \A y \in T : ~(y < m)
  BY <1>2
<1> QED BY <1>3

\* f is the replay of the first n events of the log.
IsReplay(f, n, events) ==
  f = [k \in 0..n |-> IF k = 0 THEN << >> ELSE ReplayEvent(f[k - 1], events[k])]

(* Every log has a replay, by the shortest log that would not. *)
LEMMA ReplayExists ==
  ASSUME NEW events, NEW len \in Nat
  PROVE  \E f : IsReplay(f, len, events)
<1> DEFINE Bad == {n \in Nat : ~ \E f : IsReplay(f, n, events)}
<1> SUFFICES ASSUME Bad # {} PROVE FALSE
  OBVIOUS
<1>1. PICK m \in Bad : \A n \in Bad : m <= n
  BY NatMin
<1>2. m # 0
  <2> DEFINE g == [k \in 0..0 |-> << >>]
  <2>1. IsReplay(g, 0, events)
    BY DEF IsReplay
  <2> QED BY <2>1
<1>3. PICK f : IsReplay(f, m - 1, events)
  BY <1>1, <1>2
<1> DEFINE g == [k \in 0..m |-> IF k = m THEN ReplayEvent(f[m - 1], events[m]) ELSE f[k]]
<1>4. IsReplay(g, m, events)
  <2>0. m \in Nat /\ m # 0 /\ f = [k \in 0..(m-1) |-> IF k = 0 THEN << >> ELSE ReplayEvent(f[k - 1], events[k])]
    BY <1>1, <1>2, <1>3 DEF IsReplay
  <2>1. ASSUME NEW k \in 0..m
        PROVE  g[k] = IF k = 0 THEN << >> ELSE ReplayEvent(g[k - 1], events[k])
    <3>1. CASE k = m
      <4>1. g[k - 1] = f[m - 1]
        BY <3>1, <2>0
      <4> QED BY <3>1, <4>1, <2>0
    <3>2. CASE k # m /\ k # 0
      <4>1. g[k - 1] = f[k - 1]
        BY <3>2, <2>0
      <4>2. g[k] = f[k]
        BY <3>2, <2>0
      <4>3. k \in 0..(m-1)
        BY <3>2, <2>0
      <4>4. f[k] = ReplayEvent(f[k - 1], events[k])
        BY <4>3, <3>2, <2>0
      <4> QED BY <3>2, <4>1, <4>2, <4>4
    <3>3. CASE k = 0
      BY <3>3, <2>0
    <3> QED BY <3>1, <3>2, <3>3
  <2> QED BY <2>1 DEF IsReplay
<1> QED BY <1>1, <1>4

(* The replay of the first n events does not depend on the events after them. *)
LEMMA ReplayPrefix ==
  \A n \in Nat : \A log1, log2, f, g :
     /\ \A k \in 1..n : log1[k] = log2[k]
     /\ IsReplay(f, n, log1)
     /\ IsReplay(g, n + 1, log2)
     => f[n] = g[n]
<1> TAKE n \in Nat
<1> TAKE log1, log2, f, g
<1> HAVE /\ \A k \in 1..n : log1[k] = log2[k]
         /\ IsReplay(f, n, log1)
         /\ IsReplay(g, n + 1, log2)
<1> DEFINE Bad == {k \in Nat : k <= n /\ f[k] # g[k]}
<1> SUFFICES ASSUME Bad # {} PROVE FALSE
  OBVIOUS
<1>1. PICK m \in Bad : \A k \in Bad : m <= k
  BY NatMin
<1>2. /\ f[m] = IF m = 0 THEN << >> ELSE ReplayEvent(f[m - 1], log1[m])
      /\ g[m] = IF m = 0 THEN << >> ELSE ReplayEvent(g[m - 1], log2[m])
  BY <1>1 DEF IsReplay
<1>3. m # 0 => f[m - 1] = g[m - 1]
  BY <1>1
<1> QED BY <1>1, <1>2, <1>3

(* Replay is the replay of the whole log: the recursive definition is well defined. *)
LEMMA ReplayDefined ==
  ASSUME NEW events, Len(events) \in Nat
  PROVE  IsReplay(Replay(events), Len(events), events)
<1>1. \E f : IsReplay(f, Len(events), events)
  BY ReplayExists
<1> QED BY <1>1 DEF IsReplay, Replay

(* Nothing is in production before the first event. *)
LEMMA EmptyLog == ProductionStack(<< >>) = << >>
<1>1. IsReplay(Replay(<< >>), 0, << >>)
  BY ReplayDefined
<1> QED BY <1>1 DEF IsReplay, ProductionStack

(* Logging one more event replays it on top of the stack there was. *)
LEMMA AppendedEvent ==
  ASSUME NEW events \in Seq(Event), NEW e \in Event
  PROVE  ProductionStack(Append(events, e)) = ReplayEvent(ProductionStack(events), e)
<1> DEFINE more == Append(events, e)
           n == Len(events)
<1>1. /\ more \in Seq(Event) /\ n \in Nat /\ Len(more) = n + 1
      /\ more[n + 1] = e
      /\ \A k \in 1..n : events[k] = more[k]
  OBVIOUS
<1>2. IsReplay(Replay(events), n, events)
  BY <1>1, ReplayDefined
<1>5. IsReplay(Replay(more), n + 1, more)
  <2>1. Len(more) \in Nat
    BY <1>1
  <2>2. IsReplay(Replay(more), Len(more), more)
    <3> HIDE DEF more
    <3> QED BY <2>1, ReplayDefined
  <2> QED BY <1>1, <2>2
<1>3. Replay(events)[n] = Replay(more)[n]
  <2> DEFINE f == Replay(events)
             g == Replay(more)
  <2>1. IsReplay(f, n, events) /\ IsReplay(g, n + 1, more)
    BY <1>2, <1>5
  <2>2. /\ n \in Nat /\ n + 1 \in Nat /\ n <= n /\ n <= n + 1
        /\ \A k \in 1..n : events[k] = more[k]
    BY <1>1
  <2> HIDE DEF more, n, f, g
  <2>3. f[n] = g[n]
    BY <2>1, <2>2, ReplayPrefix
  <2> QED BY <2>3 DEF f, g
<1>4. Replay(more)[n + 1] = ReplayEvent(Replay(more)[n], more[n + 1])
  <2> HIDE DEF more
  <2> QED BY <1>1, <1>5 DEF IsReplay
<1> QED BY <1>1, <1>3, <1>4 DEF ProductionStack

(* Removing a genome from a stack removes it, and nothing else. *)
LEMMA WithoutProperties ==
  ASSUME NEW stack \in Seq(Genomes), Distinct(stack), NEW g \in Genomes
  PROVE  /\ Without(stack, g) \in Seq(Genomes)
         /\ Distinct(Without(stack, g))
         /\ ~ Occurs(g, Without(stack, g))
         /\ \A h \in Genomes : Occurs(h, Without(stack, g)) <=> h # g /\ Occurs(h, stack)
<1>1. CASE ~ Occurs(g, stack)
  BY <1>1 DEF Without, Occurs
<1>2. CASE Occurs(g, stack)
  <2> DEFINE k == CHOOSE i \in 1..Len(stack) : stack[i] = g
             rest == DropAt(stack, k)
  <2>1. k \in 1..Len(stack) /\ stack[k] = g
    BY <1>2 DEF Occurs
  <2>2. Without(stack, g) = rest
    BY <1>2 DEF Without
  <2> HIDE DEF k
  <2>3. /\ rest \in Seq(Genomes)
        /\ Len(rest) = Len(stack) - 1
        /\ \A i \in 1..Len(rest) : rest[i] = IF i < k THEN stack[i] ELSE stack[i + 1]
    BY <2>1 DEF DropAt
  <2> HIDE DEF rest
  <2>4. Distinct(rest)
    BY <2>1, <2>3 DEF Distinct
  <2>5. ASSUME NEW h \in Genomes, Occurs(h, rest) PROVE h # g /\ Occurs(h, stack)
    BY <2>1, <2>3, <2>5 DEF Occurs, Distinct
  <2>6. ASSUME NEW h \in Genomes, h # g, Occurs(h, stack) PROVE Occurs(h, rest)
    <3>1. PICK i \in 1..Len(stack) : stack[i] = h
      BY <2>6 DEF Occurs
    <3>2. i # k
      BY <2>1, <2>6, <3>1
    <3>3. CASE i < k
      BY <2>1, <2>3, <3>1, <3>3 DEF Occurs
    <3>4. CASE i > k
      <4>1. i - 1 \in 1..Len(rest) /\ rest[i - 1] = stack[i]
        BY <2>1, <2>3, <3>1, <3>4
      <4> QED BY <4>1, <3>1 DEF Occurs
    <3> QED BY <2>1, <3>2, <3>3, <3>4
  <2> QED BY <2>2, <2>3, <2>4, <2>5, <2>6
<1> QED BY <1>1, <1>2

(* One event leaves a stack without repetitions, with its genome on top or gone. *)
LEMMA ReplayEventProperties ==
  ASSUME NEW stack \in Seq(Genomes), Distinct(stack), NEW e \in Event
  PROVE  /\ ReplayEvent(stack, e) \in Seq(Genomes)
         /\ Distinct(ReplayEvent(stack, e))
         /\ e.action = "promote" => IsChampion(e.genome, ReplayEvent(stack, e))
         /\ e.action # "promote" => ~ Occurs(e.genome, ReplayEvent(stack, e))
<1> DEFINE g == e.genome
           w == Without(stack, g)
<1>1. g \in Genomes
  BY DEF Event
<1>2. w \in Seq(Genomes) /\ Distinct(w) /\ ~ Occurs(g, w)
  BY <1>1, WithoutProperties
<1> HIDE DEF w
<1>3. /\ Append(w, g) \in Seq(Genomes)
      /\ Distinct(Append(w, g))
      /\ IsChampion(g, Append(w, g))
  <2> DEFINE more == Append(w, g)
  <2>1. /\ more \in Seq(Genomes) /\ Len(w) \in Nat /\ Len(more) = Len(w) + 1
        /\ more # << >> /\ more[Len(more)] = g
        /\ \A k \in 1..Len(w) : more[k] = w[k]
    BY <1>1, <1>2
  <2> HIDE DEF more
  <2>2. Distinct(more)
    BY <2>1, <1>2 DEF Distinct, Occurs
  <2> QED BY <2>1, <2>2 DEF IsChampion, more
<1> QED BY <1>2, <1>3 DEF ReplayEvent, w

(***************************************************************************)
(* Whatever was ever logged, the replayed stack lists each genome at most  *)
(* once: re-promoting a superseded genome moves it, never duplicates it    *)
(* (production_stack removes the genome before pushing it).                *)
(***************************************************************************)
THEOREM StackDistinct ==
  ASSUME NEW events \in Seq(Event)
  PROVE  ProductionStack(events) \in Seq(Genomes) /\ Distinct(ProductionStack(events))
<1> DEFINE r == Replay(events)
           Bad == {n \in Nat : n <= Len(events) /\ ~(r[n] \in Seq(Genomes) /\ Distinct(r[n]))}
<1> SUFFICES ASSUME Bad # {} PROVE FALSE
  BY DEF ProductionStack
<1>1. PICK m \in Bad : \A n \in Bad : m <= n
  BY NatMin
<1>2. r[m] = IF m = 0 THEN << >> ELSE ReplayEvent(r[m - 1], events[m])
  BY <1>1, ReplayDefined DEF IsReplay
<1> HIDE DEF r
<1>3. CASE m = 0
  <2>1. r[m] = << >>
    BY <1>2, <1>3
  <2>2. << >> \in Seq(Genomes) /\ Distinct(<< >>)
    BY DEF Distinct
  <2> QED BY <1>1, <2>1, <2>2
<1>4. CASE m # 0
  <2>1. m - 1 \in Nat /\ m - 1 <= Len(events) /\ events[m] \in Event
    BY <1>1, <1>4
  <2>2. r[m - 1] \in Seq(Genomes) /\ Distinct(r[m - 1])
    BY <1>1, <2>1
  <2> QED BY <1>1, <1>2, <1>4, <2>1, <2>2, ReplayEventProperties
<1> QED BY <1>3, <1>4

-----------------------------------------------------------------------------
(* The reviews, the canaries and the promotions                              *)

(* A reviewed genome has a latest decision: a row with the highest id among its own. *)
LEMMA LatestDecisionExists ==
  ASSUME TypeOK, NEW g \in Genomes, Reviewed(g)
  PROVE  \E i \in 1..Len(decisions) :
            decisions[i].genome = g /\ LatestDecision(g) = decisions[i]
<1> DEFINE n == Len(decisions)
           Age == {k \in Nat : k < n /\ decisions[n - k].genome = g}
<1>1. n \in Nat
  BY DEF TypeOK
<1>2. PICK j \in 1..n : decisions[j].genome = g
  BY DEF Reviewed
<1>3. n - j \in Age
  <2>1. n - j \in Nat /\ n - j < n /\ n - (n - j) = j
    BY <1>1
  <2> QED BY <2>1, <1>2
<1>4. PICK m \in Age : \A k \in Age : m <= k
  <2>1. Age \in SUBSET Nat /\ Age # {}
    BY <1>3
  <2> HIDE DEF Age
  <2> QED BY <2>1, NatMin
<1> DEFINE i == n - m
<1>5. i \in 1..n /\ decisions[i].genome = g
  BY <1>1, <1>4
<1>6. ASSUME NEW k \in 1..n, decisions[k].genome = g PROVE k <= i
  <2>1. n - k \in Nat /\ n - k < n /\ n - (n - k) = k /\ m \in Nat
    BY <1>1, <1>4
  <2>2. n - k \in Age
    BY <2>1, <1>6
  <2>3. m <= n - k
    BY <2>2, <1>4
  <2> QED BY <2>1, <2>3, <1>1
<1> HIDE DEF i
<1>7. \E r \in 1..Len(decisions) :
        /\ decisions[r].genome = g
        /\ \A k \in 1..Len(decisions) : decisions[k].genome = g => k <= r
  BY <1>5, <1>6
<1> QED BY <1>7 DEF LatestDecision

-----------------------------------------------------------------------------
(* Type correctness *)

(* The initial requests, statuses and lock are of their types. *)
LEMMA InitType == Init => TypeOK
<1> SUFFICES ASSUME Init PROVE TypeOK
  OBVIOUS
<1>1. IdleAdmin \in AdminRequest
  BY OriginalAssumption DEF IdleAdmin, AdminRequest, AdminPhase, Status
<1>2. IdleOperator \in OperatorRequest
  BY OriginalAssumption DEF IdleOperator, OperatorRequest, Status
<1> QED BY <1>1, <1>2 DEF Init, TypeOK, Status

(* What reconcile wants for a genome is a status. *)
LEMMA ReconciledType ==
  ASSUME NEW events, NEW seen \in [Genomes -> Status]
  PROVE  Reconciled(events, seen) \in [Genomes -> Status]
BY DEF Reconciled, Status

(* _advance_status leaves every genome with a status. *)
LEMMA AdvancedType ==
  ASSUME TypeOK, NEW g \in Genomes, NEW seen, NEW new \in Status, NEW onlyFrom
  PROVE  Advanced(g, seen, new, onlyFrom) \in [Genomes -> Status]
BY DEF Advanced, TypeOK

(* An admin that only moves to another phase keeps the types. *)
LEMMA AdminMoveType ==
  ASSUME TypeOK, NEW a \in Admins, NEW phase \in AdminPhase, AdminMove(a, phase)
  PROVE  admin' \in [Admins -> AdminRequest]
BY DEF AdminMove, TypeOK, AdminRequest

(* A production change, with whatever statuses its session has loaded, keeps the types. *)
LEMMA CommitEventType ==
  ASSUME TypeOK, NEW a \in Admins, CommitEvent(a)
  PROVE  TypeOK'
<1> DEFINE seen == admin[a].seen
           e == [action |-> admin[a].action, genome |-> admin[a].genome]
           events == Append(log, e)
           wanted == Reconciled(events, seen)
<1>1. e \in Event /\ seen \in [Genomes -> Status]
  BY DEF TypeOK, AdminRequest, Event
<1>2. events \in Seq(Event)
  BY <1>1 DEF TypeOK
<1>3. wanted \in [Genomes -> Status]
  BY <1>1, ReconciledType
<1>4. /\ log' = events
      /\ status' = [g \in Genomes |-> IF wanted[g] = seen[g] THEN status[g] ELSE wanted[g]]
      /\ AdminMove(a, "leaving")
      /\ UNCHANGED <<decisions, canary, lock, operator>>
  BY DEF CommitEvent
<1> HIDE DEF events, wanted, seen, e
<1>5. status' \in [Genomes -> Status]
  BY <1>3, <1>4 DEF TypeOK
<1>6. admin' \in [Admins -> AdminRequest]
  BY <1>4, AdminMoveType DEF AdminPhase
<1> QED BY <1>2, <1>4, <1>5, <1>6 DEF TypeOK

(* A precondition that goes on or raises keeps the types. *)
LEMMA RequireType ==
  ASSUME TypeOK, NEW a \in Admins, NEW from, NEW to \in AdminPhase, NEW condition \in BOOLEAN,
         Require(a, from, to, condition)
  PROVE  TypeOK'
<1>1. AdminMove(a, IF condition THEN to ELSE "leaving")
  BY DEF Require
<1>2. admin' \in [Admins -> AdminRequest]
  BY <1>1, AdminMoveType DEF AdminPhase
<1> QED BY <1>2 DEF Require, TypeOK

(* Loading statuses into a session keeps the types. *)
LEMMA LoadedType ==
  ASSUME NEW requests \in [Admins -> AdminRequest], NEW a \in Admins,
         NEW seen \in [Genomes -> Status]
  PROVE  [requests EXCEPT ![a].seen = seen] \in [Admins -> AdminRequest]
<1> DEFINE r == [requests[a] EXCEPT !.seen = seen]
<1>1. r = [phase |-> requests[a].phase, action |-> requests[a].action,
           genome |-> requests[a].genome, base |-> requests[a].base, seen |-> seen]
  BY DEF AdminRequest
<1>2. r \in AdminRequest
  BY <1>1 DEF AdminRequest
<1> HIDE DEF r
<1>3. [requests EXCEPT ![a] = r] \in [Admins -> AdminRequest]
  BY <1>2
<1> QED BY <1>3 DEF r

(* Every step of an admin keeps the types. *)
LEMMA AdminStepType ==
  ASSUME TypeOK, NEW a \in Admins, AdminStep(a)
  PROVE  TypeOK'
<1>0. IdleAdmin \in AdminRequest
  BY OriginalAssumption DEF IdleAdmin, AdminRequest, AdminPhase, Status
<1>1. CASE AcquireLock(a)
  <2>1. admin' \in [Admins -> AdminRequest]
    BY <1>1, AdminMoveType DEF AcquireLock, AdminPhase
  <2> QED BY <1>1, <2>1 DEF AcquireLock, TypeOK
<1>2. CASE CheckNotPromoted(a)
  BY <1>2, RequireType DEF CheckNotPromoted, AdminPhase
<1>3. CASE CheckApproved(a)
  <2> DEFINE ok == (Reviewed(admin[a].genome) /\ LatestDecision(admin[a].genome).approved)
  <2>0. admin[a].genome \in Genomes
    BY DEF TypeOK, AdminRequest
  <2>1. ok \in BOOLEAN
    <3>1. CASE Reviewed(admin[a].genome)
      BY <2>0, <3>1, LatestDecisionExists DEF TypeOK, Decision
    <3>2. CASE ~ Reviewed(admin[a].genome)
      BY <3>2
    <3> QED BY <3>1, <3>2
  <2>2. Require(a, "unpromoted", "approved", ok)
    BY <1>3 DEF CheckApproved
  <2> HIDE DEF ok
  <2> QED BY <2>1, <2>2, RequireType DEF AdminPhase
<1>4. CASE CheckCanary(a)
  BY <1>4, RequireType DEF CheckCanary, AdminPhase
<1>5. CASE CheckBaseline(a)
  <2>1. admin' \in [Admins -> AdminRequest]
    <3> DEFINE base == BaselineOf(Stack)
    <3>1. base \in Genomes
      BY StackDistinct, OriginalAssumption DEF base, BaselineOf, Stack, TypeOK
    <3>2. \/ admin' = [admin EXCEPT ![a].phase = "validated", ![a].base = base]
          \/ admin' = [admin EXCEPT ![a].phase = "leaving"]
      BY <1>5 DEF CheckBaseline
    <3> HIDE DEF base
    <3> DEFINE moved(phase) == [admin EXCEPT ![a].phase = phase]
    <3>3. \A phase \in AdminPhase : moved(phase) \in [Admins -> AdminRequest]
      BY DEF TypeOK, AdminRequest
    <3>4. \/ admin' = [moved("validated") EXCEPT ![a].base = base]
          \/ admin' = moved("leaving")
      BY <3>2 DEF TypeOK
    <3> HIDE DEF moved
    <3>5. moved("validated") \in [Admins -> AdminRequest] /\ moved("leaving") \in [Admins -> AdminRequest]
      BY <3>3 DEF AdminPhase
    <3>6. \A requests \in [Admins -> AdminRequest] :
            [requests EXCEPT ![a].base = base] \in [Admins -> AdminRequest]
      BY <3>1 DEF AdminRequest
    <3> QED BY <3>4, <3>5, <3>6
  <2> QED BY <1>5, <2>1 DEF CheckBaseline, TypeOK
<1>6. CASE CommitEvent(a)
  BY <1>6, CommitEventType
<1>7. CASE ReadChampion(a)
  <2>1. admin' \in [Admins -> AdminRequest]
    <3> DEFINE top == Stack[Len(Stack)]
               seen == [g \in Genomes |-> IF Occurs(g, Stack) THEN status[g] ELSE "GENERATED"]
    <3>1. Stack # << >> => top \in Genomes
      BY StackDistinct DEF Stack, TypeOK
    <3>2. seen \in [Genomes -> Status]
      BY DEF TypeOK, Status
    <3>3. \/ admin' = [admin EXCEPT ![a].phase = "leaving"]
          \/ /\ Stack # << >>
             /\ admin' = [admin EXCEPT ![a].phase = "planned", ![a].genome = top, ![a].seen = seen]
      BY <1>7 DEF ReadChampion
    <3> HIDE DEF top, seen
    <3> DEFINE moved(phase) == [admin EXCEPT ![a].phase = phase]
               named == [moved("planned") EXCEPT ![a].genome = top]
    <3>4. \A phase \in AdminPhase : moved(phase) \in [Admins -> AdminRequest]
      BY DEF TypeOK, AdminRequest
    <3>5. \/ admin' = moved("leaving")
          \/ Stack # << >> /\ admin' = [named EXCEPT ![a].seen = seen]
      BY <3>3 DEF TypeOK
    <3> HIDE DEF moved
    <3>6. moved("planned") \in [Admins -> AdminRequest] /\ moved("leaving") \in [Admins -> AdminRequest]
      BY <3>4 DEF AdminPhase
    <3>7. top \in Genomes => named \in [Admins -> AdminRequest]
      BY <3>6 DEF AdminRequest
    <3> HIDE DEF named
    <3> QED BY <3>1, <3>2, <3>5, <3>6, <3>7, LoadedType
  <2> QED BY <1>7, <2>1 DEF ReadChampion, TypeOK
<1>8. CASE Reconcile(a)
  <2>1. admin' \in [Admins -> AdminRequest]
    <3> DEFINE seen == [g \in Genomes |-> IF admin[a].action = "rollback" /\ Occurs(g, Stack)
                                          THEN admin[a].seen[g] ELSE status[g]]
               moved == [admin EXCEPT ![a].phase = "reconciling"]
    <3>1. seen \in [Genomes -> Status]
      BY DEF TypeOK, AdminRequest
    <3>2. admin' = [admin EXCEPT ![a].phase = "reconciling", ![a].seen = seen]
      BY <1>8 DEF Reconcile
    <3> HIDE DEF seen
    <3>3. moved \in [Admins -> AdminRequest]
      BY DEF TypeOK, AdminRequest, AdminPhase
    <3>4. admin' = [moved EXCEPT ![a].seen = seen]
      BY <3>2 DEF TypeOK
    <3> HIDE DEF moved
    <3> QED BY <3>1, <3>3, <3>4, LoadedType
  <2> QED BY <1>8, <2>1 DEF Reconcile, TypeOK
<1>9. CASE ReleaseLock(a)
  BY <1>0, <1>9 DEF ReleaseLock, TypeOK
<1> QED BY <1>1, <1>2, <1>3, <1>4, <1>5, <1>6, <1>7, <1>8, <1>9 DEF AdminStep

(* Every step of an operator keeps the types. *)
LEMMA OperatorStepType ==
  ASSUME TypeOK, NEW o \in Operators,
         \/ \E g, b \in Genomes, good \in BOOLEAN : Review(o, g, b, good)
         \/ \E g \in Genomes, good \in BOOLEAN : RunCanary(o, g, good)
         \/ CommitReview(o)
         \/ CommitCanary(o)
         \/ OperatorCrash(o)
  PROVE  TypeOK'
<1>0. IdleOperator \in OperatorRequest
  BY OriginalAssumption DEF IdleOperator, OperatorRequest, Status
<1> DEFINE r == operator[o]
<1>r. r.genome \in Genomes /\ r.base \in Genomes /\ r.good \in BOOLEAN
  BY DEF TypeOK, OperatorRequest
<1>1. ASSUME NEW phase \in {"reviewing", "canarying"}, NEW g \in Genomes, NEW b \in Genomes,
             NEW good \in BOOLEAN, OperatorReads(o, phase, g, b, good)
      PROVE  TypeOK'
  BY <1>1 DEF OperatorReads, TypeOK, OperatorRequest
<1>2. ASSUME NEW g \in Genomes, NEW b \in Genomes, NEW good \in BOOLEAN, Review(o, g, b, good)
      PROVE  TypeOK'
  BY <1>1, <1>2 DEF Review
<1>3. ASSUME NEW g \in Genomes, NEW good \in BOOLEAN, RunCanary(o, g, good)
      PROVE  TypeOK'
  BY <1>1, <1>3, OriginalAssumption DEF RunCanary
<1>4. CASE CommitReview(o)
  <2>1. [genome |-> r.genome, base |-> r.base, approved |-> r.good] \in Decision
    BY <1>r DEF Decision
  <2>2. PICK onlyFrom, new : /\ new \in Status
                             /\ status' = Advanced(r.genome, r.seen, new, onlyFrom)
    BY <1>4 DEF CommitReview, Status
  <2>3. status' \in [Genomes -> Status]
    BY <1>r, <2>2, AdvancedType
  <2>4. decisions' \in Seq(Decision)
    BY <1>4, <2>1 DEF CommitReview, TypeOK
  <2>5. operator' \in [Operators -> OperatorRequest]
    BY <1>0, <1>4 DEF CommitReview, TypeOK
  <2> QED BY <1>4, <2>3, <2>4, <2>5 DEF CommitReview, TypeOK
<1>5. CASE CommitCanary(o)
  <2>1. PICK onlyFrom, new : /\ new \in Status
                             /\ status' = Advanced(r.genome, r.seen, new, onlyFrom)
    BY <1>5 DEF CommitCanary, Status
  <2>2. status' \in [Genomes -> Status]
    BY <1>r, <2>1, AdvancedType
  <2>3. canary' \in [Genomes -> {"none", "passed", "rolled_back"}]
    BY <1>5, <1>r DEF CommitCanary, TypeOK
  <2>4. operator' \in [Operators -> OperatorRequest]
    BY <1>0, <1>5 DEF CommitCanary, TypeOK
  <2> QED BY <1>5, <2>2, <2>3, <2>4 DEF CommitCanary, TypeOK
<1>6. CASE OperatorCrash(o)
  BY <1>0, <1>6 DEF OperatorCrash, TypeOK
<1> QED BY <1>2, <1>3, <1>4, <1>5, <1>6

(* Every step of the pipeline keeps the types. *)
LEMMA NextType == TypeOK /\ [Next]_vars => TypeOK'
<1> SUFFICES ASSUME TypeOK, [Next]_vars PROVE TypeOK'
  OBVIOUS
<1>0. IdleAdmin \in AdminRequest
  BY OriginalAssumption DEF IdleAdmin, AdminRequest, AdminPhase, Status
<1>1. ASSUME NEW a \in Admins, NEW g \in Genomes, RequestPromotion(a, g) PROVE TypeOK'
  BY <1>0, <1>1 DEF RequestPromotion, TypeOK, AdminRequest, AdminPhase
<1>2. ASSUME NEW a \in Admins, RequestRollback(a) PROVE TypeOK'
  BY <1>0, <1>2 DEF RequestRollback, TypeOK, AdminRequest, AdminPhase
<1>3. ASSUME NEW a \in Admins, AdminStep(a) PROVE TypeOK'
  BY <1>3, AdminStepType
<1>4. ASSUME NEW a \in Admins, AdminCrash(a) PROVE TypeOK'
  BY <1>0, <1>4 DEF AdminCrash, TypeOK
<1>5. ASSUME NEW o \in Operators,
             \/ \E g, b \in Genomes, good \in BOOLEAN : Review(o, g, b, good)
             \/ \E g \in Genomes, good \in BOOLEAN : RunCanary(o, g, good)
             \/ CommitReview(o)
             \/ CommitCanary(o)
             \/ OperatorCrash(o)
      PROVE  TypeOK'
  BY <1>5, OperatorStepType
<1>6. CASE UNCHANGED vars
  BY <1>6 DEF vars, TypeOK
<1> QED BY <1>1, <1>2, <1>3, <1>4, <1>5, <1>6 DEF Next

(***************************************************************************)
(* Every reachable state is well typed: the log holds promotions and       *)
(* rollbacks of the application's genomes, the lock is held by an admin or *)
(* by nobody, and every genome has one of the lifecycle's statuses.        *)
(***************************************************************************)
THEOREM TypeCorrect == Spec => []TypeOK
BY InitType, NextType, PTL DEF Spec

-----------------------------------------------------------------------------
(* The lock protects what is read under it *)

Holding == AdminPhase \ {"idle", "waiting"}

\* An admin past the lock is its holder.
LockOwnership == \A a \in Admins : admin[a].phase \in Holding => lock = a

\* Each request runs the checks of its own kind.
ActionsFit ==
  \A a \in Admins :
    /\ admin[a].phase \in {"unpromoted", "approved", "canaried", "validated"} =>
         admin[a].action = "promote"
    /\ admin[a].phase = "planned" => admin[a].action = "rollback"

ReadsInv == TypeOK /\ LockOwnership /\ ActionsFit /\ ProductionReadsStayCurrent

(* An operator's step leaves the log and the admins' requests alone.             *)
OperatorStep(o) ==
  \/ \E g, b \in Genomes, good \in BOOLEAN : Review(o, g, b, good)
  \/ \E g \in Genomes, good \in BOOLEAN : RunCanary(o, g, good)
  \/ CommitReview(o)
  \/ CommitCanary(o)
  \/ OperatorCrash(o)

(* No operator step touches the log, the lock or an admin. *)
LEMMA OperatorFrame ==
  ASSUME NEW o \in Operators, OperatorStep(o)
  PROVE  UNCHANGED <<log, lock, admin>>
BY DEF OperatorStep, Review, RunCanary, OperatorReads, CommitReview, CommitCanary, OperatorCrash

(* The next-state relation, with the operators' actions under one name. *)
LEMMA NextCases ==
  ASSUME [Next]_vars
  PROVE  \/ \E a \in Admins, g \in Genomes : RequestPromotion(a, g)
         \/ \E a \in Admins : RequestRollback(a)
         \/ \E a \in Admins : AdminStep(a)
         \/ \E a \in Admins : AdminCrash(a)
         \/ \E o \in Operators : OperatorStep(o)
         \/ UNCHANGED vars
BY DEF Next, OperatorStep

(* What a step of admin a does to the requests: only its own moves. *)
LEMMA OthersKeepTheirRequest ==
  ASSUME TypeOK, NEW a \in Admins,
         \/ \E g \in Genomes : RequestPromotion(a, g)
         \/ RequestRollback(a)
         \/ AdminStep(a)
         \/ AdminCrash(a),
         NEW b \in Admins, b # a
  PROVE  admin'[b] = admin[b]
BY DEF TypeOK, RequestPromotion, RequestRollback, AdminCrash, AdminStep, AcquireLock, CheckNotPromoted,
       CheckApproved, CheckCanary, CheckBaseline, ReadChampion, Reconcile, CommitEvent,
       ReleaseLock, Require, AdminMove

(* An admin that moves to another phase keeps the rest of its request. *)
LEMMA Moved ==
  ASSUME TypeOK, NEW a \in Admins, NEW phase, AdminMove(a, phase)
  PROVE  /\ admin'[a].phase = phase
         /\ admin'[a].action = admin[a].action
         /\ admin'[a].genome = admin[a].genome
         /\ admin'[a].base = admin[a].base
BY DEF AdminMove, TypeOK, AdminRequest

(* An admin step starts past the lock, or takes it when nobody holds it. *)
LEMMA AdminStepLock ==
  ASSUME TypeOK, LockOwnership, NEW a \in Admins, AdminStep(a)
  PROVE  \/ /\ lock = Nobody /\ lock' = a /\ log' = log /\ admin'[a].phase = "locked"
            /\ admin[a].phase = "waiting"
         \/ /\ lock = a
            /\ \/ lock' = a
               \/ lock' = Nobody /\ admin'[a].phase = "idle"
<1>0. /\ admin[a] \in AdminRequest
      /\ IdleAdmin.phase = "idle"
  BY DEF TypeOK, IdleAdmin
<1>1. CASE AcquireLock(a)
  BY <1>0, <1>1 DEF AcquireLock, AdminMove, TypeOK, AdminRequest
<1>2. ASSUME admin[a].phase \in Holding PROVE lock = a
  BY <1>2 DEF LockOwnership
<1>3. CASE ReleaseLock(a)
  BY <1>0, <1>2, <1>3 DEF ReleaseLock, Holding, AdminPhase, TypeOK
<1>4. CASE /\ ~ AcquireLock(a)
           /\ ~ ReleaseLock(a)
  <2>1. lock' = lock
    BY <1>4 DEF AdminStep, CheckNotPromoted, CheckApproved, CheckCanary, CheckBaseline,
                ReadChampion, Reconcile, CommitEvent, Require
  <2>2. admin[a].phase \in {"locked", "unpromoted", "approved", "canaried", "validated", "planned",
                           "reconciling"}
    BY <1>4 DEF AdminStep, CheckNotPromoted, CheckApproved, CheckCanary, CheckBaseline,
                ReadChampion, Reconcile, CommitEvent, Require
  <2> QED BY <1>2, <2>1, <2>2 DEF Holding, AdminPhase
<1> QED BY <1>1, <1>3, <1>4 DEF AdminStep

(* Starting a request or crashing leaves an admin short of the lock. *)
LEMMA OutsideTheLock ==
  ASSUME TypeOK, NEW a \in Admins,
         \/ \E g \in Genomes : RequestPromotion(a, g)
         \/ RequestRollback(a)
         \/ AdminCrash(a)
  PROVE  /\ admin'[a].phase \in {"idle", "waiting"}
         /\ lock' = lock \/ lock = a
         /\ log' = log
<1>1. IdleAdmin.phase = "idle"
  BY DEF IdleAdmin
<1>2. CASE AdminCrash(a)
  BY <1>1, <1>2 DEF AdminCrash, TypeOK
<1>3. ASSUME NEW g \in Genomes, RequestPromotion(a, g)
      PROVE  /\ admin'[a].phase \in {"idle", "waiting"}
             /\ lock' = lock /\ log' = log
  BY <1>3 DEF RequestPromotion, TypeOK, IdleAdmin
<1>4. CASE RequestRollback(a)
  BY <1>4 DEF RequestRollback, TypeOK, IdleAdmin
<1> QED BY <1>2, <1>3, <1>4

(* No step lets an admin past the lock without being its holder. *)
LEMMA NextLockOwnership ==
  ASSUME TypeOK, LockOwnership, [Next]_vars
  PROVE  LockOwnership'
<1> SUFFICES ASSUME NEW b \in Admins, admin'[b].phase \in Holding
             PROVE  lock' = b
  BY DEF LockOwnership
<1>0. /\ b # Nobody
      /\ admin'[b].phase \notin {"idle", "waiting"}
  BY CallersAssumption DEF Holding
<1>b. admin[b].phase \in Holding => lock = b
  BY DEF LockOwnership
<1>1. ASSUME NEW a \in Admins,
             \/ \E g \in Genomes : RequestPromotion(a, g)
             \/ RequestRollback(a)
             \/ AdminCrash(a)
      PROVE  lock' = b
  <2>1. a # b
    BY <1>0, <1>1, OutsideTheLock
  <2>2. admin'[b] = admin[b]
    BY <1>1, <2>1, OthersKeepTheirRequest
  <2> QED BY <1>b, <1>1, <2>1, <2>2, OutsideTheLock
<1>2. ASSUME NEW a \in Admins, AdminStep(a) PROVE lock' = b
  <2>1. CASE a = b
    BY <1>0, <1>2, <2>1, AdminStepLock
  <2>2. CASE a # b
    <3>1. admin'[b] = admin[b]
      BY <1>2, <2>2, OthersKeepTheirRequest
    <3> QED BY <1>0, <1>b, <1>2, <2>2, <3>1, AdminStepLock
  <2> QED BY <2>1, <2>2
<1>3. ASSUME NEW o \in Operators, OperatorStep(o) PROVE lock' = b
  BY <1>b, <1>3, OperatorFrame
<1>4. CASE UNCHANGED vars
  BY <1>b, <1>4 DEF vars
<1> QED BY <1>1, <1>2, <1>3, <1>4, NextCases

InProduction == {"PROMOTED", "SUPERSEDED"}

(* Neither a review nor a canary ever writes PROMOTED or SUPERSEDED. *)
LEMMA OperatorsClaimNothing ==
  ASSUME TypeOK, NEW o \in Operators, OperatorStep(o), NEW g \in Genomes, status'[g] \in InProduction
  PROVE  status'[g] = status[g]
<1>1. ASSUME NEW h, NEW seen, NEW new, NEW onlyFrom, new \notin InProduction,
             status' = Advanced(h, seen, new, onlyFrom)
      PROVE  status'[g] = status[g]
  BY <1>1 DEF Advanced, TypeOK
<1>2. CASE CommitReview(o)
  <2>1. PICK h, seen, new, onlyFrom : /\ new \notin InProduction
                                      /\ status' = Advanced(h, seen, new, onlyFrom)
    BY <1>2 DEF CommitReview, InProduction
  <2> QED BY <1>1, <2>1
<1>3. CASE CommitCanary(o)
  <2>1. PICK h, seen, new, onlyFrom : /\ new \notin InProduction
                                      /\ status' = Advanced(h, seen, new, onlyFrom)
    BY <1>3 DEF CommitCanary, InProduction
  <2> QED BY <1>1, <2>1
<1>4. CASE ~ CommitReview(o) /\ ~ CommitCanary(o)
  BY <1>4 DEF OperatorStep, Review, RunCanary, OperatorReads, OperatorCrash
<1> QED BY <1>2, <1>3, <1>4

(* While a request is past the lock, steps of others change nothing it relies on. *)
LEMMA NobodyElse ==
  ASSUME TypeOK, LockOwnership, [Next]_vars, NEW b \in Admins, admin'[b].phase \in Holding
  PROVE  \/ AdminStep(b)
         \/ /\ admin'[b] = admin[b]
            /\ log' = log
            /\ \A g \in Genomes : status'[g] \in InProduction => status'[g] = status[g]
<1>0. b # Nobody
  BY CallersAssumption
<1>1. ASSUME NEW a \in Admins,
             \/ \E g \in Genomes : RequestPromotion(a, g)
             \/ RequestRollback(a)
             \/ AdminCrash(a)
      PROVE  admin'[b] = admin[b] /\ log' = log /\ status' = status
  <2>1. a # b
    BY <1>1, OutsideTheLock DEF Holding
  <2>2. admin'[b] = admin[b]
    BY <1>1, <2>1, OthersKeepTheirRequest
  <2> QED BY <1>1, <2>2 DEF RequestPromotion, RequestRollback, AdminCrash
<1>2. ASSUME NEW a \in Admins, AdminStep(a) PROVE AdminStep(b)
  <2>1. CASE a # b
    <3>1. admin[b].phase \in Holding
      BY <1>2, <2>1, OthersKeepTheirRequest
    <3>2. lock = b
      BY <3>1 DEF LockOwnership
    <3> QED BY <1>0, <1>2, <2>1, <3>2, AdminStepLock
  <2> QED BY <1>2, <2>1
<1>3. ASSUME NEW o \in Operators, OperatorStep(o)
      PROVE  /\ admin'[b] = admin[b] /\ log' = log
             /\ \A g \in Genomes : status'[g] \in InProduction => status'[g] = status[g]
  BY <1>3, OperatorFrame, OperatorsClaimNothing
<1>4. CASE UNCHANGED vars
  BY <1>4 DEF vars
<1> QED BY <1>1, <1>2, <1>3, <1>4, NextCases

(* What an admin's own step leaves true of what it has read. *)
LEMMA OwnReads ==
  ASSUME ReadsInv, NEW a \in Admins, AdminStep(a)
  PROVE  /\ admin'[a].phase \in {"unpromoted", "approved", "canaried", "validated"} =>
              admin'[a].action = "promote"
         /\ admin'[a].phase = "planned" => admin'[a].action = "rollback"
         /\ admin'[a].phase \in {"validated", "planned", "reconciling"} =>
              /\ log' = log
              /\ IF admin'[a].action = "promote" THEN admin'[a].base = BaselineOf(Stack)
                 ELSE IsChampion(admin'[a].genome, Stack)
<1>0. /\ TypeOK /\ admin[a] \in AdminRequest /\ a \in DOMAIN admin
      /\ admin[a].phase \in {"unpromoted", "approved", "canaried", "validated"} =>
           admin[a].action = "promote"
      /\ admin[a].phase \in {"validated", "planned", "reconciling"} =>
           IF admin[a].action = "promote" THEN admin[a].base = BaselineOf(Stack)
           ELSE IsChampion(admin[a].genome, Stack)
  BY DEF ReadsInv, TypeOK, ActionsFit, ProductionReadsStayCurrent
<1>1. CASE CheckNotPromoted(a) \/ CheckApproved(a) \/ CheckCanary(a)
  <2>1. PICK phase \in {"unpromoted", "approved", "canaried", "leaving"} : AdminMove(a, phase)
    BY <1>1 DEF CheckNotPromoted, CheckApproved, CheckCanary, Require
  <2>2. admin[a].action = "promote"
    BY <1>0, <1>1 DEF CheckNotPromoted, CheckApproved, CheckCanary, Require
  <2> QED BY <1>0, <2>1, <2>2, Moved
<1>2. CASE CheckBaseline(a)
  <2>1. admin[a].action = "promote"
    BY <1>0, <1>2 DEF CheckBaseline
  <2> QED BY <1>0, <1>2, <2>1 DEF CheckBaseline, AdminRequest
<1>3. CASE ReadChampion(a)
  BY <1>0, <1>3 DEF ReadChampion, IsChampion, AdminRequest
<1>4. CASE Reconcile(a)
  <2>1. /\ admin'[a].phase = "reconciling" /\ log' = log
        /\ admin'[a].action = admin[a].action
        /\ admin'[a].genome = admin[a].genome
        /\ admin'[a].base = admin[a].base
    BY <1>0, <1>4 DEF Reconcile, AdminRequest
  <2>2. admin[a].phase \in {"validated", "planned"}
    BY <1>4 DEF Reconcile
  <2> QED BY <1>0, <2>1, <2>2
<1>5. CASE ReleaseLock(a)
  BY <1>0, <1>5 DEF ReleaseLock, IdleAdmin
<1>6. CASE AcquireLock(a) \/ CommitEvent(a)
  <2>1. AdminMove(a, "locked") \/ AdminMove(a, "leaving")
    BY <1>6 DEF AcquireLock, CommitEvent
  <2> QED BY <1>0, <2>1, Moved
<1> QED BY <1>1, <1>2, <1>3, <1>4, <1>5, <1>6 DEF AdminStep

(* No step makes a read under the lock stale: only its holder writes the log. *)
LEMMA NextReadsInv == ReadsInv /\ [Next]_vars => ReadsInv'
<1> SUFFICES ASSUME ReadsInv, [Next]_vars PROVE ReadsInv'
  OBVIOUS
<1>0. /\ TypeOK /\ LockOwnership /\ ActionsFit /\ ProductionReadsStayCurrent
      /\ TypeOK' /\ LockOwnership'
  BY NextType, NextLockOwnership DEF ReadsInv
<1>1. ASSUME NEW b \in Admins
      PROVE  /\ admin'[b].phase \in {"unpromoted", "approved", "canaried", "validated"} =>
                  admin'[b].action = "promote"
             /\ admin'[b].phase = "planned" => admin'[b].action = "rollback"
             /\ admin'[b].phase \in {"validated", "planned", "reconciling"} =>
                  IF admin'[b].action = "promote" THEN admin'[b].base = BaselineOf(Stack')
                  ELSE IsChampion(admin'[b].genome, Stack')
  <2>1. log' = log => Stack' = Stack
    BY DEF Stack
  <2>2. CASE admin'[b].phase \notin Holding
    BY <2>2 DEF Holding, AdminPhase
  <2>3. CASE AdminStep(b)
    BY <2>1, <2>3, OwnReads
  <2>4. CASE admin'[b] = admin[b] /\ log' = log
    BY <1>0, <2>1, <2>4 DEF ActionsFit, ProductionReadsStayCurrent
  <2> QED BY <1>0, <2>2, <2>3, <2>4, NobodyElse
<1> QED BY <1>0, <1>1 DEF ReadsInv, ActionsFit, ProductionReadsStayCurrent

(* Initially nobody is past the lock. *)
LEMMA InitReadsInv == Init => ReadsInv
BY InitType DEF Init, ReadsInv, LockOwnership, ActionsFit, ProductionReadsStayCurrent, IdleAdmin, Holding

(***************************************************************************)
(* For any number of admins, the baseline a promotion was checked against  *)
(* and the champion a rollback is about to remove are still what           *)
(* production runs when the request commits: the lock around the whole     *)
(* read-check-write closes the race of lifecycle.py:129-132.               *)
(***************************************************************************)
THEOREM ReadsStayCurrent == Spec => []ProductionReadsStayCurrent
<1>1. ReadsInv => ProductionReadsStayCurrent
  BY DEF ReadsInv
<1> QED BY <1>1, InitReadsInv, NextReadsInv, PTL DEF Spec

-----------------------------------------------------------------------------
(* The status cache *)

\* A session's view misses no status that claims to be in production.
Fresh(seen) == \A g \in Genomes : status[g] \in InProduction => seen[g] = status[g]

(***************************************************************************)
(* What a session has loaded for its production change is stale at most    *)
(* where an operator has since overwritten a status, and operators claim   *)
(* no production.  A planned rollback has loaded the stack.                *)
(***************************************************************************)
LoadedFresh ==
  \A a \in Admins, g \in Genomes :
    \/ admin[a].phase = "reconciling"
    \/ admin[a].phase = "planned" /\ Occurs(g, Stack)
    => /\ status[g] \in InProduction => admin[a].seen[g] = status[g]
       /\ admin[a].seen[g] = "PROMOTED" => IsChampion(g, Stack)

\* The genome of a promotion does not claim to be in production already.
CandidateUnclaimed ==
  \A a \in Admins :
    /\ admin[a].phase \in {"unpromoted", "approved", "canaried", "validated"} =>
         status[admin[a].genome] # "PROMOTED"
    /\ admin[a].phase = "reconciling" /\ admin[a].action = "promote" =>
         admin[a].seen[admin[a].genome] # "PROMOTED"

CacheInv == ReadsInv /\ CacheNeverOverstates /\ LoadedFresh /\ CandidateUnclaimed

(* A production change adds its event, and only its genome can leave the stack. *)
LEMMA RecordedStack ==
  ASSUME TypeOK, NEW a \in Admins, CommitEvent(a)
  PROVE  LET e == [action |-> admin[a].action, genome |-> admin[a].genome] IN
         /\ e \in Event
         /\ log' = Append(log, e)
         /\ Stack' = ReplayEvent(Stack, e)
         /\ Stack \in Seq(Genomes) /\ Distinct(Stack)
         /\ \A g \in Genomes : Occurs(g, Stack) /\ ~ Occurs(g, Stack') => g = e.genome
         /\ \A g \in Genomes : Occurs(g, Stack') => Occurs(g, Stack) \/ g = e.genome
<1> DEFINE e == [action |-> admin[a].action, genome |-> admin[a].genome]
           rest == Without(Stack, e.genome)
<1>1. e \in Event /\ e.genome \in Genomes /\ e.action = admin[a].action
  BY DEF TypeOK, AdminRequest, Event
<1>2. log' = Append(log, e)
  BY DEF CommitEvent
<1>3. Stack' = ReplayEvent(Stack, e)
  BY <1>1, <1>2, AppendedEvent DEF Stack, TypeOK
<1>4. Stack \in Seq(Genomes) /\ Distinct(Stack)
  BY StackDistinct DEF Stack, TypeOK
<1>5. /\ rest \in Seq(Genomes)
      /\ \A g \in Genomes : Occurs(g, rest) <=> g # e.genome /\ Occurs(g, Stack)
  BY <1>1, <1>4, WithoutProperties
<1>6. Stack' = rest \/ Stack' = Append(rest, e.genome)
  BY <1>3 DEF ReplayEvent
<1> HIDE DEF rest, e
<1>7. \A g \in Genomes : Occurs(g, Append(rest, e.genome)) <=> Occurs(g, rest) \/ g = e.genome
  <2> TAKE g \in Genomes
  <2> DEFINE more == Append(rest, e.genome)
  <2>1. /\ Len(rest) \in Nat /\ Len(more) = Len(rest) + 1
        /\ \A k \in 1..Len(rest) : more[k] = rest[k]
        /\ more[Len(rest) + 1] = e.genome
    BY <1>1, <1>5
  <2> HIDE DEF more
  <2>2. Occurs(g, rest) => Occurs(g, more)
    BY <2>1 DEF Occurs
  <2>3. g = e.genome => Occurs(g, more)
    <3>1. Len(rest) + 1 \in 1..Len(more)
      BY <2>1
    <3> QED BY <2>1, <3>1 DEF Occurs
  <2>4. Occurs(g, more) => Occurs(g, rest) \/ g = e.genome
    <3> SUFFICES ASSUME NEW k \in 1..Len(more), more[k] = g
                 PROVE  Occurs(g, rest) \/ g = e.genome
      BY DEF Occurs
    <3>1. CASE k = Len(rest) + 1
      BY <2>1, <3>1
    <3>2. CASE k # Len(rest) + 1
      <4>1. k \in 1..Len(rest)
        BY <2>1, <3>2
      <4> QED BY <2>1, <4>1 DEF Occurs
    <3> QED BY <3>1, <3>2
  <2> QED BY <2>2, <2>3, <2>4 DEF more
<1> QED BY <1>1, <1>2, <1>3, <1>4, <1>5, <1>6, <1>7 DEF e

(* The champion is on the stack. *)
LEMMA ChampionOccurs ==
  ASSUME NEW stack \in Seq(Genomes), NEW g, IsChampion(g, stack)
  PROVE  Occurs(g, stack)
BY DEF IsChampion, Occurs

(***************************************************************************)
(* A production change whose session misses no claim leaves no genome      *)
(* claiming more than its place in the new stack.                          *)
(***************************************************************************)
LEMMA RecordedCache ==
  ASSUME TypeOK, CacheNeverOverstates, NEW a \in Admins, Fresh(admin[a].seen), CommitEvent(a)
  PROVE  CacheNeverOverstates'
<1> DEFINE e == [action |-> admin[a].action, genome |-> admin[a].genome]
           seen == admin[a].seen
           wanted == Reconciled(log', seen)
<1>1. /\ log' = Append(log, e) /\ e \in Event
      /\ \A g \in Genomes : Occurs(g, Stack) /\ ~ Occurs(g, Stack') => g = e.genome
  BY RecordedStack
<1>2. status' = [g \in Genomes |-> IF wanted[g] = seen[g] THEN status[g] ELSE wanted[g]]
  BY DEF CommitEvent
<1>3. log \in Seq(Event) /\ status \in [Genomes -> Status]
  BY DEF TypeOK
<1>4. Stack \in Seq(Genomes) /\ Stack' \in Seq(Genomes)
  <2>1. Append(log, e) \in Seq(Event)
    BY <1>1, <1>3
  <2> QED BY <1>1, <1>3, <2>1, StackDistinct DEF Stack
<1>5. \E i \in 1..Len(log') : log'[i].genome = e.genome
  <2>1. Len(log') \in 1..Len(log') /\ log'[Len(log')] = e
    BY <1>1, <1>3
  <2> QED BY <2>1
<1> HIDE DEF e
<1> SUFFICES ASSUME NEW g \in Genomes
             PROVE  /\ status'[g] = "PROMOTED" => IsChampion(g, Stack')
                    /\ status'[g] = "SUPERSEDED" => Occurs(g, Stack') /\ ~ IsChampion(g, Stack')
  BY DEF CacheNeverOverstates
<1>6. /\ wanted[g] = IF IsChampion(g, Stack') THEN "PROMOTED"
                     ELSE IF Occurs(g, Stack') THEN "SUPERSEDED"
                     ELSE IF /\ \E i \in 1..Len(log') : log'[i].genome = g
                             /\ seen[g] \in InProduction
                          THEN "ROLLED_BACK"
                     ELSE seen[g]
      /\ status'[g] = IF wanted[g] = seen[g] THEN status[g] ELSE wanted[g]
  BY <1>2 DEF Reconciled, Stack, InProduction
<1> HIDE DEF wanted
<1>7. status[g] \in InProduction => seen[g] = status[g]
  BY DEF Fresh
<1>8. CASE IsChampion(g, Stack')
  BY <1>6, <1>7, <1>8 DEF InProduction
<1>9. CASE ~ IsChampion(g, Stack') /\ Occurs(g, Stack')
  BY <1>6, <1>7, <1>9 DEF InProduction
<1>10. CASE ~ IsChampion(g, Stack') /\ ~ Occurs(g, Stack')
  <2>1. status[g] \in InProduction => \E i \in 1..Len(log') : log'[i].genome = g
    <3>1. status[g] \in InProduction => Occurs(g, Stack)
      BY <1>4, ChampionOccurs DEF CacheNeverOverstates, InProduction
    <3>2. status[g] \in InProduction => g = e.genome
      BY <1>1, <1>10, <3>1
    <3> QED BY <1>5, <3>2
  <2> QED BY <1>6, <1>7, <1>10, <2>1 DEF InProduction
<1> QED BY <1>8, <1>9, <1>10

(* The statuses a production change works from miss no claim. *)
LEMMA ReconcilesFresh ==
  ASSUME LoadedFresh, NEW a \in Admins, admin[a].phase = "reconciling"
  PROVE  Fresh(admin[a].seen)
BY DEF LoadedFresh, Fresh

(* An admin step either records an event or leaves the log and the statuses alone. *)
LEMMA AdminStepWrites ==
  ASSUME NEW a \in Admins, AdminStep(a)
  PROVE  CommitEvent(a) \/ UNCHANGED <<log, status>>
BY DEF AdminStep, AcquireLock, CheckNotPromoted, CheckApproved, CheckCanary, CheckBaseline,
       ReadChampion, Reconcile, ReleaseLock, Require

(* No step makes the cache claim more than the log. *)
LEMMA NextCache ==
  ASSUME CacheInv, [Next]_vars
  PROVE  CacheNeverOverstates'
<1>0. TypeOK /\ CacheNeverOverstates /\ LoadedFresh
  BY DEF CacheInv, ReadsInv
<1>1. CASE UNCHANGED <<log, status>>
  BY <1>0, <1>1 DEF CacheNeverOverstates, Stack
<1>2. ASSUME NEW a \in Admins, AdminStep(a) PROVE CacheNeverOverstates'
  <2>1. CASE CommitEvent(a)
    <3>1. admin[a].phase = "reconciling"
      BY <2>1 DEF CommitEvent
    <3> QED BY <1>0, <2>1, <3>1, ReconcilesFresh, RecordedCache
  <2> QED BY <1>1, <1>2, <2>1, AdminStepWrites
<1>3. ASSUME NEW o \in Operators, OperatorStep(o) PROVE CacheNeverOverstates'
  <2>1. Stack' = Stack
    BY <1>3, OperatorFrame DEF Stack
  <2>2. \A g \in Genomes : status'[g] \in InProduction => status'[g] = status[g]
    BY <1>0, <1>3, OperatorsClaimNothing
  <2> QED BY <1>0, <2>1, <2>2 DEF CacheNeverOverstates, InProduction
<1>4. ASSUME NEW a \in Admins,
             \/ \E g \in Genomes : RequestPromotion(a, g)
             \/ RequestRollback(a)
             \/ AdminCrash(a)
      PROVE  CacheNeverOverstates'
  BY <1>1, <1>4 DEF RequestPromotion, RequestRollback, AdminCrash
<1>5. CASE UNCHANGED vars
  BY <1>1, <1>5 DEF vars
<1> QED BY <1>2, <1>3, <1>4, <1>5, NextCases

(* What a session loads is what the cache says then, and it writes nothing. *)
LEMMA OwnLoad ==
  ASSUME CacheInv, NEW a \in Admins, AdminStep(a), NEW g \in Genomes,
         \/ admin'[a].phase = "reconciling"
         \/ admin'[a].phase = "planned" /\ Occurs(g, Stack)
  PROVE  /\ UNCHANGED <<log, status>>
         /\ status[g] \in InProduction => admin'[a].seen[g] = status[g]
         /\ admin'[a].seen[g] = "PROMOTED" => IsChampion(g, Stack)
<1>0. /\ TypeOK /\ admin[a] \in AdminRequest /\ a \in DOMAIN admin
      /\ CacheNeverOverstates /\ LoadedFresh
      /\ admin[a].phase = "validated" => admin[a].action = "promote"
  BY DEF CacheInv, ReadsInv, TypeOK, ActionsFit
<1>1. CASE ReadChampion(a)
  <2>1. admin'[a].phase = "planned" =>
          /\ admin'[a].seen = [h \in Genomes |-> IF Occurs(h, Stack) THEN status[h] ELSE "GENERATED"]
          /\ UNCHANGED <<log, status>>
    BY <1>0, <1>1 DEF ReadChampion, AdminRequest
  <2>2. admin'[a].phase \in {"planned", "leaving"}
    BY <1>0, <1>1 DEF ReadChampion, AdminRequest
  <2> QED BY <1>0, <2>1, <2>2 DEF CacheNeverOverstates
<1>2. CASE Reconcile(a)
  <2>1. /\ UNCHANGED <<log, status>>
        /\ admin'[a].seen[g] = IF admin[a].action = "rollback" /\ Occurs(g, Stack)
                               THEN admin[a].seen[g] ELSE status[g]
    BY <1>0, <1>2 DEF Reconcile, AdminRequest
  <2>2. CASE admin[a].action = "rollback" /\ Occurs(g, Stack)
    <3>1. admin[a].phase = "planned"
      BY <1>0, <1>2, <2>2 DEF Reconcile
    <3> QED BY <1>0, <2>1, <2>2, <3>1 DEF LoadedFresh
  <2>3. CASE ~ (admin[a].action = "rollback" /\ Occurs(g, Stack))
    BY <1>0, <2>1, <2>3 DEF CacheNeverOverstates
  <2> QED BY <2>2, <2>3
<1>3. CASE CheckBaseline(a)
  BY <1>0, <1>3 DEF CheckBaseline, AdminRequest
<1>4. CASE ReleaseLock(a)
  BY <1>0, <1>4 DEF ReleaseLock, IdleAdmin
<1>5. CASE \/ AcquireLock(a) \/ CheckNotPromoted(a) \/ CheckApproved(a) \/ CheckCanary(a)
           \/ CommitEvent(a)
  <2>1. PICK phase \in {"locked", "unpromoted", "approved", "canaried", "leaving"} : AdminMove(a, phase)
    BY <1>5 DEF AcquireLock, CheckNotPromoted, CheckApproved, CheckCanary, Require, CommitEvent
  <2> QED BY <1>0, <2>1, Moved
<1> QED BY <1>1, <1>2, <1>3, <1>4, <1>5 DEF AdminStep

(* No step makes what a session has loaded miss a claim. *)
LEMMA NextLoadedFresh ==
  ASSUME CacheInv, [Next]_vars
  PROVE  LoadedFresh'
<1>0. TypeOK /\ LockOwnership /\ LoadedFresh
  BY DEF CacheInv, ReadsInv
<1> SUFFICES ASSUME NEW b \in Admins, NEW g \in Genomes,
                    \/ admin'[b].phase = "reconciling"
                    \/ admin'[b].phase = "planned" /\ Occurs(g, Stack')
             PROVE  /\ status'[g] \in InProduction => admin'[b].seen[g] = status'[g]
                    /\ admin'[b].seen[g] = "PROMOTED" => IsChampion(g, Stack')
  BY DEF LoadedFresh
<1>1. CASE AdminStep(b)
  <2>1. CASE CommitEvent(b)
    <3>1. admin'[b].phase = "leaving"
      BY <1>0, <2>1, Moved DEF CommitEvent
    <3> QED BY <3>1
  <2>2. CASE UNCHANGED <<log, status>>
    <3>1. Stack' = Stack
      BY <2>2 DEF Stack
    <3> QED BY <1>1, <2>2, <3>1, OwnLoad
  <2> QED BY <1>1, <2>1, <2>2, AdminStepWrites
<1>2. CASE /\ admin'[b] = admin[b] /\ log' = log
           /\ status'[g] \in InProduction => status'[g] = status[g]
  <2>1. Stack' = Stack
    BY <1>2 DEF Stack
  <2> QED BY <1>0, <1>2, <2>1 DEF LoadedFresh
<1>3. admin'[b].phase \in Holding
  BY DEF Holding, AdminPhase
<1> QED BY <1>0, <1>1, <1>2, <1>3, NobodyElse

(* A promotion goes on only with a genome that is not shown as promoted. *)
LEMMA OwnCandidate ==
  ASSUME CacheInv, NEW a \in Admins, AdminStep(a)
  PROVE  /\ admin'[a].phase \in {"unpromoted", "approved", "canaried", "validated"} =>
              UNCHANGED status /\ status[admin'[a].genome] # "PROMOTED"
         /\ admin'[a].phase = "reconciling" /\ admin'[a].action = "promote" =>
              admin'[a].seen[admin'[a].genome] # "PROMOTED"
<1>0. /\ TypeOK /\ admin[a] \in AdminRequest /\ a \in DOMAIN admin /\ admin[a].genome \in Genomes
      /\ admin[a].phase \in {"unpromoted", "approved", "canaried", "validated"} =>
           status[admin[a].genome] # "PROMOTED"
      /\ admin[a].phase = "planned" => admin[a].action = "rollback"
  BY DEF CacheInv, ReadsInv, TypeOK, AdminRequest, ActionsFit, CandidateUnclaimed
<1>1. CASE CheckNotPromoted(a) \/ CheckApproved(a) \/ CheckCanary(a)
  <2>1. PICK phase \in {"unpromoted", "approved", "canaried", "leaving"} :
          /\ AdminMove(a, phase) /\ UNCHANGED status
          /\ phase # "leaving" => status[admin[a].genome] # "PROMOTED"
    BY <1>0, <1>1 DEF CheckNotPromoted, CheckApproved, CheckCanary, Require
  <2> QED BY <1>0, <2>1, Moved
<1>2. CASE CheckBaseline(a)
  <2>1. /\ admin'[a].genome = admin[a].genome /\ UNCHANGED status
        /\ admin'[a].phase \in {"validated", "leaving"}
    BY <1>0, <1>2 DEF CheckBaseline, AdminRequest
  <2>2. admin[a].phase = "canaried"
    BY <1>2 DEF CheckBaseline
  <2> QED BY <1>0, <2>1, <2>2
<1>3. CASE ReadChampion(a)
  <2>1. admin'[a].phase \in {"planned", "leaving"}
    BY <1>0, <1>3 DEF ReadChampion, AdminRequest
  <2> QED BY <2>1
<1>4. CASE Reconcile(a)
  <2>1. /\ admin'[a].phase = "reconciling"
        /\ admin'[a].action = admin[a].action
        /\ admin'[a].genome = admin[a].genome
        /\ admin[a].action = "promote" => admin'[a].seen[admin[a].genome] = status[admin[a].genome]
    BY <1>0, <1>4 DEF Reconcile, AdminRequest
  <2>2. admin[a].phase \in {"validated", "planned"}
    BY <1>4 DEF Reconcile
  <2> QED BY <1>0, <2>1, <2>2
<1>5. CASE ReleaseLock(a)
  BY <1>0, <1>5 DEF ReleaseLock, IdleAdmin
<1>6. CASE AcquireLock(a) \/ CommitEvent(a)
  <2>1. AdminMove(a, "locked") \/ AdminMove(a, "leaving")
    BY <1>6 DEF AcquireLock, CommitEvent
  <2> QED BY <1>0, <2>1, Moved
<1> QED BY <1>1, <1>2, <1>3, <1>4, <1>5, <1>6 DEF AdminStep

(* No step makes the genome of a promotion claim production while it is checked. *)
LEMMA NextCandidateUnclaimed ==
  ASSUME CacheInv, [Next]_vars
  PROVE  CandidateUnclaimed'
<1>0. TypeOK /\ LockOwnership /\ CandidateUnclaimed
  BY DEF CacheInv, ReadsInv
<1>1. ASSUME NEW b \in Admins
      PROVE  /\ admin'[b].phase \in {"unpromoted", "approved", "canaried", "validated"} =>
                  status'[admin'[b].genome] # "PROMOTED"
             /\ admin'[b].phase = "reconciling" /\ admin'[b].action = "promote" =>
                  admin'[b].seen[admin'[b].genome] # "PROMOTED"
  <2>1. CASE admin'[b].phase \notin Holding
    BY <2>1 DEF Holding, AdminPhase
  <2>2. CASE AdminStep(b)
    BY <2>2, OwnCandidate
  <2>3. CASE /\ admin'[b] = admin[b]
             /\ \A g \in Genomes : status'[g] \in InProduction => status'[g] = status[g]
    <3>1. admin[b].genome \in Genomes
      BY <1>0 DEF TypeOK, AdminRequest
    <3> QED BY <1>0, <2>3, <3>1 DEF CandidateUnclaimed, InProduction
  <2> QED BY <1>0, <2>1, <2>2, <2>3, NobodyElse
<1> QED BY <1>1 DEF CandidateUnclaimed

(* CacheInv holds initially. *)
LEMMA InitCacheInv == Init => CacheInv
<1> SUFFICES ASSUME Init PROVE CacheInv
  OBVIOUS
<1>1. CacheNeverOverstates
  BY DEF Init, CacheNeverOverstates
<1>2. LoadedFresh
  BY DEF Init, LoadedFresh, IdleAdmin
<1>3. CandidateUnclaimed
  BY DEF Init, CandidateUnclaimed, IdleAdmin
<1> QED BY <1>1, <1>2, <1>3, InitReadsInv DEF CacheInv

(* CacheInv is inductive. *)
LEMMA NextCacheInv == CacheInv /\ [Next]_vars => CacheInv'
BY NextReadsInv, NextCache, NextLoadedFresh, NextCandidateUnclaimed DEF CacheInv

(***************************************************************************)
(* Whatever the operators' unlocked writes race with, a genome shown as    *)
(* PROMOTED is the champion, and one shown as SUPERSEDED is restorable:    *)
(* the cache of system_genomes.status errs only by showing too little.     *)
(***************************************************************************)
THEOREM CacheSound == Spec => []CacheNeverOverstates
<1>1. CacheInv => CacheNeverOverstates
  BY DEF CacheInv
<1> QED BY <1>1, InitCacheInv, NextCacheInv, PTL DEF Spec

(* Whoever changes the log commits a production change. *)
LEMMA LogWriters ==
  ASSUME [Next]_vars, log' # log
  PROVE  \E a \in Admins : CommitEvent(a)
<1>1. ASSUME NEW a \in Admins,
             \/ \E g \in Genomes : RequestPromotion(a, g)
             \/ RequestRollback(a)
             \/ AdminCrash(a)
      PROVE  FALSE
  BY <1>1 DEF RequestPromotion, RequestRollback, AdminCrash
<1>2. ASSUME NEW o \in Operators, OperatorStep(o) PROVE FALSE
  BY <1>2, OperatorFrame
<1>3. ~ UNCHANGED vars
  BY DEF vars
<1> QED BY <1>1, <1>2, <1>3, NextCases, AdminStepWrites

(* The champion after a change was not taken for it before, so its status is written. *)
LEMMA NewChampionUnseen ==
  ASSUME CacheInv, NEW a \in Admins, CommitEvent(a), NEW g \in Genomes, IsChampion(g, Stack')
  PROVE  admin[a].seen[g] # "PROMOTED"
<1> DEFINE top == admin[a].genome
           e == [action |-> admin[a].action, genome |-> top]
<1>0. /\ TypeOK /\ ReadsInv /\ LoadedFresh /\ CandidateUnclaimed /\ top \in Genomes
      /\ admin[a].action \in {"promote", "rollback"} /\ admin[a].phase = "reconciling"
  BY DEF CacheInv, ReadsInv, TypeOK, AdminRequest, CommitEvent
<1>1. /\ e \in Event /\ Stack' = ReplayEvent(Stack, e)
      /\ Stack \in Seq(Genomes) /\ Distinct(Stack)
  BY <1>0, RecordedStack
<1>2. CASE admin[a].action = "promote"
  <2>1. e.action = "promote" /\ e.genome = top
    BY <1>2
  <2>2. IsChampion(top, Stack')
    <3> HIDE DEF e, top
    <3> QED BY <1>1, <2>1, ReplayEventProperties
  <2>3. g = top
    BY <2>2 DEF IsChampion
  <2> QED BY <1>0, <1>2, <2>3 DEF CandidateUnclaimed
<1>3. CASE admin[a].action = "rollback"
  <2>1. IsChampion(top, Stack)
    BY <1>0, <1>3 DEF ReadsInv, ProductionReadsStayCurrent
  <2>2. Stack' = Without(Stack, top)
    BY <1>1, <1>3 DEF ReplayEvent
  <2>3. /\ Without(Stack, top) \in Seq(Genomes)
        /\ ~ Occurs(top, Without(Stack, top))
    <3> HIDE DEF top, e
    <3> QED BY <1>0, <1>1, WithoutProperties
  <2>4. g # top
    <3> HIDE DEF top
    <3> QED BY <2>2, <2>3, ChampionOccurs
  <2>5. ~ IsChampion(g, Stack)
    BY <2>1, <2>4 DEF IsChampion
  <2> QED BY <1>0, <2>5 DEF LoadedFresh
<1> QED BY <1>0, <1>2, <1>3

(***************************************************************************)
(* A production change repairs the cache whatever it finds in it: exactly  *)
(* the champion is left PROMOTED, and every genome that no operator wrote  *)
(* since the change's session loaded it is shown as restorable exactly if  *)
(* a rollback can restore it (reconcile_production_statuses).              *)
(***************************************************************************)
THEOREM ChangesRepair == Spec => ChangesRepairCache
<1>1. ASSUME CacheInv, NEW a \in Admins, CommitEvent(a)
      PROVE  /\ ChampionShown'
             /\ \A g \in Genomes : status[g] = admin[a].seen[g] => ShownRestorable(g)'
  <2> DEFINE seen == admin[a].seen
             wanted == Reconciled(log', seen)
  <2>0. TypeOK /\ CacheNeverOverstates /\ admin[a].phase = "reconciling" /\ LoadedFresh
    BY <1>1 DEF CacheInv, ReadsInv, CommitEvent
  <2>1. CacheNeverOverstates'
    BY <1>1, <2>0, ReconcilesFresh, RecordedCache
  <2>2. status' = [g \in Genomes |-> IF wanted[g] = seen[g] THEN status[g] ELSE wanted[g]]
    BY <1>1 DEF CommitEvent
  <2>3. ASSUME NEW g \in Genomes
        PROVE  /\ IsChampion(g, Stack') => wanted[g] = "PROMOTED"
               /\ Occurs(g, Stack') /\ ~ IsChampion(g, Stack') => wanted[g] = "SUPERSEDED"
    BY DEF Reconciled, Stack
  <2> HIDE DEF wanted
  <2>4. ASSUME NEW g \in Genomes, IsChampion(g, Stack') PROVE status'[g] = "PROMOTED"
    BY <1>1, <2>2, <2>3, <2>4, NewChampionUnseen
  <2>5. ASSUME NEW g \in Genomes, status[g] = seen[g], Occurs(g, Stack'), ~ IsChampion(g, Stack')
        PROVE  status'[g] = "SUPERSEDED"
    BY <2>2, <2>3, <2>5
  <2> QED BY <2>1, <2>4, <2>5 DEF ChampionShown, ShownRestorable, CacheNeverOverstates
<1>2. CacheInv /\ [Next]_vars =>
        [\A a \in Admins : CommitEvent(a) =>
           /\ ChampionShown'
           /\ \A g \in Genomes : status[g] = admin[a].seen[g] => ShownRestorable(g)']_vars
  BY <1>1
<1> QED BY <1>2, InitCacheInv, NextCacheInv, PTL DEF Spec, ChangesRepairCache

-----------------------------------------------------------------------------
(* The pipeline implements the champion history *)

\* What a promotion has checked of its evidence stays on record.
EvidenceOnRecord ==
  \A a \in Admins :
    LET checked == admin[a].phase = "reconciling" /\ admin[a].action = "promote"
    IN  /\ admin[a].phase \in {"approved", "canaried", "validated"} \/ checked =>
             admin[a].genome \in Approved
        /\ admin[a].phase = "validated" \/ checked =>
             <<admin[a].genome, admin[a].base>> \in Measured

HistoryInv == ReadsInv /\ EvidenceOnRecord

(* The evidence of a new decision is added to what is on record, and nothing else. *)
LEMMA RecordedDecision ==
  ASSUME TypeOK, NEW d \in Decision, decisions' = Append(decisions, d)
  PROVE  /\ Approved' = IF d.approved THEN Approved \cup {d.genome} ELSE Approved
         /\ Measured' = Measured \cup {<<d.genome, d.base>>}
<1> DEFINE n == Len(decisions)
<1>1. /\ n \in Nat /\ Len(decisions') = n + 1
      /\ \A i \in 1..n : decisions'[i] = decisions[i]
      /\ decisions'[n + 1] = d
  BY DEF TypeOK
<1>2. 1..Len(decisions') = 1..n \cup {n + 1}
  BY <1>1
<1>3. Measured' = {<<decisions'[i].genome, decisions'[i].base>> : i \in 1..n} \cup {<<d.genome, d.base>>}
  <2>1. Measured' = {<<decisions'[i].genome, decisions'[i].base>> : i \in 1..n \cup {n + 1}}
    BY <1>2 DEF Measured
  <2> HIDE DEF n
  <2> QED BY <1>1, <2>1
<1>4. {<<decisions'[i].genome, decisions'[i].base>> : i \in 1..n} = Measured
  BY <1>1 DEF Measured
<1> DEFINE Rows == {j \in 1..n : decisions[j].approved}
           Rows2 == {j \in 1..Len(decisions') : decisions'[j].approved}
<1>5. Rows2 = IF d.approved THEN Rows \cup {n + 1} ELSE Rows
  BY <1>1, <1>2
<1>6. \A i \in Rows : decisions'[i].genome = decisions[i].genome
  BY <1>1
<1>7. Approved = {decisions[i].genome : i \in Rows} /\ Approved' = {decisions'[i].genome : i \in Rows2}
  BY DEF Approved
<1>8. Approved' = IF d.approved THEN Approved \cup {d.genome} ELSE Approved
  <2> HIDE DEF Rows, Rows2, n
  <2>1. CASE d.approved
    <3>1. Approved' = {decisions'[i].genome : i \in Rows} \cup {decisions'[n + 1].genome}
      BY <1>5, <1>7, <2>1
    <3>2. {decisions'[i].genome : i \in Rows} = Approved
      BY <1>6, <1>7
    <3> QED BY <1>1, <2>1, <3>1, <3>2
  <2>2. CASE ~ d.approved
    BY <1>5, <1>6, <1>7, <2>2
  <2> QED BY <2>1, <2>2
<1> QED BY <1>3, <1>4, <1>8

(* No step but a committed review writes a decision. *)
LEMMA DecisionWriters ==
  ASSUME TypeOK, [Next]_vars
  PROVE  \/ decisions' = decisions
         \/ \E o \in Operators, d \in Decision :
              /\ CommitReview(o)
              /\ decisions' = Append(decisions, d)
<1>1. ASSUME NEW a \in Admins,
             \/ \E g \in Genomes : RequestPromotion(a, g)
             \/ RequestRollback(a)
             \/ AdminCrash(a)
      PROVE  decisions' = decisions
  BY <1>1 DEF RequestPromotion, RequestRollback, AdminCrash
<1>2. ASSUME NEW a \in Admins, AdminStep(a) PROVE decisions' = decisions
  BY <1>2 DEF AdminStep, AcquireLock, CheckNotPromoted, CheckApproved, CheckCanary, CheckBaseline,
              ReadChampion, Reconcile, CommitEvent, ReleaseLock, Require
<1>3. ASSUME NEW o \in Operators, OperatorStep(o), ~ CommitReview(o) PROVE decisions' = decisions
  BY <1>3 DEF OperatorStep, Review, RunCanary, OperatorReads, CommitCanary, OperatorCrash
<1>4. ASSUME NEW o \in Operators, CommitReview(o)
      PROVE  \E d \in Decision : decisions' = Append(decisions, d)
  <2> DEFINE r == operator[o]
             d == [genome |-> r.genome, base |-> r.base, approved |-> r.good]
  <2>1. d \in Decision
    BY DEF TypeOK, OperatorRequest, Decision
  <2>2. decisions' = Append(decisions, d)
    BY <1>4 DEF CommitReview
  <2> QED BY <2>1, <2>2
<1>5. UNCHANGED vars => decisions' = decisions
  BY DEF vars
<1> QED BY <1>1, <1>2, <1>3, <1>4, <1>5, NextCases

(* Decisions are never removed, so evidence once on record stays there. *)
LEMMA EvidenceGrows ==
  ASSUME TypeOK, [Next]_vars
  PROVE  Approved \subseteq Approved' /\ Measured \subseteq Measured'
<1>1. CASE decisions' = decisions
  BY <1>1 DEF Approved, Measured
<1>2. CASE \E d \in Decision : decisions' = Append(decisions, d)
  BY <1>2, RecordedDecision
<1> QED BY <1>1, <1>2, DecisionWriters

(* The latest decision of a reviewed genome is evidence on record. *)
LEMMA LatestDecisionOnRecord ==
  ASSUME TypeOK, NEW g \in Genomes, Reviewed(g)
  PROVE  /\ LatestDecision(g).approved => g \in Approved
         /\ <<g, LatestDecision(g).base>> \in Measured
BY LatestDecisionExists DEF Approved, Measured

(* An approved genome has been reviewed. *)
LEMMA ApprovedReviewed ==
  ASSUME NEW g, g \in Approved
  PROVE  Reviewed(g)
BY DEF Approved, Reviewed

(* What an admin's own step has checked of the evidence is on record when it checks. *)
LEMMA OwnEvidence ==
  ASSUME HistoryInv, NEW a \in Admins, AdminStep(a)
  PROVE  LET checked == admin'[a].phase = "reconciling" /\ admin'[a].action = "promote"
         IN  /\ admin'[a].phase \in {"approved", "canaried", "validated"} \/ checked =>
                  admin'[a].genome \in Approved
             /\ admin'[a].phase = "validated" \/ checked =>
                  <<admin'[a].genome, admin'[a].base>> \in Measured
<1>0. /\ TypeOK /\ admin[a] \in AdminRequest /\ a \in DOMAIN admin /\ admin[a].genome \in Genomes
      /\ admin[a].phase = "planned" => admin[a].action = "rollback"
  BY DEF HistoryInv, ReadsInv, TypeOK, AdminRequest, ActionsFit
<1>e. /\ admin[a].phase \in {"approved", "canaried", "validated"} => admin[a].genome \in Approved
      /\ admin[a].phase = "validated" => <<admin[a].genome, admin[a].base>> \in Measured
  BY DEF HistoryInv, EvidenceOnRecord
<1>1. CASE CheckApproved(a)
  <2> DEFINE g == admin[a].genome
             ok == (Reviewed(g) /\ LatestDecision(g).approved)
  <2>1. AdminMove(a, IF ok THEN "approved" ELSE "leaving")
    BY <1>1 DEF CheckApproved, Require
  <2>2. ok => g \in Approved
    BY <1>0, LatestDecisionOnRecord
  <2> HIDE DEF ok
  <2> QED BY <1>0, <2>1, <2>2, Moved
<1>2. CASE CheckCanary(a)
  <2>1. PICK phase \in {"canaried", "leaving"} : AdminMove(a, phase)
    BY <1>2 DEF CheckCanary, Require
  <2>2. admin[a].phase = "approved"
    BY <1>2 DEF CheckCanary, Require
  <2> QED BY <1>0, <1>e, <2>1, <2>2, Moved
<1>3. CASE CheckBaseline(a)
  <2> DEFINE g == admin[a].genome
             b == LatestDecision(g).base
  <2>1. g \in Approved
    BY <1>3, <1>e DEF CheckBaseline
  <2>2. <<g, b>> \in Measured
    BY <1>0, <2>1, ApprovedReviewed, LatestDecisionOnRecord
  <2>3. \/ admin' = [admin EXCEPT ![a].phase = "validated", ![a].base = b]
        \/ admin' = [admin EXCEPT ![a].phase = "leaving"]
    BY <1>3 DEF CheckBaseline
  <2> HIDE DEF b
  <2>4. /\ admin'[a].genome = g
        /\ \/ admin'[a].phase = "leaving"
           \/ admin'[a].phase = "validated" /\ admin'[a].base = b
    BY <1>0, <2>3 DEF AdminRequest
  <2> QED BY <2>1, <2>2, <2>4
<1>4. CASE ReadChampion(a)
  <2>1. admin'[a].phase \in {"leaving", "planned"}
    BY <1>0, <1>4 DEF ReadChampion, AdminRequest
  <2> QED BY <2>1
<1>5. CASE ReleaseLock(a)
  BY <1>0, <1>5 DEF ReleaseLock, IdleAdmin
<1>6. CASE AcquireLock(a) \/ CheckNotPromoted(a) \/ CommitEvent(a)
  <2>1. PICK phase \in {"locked", "unpromoted", "leaving"} : AdminMove(a, phase)
    BY <1>6 DEF AcquireLock, CheckNotPromoted, Require, CommitEvent
  <2> QED BY <1>0, <2>1, Moved
<1>7. CASE Reconcile(a)
  <2>1. /\ admin'[a].phase = "reconciling"
        /\ admin'[a].action = admin[a].action
        /\ admin'[a].genome = admin[a].genome
        /\ admin'[a].base = admin[a].base
    BY <1>0, <1>7 DEF Reconcile, AdminRequest
  <2>2. admin[a].phase \in {"validated", "planned"}
    BY <1>7 DEF Reconcile
  <2> QED BY <1>0, <1>e, <2>1, <2>2
<1> QED BY <1>1, <1>2, <1>3, <1>4, <1>5, <1>6, <1>7 DEF AdminStep

(* Every step keeps what promotions have checked on record. *)
LEMMA NextHistoryInv == HistoryInv /\ [Next]_vars => HistoryInv'
<1> SUFFICES ASSUME HistoryInv, [Next]_vars PROVE HistoryInv'
  OBVIOUS
<1>0. TypeOK /\ LockOwnership /\ EvidenceOnRecord /\ ReadsInv'
  BY NextReadsInv DEF HistoryInv, ReadsInv
<1>e. Approved \subseteq Approved' /\ Measured \subseteq Measured'
  BY <1>0, EvidenceGrows
<1>1. ASSUME NEW b \in Admins
      PROVE  LET checked == admin'[b].phase = "reconciling" /\ admin'[b].action = "promote"
             IN  /\ admin'[b].phase \in {"approved", "canaried", "validated"} \/ checked =>
                      admin'[b].genome \in Approved'
                 /\ admin'[b].phase = "validated" \/ checked =>
                      <<admin'[b].genome, admin'[b].base>> \in Measured'
  <2>1. CASE admin'[b].phase \notin Holding
    BY <2>1 DEF Holding, AdminPhase
  <2>2. CASE AdminStep(b)
    BY <1>e, <2>2, OwnEvidence
  <2>3. CASE admin'[b] = admin[b]
    BY <1>0, <1>e, <2>3 DEF EvidenceOnRecord
  <2> QED BY <1>0, <2>1, <2>2, <2>3, NobodyElse
<1> QED BY <1>0, <1>1 DEF HistoryInv, EvidenceOnRecord

(* Removing the champion removes the last position and nothing else. *)
LEMMA WithoutChampion ==
  ASSUME NEW stack \in Seq(Genomes), Distinct(stack), NEW g, IsChampion(g, stack)
  PROVE  Without(stack, g) = SubSeq(stack, 1, Len(stack) - 1)
<1> DEFINE n == Len(stack)
           k == CHOOSE i \in 1..n : stack[i] = g
<1>1. n \in Nat /\ n >= 1 /\ n \in 1..n /\ stack[n] = g
  BY DEF IsChampion
<1>2. k \in 1..n /\ stack[k] = g
  BY <1>1
<1>3. k = n
  BY <1>1, <1>2 DEF Distinct
<1>4. Without(stack, g) = DropAt(stack, n)
  <2>1. Without(stack, g) = DropAt(stack, k)
    BY <1>1 DEF Without, Occurs
  <2> HIDE DEF k
  <2> QED BY <1>3, <2>1
<1>5. DropAt(stack, n) = [i \in 1..(n - 1) |-> stack[i]]
  BY <1>1 DEF DropAt
<1>6. SubSeq(stack, 1, n - 1) = [i \in 1..(n - 1) |-> stack[i]]
  BY <1>1
<1> QED BY <1>4, <1>5, <1>6

(* Initially production, approvals and measurements are empty. *)
LEMMA InitHistory == Init => HistoryInv /\ History!Init
<1> SUFFICES ASSUME Init PROVE HistoryInv /\ History!Init
  OBVIOUS
<1>1. Stack = << >>
  BY EmptyLog DEF Init, Stack
<1>2. Approved = {} /\ Measured = {}
  BY DEF Init, Approved, Measured
<1>3. EvidenceOnRecord
  BY DEF Init, EvidenceOnRecord, IdleAdmin
<1> QED BY <1>1, <1>2, <1>3, InitReadsInv DEF HistoryInv, History!Init

(* Every step of the pipeline is a step of the champion history or a stutter of it. *)
LEMMA NextHistory == HistoryInv /\ [Next]_vars => [History!Next]_(History!vars)
<1> SUFFICES ASSUME HistoryInv, [Next]_vars PROVE [History!Next]_(History!vars)
  OBVIOUS
<1>0. TypeOK /\ ReadsInv /\ EvidenceOnRecord
  BY DEF HistoryInv, ReadsInv
<1>v. UNCHANGED <<Stack, Approved, Measured>> => UNCHANGED History!vars
  BY DEF History!vars
<1>1. CASE log' = log /\ decisions' = decisions
  BY <1>1, <1>v DEF Stack, Approved, Measured
<1>2. ASSUME NEW o \in Operators, NEW d \in Decision, CommitReview(o),
             decisions' = Append(decisions, d)
      PROVE  History!Next
  <2>1. Stack' = Stack
    BY <1>2 DEF CommitReview, Stack
  <2>2. /\ Approved' = IF d.approved THEN Approved \cup {d.genome} ELSE Approved
        /\ Measured' = Measured \cup {<<d.genome, d.base>>}
    BY <1>0, <1>2, RecordedDecision
  <2>3. d.genome \in Genomes /\ d.base \in Genomes /\ d.approved \in BOOLEAN
    BY DEF Decision
  <2>4. History!Review(d.genome, d.base, d.approved)
    BY <2>1, <2>2 DEF History!Review
  <2> QED BY <2>3, <2>4 DEF History!Next
<1>3. ASSUME NEW a \in Admins, CommitEvent(a) PROVE History!Next
  <2> DEFINE g == admin[a].genome
             e == [action |-> admin[a].action, genome |-> g]
  <2>1. /\ admin[a].phase = "reconciling" /\ g \in Genomes
        /\ admin[a].action \in {"promote", "rollback"}
    BY <1>0, <1>3 DEF CommitEvent, TypeOK, AdminRequest
  <2>2. /\ Stack \in Seq(Genomes) /\ Distinct(Stack)
        /\ Stack' = ReplayEvent(Stack, e)
    BY <1>0, <1>3, RecordedStack
  <2>3. Approved' = Approved /\ Measured' = Measured
    BY <1>3 DEF CommitEvent, Approved, Measured
  <2>4. CASE admin[a].action = "promote"
    <3>1. g \in Approved /\ <<g, admin[a].base>> \in Measured
      BY <1>0, <2>1, <2>4 DEF EvidenceOnRecord
    <3>2. admin[a].base = BaselineOf(Stack)
      BY <1>0, <2>1, <2>4 DEF ReadsInv, ProductionReadsStayCurrent
    <3>3. Stack' = Append(Without(Stack, g), g)
      BY <2>2, <2>4 DEF ReplayEvent
    <3>4. History!BaselineOf(Stack) = BaselineOf(Stack)
      BY DEF History!BaselineOf, BaselineOf
    <3>5. History!Without(Stack, g) = Without(Stack, g)
      BY DEF History!Without, Without, History!Occurs, Occurs, History!DropAt, DropAt
    <3>6. History!Promote(g)
      <4> HIDE DEF g
      <4> QED BY <2>3, <3>1, <3>2, <3>3, <3>4, <3>5 DEF History!Promote
    <3> QED BY <2>1, <3>6 DEF History!Next
  <2>5. CASE admin[a].action = "rollback"
    <3>1. IsChampion(g, Stack)
      BY <1>0, <2>1, <2>5 DEF ReadsInv, ProductionReadsStayCurrent
    <3>2. Stack' = Without(Stack, g)
      BY <2>2, <2>5 DEF ReplayEvent
    <3>3. Without(Stack, g) = SubSeq(Stack, 1, Len(Stack) - 1)
      <4> HIDE DEF g
      <4> QED BY <2>2, <3>1, WithoutChampion
    <3>4. Stack # << >>
      BY <3>1 DEF IsChampion
    <3>5. History!Rollback
      <4> HIDE DEF g
      <4> QED BY <2>3, <3>2, <3>3, <3>4 DEF History!Rollback
    <3> QED BY <3>5 DEF History!Next
  <2> QED BY <2>1, <2>4, <2>5
<1>5. log' # log => \E a \in Admins : CommitEvent(a)
  BY LogWriters
<1>6. \/ decisions' = decisions
      \/ \E o \in Operators, d \in Decision : CommitReview(o) /\ decisions' = Append(decisions, d)
  BY <1>0, DecisionWriters
<1> QED BY <1>1, <1>2, <1>3, <1>5, <1>6

(***************************************************************************)
(* The pipeline, with any number of concurrent requests that may die at    *)
(* any step, implements the champion history: production only ever changes *)
(* by pushing a genome that was approved and that was measured against the *)
(* very champion it replaces, or by popping the champion.                  *)
(***************************************************************************)
THEOREM Implementation == Spec => ImplementsHistory
<1>1. Spec => []HistoryInv /\ [][Next]_vars
  BY InitHistory, NextHistoryInv, PTL DEF Spec
<1>2. HistoryInv /\ [Next]_vars => [History!Next]_(History!vars)
  BY NextHistory
<1>3. Init => History!Init
  BY InitHistory
<1> QED BY <1>1, <1>2, <1>3, PTL DEF Spec, ImplementsHistory, History!Spec
=============================================================================

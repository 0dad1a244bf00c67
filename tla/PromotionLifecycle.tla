------------------------- MODULE PromotionLifecycle -------------------------
(***************************************************************************)
(* The promotion pipeline of one application, with its callers running     *)
(* concurrently: operators review candidates and run canaries, admins      *)
(* promote and roll back.  Each caller is one API request or CLI command   *)
(* with a database session of its own.                                     *)
(*                                                                         *)
(* An admin takes the production lock, opens its session, makes one query  *)
(* per step, commits and releases the lock.  An operator takes no lock: it *)
(* reads the genome's status, and writes it with its verdict at commit.    *)
(* Queries see what is committed when they run (SQLite in autocommit,      *)
(* Postgres READ COMMITTED), and a crash or a database error at any step   *)
(* rolls the session back and gives the lock back to the kernel.  On       *)
(* SQLite an operator's commit cannot fall between the statuses that       *)
(* reconcile reads and the commit that writes them: the approval flushed   *)
(* before holds the database's write lock.  On Postgres it can.            *)
(***************************************************************************)
EXTENDS ProductionLog

CONSTANTS Comparisons,         \* <<candidate, baseline>> of the experiments there are to review
          Admins, Operators,   \* concurrent callers of each kind
          Nobody,              \* the value of an unheld lock
          MaxEvents,           \* bound: no production change starts beyond this log length
          MaxDecisions         \* bound: no review starts beyond this many decisions

ASSUME ComparisonsAssumption == Comparisons \subseteq Genomes \X Genomes
ASSUME CallersAssumption == Nobody \notin Admins

VARIABLES log,         \* promotion_approvals: every promotion and rollback
          status,      \* system_genomes.status, the cache of the log the UI reads
          decisions,   \* promotion_decisions, in insertion order
          canary,      \* outcome of each genome's latest canary_runs row
          lock,        \* holder of the application's production flock
          admin,       \* the request each admin has in flight
          operator     \* the request each operator has in flight

vars == <<log, status, decisions, canary, lock, admin, operator>>

Status == {"GENERATED", "APPROVED", "REJECTED", "CANARY",
           "PROMOTED", "SUPERSEDED", "ROLLED_BACK"}

Decision == [genome : Genomes, base : Genomes, approved : BOOLEAN]

AdminPhase == {"idle", "waiting", "locked", "unpromoted", "approved",
               "canaried", "validated", "planned", "reconciling", "leaving"}

AdminRequest == [phase : AdminPhase, action : {"promote", "rollback"},
                 genome : Genomes, base : Genomes,
                 seen : [Genomes -> Status]]    \* the statuses its session has loaded

OperatorRequest == [phase : {"idle", "reviewing", "canarying"}, genome : Genomes,
                    base : Genomes, good : BOOLEAN, seen : Status]

IdleAdmin == [phase |-> "idle", action |-> "promote", genome |-> Original, base |-> Original,
              seen |-> [g \in Genomes |-> "GENERATED"]]

IdleOperator == [phase |-> "idle", genome |-> Original, base |-> Original,
                 good |-> FALSE, seen |-> "GENERATED"]

\* The types: the log names genomes and admins, the phases are those of the requests above.
TypeOK ==
  /\ log \in Seq(Event)
  /\ status \in [Genomes -> Status]
  /\ decisions \in Seq(Decision)
  /\ canary \in [Genomes -> {"none", "passed", "rolled_back"}]
  /\ lock \in Admins \cup {Nobody}
  /\ admin \in [Admins -> AdminRequest]
  /\ operator \in [Operators -> OperatorRequest]

Init ==
  /\ log = << >>
  /\ status = [g \in Genomes |-> "GENERATED"]
  /\ decisions = << >>
  /\ canary = [g \in Genomes |-> "none"]
  /\ lock = Nobody
  /\ admin = [a \in Admins |-> IdleAdmin]
  /\ operator = [o \in Operators |-> IdleOperator]

-----------------------------------------------------------------------------
(* Queries *)

Stack == ProductionStack(log)

Reviewed(g) == \E i \in 1..Len(decisions) : decisions[i].genome = g

\* latest_promotion_decision: the row with the highest id.  Only read when one exists.
LatestDecision(g) ==
  decisions[CHOOSE i \in 1..Len(decisions) :
              /\ decisions[i].genome = g
              /\ \A j \in 1..Len(decisions) : decisions[j].genome = g => j <= i]

\* Faulty: marks the champion and forgets the genome it replaces.
ReconciledWithoutSuperseding(events, seen) ==
  [g \in Genomes |->
     IF IsChampion(g, ProductionStack(events)) THEN "PROMOTED" ELSE seen[g]]

\* Faulty: updates the genome of the event and forgets the one a rollback restores.
ReconciledWithoutRestoring(events, seen) ==
  [g \in Genomes |->
     IF g # events[Len(events)].genome
     THEN IF seen[g] = "PROMOTED" THEN "SUPERSEDED" ELSE seen[g]
     ELSE IF IsChampion(g, ProductionStack(events)) THEN "PROMOTED" ELSE "ROLLED_BACK"]

(***************************************************************************)
(* reconcile_production_statuses, from the statuses its session sees: the  *)
(* champion is PROMOTED, the rest of the stack SUPERSEDED; a genome out of *)
(* production is only corrected if it still claims to be in it.            *)
(***************************************************************************)
Reconciled(events, seen) ==
  LET stack == ProductionStack(events)
  IN  [g \in Genomes |->
         IF IsChampion(g, stack) THEN "PROMOTED"
         ELSE IF Occurs(g, stack) THEN "SUPERSEDED"
         ELSE IF /\ \E i \in 1..Len(events) : events[i].genome = g
                 /\ seen[g] \in {"PROMOTED", "SUPERSEDED"}
              THEN "ROLLED_BACK"
         ELSE seen[g]]

(***************************************************************************)
(* _advance_status, as it reaches the database: the ORM writes the column  *)
(* only if the new value differs from the one the session loaded.          *)
(***************************************************************************)
Advanced(g, seen, new, onlyFrom) ==
  IF seen \in onlyFrom \ {"PROMOTED", new}
  THEN [status EXCEPT ![g] = new]
  ELSE status

-----------------------------------------------------------------------------
(* Admins: promote_to_production and rollback_production under production_lock *)

AdminMove(a, phase) == admin' = [admin EXCEPT ![a].phase = phase]

RequestPromotion(a, g) ==
  /\ admin[a].phase = "idle"
  /\ admin' = [admin EXCEPT ![a] = [IdleAdmin EXCEPT !.phase = "waiting", !.genome = g]]
  /\ UNCHANGED <<log, status, decisions, canary, lock, operator>>

RequestRollback(a) ==
  /\ admin[a].phase = "idle"
  /\ admin' = [admin EXCEPT ![a] = [IdleAdmin EXCEPT !.phase = "waiting", !.action = "rollback"]]
  /\ UNCHANGED <<log, status, decisions, canary, lock, operator>>

\* Faulty: goes on without waiting for the lock.
AcquireLockWithoutWaiting(a) ==
  /\ admin[a].phase = "waiting"
  /\ Len(log) < MaxEvents
  /\ lock' = a
  /\ AdminMove(a, "locked")
  /\ UNCHANGED <<log, status, decisions, canary, operator>>

\* fcntl.flock(LOCK_EX): blocks while another request of this application holds it.
AcquireLock(a) ==
  /\ admin[a].phase = "waiting"
  /\ lock = Nobody
  /\ Len(log) < MaxEvents
  /\ lock' = a
  /\ AdminMove(a, "locked")
  /\ UNCHANGED <<log, status, decisions, canary, operator>>

\* Faulty: an error path that does not release the lock.
RequireLeakingLock(a, from, to, condition) ==
  /\ admin[a].phase = from
  /\ AdminMove(a, IF condition THEN to ELSE "idle")
  /\ UNCHANGED <<log, status, decisions, canary, lock, operator>>

\* One precondition of promote_to_production: go on, or raise and leave.
Require(a, from, to, condition) ==
  /\ admin[a].phase = from
  /\ AdminMove(a, IF condition THEN to ELSE "leaving")
  /\ UNCHANGED <<log, status, decisions, canary, lock, operator>>

CheckNotPromoted(a) ==
  /\ admin[a].action = "promote"
  /\ Require(a, "locked", "unpromoted", status[admin[a].genome] # "PROMOTED")

CheckApproved(a) ==
  LET g == admin[a].genome
  IN  Require(a, "unpromoted", "approved", Reviewed(g) /\ LatestDecision(g).approved)

CheckCanary(a) ==
  Require(a, "approved", "canaried", canary[admin[a].genome] = "passed")

\* Faulty: trusts the approval without asking what it was measured against.
CheckBaselineSkipped(a) ==
  /\ admin[a].phase = "canaried"
  /\ admin' = [admin EXCEPT ![a].phase = "validated", ![a].base = BaselineOf(Stack)]
  /\ UNCHANGED <<log, status, decisions, canary, lock, operator>>

(***************************************************************************)
(* ensure_validated_against_production: queries the latest decision again, *)
(* for the baseline of its experiment, and replays the champion.  Every    *)
(* decision has an experiment and experiments are never deleted, so the    *)
(* `validated is None' escape is not reachable from here.                  *)
(***************************************************************************)
CheckBaseline(a) ==
  /\ admin[a].phase = "canaried"
  /\ LET validated == LatestDecision(admin[a].genome).base
     IN  admin' = IF validated = BaselineOf(Stack)
                  THEN [admin EXCEPT ![a].phase = "validated", ![a].base = validated]
                  ELSE [admin EXCEPT ![a].phase = "leaving"]
  /\ UNCHANGED <<log, status, decisions, canary, lock, operator>>

(***************************************************************************)
(* rollback_production reads the stack; NothingInProduction if it is       *)
(* empty.  It keeps the list, so every genome record on it stays in the    *)
(* session's identity map with the status it has now, and the queries that *)
(* reconcile makes later do not refresh it.                                *)
(***************************************************************************)
ReadChampion(a) ==
  /\ admin[a].phase = "locked"
  /\ admin[a].action = "rollback"
  /\ admin' = IF Stack = << >>
              THEN [admin EXCEPT ![a].phase = "leaving"]
              ELSE [admin EXCEPT ![a].phase = "planned", ![a].genome = Stack[Len(Stack)],
                                 ![a].seen = [g \in Genomes |-> IF Occurs(g, Stack)
                                                                THEN status[g] ELSE "GENERATED"]]
  /\ UNCHANGED <<log, status, decisions, canary, lock, operator>>

(***************************************************************************)
(* save_promotion_approval flushes the new event, and reconcile loads the  *)
(* genomes in the log: those of a rollback's stack are in its session      *)
(* already, a promotion keeps no genome record but its own and the         *)
(* champion's, which both change anyway.                                   *)
(***************************************************************************)
Reconcile(a) ==
  /\ admin[a].phase \in {"validated", "planned"}
  /\ admin' = [admin EXCEPT ![a].phase = "reconciling",
                            ![a].seen = [g \in Genomes |->
                                           IF admin[a].action = "rollback" /\ Occurs(g, Stack)
                                           THEN admin[a].seen[g] ELSE status[g]]]
  /\ UNCHANGED <<log, status, decisions, canary, lock, operator>>

(***************************************************************************)
(* The session commits.  As everywhere, the ORM writes a status only where *)
(* the wanted one differs from the one the session has loaded.             *)
(***************************************************************************)
CommitEvent(a) ==
  LET seen == admin[a].seen
      events == Append(log, [action |-> admin[a].action, genome |-> admin[a].genome])
      wanted == Reconciled(events, seen)
  IN  /\ admin[a].phase = "reconciling"
      /\ log' = events
      /\ status' = [g \in Genomes |-> IF wanted[g] = seen[g] THEN status[g] ELSE wanted[g]]
      /\ AdminMove(a, "leaving")
      /\ UNCHANGED <<decisions, canary, lock, operator>>

\* The session is closed first, then the lock is released (or the error propagates).
ReleaseLock(a) ==
  /\ admin[a].phase = "leaving"
  /\ lock' = Nobody
  /\ admin' = [admin EXCEPT ![a] = IdleAdmin]
  /\ UNCHANGED <<log, status, decisions, canary, operator>>

\* The process dies, or the database refuses: nothing more is written.
AdminCrash(a) ==
  /\ admin[a].phase # "idle"
  /\ lock' = IF lock = a THEN Nobody ELSE lock
  /\ admin' = [admin EXCEPT ![a] = IdleAdmin]
  /\ UNCHANGED <<log, status, decisions, canary, operator>>

-----------------------------------------------------------------------------
(* Operators: review_promotion and run_canary, each in a session without the lock *)

OperatorReads(o, phase, g, b, good) ==
  /\ operator[o].phase = "idle"
  /\ operator' = [operator EXCEPT ![o] = [phase |-> phase, genome |-> g, base |-> b,
                                          good |-> good, seen |-> status[g]]]
  /\ UNCHANGED <<log, status, decisions, canary, lock, admin>>

(***************************************************************************)
(* A review of g under an experiment that started from b.  An experiment   *)
(* may start from any genome of the application (resolve_baseline), and    *)
(* may relax the gates, so either verdict is possible.                     *)
(***************************************************************************)
Review(o, g, b, good) ==
  /\ <<g, b>> \in Comparisons
  /\ Len(decisions) < MaxDecisions
  /\ OperatorReads(o, "reviewing", g, b, good)

CommitReview(o) ==
  LET r == operator[o]
      kept == {"PROMOTED", "SUPERSEDED"} \cup (IF r.good THEN {"CANARY"} ELSE {})
  IN  /\ r.phase = "reviewing"
      /\ decisions' = Append(decisions, [genome |-> r.genome, base |-> r.base, approved |-> r.good])
      /\ status' = Advanced(r.genome, r.seen, IF r.good THEN "APPROVED" ELSE "REJECTED", Status \ kept)
      /\ operator' = [operator EXCEPT ![o] = IdleOperator]
      /\ UNCHANGED <<log, canary, lock, admin>>

\* The genome the canary compares with is whatever the operator names; nothing reads it later.
RunCanary(o, g, good) ==
  /\ \E b \in Genomes : <<g, b>> \in Comparisons
  /\ OperatorReads(o, "canarying", g, Original, good)

\* Faulty: writes the canary's outcome where its status belongs, in a column that takes any string.
CommitCanaryOutcome(o) ==
  LET r == operator[o]
      outcome == IF r.good THEN "passed" ELSE "rolled_back"
  IN  /\ r.phase = "canarying"
      /\ canary' = [canary EXCEPT ![r.genome] = outcome]
      /\ status' = Advanced(r.genome, r.seen, outcome, {"APPROVED", "CANARY", "ROLLED_BACK"})
      /\ operator' = [operator EXCEPT ![o] = IdleOperator]
      /\ UNCHANGED <<log, decisions, lock, admin>>

CommitCanary(o) ==
  LET r == operator[o]
  IN  /\ r.phase = "canarying"
      /\ canary' = [canary EXCEPT ![r.genome] = IF r.good THEN "passed" ELSE "rolled_back"]
      /\ status' = Advanced(r.genome, r.seen, IF r.good THEN "CANARY" ELSE "ROLLED_BACK",
                            {"APPROVED", "CANARY", "ROLLED_BACK"})
      /\ operator' = [operator EXCEPT ![o] = IdleOperator]
      /\ UNCHANGED <<log, decisions, lock, admin>>

OperatorCrash(o) ==
  /\ operator[o].phase # "idle"
  /\ operator' = [operator EXCEPT ![o] = IdleOperator]
  /\ UNCHANGED <<log, status, decisions, canary, lock, admin>>

-----------------------------------------------------------------------------

AdminStep(a) ==
  \/ AcquireLock(a)
  \/ CheckNotPromoted(a)
  \/ CheckApproved(a)
  \/ CheckCanary(a)
  \/ CheckBaseline(a)
  \/ ReadChampion(a)
  \/ Reconcile(a)
  \/ CommitEvent(a)
  \/ ReleaseLock(a)

Next ==
  \/ \E a \in Admins :
       \/ \E g \in Genomes : RequestPromotion(a, g)
       \/ RequestRollback(a)
       \/ AdminStep(a)
       \/ AdminCrash(a)
  \/ \E o \in Operators :
       \/ \E g, b \in Genomes, good \in BOOLEAN : Review(o, g, b, good)
       \/ \E g \in Genomes, good \in BOOLEAN : RunCanary(o, g, good)
       \/ CommitReview(o)
       \/ CommitCanary(o)
       \/ OperatorCrash(o)

Spec == Init /\ [][Next]_vars

-----------------------------------------------------------------------------
(* Fairness and properties *)

\* A request that holds the lock runs straight-line code with no wait on another request.
FairSpec == Spec /\ \A a \in Admins : WF_vars(AdminStep(a))

(***************************************************************************)
(* What a request read about production under the lock is still true when  *)
(* it commits: the baseline a promotion was checked against is what runs   *)
(* now, and the genome a rollback names is the champion ("always the top", *)
(* lifecycle.py:93).  Without the lock every request reads an empty stack  *)
(* (the five stale promotions of lifecycle.py:132).                        *)
(***************************************************************************)
ProductionReadsStayCurrent ==
  \A a \in Admins :
    admin[a].phase \in {"validated", "planned", "reconciling"} =>
      IF admin[a].action = "promote" THEN admin[a].base = BaselineOf(Stack)
      ELSE IsChampion(admin[a].genome, Stack)

(***************************************************************************)
(* The status cache never overstates production: whatever races with the   *)
(* operators' unlocked writes, a genome shown as PROMOTED is the champion  *)
(* and one shown as SUPERSEDED is restorable by a rollback.                *)
(***************************************************************************)
CacheNeverOverstates ==
  \A g \in Genomes :
    /\ status[g] = "PROMOTED" => IsChampion(g, Stack)
    /\ status[g] = "SUPERSEDED" => Occurs(g, Stack) /\ ~ IsChampion(g, Stack)

ChampionShown == \A g \in Genomes : status[g] = "PROMOTED" <=> IsChampion(g, Stack)

\* A genome is shown as restorable exactly if a rollback can restore it.
ShownRestorable(g) ==
  status[g] = "SUPERSEDED" <=> Occurs(g, Stack) /\ ~ IsChampion(g, Stack)

(***************************************************************************)
(* Whatever stale statuses the operators had written before it, a          *)
(* production change repairs the cache ("repairs a status cache",          *)
(* lifecycle.py:106): it leaves exactly the champion PROMOTED, and shows   *)
(* every genome as restorable that is, but those an operator wrote after   *)
(* its session had loaded them.                                            *)
(***************************************************************************)
ChangesRepairCache ==
  [][\A a \in Admins : CommitEvent(a) =>
       /\ ChampionShown'
       /\ \A g \in Genomes : status[g] = admin[a].seen[g] => ShownRestorable(g)']_vars

\* The evidence on record: genomes ever approved, comparisons ever made.
Approved == {decisions[i].genome : i \in {j \in 1..Len(decisions) : decisions[j].approved}}
Measured == {<<decisions[i].genome, decisions[i].base>> : i \in 1..Len(decisions)}

(***************************************************************************)
(* The whole pipeline implements the champion history: production is a     *)
(* stack changed only by a promotion of a genome that was approved and was *)
(* measured against what it replaces, and by popping the champion.         *)
(***************************************************************************)
History ==
  INSTANCE ChampionHistory WITH stack <- Stack, approved <- Approved, measured <- Measured

ImplementsHistory == History!Spec

(***************************************************************************)
(* A request that takes the production lock gives it back: every refusal,  *)
(* error or crash releases it, so no later change waits forever.           *)
(***************************************************************************)
LockIsReleased == \A a \in Admins : lock = a ~> lock # a

(***************************************************************************)
(* lifecycle.py:234: a promotion requires an approved decision that was    *)
(* measured against what is in production now.                             *)
(***************************************************************************)
PromotedOnApprovedComparison ==
  [][\A a \in Admins : CommitEvent(a) /\ admin[a].action = "promote" =>
       \E i \in 1..Len(decisions) :
         decisions[i] = [genome |-> admin[a].genome, base |-> BaselineOf(Stack), approved |-> TRUE]]_vars
=============================================================================

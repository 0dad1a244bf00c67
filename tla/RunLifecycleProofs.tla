------------------------- MODULE RunLifecycleProofs -------------------------
(***************************************************************************)
(* Proofs about RunLifecycle, for any number of workers, pool threads,     *)
(* callers and clients, and any bounds.                                    *)
(***************************************************************************)
EXTENDS RunLifecycle, SequenceTheorems, TLAPS

-----------------------------------------------------------------------------
(* The inductive invariant *)

\* The run lock is held exactly between Open and the way out of _exclusive.
LockHeld == \A r \in Executors : run[r].phase \in Locked <=> lock = r

\* A status probe that holds the run lock is one request, and it is still there.
ProbeHeld ==
  /\ \A c \in Clients : client[c].phase = "probing" => lock = Prober
  /\ \A c, d \in Clients : client[c].phase = "probing" /\ client[d].phase = "probing" => c = d
  /\ lock = Prober => \E c \in Clients : client[c].phase = "probing"

\* A place in _ACTIVE_RUNS is some thread's that has still to give it back.
PlaceHeld == accepted => \E t \in Threads : run[t].phase \notin {"idle", "sweeping"}

\* A file that is not there holds no generation; all of a file are of its version.
CheckpointIsOneSearch ==
  /\ checkpoint.status = "none" => checkpoint.batches = << >>
  /\ \A i \in 1..Len(checkpoint.batches) : checkpoint.batches[i] = checkpoint.version

Searching == {"searching", "evaluating", "stopping"}

\* A search has in memory what is on disk, and evaluates on the version the file names.
SearchLoaded ==
  \A r \in Executors :
    run[r].phase \in Searching =>
      /\ run[r].batches = checkpoint.batches
      /\ checkpoint.status = "none" \/ run[r].version = checkpoint.version

\* A generation is only evaluated when there is room for it.
RoomLeft == \A r \in Executors : run[r].phase = "evaluating" => Len(run[r].batches) < MaxBatches

SearchSaved == CheckpointIsOneSearch /\ SearchLoaded /\ RoomLeft

RunInv == TypeOK /\ LockHeld /\ ProbeHeld /\ PlaceHeld /\ SearchSaved

-----------------------------------------------------------------------------
(* Lemmas about the data *)

\* What a run may have in memory: a bounded sequence of dataset versions.
LEMMA BatchesAreSequences ==
  ASSUME NEW b
  PROVE  b \in Batches <=> b \in Seq(Versions) /\ Len(b) <= MaxBatches
<1>1. ASSUME b \in Batches PROVE b \in Seq(Versions) /\ Len(b) <= MaxBatches
  <2>1. PICK n \in 0..MaxBatches : b \in [1..n -> Versions]
    BY <1>1 DEF Batches
  <2>2. b \in Seq(Versions) /\ Len(b) = n
    BY <2>1, BoundsAssumption, IsASeq
  <2> QED BY <2>1, <2>2
<1>2. ASSUME b \in Seq(Versions), Len(b) <= MaxBatches PROVE b \in Batches
  <2>1. Len(b) \in 0..MaxBatches /\ b \in [1..Len(b) -> Versions]
    BY <1>2, BoundsAssumption, LenProperties
  <2> QED BY <2>1 DEF Batches
<1> QED BY <1>1, <1>2

\* One more generation fits while there is room for it.
LEMMA AppendBatch ==
  ASSUME NEW b \in Batches, NEW v \in Versions, Len(b) < MaxBatches
  PROVE  Append(b, v) \in Batches
<1>1. b \in Seq(Versions)
  BY BatchesAreSequences
<1>2. Append(b, v) \in Seq(Versions) /\ Len(Append(b, v)) = Len(b) + 1
  BY <1>1, AppendProperties
<1>3. Len(b) + 1 <= MaxBatches
  BY <1>1, BoundsAssumption, LenProperties
<1> QED BY <1>2, <1>3, BatchesAreSequences

\* Generations of one version stay of one version when another of it is added.
LEMMA AppendKeepsVersion ==
  ASSUME NEW b \in Batches, NEW v \in Versions, \A i \in 1..Len(b) : b[i] = v
  PROVE  \A i \in 1..Len(Append(b, v)) : Append(b, v)[i] = v
<1>1. b \in Seq(Versions)
  BY BatchesAreSequences
<1> QED BY <1>1, AppendProperties, LenProperties

\* An executor that only goes to another phase keeps its dataset, its generations and outcome.
LEMMA MovedEffect ==
  ASSUME NEW r \in Executors, NEW phase \in Phase, run \in [Executors -> Run]
  PROVE  /\ Moved(r, phase) \in [Executors -> Run]
         /\ Moved(r, phase)[r] = [run[r] EXCEPT !.phase = phase]
         /\ Moved(r, phase)[r].phase = phase
         /\ \A q \in Executors \ {r} : Moved(r, phase)[q] = run[q]
BY DEF Moved, Run

\* An idle executor is of the types.
LEMMA IdleRunType == IdleRun \in Run /\ IdleRun.phase = "idle"
<1>1. << >> \in Seq(Versions) /\ Len(<< >>) <= MaxBatches
  BY BoundsAssumption, EmptySeq
<1>2. << >> \in Batches
  BY <1>1, BatchesAreSequences
<1>3. 1 \in Versions
  BY BoundsAssumption DEF Versions
<1> QED BY <1>2, <1>3 DEF IdleRun, Run, Phase

\* An executor that starts over is idle.
LEMMA IdleEffect ==
  ASSUME NEW r \in Executors, run \in [Executors -> Run]
  PROVE  /\ [run EXCEPT ![r] = IdleRun] \in [Executors -> Run]
         /\ [run EXCEPT ![r] = IdleRun][r].phase = "idle"
         /\ \A q \in Executors \ {r} : [run EXCEPT ![r] = IdleRun][q] = run[q]
BY IdleRunType

\* The two ways a run comes to its end: idle again, or a pool thread in its own finally.
LEMMA EndedEffect ==
  ASSUME NEW r \in Executors, run \in [Executors -> Run]
  PROVE  /\ Ended(r) \in [Executors -> Run]
         /\ Ended(r)[r].phase = IF r \in Threads THEN "closing" ELSE "idle"
         /\ \A q \in Executors \ {r} : Ended(r)[q] = run[q]
<1>1. CASE r \in Threads
  <2>1. Ended(r) = Moved(r, "closing") /\ "closing" \in Phase
    BY <1>1 DEF Ended, Phase
  <2>2. /\ Moved(r, "closing") \in [Executors -> Run]
        /\ Moved(r, "closing")[r].phase = "closing"
        /\ \A q \in Executors \ {r} : Moved(r, "closing")[q] = run[q]
    BY <2>1, MovedEffect
  <2> QED BY <1>1, <2>1, <2>2
<1>2. CASE r \notin Threads
  <2>1. Ended(r) = [run EXCEPT ![r] = IdleRun]
    BY <1>2 DEF Ended
  <2> QED BY <1>2, <2>1, IdleEffect
<1> QED BY <1>1, <1>2

\* A client request that moves on keeps the types, and leaves the other requests alone.
LEMMA ClientMoveEffect ==
  ASSUME NEW c \in Clients, client \in [Clients -> Client],
         NEW phase \in {"idle", "probing", "reporting", "cancelling", "pushing"},
         NEW seen \in Status, ClientMove(c, phase, seen)
  PROVE  /\ client' \in [Clients -> Client]
         /\ client'[c] = [phase |-> phase, seen |-> seen]
         /\ \A d \in Clients \ {c} : client'[d] = client[d]
BY DEF ClientMove, Client

-----------------------------------------------------------------------------
(* Type correctness *)

\* An experiment that was just created is of the types.
LEMMA InitType == Init => TypeOK
<1> SUFFICES ASSUME Init PROVE TypeOK
  OBVIOUS
<1>1. << >> \in Seq(Versions) /\ Len(<< >>) <= MaxBatches
  BY BoundsAssumption, EmptySeq
<1>2. << >> \in Batches
  BY <1>1, BatchesAreSequences
<1>3. 1 \in Versions
  BY BoundsAssumption DEF Versions
<1>4. checkpoint \in Checkpoint
  BY <1>2, <1>3 DEF Init, Checkpoint
<1>5. run \in [Executors -> Run]
  BY IdleRunType DEF Init
<1>6. client \in [Clients -> Client]
  BY DEF Init, IdleClient, Client, Status
<1>7. queue \in 0..MaxQueue
  BY BoundsAssumption DEF Init
<1> QED BY <1>3, <1>4, <1>5, <1>6, <1>7 DEF Init, TypeOK, Status

\* Every step of an executor keeps the types.
LEMMA ExecutorType ==
  ASSUME TypeOK, RoomLeft, NEW r \in Executors,
         Dequeue(r) \/ CallRun(r) \/ AcceptStart(r) \/ RunStep(r) \/ WorkerCrash(r)
  PROVE  TypeOK'
<1> USE DEF TypeOK
<1>0. run \in [Executors -> Run] /\ run[r] \in Run /\ checkpoint \in Checkpoint
  OBVIOUS
<1>1. ASSUME NEW phase \in Phase, run' = Moved(r, phase) PROVE run' \in [Executors -> Run]
  BY <1>1, MovedEffect
<1>2. ASSUME run' = Ended(r) PROVE run' \in [Executors -> Run]
  BY <1>2, EndedEffect
<1>3. ASSUME run' = [run EXCEPT ![r] = IdleRun] PROVE run' \in [Executors -> Run]
  BY <1>3, IdleEffect
<1>4. CASE Dequeue(r)
  <2>1. queue' \in 0..MaxQueue
    BY <1>4, BoundsAssumption DEF Dequeue
  <2>2. run' \in [Executors -> Run]
    BY <1>1, <1>4 DEF Dequeue, Phase
  <2> QED BY <1>4, <2>1, <2>2 DEF Dequeue
<1>5. CASE CallRun(r)
  BY <1>1, <1>5 DEF CallRun, Phase
<1>6. CASE AcceptStart(r)
  BY <1>1, <1>6 DEF AcceptStart, Phase
<1>7. CASE CheckStart(r)
  BY <1>1, <1>3, <1>7 DEF CheckStart, Phase
<1>8. CASE LoadRun(r)
  <2>1. run' \in [Executors -> Run]
    <3> DEFINE version == IF checkpoint.status = "none" THEN latest ELSE checkpoint.version
    <3>1. version \in Versions
      BY DEF Checkpoint
    <3>2. run' = [run EXCEPT ![r].phase = "loaded", ![r].version = version]
      BY <1>8 DEF LoadRun
    <3> HIDE DEF version
    <3> QED BY <3>1, <3>2 DEF Run, Phase
  <2> QED BY <1>8, <2>1 DEF LoadRun
<1>9. CASE FailSetup(r)
  BY <1>2, <1>9 DEF FailSetup, Status
<1>10. CASE MarkRunning(r)
  BY <1>1, <1>10 DEF MarkRunning, Status, Phase
<1>11. CASE Open(r)
  BY <1>1, <1>11 DEF Open, Phase, Locked
<1>12. CASE Resume(r)
  <2>1. checkpoint' \in Checkpoint
    BY <1>12 DEF Resume, Checkpoint
  <2>2. run' \in [Executors -> Run]
    <3>1. CASE checkpoint.status = "none" \/ checkpoint.version = run[r].version
      BY <1>12, <3>1 DEF Resume, Run, Checkpoint, Phase, Locked
    <3>2. CASE ~ (checkpoint.status = "none" \/ checkpoint.version = run[r].version)
      BY <1>12, <1>1, <3>2 DEF Resume, Phase
    <3> QED BY <3>1, <3>2
  <2>3. lock' \in Executors \cup {Nobody, Prober}
    BY <1>12 DEF Resume
  <2> QED BY <1>12, <2>1, <2>2, <2>3 DEF Resume
<1>13. CASE TakeCancel(r)
  <2>1. run' \in [Executors -> Run]
    BY <1>13 DEF TakeCancel, Stops, Run, Phase, Locked
  <2> QED BY <1>13, <2>1 DEF TakeCancel
<1>14. CASE ReachLimit(r)
  <2>1. run' \in [Executors -> Run]
    BY <1>14 DEF ReachLimit, Stops, Run, Phase, Locked
  <2> QED BY <1>14, <2>1 DEF ReachLimit
<1>15. CASE AskBatch(r)
  BY <1>1, <1>15 DEF AskBatch, Phase, Locked
<1>16. CASE SaveBatch(r)
  <2> DEFINE batches == Append(run[r].batches, run[r].version)
  <2>1. batches \in Batches
    <3>1. run[r].batches \in Batches /\ run[r].version \in Versions
      BY <1>0 DEF Run
    <3>2. Len(run[r].batches) < MaxBatches
      BY <1>16 DEF SaveBatch, RoomLeft
    <3> QED BY <3>1, <3>2, AppendBatch
  <2> HIDE DEF batches
  <2>2. PICK next \in {"searching", "stopping"} :
          run' = [run EXCEPT ![r].phase = next, ![r].batches = batches, ![r].outcome = "completed"]
    BY <1>16 DEF SaveBatch, batches
  <2>3. run' \in [Executors -> Run]
    <3>1. next \in Phase
      BY DEF Phase, Locked
    <3> QED BY <2>1, <2>2, <3>1 DEF Run
  <2>4. checkpoint' \in Checkpoint
    <3>1. checkpoint' = [status |-> "running", version |-> run[r].version, batches |-> batches]
      BY <1>16 DEF SaveBatch, batches
    <3> QED BY <2>1, <3>1 DEF Checkpoint, Run
  <2> QED BY <1>16, <2>3, <2>4 DEF SaveBatch
<1>17. CASE StopSearch(r)
  <2>1. checkpoint' \in Checkpoint
    BY <1>17 DEF StopSearch, Checkpoint, Run
  <2>2. flag' \in BOOLEAN
    BY <1>17 DEF StopSearch
  <2> QED BY <1>1, <1>17, <2>1, <2>2 DEF StopSearch, Phase, Locked
<1>18. CASE Finalize(r)
  BY <1>1, <1>18 DEF Finalize, Phase
<1>19. CASE FailSearch(r)
  BY <1>1, <1>19 DEF FailSearch, Phase
<1>20. CASE MarkFailed(r)
  BY <1>1, <1>20 DEF MarkFailed, Phase, Status
<1>21. CASE ClearFlag(r)
  BY <1>1, <1>2, <1>21 DEF ClearFlag, Phase
<1>22. CASE SaveResult(r)
  BY <1>2, <1>22 DEF SaveResult, Run, Status
<1>23. CASE Discard(r)
  BY <1>1, <1>23 DEF Discard, Phase
<1>24. CASE SweepFlag(r)
  BY <1>3, <1>24 DEF SweepFlag
<1>25. CASE WorkerCrash(r)
  BY <1>3, <1>25 DEF WorkerCrash
<1> QED
  BY <1>4, <1>5, <1>6, <1>7, <1>8, <1>9, <1>10, <1>11, <1>12, <1>13, <1>14, <1>15, <1>16, <1>17,
     <1>18, <1>19, <1>20, <1>21, <1>22, <1>23, <1>24, <1>25 DEF RunStep

\* Every step of a client request keeps the types.
LEMMA ClientType ==
  ASSUME TypeOK, NEW c \in Clients, ClientStep(c)
  PROVE  TypeOK'
<1> USE DEF TypeOK
<1>0. client[c].seen \in Status
  BY DEF Client
<1>1. ASSUME NEW phase \in {"idle", "probing", "reporting", "cancelling", "pushing"},
             NEW seen \in Status, ClientMove(c, phase, seen)
      PROVE  client' \in [Clients -> Client]
  BY <1>1, ClientMoveEffect
<1>2. CASE ProbeLock(c)
  BY <1>1, <1>2 DEF ProbeLock
<1>3. CASE EndProbe(c)
  BY <1>0, <1>1, <1>3 DEF EndProbe
<1>4. CASE ReportDead(c)
  BY <1>1, <1>4 DEF ReportDead, Status
<1>5. CASE CheckCancellable(c)
  BY <1>1, <1>5 DEF CheckCancellable, Status
<1>6. CASE TouchFlag(c)
  BY <1>1, <1>6 DEF TouchFlag, Status
<1>7. CASE MarkQueued(c)
  BY <1>1, <1>7 DEF MarkQueued, Status
<1>8. CASE Push(c)
  <2>1. queue' \in 0..MaxQueue
    BY <1>8, BoundsAssumption DEF Push
  <2>2. client' \in [Clients -> Client]
    BY <1>1, <1>8 DEF Push, Status
  <2> QED BY <1>8, <2>1, <2>2 DEF Push
<1>9. CASE UndoQueued(c)
  BY <1>0, <1>1, <1>9 DEF UndoQueued, Status
<1> QED BY <1>2, <1>3, <1>4, <1>5, <1>6, <1>7, <1>8, <1>9 DEF ClientStep

\* The end of the API process leaves everything it takes with it of its type.
LEMMA ApiDiesType ==
  ASSUME TypeOK, ApiDies
  PROVE  /\ run' \in [Executors -> Run] /\ client' \in [Clients -> Client]
         /\ lock' \in Executors \cup {Nobody, Prober} /\ accepted' \in BOOLEAN
         /\ api' \in {"up", "stopping"}
<1>1. run' \in [Executors -> Run]
  BY IdleRunType DEF ApiDies, TypeOK
<1>2. client' \in [Clients -> Client]
  BY DEF ApiDies, IdleClient, Client, Status
<1> QED BY <1>1, <1>2 DEF ApiDies, TypeOK

\* Every step of the environment keeps the types.
LEMMA EnvironmentType ==
  ASSUME TypeOK, EvolveDataset \/ ApiCrash \/ BeginShutdown \/ EndShutdown
  PROVE  TypeOK'
<1>1. CASE EvolveDataset
  <2>1. latest' \in Versions
    BY <1>1, BoundsAssumption DEF EvolveDataset, TypeOK, Versions
  <2> QED BY <1>1, <2>1 DEF EvolveDataset, TypeOK
<1>2. CASE ApiCrash
  BY <1>2, ApiDiesType DEF ApiCrash, TypeOK
<1>3. CASE BeginShutdown
  BY <1>3 DEF BeginShutdown, TypeOK
<1>4. CASE EndShutdown
  BY <1>4, ApiDiesType DEF EndShutdown, TypeOK
<1> QED BY <1>1, <1>2, <1>3, <1>4

-----------------------------------------------------------------------------
(* The run lock *)

\* A step of one executor leaves the others, and the requests of clients, alone.
LEMMA ExecutorFrame ==
  ASSUME TypeOK, NEW r \in Executors,
         Dequeue(r) \/ CallRun(r) \/ AcceptStart(r) \/ RunStep(r) \/ WorkerCrash(r)
  PROVE  client' = client /\ \A q \in Executors \ {r} : run'[q] = run[q]
<1>1. run \in [Executors -> Run]
  BY DEF TypeOK
<1>2. CASE Dequeue(r) \/ CallRun(r) \/ AcceptStart(r) \/ CheckStart(r) \/ LoadRun(r) \/ FailSetup(r)
             \/ MarkRunning(r) \/ Open(r) \/ WorkerCrash(r)
  BY <1>1, <1>2 DEF Dequeue, CallRun, AcceptStart, CheckStart, LoadRun, FailSetup, MarkRunning, Open,
                    WorkerCrash, Moved, Ended
<1>3. CASE Resume(r) \/ TakeCancel(r) \/ ReachLimit(r) \/ AskBatch(r) \/ SaveBatch(r) \/ StopSearch(r)
  BY <1>1, <1>3 DEF Resume, TakeCancel, ReachLimit, AskBatch, SaveBatch, StopSearch, Moved, Stops
<1>4. CASE Finalize(r) \/ FailSearch(r) \/ MarkFailed(r) \/ ClearFlag(r) \/ SaveResult(r) \/ Discard(r)
             \/ SweepFlag(r)
  BY <1>1, <1>4 DEF Finalize, FailSearch, MarkFailed, ClearFlag, SaveResult, Discard, SweepFlag,
                    Moved, Ended
<1> QED BY <1>2, <1>3, <1>4 DEF RunStep

\* LockHeld only has to be looked at for the executor that moves.
LEMMA LockHeldFrame ==
  ASSUME LockHeld, NEW r \in Executors,
         \A q \in Executors \ {r} : run'[q] = run[q] /\ (lock' = q <=> lock = q),
         run'[r].phase \in Locked <=> lock' = r
  PROVE  LockHeld'
<1> SUFFICES ASSUME NEW q \in Executors PROVE run'[q].phase \in Locked <=> lock' = q
  BY DEF LockHeld
<1> QED BY DEF LockHeld

\* An executor that moves to another phase, and the lock with it, keeps LockHeld.
LEMMA LockHeldMoved ==
  ASSUME TypeOK, LockHeld, NEW r \in Executors, NEW phase \in Phase, run' = Moved(r, phase),
         \/ lock' = lock /\ (phase \in Locked <=> run[r].phase \in Locked)
         \/ lock = Nobody /\ lock' = r /\ phase \in Locked
         \/ run[r].phase \in Locked /\ lock' = Nobody /\ phase \notin Locked
  PROVE  LockHeld'
<1>1. run'[r].phase = phase /\ \A q \in Executors \ {r} : run'[q] = run[q]
  <2>1. run \in [Executors -> Run]
    BY DEF TypeOK
  <2>2. Moved(r, phase)[r].phase = phase
    BY <2>1, MovedEffect
  <2>3. \A q \in Executors \ {r} : Moved(r, phase)[q] = run[q]
    BY <2>1, MovedEffect
  <2> QED BY <2>2, <2>3
<1>2. run[r].phase \in Locked <=> lock = r
  BY DEF LockHeld
<1>3. \A q \in Executors : q # Nobody
  BY ExecutorsAssumption
<1> QED BY <1>1, <1>2, <1>3, LockHeldFrame

\* An executor outside the lock that comes to its end keeps LockHeld.
LEMMA LockHeldEnded ==
  ASSUME TypeOK, LockHeld, NEW r \in Executors, run[r].phase \notin Locked, lock' = lock,
         run' = Ended(r) \/ run' = [run EXCEPT ![r] = IdleRun]
  PROVE  LockHeld'
<1>1. run'[r].phase \in {"closing", "idle"} /\ \A q \in Executors \ {r} : run'[q] = run[q]
  BY EndedEffect, IdleEffect DEF TypeOK
<1>2. run'[r].phase \notin Locked
  BY <1>1 DEF Locked
<1> QED BY <1>1, <1>2, LockHeldFrame DEF LockHeld

\* Every step of an executor keeps the lock with the executor that opened.
LEMMA ExecutorLockHeld ==
  ASSUME TypeOK, LockHeld, NEW r \in Executors,
         Dequeue(r) \/ CallRun(r) \/ AcceptStart(r) \/ RunStep(r) \/ WorkerCrash(r)
  PROVE  LockHeld'
<1>0. /\ run \in [Executors -> Run] /\ run[r] \in Run
      /\ run[r].phase \in Locked <=> lock = r
      /\ \A q \in Executors \ {r} : run'[q] = run[q]
  BY ExecutorFrame DEF TypeOK, LockHeld
<1>1. CASE Dequeue(r)
  BY <1>1, LockHeldMoved DEF Dequeue, Phase, Locked
<1>2. CASE CallRun(r)
  BY <1>2, LockHeldMoved DEF CallRun, Phase, Locked
<1>3. CASE AcceptStart(r)
  BY <1>3, LockHeldMoved DEF AcceptStart, Phase, Locked
<1>4. CASE CheckStart(r)
  BY <1>4, LockHeldMoved, LockHeldEnded DEF CheckStart, Phase, Locked
<1>5. CASE LoadRun(r)
  <2>1. run'[r].phase = "loaded" /\ lock' = lock /\ run[r].phase = "starting"
    BY <1>0, <1>5 DEF LoadRun, Run
  <2> QED BY <1>0, <2>1, LockHeldFrame DEF Locked
<1>6. CASE FailSetup(r)
  BY <1>6, LockHeldEnded DEF FailSetup, Locked
<1>7. CASE MarkRunning(r)
  BY <1>7, LockHeldMoved DEF MarkRunning, Phase, Locked
<1>8. CASE Open(r)
  BY <1>8, LockHeldMoved DEF Open, Phase, Locked
<1>9. CASE Resume(r)
  <2>1. CASE checkpoint.status = "none" \/ checkpoint.version = run[r].version
    <3>1. run'[r].phase = "searching" /\ lock' = lock /\ run[r].phase = "opened"
      BY <1>0, <1>9, <2>1 DEF Resume, Run
    <3> QED BY <1>0, <3>1, LockHeldFrame DEF Locked
  <2>2. CASE ~ (checkpoint.status = "none" \/ checkpoint.version = run[r].version)
    BY <1>9, <2>2, LockHeldMoved DEF Resume, Phase, Locked
  <2> QED BY <2>1, <2>2
<1>10. CASE TakeCancel(r) \/ ReachLimit(r)
  <2>1. run'[r].phase = "stopping" /\ lock' = lock /\ run[r].phase = "searching"
    BY <1>0, <1>10 DEF TakeCancel, ReachLimit, Stops, Run
  <2> QED BY <1>0, <2>1, LockHeldFrame DEF Locked
<1>11. CASE AskBatch(r)
  BY <1>11, LockHeldMoved DEF AskBatch, Phase, Locked
<1>12. CASE SaveBatch(r)
  <2>1. run'[r].phase \in {"searching", "stopping"} /\ lock' = lock /\ run[r].phase = "evaluating"
    BY <1>0, <1>12 DEF SaveBatch, Run
  <2> QED BY <1>0, <2>1, LockHeldFrame DEF Locked
<1>13. CASE StopSearch(r)
  BY <1>13, LockHeldMoved DEF StopSearch, Phase, Locked
<1>14. CASE Finalize(r)
  BY <1>14, LockHeldMoved DEF Finalize, Phase, Locked
<1>15. CASE FailSearch(r)
  BY <1>15, LockHeldMoved DEF FailSearch, Phase, Locked
<1>16. CASE MarkFailed(r)
  BY <1>16, LockHeldMoved DEF MarkFailed, Phase, Locked
<1>17. CASE ClearFlag(r)
  BY <1>17, LockHeldMoved, LockHeldEnded DEF ClearFlag, Phase, Locked
<1>18. CASE SaveResult(r)
  BY <1>18, LockHeldEnded DEF SaveResult, Locked
<1>19. CASE Discard(r)
  BY <1>19, LockHeldMoved DEF Discard, Phase, Locked
<1>20. CASE SweepFlag(r)
  BY <1>20, LockHeldEnded DEF SweepFlag, Locked
<1>21. CASE WorkerCrash(r)
  <2>1. run'[r].phase = "idle" /\ \A q \in Executors \ {r} : q # Nobody
    BY <1>0, <1>21, IdleEffect, ExecutorsAssumption DEF WorkerCrash
  <2>2. lock' # r /\ \A q \in Executors \ {r} : lock' = q <=> lock = q
    BY <1>21, <2>1, ExecutorsAssumption DEF WorkerCrash
  <2> QED BY <1>0, <2>1, <2>2, LockHeldFrame DEF Locked
<1> QED
  BY <1>1, <1>2, <1>3, <1>4, <1>5, <1>6, <1>7, <1>8, <1>9, <1>10, <1>11, <1>12, <1>13, <1>14, <1>15,
     <1>16, <1>17, <1>18, <1>19, <1>20, <1>21 DEF RunStep

\* A request takes the lock when nobody has it, and gives back only what it took.
LEMMA ClientLockHeld ==
  ASSUME LockHeld, ProbeHeld, NEW c \in Clients, ClientStep(c)
  PROVE  LockHeld'
<1>1. run' = run
  BY DEF ClientStep, ProbeLock, EndProbe, ReportDead, CheckCancellable, TouchFlag, MarkQueued, Push,
         UndoQueued
<1>2. lock' = lock \/ {lock, lock'} \subseteq {Nobody, Prober}
  BY DEF ClientStep, ProbeLock, EndProbe, ReportDead, CheckCancellable, TouchFlag, MarkQueued, Push,
         UndoQueued, ProbeHeld
<1>3. \A r \in Executors : lock' = r <=> lock = r
  BY <1>2, ExecutorsAssumption
<1> QED BY <1>1, <1>3 DEF LockHeld

\* The end of the API process drops the lock with the executor or request that held it.
LEMMA EnvironmentLockHeld ==
  ASSUME LockHeld, EvolveDataset \/ ApiCrash \/ BeginShutdown \/ EndShutdown
  PROVE  LockHeld'
<1>1. CASE ApiDies
  <2> SUFFICES ASSUME NEW r \in Executors PROVE run'[r].phase \in Locked <=> lock' = r
    BY DEF LockHeld
  <2>1. r # Nobody /\ r # Prober
    BY ExecutorsAssumption
  <2>2. CASE r \in Workers
    <3>1. r \notin Threads \cup Callers
      BY <2>2, ExecutorsAssumption
    <3> QED BY <1>1, <2>1, <2>2, <3>1 DEF ApiDies, LockHeld
  <2>3. CASE r \notin Workers
    <3>1. r \in Threads \cup Callers
      BY <2>3 DEF Executors
    <3>2. run'[r].phase \notin Locked
      BY <1>1, <2>3, IdleRunType DEF ApiDies, Locked
    <3> QED BY <1>1, <2>1, <3>1, <3>2 DEF ApiDies
  <2> QED BY <2>2, <2>3
<1>2. CASE EvolveDataset \/ BeginShutdown
  BY <1>2 DEF EvolveDataset, BeginShutdown, LockHeld
<1> QED BY <1>1, <1>2 DEF ApiCrash, EndShutdown

-----------------------------------------------------------------------------
(* The status probe *)

\* No executor takes the lock from a probe, or leaves it to one.
LEMMA ExecutorProbeHeld ==
  ASSUME TypeOK, LockHeld, ProbeHeld, NEW r \in Executors,
         Dequeue(r) \/ CallRun(r) \/ AcceptStart(r) \/ RunStep(r) \/ WorkerCrash(r)
  PROVE  ProbeHeld'
<1>1. client' = client
  BY ExecutorFrame
<1>2. run[r].phase \in Locked <=> lock = r
  BY DEF LockHeld
<1>3. r # Nobody /\ r # Prober /\ Nobody # Prober
  BY ExecutorsAssumption
<1>4. lock' = Prober <=> lock = Prober
  <2>1. CASE Open(r) \/ WorkerCrash(r)
    BY <1>3, <2>1 DEF Open, WorkerCrash
  <2>2. CASE Resume(r) \/ Finalize(r) \/ FailSearch(r)
    <3>1. lock = r
      BY <1>2, <2>2 DEF Resume, Finalize, FailSearch, Locked
    <3>2. lock' \in {lock, Nobody}
      BY <2>2 DEF Resume, Finalize, FailSearch
    <3> QED BY <1>3, <3>1, <3>2
  <2>3. CASE ~ (Open(r) \/ WorkerCrash(r) \/ Resume(r) \/ Finalize(r) \/ FailSearch(r))
    BY <2>3 DEF RunStep, Dequeue, CallRun, AcceptStart, CheckStart, LoadRun, FailSetup, MarkRunning,
                TakeCancel, ReachLimit, AskBatch, SaveBatch, StopSearch, MarkFailed, ClearFlag,
                SaveResult, Discard, SweepFlag
  <2> QED BY <2>1, <2>2, <2>3
<1> QED BY <1>1, <1>4 DEF ProbeHeld

\* One request probes at a time.
LEMMA ClientProbeHeld ==
  ASSUME TypeOK, ProbeHeld, NEW c \in Clients, ClientStep(c)
  PROVE  ProbeHeld'
<1>0. client \in [Clients -> Client] /\ client[c].seen \in Status /\ row \in Status
  BY DEF TypeOK, Client
<1>1. CASE ProbeLock(c)
  <2>1. client'[c].phase = "probing" /\ \A d \in Clients \ {c} : client'[d] = client[d]
    BY <1>0, <1>1 DEF ProbeLock, ClientMove
  <2>2. \A d \in Clients : client[d].phase # "probing"
    BY <1>1, ExecutorsAssumption DEF ProbeLock, ProbeHeld
  <2>3. lock' = Prober
    BY <1>1 DEF ProbeLock
  <2> QED BY <2>1, <2>2, <2>3 DEF ProbeHeld
<1>2. CASE EndProbe(c)
  <2>1. client'[c].phase = "reporting" /\ \A d \in Clients \ {c} : client'[d] = client[d]
    BY <1>0, <1>2 DEF EndProbe, ClientMove
  <2>2. \A d \in Clients : client'[d].phase # "probing"
    BY <1>2, <2>1 DEF EndProbe, ProbeHeld
  <2>3. lock' # Prober
    BY <1>2, ExecutorsAssumption DEF EndProbe
  <2> QED BY <2>2, <2>3 DEF ProbeHeld
<1>3. CASE ~ (ProbeLock(c) \/ EndProbe(c))
  <2>1. lock' = lock /\ client[c].phase # "probing"
    BY <1>3 DEF ClientStep, ReportDead, CheckCancellable, TouchFlag, MarkQueued, Push, UndoQueued
  <2>2. \E phase \in {"idle", "cancelling", "pushing"}, seen \in Status : ClientMove(c, phase, seen)
    BY <1>0, <1>3 DEF ClientStep, ReportDead, CheckCancellable, TouchFlag, MarkQueued, Push, UndoQueued,
                      Status
  <2>3. client'[c].phase # "probing" /\ \A d \in Clients \ {c} : client'[d] = client[d]
    BY <1>0, <2>2 DEF ClientMove
  <2>4. \A d \in Clients : client'[d].phase = "probing" <=> client[d].phase = "probing"
    BY <2>1, <2>3
  <2> QED BY <2>1, <2>4 DEF ProbeHeld
<1> QED BY <1>1, <1>2, <1>3

\* A probe does not outlive the API process it runs in.
LEMMA EnvironmentProbeHeld ==
  ASSUME ProbeHeld, EvolveDataset \/ ApiCrash \/ BeginShutdown \/ EndShutdown
  PROVE  ProbeHeld'
<1>1. CASE ApiDies
  <2>1. lock' # Prober
    BY <1>1, ExecutorsAssumption DEF ApiDies
  <2>2. \A c \in Clients : client'[c].phase # "probing"
    BY <1>1 DEF ApiDies, IdleClient
  <2> QED BY <2>1, <2>2 DEF ProbeHeld
<1>2. CASE EvolveDataset \/ BeginShutdown
  BY <1>2 DEF EvolveDataset, BeginShutdown, ProbeHeld
<1> QED BY <1>1, <1>2 DEF ApiCrash, EndShutdown

-----------------------------------------------------------------------------
(* The place in _ACTIVE_RUNS *)

\* A pool thread goes idle, or to its last sweep, only when it has given its place back.
LEMMA ThreadKeepsPlace ==
  ASSUME TypeOK, NEW r \in Threads, accepted',
         AcceptStart(r) \/ RunStep(r)
  PROVE  run'[r].phase \in {"idle", "sweeping"} => accepted /\ run[r].phase = "sweeping"
<1>0. run \in [Executors -> Run] /\ r \in Executors /\ run[r] \in Run
  BY DEF TypeOK, Executors
<1>1. CASE AcceptStart(r) \/ CheckStart(r) \/ FailSetup(r) \/ MarkRunning(r) \/ Open(r)
  BY <1>0, <1>1 DEF AcceptStart, CheckStart, FailSetup, MarkRunning, Open, Moved, Ended, Run
<1>2. CASE LoadRun(r) \/ TakeCancel(r) \/ ReachLimit(r) \/ AskBatch(r) \/ StopSearch(r)
  BY <1>0, <1>2 DEF LoadRun, TakeCancel, ReachLimit, AskBatch, StopSearch, Stops, Moved, Run
<1>3. CASE Resume(r) \/ SaveBatch(r)
  BY <1>0, <1>3 DEF Resume, SaveBatch, Moved, Run
<1>4. CASE Finalize(r) \/ FailSearch(r) \/ MarkFailed(r) \/ ClearFlag(r) \/ SaveResult(r) \/ Discard(r)
             \/ SweepFlag(r)
  BY <1>0, <1>4 DEF Finalize, FailSearch, MarkFailed, ClearFlag, SaveResult, Discard, SweepFlag, Moved,
                    Ended, Run
<1> QED BY <1>1, <1>2, <1>3, <1>4 DEF RunStep

\* Every step of an executor leaves an occupied place with a thread that will give it back.
LEMMA ExecutorPlaceHeld ==
  ASSUME TypeOK, PlaceHeld, NEW r \in Executors,
         Dequeue(r) \/ CallRun(r) \/ AcceptStart(r) \/ RunStep(r) \/ WorkerCrash(r)
  PROVE  PlaceHeld'
<1> SUFFICES ASSUME accepted' PROVE \E t \in Threads : run'[t].phase \notin {"idle", "sweeping"}
  BY DEF PlaceHeld
<1>1. \A q \in Executors \ {r} : run'[q] = run[q]
  BY ExecutorFrame
<1>2. Threads \subseteq Executors
  BY DEF Executors
<1>3. CASE r \in Threads
  <2>1. AcceptStart(r) \/ RunStep(r)
    BY <1>3, ExecutorsAssumption DEF Dequeue, CallRun, WorkerCrash
  <2>2. CASE run'[r].phase \in {"idle", "sweeping"}
    <3>1. accepted /\ run[r].phase = "sweeping"
      BY <1>3, <2>1, <2>2, ThreadKeepsPlace
    <3>2. PICK t \in Threads : run[t].phase \notin {"idle", "sweeping"}
      BY <3>1 DEF PlaceHeld
    <3> QED BY <1>1, <1>2, <3>1, <3>2
  <2>3. CASE run'[r].phase \notin {"idle", "sweeping"}
    BY <1>3, <2>3
  <2> QED BY <2>2, <2>3
<1>4. CASE r \notin Threads
  <2>1. accepted
    BY <1>4 DEF RunStep, Dequeue, CallRun, AcceptStart, CheckStart, LoadRun, FailSetup, MarkRunning, Open,
                Resume, TakeCancel, ReachLimit, AskBatch, SaveBatch, StopSearch, Finalize, FailSearch,
                MarkFailed, ClearFlag, SaveResult, Discard, SweepFlag, WorkerCrash
  <2>2. PICK t \in Threads : run[t].phase \notin {"idle", "sweeping"}
    BY <2>1 DEF PlaceHeld
  <2> QED BY <1>1, <1>2, <1>4, <2>2
<1> QED BY <1>3, <1>4

\* The place is in memory: it goes with the API process, and no request touches it.
LEMMA OtherPlaceHeld ==
  ASSUME PlaceHeld,
         \/ \E c \in Clients : ClientStep(c)
         \/ EvolveDataset \/ ApiCrash \/ BeginShutdown \/ EndShutdown
  PROVE  PlaceHeld'
<1>1. CASE ApiDies
  BY <1>1 DEF ApiDies, PlaceHeld
<1>2. CASE ~ ApiDies
  <2>1. accepted' = accepted /\ run' = run
    BY <1>2 DEF ClientStep, ProbeLock, EndProbe, ReportDead, CheckCancellable, TouchFlag, MarkQueued, Push,
                UndoQueued, EvolveDataset, ApiCrash, BeginShutdown, EndShutdown
  <2> QED BY <2>1 DEF PlaceHeld
<1> QED BY <1>1, <1>2

-----------------------------------------------------------------------------
(* The checkpoint and what runs have of it in memory *)

\* An executor that neither writes the checkpoint nor begins to search.
LEMMA SearchSavedFrame ==
  ASSUME SearchSaved, NEW r \in Executors, checkpoint' = checkpoint,
         \A q \in Executors \ {r} : run'[q] = run[q],
         run'[r].phase \in Searching =>
           /\ run[r].phase \in Searching
           /\ run'[r].batches = run[r].batches /\ run'[r].version = run[r].version,
         run'[r].phase = "evaluating" => Len(run'[r].batches) < MaxBatches
  PROVE  SearchSaved'
<1>1. CheckpointIsOneSearch'
  BY DEF SearchSaved, CheckpointIsOneSearch
<1>2. SearchLoaded'
  <2> SUFFICES ASSUME NEW q \in Executors, run'[q].phase \in Searching
               PROVE  /\ run'[q].batches = checkpoint'.batches
                      /\ checkpoint'.status = "none" \/ run'[q].version = checkpoint'.version
    BY DEF SearchLoaded
  <2>1. run[q].phase \in Searching /\ run'[q].batches = run[q].batches /\ run'[q].version = run[q].version
    OBVIOUS
  <2> QED BY <2>1 DEF SearchSaved, SearchLoaded
<1>3. RoomLeft'
  <2> SUFFICES ASSUME NEW q \in Executors, run'[q].phase = "evaluating"
               PROVE  Len(run'[q].batches) < MaxBatches
    BY DEF RoomLeft
  <2> QED BY DEF SearchSaved, RoomLeft
<1> QED BY <1>1, <1>2, <1>3 DEF SearchSaved

\* While one executor holds the lock, the others do not search.
LEMMA OneSearches ==
  ASSUME LockHeld, NEW r \in Executors, run[r].phase \in Locked, NEW q \in Executors \ {r}
  PROVE  run[q].phase \notin Searching
<1>1. lock = r /\ lock # q
  BY DEF LockHeld
<1> QED BY <1>1 DEF LockHeld, Searching, Locked

\* The holder of the lock that writes the checkpoint: only what it has itself is to be looked at.
LEMMA SearchSavedByHolder ==
  ASSUME LockHeld, NEW r \in Executors, run[r].phase \in Locked,
         \A q \in Executors \ {r} : run'[q] = run[q],
         CheckpointIsOneSearch',
         run'[r].phase \in Searching =>
           /\ run'[r].batches = checkpoint'.batches
           /\ checkpoint'.status = "none" \/ run'[r].version = checkpoint'.version,
         run'[r].phase # "evaluating"
  PROVE  SearchSaved'
<1>1. \A q \in Executors \ {r} : run'[q].phase \notin Searching
  BY OneSearches
<1>2. SearchLoaded'
  BY <1>1 DEF SearchLoaded
<1>3. RoomLeft'
  BY <1>1 DEF RoomLeft, Searching
<1> QED BY <1>2, <1>3 DEF SearchSaved

\* All a search has in memory was evaluated on the version it evaluates on.
LEMMA SearchesOneVersion ==
  ASSUME SearchSaved, NEW r \in Executors, run[r].phase \in Searching
  PROVE  \A i \in 1..Len(run[r].batches) : run[r].batches[i] = run[r].version
<1>1. CASE checkpoint.status = "none"
  <2>1. run[r].batches = << >>
    BY <1>1 DEF SearchSaved, SearchLoaded, CheckpointIsOneSearch
  <2>2. Len(<< >>) = 0
    BY EmptySeq
  <2> QED BY <2>1, <2>2
<1>2. CASE checkpoint.status # "none"
  BY <1>2 DEF SearchSaved, SearchLoaded, CheckpointIsOneSearch
<1> QED BY <1>1, <1>2

\* Every step of an executor keeps disk and memory of the search together.
LEMMA ExecutorSearchSaved ==
  ASSUME TypeOK, LockHeld, SearchSaved, NEW r \in Executors,
         Dequeue(r) \/ CallRun(r) \/ AcceptStart(r) \/ RunStep(r) \/ WorkerCrash(r)
  PROVE  SearchSaved'
<1>0. /\ run \in [Executors -> Run] /\ run[r] \in Run /\ checkpoint \in Checkpoint
      /\ \A q \in Executors \ {r} : run'[q] = run[q]
  BY ExecutorFrame DEF TypeOK
<1>1. CASE Dequeue(r) \/ CallRun(r) \/ AcceptStart(r) \/ CheckStart(r) \/ LoadRun(r) \/ FailSetup(r)
             \/ MarkRunning(r) \/ Open(r) \/ WorkerCrash(r)
  <2>1. checkpoint' = checkpoint
    BY <1>1 DEF Dequeue, CallRun, AcceptStart, CheckStart, LoadRun, FailSetup, MarkRunning, Open, WorkerCrash
  <2>2. run'[r].phase \notin Searching
    BY <1>0, <1>1, IdleRunType DEF Dequeue, CallRun, AcceptStart, CheckStart, LoadRun, FailSetup, MarkRunning,
         Open, WorkerCrash, Moved, Ended, Run, Searching
  <2> QED BY <1>0, <2>1, <2>2, SearchSavedFrame DEF Searching
<1>2. CASE Finalize(r) \/ FailSearch(r) \/ MarkFailed(r) \/ ClearFlag(r) \/ SaveResult(r) \/ Discard(r)
             \/ SweepFlag(r)
  <2>1. checkpoint' = checkpoint
    BY <1>2 DEF Finalize, FailSearch, MarkFailed, ClearFlag, SaveResult, Discard, SweepFlag
  <2>2. run'[r].phase \notin Searching
    BY <1>0, <1>2, IdleRunType DEF Finalize, FailSearch, MarkFailed, ClearFlag, SaveResult, Discard, SweepFlag,
         Moved, Ended, Run, Searching
  <2> QED BY <1>0, <2>1, <2>2, SearchSavedFrame DEF Searching
<1>3. CASE TakeCancel(r) \/ ReachLimit(r)
  <2>1. checkpoint' = checkpoint
    BY <1>3 DEF TakeCancel, ReachLimit
  <2>2. /\ run[r].phase = "searching" /\ run'[r].phase = "stopping"
        /\ run'[r].batches = run[r].batches /\ run'[r].version = run[r].version
    BY <1>0, <1>3 DEF TakeCancel, ReachLimit, Stops, Run
  <2> QED BY <1>0, <2>1, <2>2, SearchSavedFrame DEF Searching
<1>4. CASE AskBatch(r)
  <2>1. checkpoint' = checkpoint
    BY <1>4 DEF AskBatch
  <2>2. /\ run[r].phase = "searching" /\ Len(run[r].batches) < MaxBatches
        /\ run'[r].batches = run[r].batches /\ run'[r].version = run[r].version
    BY <1>0, <1>4 DEF AskBatch, Moved, Run
  <2> QED BY <1>0, <2>1, <2>2, SearchSavedFrame DEF Searching
<1>5. CASE Resume(r)
  <2>1. run[r].phase \in Locked
    BY <1>5 DEF Resume, Locked
  <2>2. /\ checkpoint'.batches = checkpoint.batches /\ checkpoint'.version = checkpoint.version
        /\ checkpoint'.status = "none" => checkpoint.status = "none"
        /\ checkpoint.status = "none" => checkpoint'.status = "none"
    BY <1>0, <1>5 DEF Resume, Checkpoint
  <2>3. CheckpointIsOneSearch'
    BY <2>2 DEF SearchSaved, CheckpointIsOneSearch
  <2>4. CASE checkpoint.status = "none" \/ checkpoint.version = run[r].version
    <3>1. /\ run'[r].phase = "searching" /\ run'[r].batches = checkpoint.batches
          /\ run'[r].version = run[r].version
      BY <1>0, <1>5, <2>4 DEF Resume, Run
    <3> QED BY <1>0, <2>1, <2>2, <2>3, <2>4, <3>1, SearchSavedByHolder
  <2>5. CASE ~ (checkpoint.status = "none" \/ checkpoint.version = run[r].version)
    <3>1. run'[r].phase = "failing"
      BY <1>0, <1>5, <2>5 DEF Resume, Moved, Run
    <3> QED BY <1>0, <2>1, <2>3, <3>1, SearchSavedByHolder DEF Searching
  <2> QED BY <2>4, <2>5
<1>6. CASE SaveBatch(r)
  <2> DEFINE batches == Append(run[r].batches, run[r].version)
  <2>1. run[r].phase \in Locked /\ run[r].phase \in Searching
    BY <1>6 DEF SaveBatch, Locked, Searching
  <2>2. \A i \in 1..Len(run[r].batches) : run[r].batches[i] = run[r].version
    BY <2>1, SearchesOneVersion
  <2>3. \A i \in 1..Len(batches) : batches[i] = run[r].version
    <3>1. run[r].batches \in Batches /\ run[r].version \in Versions
      BY <1>0 DEF Run
    <3> QED BY <2>2, <3>1, AppendKeepsVersion
  <2> HIDE DEF batches
  <2>4. checkpoint' = [status |-> "running", version |-> run[r].version, batches |-> batches]
    BY <1>6 DEF SaveBatch, batches
  <2>5. /\ run'[r].phase \in {"searching", "stopping"}
        /\ run'[r].version = run[r].version /\ run'[r].batches = batches
    <3>1. PICK next \in {"searching", "stopping"} :
            run' = [run EXCEPT ![r].phase = next, ![r].batches = batches, ![r].outcome = "completed"]
      BY <1>6 DEF SaveBatch, batches
    <3> QED BY <1>0, <3>1 DEF Run
  <2>6. CheckpointIsOneSearch'
    BY <2>3, <2>4 DEF CheckpointIsOneSearch
  <2> QED BY <1>0, <2>1, <2>4, <2>5, <2>6, SearchSavedByHolder
<1>7. CASE StopSearch(r)
  <2>1. run[r].phase \in Locked /\ run[r].phase \in Searching
    BY <1>7 DEF StopSearch, Locked, Searching
  <2>2. run'[r].phase = "finalizing" /\ run[r].outcome # "none"
    BY <1>0, <1>7 DEF StopSearch, Moved, Run
  <2>3. checkpoint' = [status |-> run[r].outcome, version |-> run[r].version, batches |-> run[r].batches]
    BY <1>7 DEF StopSearch
  <2>4. \A i \in 1..Len(run[r].batches) : run[r].batches[i] = run[r].version
    BY <2>1, SearchesOneVersion
  <2>5. CheckpointIsOneSearch'
    BY <2>2, <2>3, <2>4 DEF CheckpointIsOneSearch
  <2> QED BY <1>0, <2>1, <2>2, <2>5, SearchSavedByHolder DEF Searching
<1> QED BY <1>1, <1>2, <1>3, <1>4, <1>5, <1>6, <1>7 DEF RunStep

\* No request, and nothing around the runs, writes the checkpoint; a run that is cut off has no memory.
LEMMA OtherSearchSaved ==
  ASSUME SearchSaved,
         \/ \E c \in Clients : ClientStep(c)
         \/ EvolveDataset \/ ApiCrash \/ BeginShutdown \/ EndShutdown
  PROVE  SearchSaved'
<1>1. checkpoint' = checkpoint
  BY DEF ClientStep, ProbeLock, EndProbe, ReportDead, CheckCancellable, TouchFlag, MarkQueued, Push,
         UndoQueued, EvolveDataset, ApiCrash, BeginShutdown, EndShutdown
<1>2. \A r \in Executors : run'[r] = run[r] \/ run'[r].phase = "idle"
  <2>1. CASE ApiDies
    BY <2>1, IdleRunType DEF ApiDies
  <2>2. CASE ~ ApiDies
    BY <2>2 DEF ClientStep, ProbeLock, EndProbe, ReportDead, CheckCancellable, TouchFlag, MarkQueued, Push,
                UndoQueued, EvolveDataset, ApiCrash, BeginShutdown, EndShutdown
  <2> QED BY <2>1, <2>2
<1>3. "idle" \notin Searching
  BY DEF Searching
<1>4. CheckpointIsOneSearch'
  BY <1>1 DEF SearchSaved, CheckpointIsOneSearch
<1>5. SearchLoaded'
  BY <1>1, <1>2, <1>3 DEF SearchSaved, SearchLoaded
<1>6. RoomLeft'
  BY <1>2 DEF SearchSaved, RoomLeft
<1> QED BY <1>4, <1>5, <1>6 DEF SearchSaved

-----------------------------------------------------------------------------
(* The theorems *)

\* An experiment that was just created satisfies the invariant: nobody holds or runs anything.
LEMMA InitRunInv == Init => RunInv
<1> SUFFICES ASSUME Init PROVE RunInv
  OBVIOUS
<1>1. TypeOK
  BY InitType
<1>2. \A r \in Executors : run[r].phase = "idle" /\ lock # r
  BY IdleRunType, ExecutorsAssumption DEF Init
<1>3. LockHeld
  BY <1>2 DEF LockHeld, Locked
<1>4. ProbeHeld
  BY ExecutorsAssumption DEF Init, IdleClient, ProbeHeld
<1>5. PlaceHeld
  BY DEF Init, PlaceHeld
<1>6. CheckpointIsOneSearch
  BY EmptySeq DEF Init, CheckpointIsOneSearch
<1>7. SearchLoaded /\ RoomLeft
  BY <1>2 DEF SearchLoaded, RoomLeft, Searching
<1> QED BY <1>1, <1>3, <1>4, <1>5, <1>6, <1>7 DEF RunInv, SearchSaved

\* Every step keeps the invariant.
LEMMA NextRunInv == RunInv /\ [Next]_vars => RunInv'
<1> SUFFICES ASSUME RunInv, [Next]_vars PROVE RunInv'
  OBVIOUS
<1> USE DEF RunInv
<1>1. ASSUME NEW r \in Executors,
             Dequeue(r) \/ CallRun(r) \/ AcceptStart(r) \/ RunStep(r) \/ WorkerCrash(r)
      PROVE  RunInv'
  <2>1. TypeOK'
    BY <1>1, ExecutorType DEF SearchSaved
  <2>2. LockHeld'
    BY <1>1, ExecutorLockHeld
  <2>3. ProbeHeld'
    BY <1>1, ExecutorProbeHeld
  <2>4. PlaceHeld'
    BY <1>1, ExecutorPlaceHeld
  <2>5. SearchSaved'
    BY <1>1, ExecutorSearchSaved
  <2> QED BY <2>1, <2>2, <2>3, <2>4, <2>5
<1>2. ASSUME NEW c \in Clients, ClientStep(c) PROVE RunInv'
  <2>1. TypeOK' /\ LockHeld' /\ ProbeHeld'
    BY <1>2, ClientType, ClientLockHeld, ClientProbeHeld
  <2> QED BY <1>2, <2>1, OtherPlaceHeld, OtherSearchSaved
<1>3. CASE EvolveDataset \/ ApiCrash \/ BeginShutdown \/ EndShutdown
  <2>1. TypeOK' /\ LockHeld' /\ ProbeHeld'
    BY <1>3, EnvironmentType, EnvironmentLockHeld, EnvironmentProbeHeld
  <2> QED BY <1>3, <2>1, OtherPlaceHeld, OtherSearchSaved
<1>4. CASE UNCHANGED vars
  BY <1>4 DEF vars, TypeOK, LockHeld, ProbeHeld, PlaceHeld, SearchSaved, CheckpointIsOneSearch,
              SearchLoaded, RoomLeft
<1> QED BY <1>1, <1>2, <1>3, <1>4 DEF Next

\* The runs of an experiment, however they interleave and die, keep the invariant.
THEOREM RunInvariant == Spec => []RunInv
<1> QED BY InitRunInv, NextRunInv, PTL DEF Spec

(* No row, checkpoint, queue or phase of a run outside the types the code writes; that a        *)
(* checkpoint never holds more than max_batches generations is part of it.                      *)
THEOREM TypeCorrect == Spec => []TypeOK
<1>1. RunInv => TypeOK
  BY DEF RunInv
<1> QED BY <1>1, RunInvariant, PTL

(* One run at a time writes the checkpoint, and what it has in memory is what is on disk: the   *)
(* generation it saves next loses none of another run and repeats none (engine.py:173).         *)
THEOREM OneRunOwnsCheckpoint == Spec => []SearchOwnsCheckpoint
<1>1. RunInv => SearchOwnsCheckpoint
  BY DEF RunInv, SearchOwnsCheckpoint, LockHeld, SearchSaved, SearchLoaded, Searching, Locked
<1> QED BY <1>1, RunInvariant, PTL

(* When nobody is doing anything with an experiment, neither its run lock nor its place in      *)
(* _ACTIVE_RUNS is left behind: a crashed or refused run never blocks the next one.             *)
THEOREM QuietIsStartable == Spec => []QuietMeansStartable
<1>1. RunInv => QuietMeansStartable
  <2> SUFFICES ASSUME RunInv, \A r \in Executors : run[r].phase = "idle",
                      \A c \in Clients : client[c].phase = "idle"
               PROVE  lock = Nobody /\ ~ accepted
    BY DEF QuietMeansStartable
  <2>1. \A r \in Executors : lock # r
    BY DEF RunInv, LockHeld, Locked
  <2>2. lock # Prober
    BY DEF RunInv, ProbeHeld
  <2>3. lock = Nobody
    BY <2>1, <2>2 DEF RunInv, TypeOK
  <2>4. ~ accepted
    BY DEF RunInv, PlaceHeld, Executors
  <2> QED BY <2>3, <2>4
<1> QED BY <1>1, RunInvariant, PTL

-----------------------------------------------------------------------------
(* The refinement *)

\* A generation that is saved is the next one of the search, on the version the search began on.
LEMMA SaveIsGeneration ==
  ASSUME RunInv, NEW r \in Executors, SaveBatch(r)
  PROVE  Search!Generation(run[r].version)
<1>1. run[r].phase \in Searching
  BY DEF SaveBatch, Searching
<1>2. run[r].batches = checkpoint.batches /\ run[r] \in Run
  BY <1>1 DEF RunInv, SearchSaved, SearchLoaded, TypeOK
<1>3. checkpoint'.batches = Append(checkpoint.batches, run[r].version)
  BY <1>2 DEF SaveBatch
<1>4. ASSUME checkpoint.batches # << >> PROVE run[r].version = checkpoint.batches[1]
  <2>1. checkpoint.batches \in Seq(Versions)
    BY <1>2, BatchesAreSequences DEF Run
  <2>2. 1 \in 1..Len(checkpoint.batches)
    BY <1>4, <2>1, EmptySeq
  <2> QED BY <1>1, <1>2, <2>2, SearchesOneVersion DEF RunInv
<1> QED BY <1>3, <1>4 DEF Search!Generation

\* Every other step leaves the generations on disk as they are.
LEMMA OnlySavesAddGenerations ==
  ASSUME RunInv, [Next]_vars, ~ \E r \in Executors : SaveBatch(r)
  PROVE  checkpoint'.batches = checkpoint.batches
<1>1. checkpoint \in Checkpoint
  BY DEF RunInv, TypeOK
<1>2. CASE \E r \in Executors : Resume(r)
  BY <1>1, <1>2 DEF Resume, Checkpoint
<1>3. CASE \E r \in Executors : StopSearch(r)
  <2>1. PICK r \in Executors : StopSearch(r)
    BY <1>3
  <2>2. run[r].batches = checkpoint.batches
    BY <2>1 DEF StopSearch, Searching, RunInv, SearchSaved, SearchLoaded
  <2> QED BY <2>1, <2>2 DEF StopSearch
<1>4. CASE ~ \E r \in Executors : Resume(r) \/ StopSearch(r)
  <2>1. ASSUME NEW r \in Executors,
               Dequeue(r) \/ CallRun(r) \/ AcceptStart(r) \/ RunStep(r) \/ WorkerCrash(r)
        PROVE  checkpoint' = checkpoint
    BY <1>4, <2>1 DEF RunStep, Dequeue, CallRun, AcceptStart, CheckStart, LoadRun, FailSetup, MarkRunning, Open,
                TakeCancel, ReachLimit, AskBatch, Finalize, FailSearch, MarkFailed, ClearFlag, SaveResult,
                Discard, SweepFlag, WorkerCrash
  <2>2. ASSUME NEW c \in Clients, ClientStep(c) PROVE checkpoint' = checkpoint
    BY <2>2 DEF ClientStep, ProbeLock, EndProbe, ReportDead, CheckCancellable, TouchFlag, MarkQueued, Push,
                UndoQueued
  <2>3. CASE EvolveDataset \/ ApiCrash \/ BeginShutdown \/ EndShutdown \/ UNCHANGED vars
    BY <2>3 DEF EvolveDataset, ApiCrash, BeginShutdown, EndShutdown, vars
  <2> QED BY <2>1, <2>2, <2>3 DEF Next
<1> QED BY <1>2, <1>3, <1>4

(* The runs together implement one uninterrupted search of SearchHistory: no crash, resume or   *)
(* second run loses or repeats a generation, and all come from one version of the dataset.      *)
THEOREM RunsImplementSearch == Spec => ImplementsSearch
<1>1. Init => Search!Init
  BY DEF Init, Search!Init
<1>2. RunInv /\ [Next]_vars => [Search!Next]_(checkpoint.batches)
  <2> SUFFICES ASSUME RunInv, [Next]_vars PROVE [Search!Next]_(checkpoint.batches)
    OBVIOUS
  <2>1. CASE \E r \in Executors : SaveBatch(r)
    <3>1. PICK r \in Executors : SaveBatch(r)
      BY <2>1
    <3>2. run[r].version \in Versions
      BY DEF RunInv, TypeOK, Run
    <3> QED BY <3>1, <3>2, SaveIsGeneration DEF Search!Next
  <2>2. CASE ~ \E r \in Executors : SaveBatch(r)
    BY <2>2, OnlySavesAddGenerations
  <2> QED BY <2>1, <2>2
<1> QED BY <1>1, <1>2, RunInvariant, PTL DEF Spec, ImplementsSearch, Search!Spec
=============================================================================

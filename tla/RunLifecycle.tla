---------------------------- MODULE RunLifecycle ----------------------------
(***************************************************************************)
(* The runs of one experiment.  Three kinds of executor may run it: a      *)
(* Redis worker, a pool thread of the API (/start), and a synchronous      *)
(* caller (/run).  All of them go through run_recorded_experiment; they    *)
(* share the experiment's row, its checkpoint, its run lock and its cancel *)
(* flag.  Clients poll its status, cancel it and enqueue it meanwhile, its *)
(* dataset evolves, workers and the API process die.                       *)
(*                                                                         *)
(* A step is one access to that shared state.  The search itself           *)
(* (SearchEngine of the plan) is abstracted to its generations, each known *)
(* by the dataset version it was evaluated on.                             *)
(***************************************************************************)
EXTENDS Naturals, Sequences

CONSTANTS Workers, Threads, Callers,   \* executors
          Clients,                     \* concurrent requests that do not run the experiment
          Nobody, Prober,              \* values of the run lock that are not an executor
          MaxBatches,                  \* config.max_batches
          MaxVersion,                  \* bound: dataset versions
          MaxQueue                     \* bound: jobs in the Redis queue

Executors == Workers \cup Threads \cup Callers

Versions == 1..MaxVersion

ASSUME BoundsAssumption == MaxBatches \in Nat /\ MaxVersion \in Nat \ {0} /\ MaxQueue \in Nat
ASSUME ExecutorsAssumption ==
  /\ Nobody \notin Executors /\ Prober \notin Executors /\ Nobody # Prober
  /\ Threads \cap (Workers \cup Callers) = {} /\ Workers \cap Callers = {}

VARIABLES row,        \* experiments.status
          checkpoint, \* the checkpoint file
          lock,       \* holder of the run's flock
          flag,       \* the cancel file exists
          queue,      \* jobs of this experiment in the Redis list
          latest,     \* latest version of the dataset
          accepted,   \* the experiment is in the API's _ACTIVE_RUNS
          api,        \* the API process
          run,        \* what each executor is doing
          client      \* what each client request is doing

vars == <<row, checkpoint, lock, flag, queue, latest, accepted, api, run, client>>

Status == {"created", "queued", "running", "completed", "cancelled", "failed"}

\* An executor between Open and Close holds the run lock.
Locked == {"opened", "searching", "evaluating", "stopping", "finalizing"}

\* A "remarked" run found its row saying "running" already.
Phase == Locked \cup {"idle", "accepted", "starting", "loaded", "marked", "remarked", "refused",
                      "failing", "cleaning", "finished", "saving", "closing", "sweeping"}

Batches == UNION {[1..n -> Versions] : n \in 0..MaxBatches}

Checkpoint == [status : {"none", "running", "completed", "cancelled"},
               version : Versions, batches : Batches]

Run == [phase : Phase, version : Versions, batches : Batches, outcome : {"completed", "cancelled"}]

IdleRun == [phase |-> "idle", version |-> 1, batches |-> << >>, outcome |-> "completed"]

Client == [phase : {"idle", "probing", "reporting", "cancelling", "pushing"}, seen : Status]

IdleClient == [phase |-> "idle", seen |-> "created"]

\* The types: no row, checkpoint or phase of a run outside the ones the code writes.
TypeOK ==
  /\ row \in Status
  /\ checkpoint \in Checkpoint
  /\ lock \in Executors \cup {Nobody, Prober}
  /\ flag \in BOOLEAN
  /\ queue \in 0..MaxQueue
  /\ latest \in Versions
  /\ accepted \in BOOLEAN
  /\ api \in {"up", "stopping"}
  /\ run \in [Executors -> Run]
  /\ client \in [Clients -> Client]

Init ==
  /\ row = "created"
  /\ checkpoint = [status |-> "none", version |-> 1, batches |-> << >>]
  /\ lock = Nobody
  /\ flag = FALSE
  /\ queue = 0
  /\ latest = 1
  /\ accepted = FALSE
  /\ api = "up"
  /\ run = [r \in Executors |-> IdleRun]
  /\ client = [c \in Clients |-> IdleClient]

Moved(r, phase) == [run EXCEPT ![r].phase = phase]

\* Faulty: a pool thread forgets the `finally' that gives its place back.
EndedWithoutClosing(r) == [run EXCEPT ![r] = IdleRun]

\* run_recorded_experiment returns or raises; only a pool thread has more to do.
Ended(r) == IF r \in Threads THEN Moved(r, "closing") ELSE [run EXCEPT ![r] = IdleRun]

-----------------------------------------------------------------------------
(* How a run comes to be *)

\* worker.py: BLPOP removes the job before it is run.
Dequeue(r) ==
  /\ r \in Workers /\ run[r].phase = "idle"
  /\ queue > 0
  /\ queue' = queue - 1
  /\ run' = Moved(r, "starting")
  /\ UNCHANGED <<row, checkpoint, lock, flag, latest, accepted, api, client>>

\* POST /run: no check at all before the runner's own.
CallRun(r) ==
  /\ r \in Callers /\ run[r].phase = "idle"
  /\ api = "up"
  /\ run' = Moved(r, "starting")
  /\ UNCHANGED <<row, checkpoint, lock, flag, queue, latest, accepted, api, client>>

\* POST /start takes the experiment's place in _ACTIVE_RUNS, or answers 409.
AcceptStart(r) ==
  /\ r \in Threads /\ run[r].phase = "idle"
  /\ api = "up"
  /\ ~ accepted
  /\ accepted' = TRUE
  /\ run' = Moved(r, "accepted")
  /\ UNCHANGED <<row, checkpoint, lock, flag, queue, latest, api, client>>

\* Faulty: the 409 of a live run keeps the place it took.
CheckStartKeepingPlace(r) ==
  /\ run[r].phase = "accepted"
  /\ run' = IF row = "running" /\ lock # Nobody THEN [run EXCEPT ![r] = IdleRun] ELSE Moved(r, "starting")
  /\ UNCHANGED <<row, checkpoint, lock, flag, queue, latest, accepted, api, client>>

\* Only a live run blocks a start: then the place is given back, else the run is submitted.
\* (Its probe of the lock is one step here; what a probe in progress does is ProbeLock's.)
CheckStart(r) ==
  /\ run[r].phase = "accepted"
  /\ IF row = "running" /\ lock # Nobody
     THEN accepted' = FALSE /\ run' = [run EXCEPT ![r] = IdleRun]
     ELSE UNCHANGED accepted /\ run' = Moved(r, "starting")
  /\ UNCHANGED <<row, checkpoint, lock, flag, queue, latest, api, client>>

-----------------------------------------------------------------------------
(* run_recorded_experiment *)

\* _dataset_for_run: the version of the checkpoint there is, else the latest.  No lock is held.
LoadRun(r) ==
  /\ run[r].phase = "starting"
  /\ run' = [run EXCEPT ![r].phase = "loaded",
                        ![r].version = IF checkpoint.status = "none" THEN latest
                                       ELSE checkpoint.version]
  /\ UNCHANGED <<row, checkpoint, lock, flag, queue, latest, accepted, api, client>>

\* The engine cannot be set up: failed, and the lock and the flag are not touched.
FailSetup(r) ==
  /\ run[r].phase = "loaded"
  /\ row' = "failed"
  /\ run' = Ended(r)
  /\ UNCHANGED <<checkpoint, lock, flag, queue, latest, accepted, api, client>>

\* A row that says "running" already is not written, and keeps its updated_at.
MarkRunning(r) ==
  /\ run[r].phase = "loaded"
  /\ row' = "running"
  /\ run' = Moved(r, IF row = "running" THEN "remarked" ELSE "marked")
  /\ UNCHANGED <<checkpoint, lock, flag, queue, latest, accepted, api, client>>

\* Faulty: goes on although somebody else holds the lock.
OpenWithoutLock(r) ==
  /\ run[r].phase \in {"marked", "remarked"}
  /\ lock' = r
  /\ run' = Moved(r, "opened")
  /\ UNCHANGED <<row, checkpoint, flag, queue, latest, accepted, api, client>>

\* _exclusive: LOCK_EX | LOCK_NB, or ExperimentAlreadyRunning.
Open(r) ==
  /\ run[r].phase \in {"marked", "remarked"}
  /\ IF lock = Nobody
     THEN lock' = r /\ run' = Moved(r, "opened")
     ELSE UNCHANGED lock /\ run' = Moved(r, "refused")
  /\ UNCHANGED <<row, checkpoint, flag, queue, latest, accepted, api, client>>

\* Faulty: a resumed run keeps the dataset it loaded, whatever the checkpoint started on.
ResumeOnAnyDataset(r) ==
  /\ run[r].phase = "opened"
  /\ run' = [run EXCEPT ![r].phase = "searching", ![r].batches = checkpoint.batches]
  /\ UNCHANGED <<row, checkpoint, lock, flag, queue, latest, accepted, api, client>>

(***************************************************************************)
(* The head of _run.  A new checkpoint stays in memory until the first     *)
(* generation; an old one is marked running again on disk, and only then   *)
(* is its dataset version compared (DatasetChanged).                       *)
(***************************************************************************)
Resume(r) ==
  /\ run[r].phase = "opened"
  /\ checkpoint' = IF checkpoint.status = "none" THEN checkpoint
                   ELSE [checkpoint EXCEPT !.status = "running"]
  /\ IF checkpoint.status = "none" \/ checkpoint.version = run[r].version
     THEN /\ run' = [run EXCEPT ![r].phase = "searching", ![r].batches = checkpoint.batches]
          /\ UNCHANGED lock
     ELSE /\ run' = Moved(r, "failing")
          /\ lock' = Nobody
  /\ UNCHANGED <<row, flag, queue, latest, accepted, api, client>>

Stops(r, outcome) == run' = [run EXCEPT ![r].phase = "stopping", ![r].outcome = outcome]

\* Top of the loop: the cancel flag is consumed.
TakeCancel(r) ==
  /\ run[r].phase = "searching"
  /\ flag
  /\ flag' = FALSE
  /\ Stops(r, "cancelled")
  /\ UNCHANGED <<row, checkpoint, lock, queue, latest, accepted, api, client>>

\* max_batches, any budget, or an exhausted search space.
ReachLimit(r) ==
  /\ run[r].phase = "searching"
  /\ ~ flag
  /\ Stops(r, "completed")
  /\ UNCHANGED <<row, checkpoint, lock, flag, queue, latest, accepted, api, client>>

\* Faulty: max_batches is not looked at.
AskBatchUnbounded(r) ==
  /\ run[r].phase = "searching"
  /\ ~ flag
  /\ run' = Moved(r, "evaluating")
  /\ UNCHANGED <<row, checkpoint, lock, flag, queue, latest, accepted, api, client>>

AskBatch(r) ==
  /\ run[r].phase = "searching"
  /\ ~ flag
  /\ Len(run[r].batches) < MaxBatches
  /\ run' = Moved(r, "evaluating")
  /\ UNCHANGED <<row, checkpoint, lock, flag, queue, latest, accepted, api, client>>

\* A generation is evaluated and saved; the strategy may have converged.
SaveBatch(r) ==
  LET batches == Append(run[r].batches, run[r].version)
  IN  /\ run[r].phase = "evaluating"
      /\ checkpoint' = [status |-> "running", version |-> run[r].version, batches |-> batches]
      /\ \E next \in {"searching", "stopping"} :
           run' = [run EXCEPT ![r].phase = next, ![r].batches = batches, ![r].outcome = "completed"]
      /\ UNCHANGED <<row, lock, flag, queue, latest, accepted, api, client>>

\* After the loop: a late cancel of a run that stopped by itself is dropped.
StopSearch(r) ==
  /\ run[r].phase = "stopping"
  /\ flag' = (flag /\ run[r].outcome = "cancelled")
  /\ checkpoint' = [status |-> run[r].outcome, version |-> run[r].version, batches |-> run[r].batches]
  /\ run' = Moved(r, "finalizing")
  /\ UNCHANGED <<row, lock, queue, latest, accepted, api, client>>

\* _finalize returns, and the lock is released on the way out.
Finalize(r) ==
  /\ run[r].phase = "finalizing"
  /\ lock' = Nobody
  /\ run' = Moved(r, "finished")
  /\ UNCHANGED <<row, checkpoint, flag, queue, latest, accepted, api, client>>

\* Faulty: an exception leaves the lock behind.
FailHoldingLock(r) ==
  /\ run[r].phase \in {"searching", "evaluating", "finalizing"}
  /\ run' = Moved(r, "failing")
  /\ UNCHANGED <<row, checkpoint, lock, flag, queue, latest, accepted, api, client>>

\* Any exception of the search (DatasetTooSmall too) leaves through _exclusive's finally.
FailSearch(r) ==
  /\ run[r].phase \in {"searching", "evaluating", "finalizing"}
  /\ lock' = Nobody
  /\ run' = Moved(r, "failing")
  /\ UNCHANGED <<row, checkpoint, flag, queue, latest, accepted, api, client>>

MarkFailed(r) ==
  /\ run[r].phase = "failing"
  /\ row' = "failed"
  /\ run' = Moved(r, "cleaning")
  /\ UNCHANGED <<checkpoint, lock, flag, queue, latest, accepted, api, client>>

\* The runner's finally: the flag goes, whether this run ended, failed or was refused.
ClearFlag(r) ==
  /\ run[r].phase \in {"finished", "cleaning", "refused"}
  /\ flag' = FALSE
  /\ run' = IF run[r].phase = "finished" THEN Moved(r, "saving") ELSE Ended(r)
  /\ UNCHANGED <<row, checkpoint, lock, queue, latest, accepted, api, client>>

SaveResult(r) ==
  /\ run[r].phase = "saving"
  /\ row' = run[r].outcome
  /\ run' = Ended(r)
  /\ UNCHANGED <<checkpoint, lock, flag, queue, latest, accepted, api, client>>

\* _run_in_background's finally: the place first, then the flag.
Discard(r) ==
  /\ run[r].phase = "closing"
  /\ accepted' = FALSE
  /\ run' = Moved(r, "sweeping")
  /\ UNCHANGED <<row, checkpoint, lock, flag, queue, latest, api, client>>

SweepFlag(r) ==
  /\ run[r].phase = "sweeping"
  /\ flag' = FALSE
  /\ run' = [run EXCEPT ![r] = IdleRun]
  /\ UNCHANGED <<row, checkpoint, lock, queue, latest, accepted, api, client>>

-----------------------------------------------------------------------------
(* Clients *)

ClientMove(c, phase, seen) == client' = [client EXCEPT ![c] = [phase |-> phase, seen |-> seen]]

(***************************************************************************)
(* _reported_status of a run that is not in this process.  The probe takes *)
(* the run lock and gives it back.  _STALE_RUN_SECONDS is taken to be      *)
(* longer than a run needs from its row to its lock, and shorter than a    *)
(* search: it protects a run that has just written its row, not one that   *)
(* found the row of a dead run, nor one that has just let go of the lock.  *)
(***************************************************************************)
ProbeLock(c) ==
  /\ client[c].phase = "idle" /\ api = "up"
  /\ row = "running" /\ ~ accepted
  /\ \A r \in Executors : run[r].phase # "marked"
  /\ lock = Nobody
  /\ lock' = Prober
  /\ ClientMove(c, "probing", row)
  /\ UNCHANGED <<row, checkpoint, flag, queue, latest, accepted, api, run>>

EndProbe(c) ==
  /\ client[c].phase = "probing"
  /\ lock' = Nobody
  /\ ClientMove(c, "reporting", client[c].seen)
  /\ UNCHANGED <<row, checkpoint, flag, queue, latest, accepted, api, run>>

\* The row read before the probe is written when the session commits.
ReportDead(c) ==
  /\ client[c].phase = "reporting"
  /\ row' = "failed"
  /\ ClientMove(c, "idle", "created")
  /\ UNCHANGED <<checkpoint, lock, flag, queue, latest, accepted, api, run>>

\* POST /cancel and `experiment cancel' look at the status ...
CheckCancellable(c) ==
  /\ client[c].phase = "idle" /\ api = "up"
  /\ accepted \/ row \in {"running", "queued"}
  /\ ClientMove(c, "cancelling", "created")
  /\ UNCHANGED <<row, checkpoint, lock, flag, queue, latest, accepted, api, run>>

\* ... and then touch the flag.
TouchFlag(c) ==
  /\ client[c].phase = "cancelling"
  /\ flag' = TRUE
  /\ ClientMove(c, "idle", "created")
  /\ UNCHANGED <<row, checkpoint, lock, queue, latest, accepted, api, run>>

\* POST /enqueue marks the row before it pushes the job ...
MarkQueued(c) ==
  /\ client[c].phase = "idle" /\ api = "up"
  /\ row' = "queued"
  /\ ClientMove(c, "pushing", row)
  /\ UNCHANGED <<checkpoint, lock, flag, queue, latest, accepted, api, run>>

Push(c) ==
  /\ client[c].phase = "pushing"
  /\ queue < MaxQueue
  /\ queue' = queue + 1
  /\ ClientMove(c, "idle", "created")
  /\ UNCHANGED <<row, checkpoint, lock, flag, latest, accepted, api, run>>

\* ... and puts the old status back if Redis does not answer.
UndoQueued(c) ==
  /\ client[c].phase = "pushing"
  /\ row' = client[c].seen
  /\ ClientMove(c, "idle", "created")
  /\ UNCHANGED <<checkpoint, lock, flag, queue, latest, accepted, api, run>>

-----------------------------------------------------------------------------
(* The environment *)

\* A new version of the dataset is saved.
EvolveDataset ==
  /\ latest < MaxVersion
  /\ latest' = latest + 1
  /\ UNCHANGED <<row, checkpoint, lock, flag, queue, accepted, api, run, client>>

\* A worker is killed: its job is gone, the kernel drops its lock.
WorkerCrash(r) ==
  /\ r \in Workers /\ run[r].phase # "idle"
  /\ lock' = IF lock = r THEN Nobody ELSE lock
  /\ run' = [run EXCEPT ![r] = IdleRun]
  /\ UNCHANGED <<row, checkpoint, flag, queue, latest, accepted, api, client>>

\* The API process ends, with its threads, its requests and its _ACTIVE_RUNS.
ApiDies ==
  /\ lock' = IF lock \in Threads \cup Callers \cup {Prober} THEN Nobody ELSE lock
  /\ run' = [r \in Executors |-> IF r \in Workers THEN run[r] ELSE IdleRun]
  /\ client' = [c \in Clients |-> IdleClient]
  /\ accepted' = FALSE
  /\ api' = "up"

ApiCrash ==
  /\ ApiDies
  /\ UNCHANGED <<row, checkpoint, flag, queue, latest>>

\* _stop_background_runs asks the runs that have started to stop, ...
BeginShutdown ==
  /\ api = "up" /\ accepted
  /\ api' = "stopping"
  /\ flag' = TRUE
  /\ UNCHANGED <<row, checkpoint, lock, queue, latest, accepted, run, client>>

\* ... and when they have, or the grace period is over, withdraws the request.
EndShutdown ==
  /\ api = "stopping"
  /\ ApiDies
  /\ flag' = FALSE
  /\ UNCHANGED <<row, checkpoint, queue, latest>>

-----------------------------------------------------------------------------

RunStep(r) ==
  \/ CheckStart(r) \/ LoadRun(r) \/ FailSetup(r) \/ MarkRunning(r) \/ Open(r) \/ Resume(r)
  \/ TakeCancel(r) \/ ReachLimit(r) \/ AskBatch(r) \/ SaveBatch(r) \/ StopSearch(r)
  \/ Finalize(r) \/ FailSearch(r) \/ MarkFailed(r) \/ ClearFlag(r) \/ SaveResult(r)
  \/ Discard(r) \/ SweepFlag(r)

ClientStep(c) ==
  \/ ProbeLock(c) \/ EndProbe(c) \/ ReportDead(c)
  \/ CheckCancellable(c) \/ TouchFlag(c)
  \/ MarkQueued(c) \/ Push(c) \/ UndoQueued(c)

Next ==
  \/ \E r \in Executors : Dequeue(r) \/ CallRun(r) \/ AcceptStart(r) \/ RunStep(r) \/ WorkerCrash(r)
  \/ \E c \in Clients : ClientStep(c)
  \/ EvolveDataset \/ ApiCrash \/ BeginShutdown \/ EndShutdown

Spec == Init /\ [][Next]_vars

-----------------------------------------------------------------------------
(* Fairness and properties *)

\* No step of a run waits for anybody: the lock is tried once, generations are bounded.
FairSpec == Spec /\ \A r \in Executors : WF_vars(RunStep(r))

(***************************************************************************)
(* One run at a time writes the checkpoint: the generations a run has in   *)
(* memory are those on disk, so what it saves next loses none and repeats  *)
(* none ("interleave checkpoint and event writes and corrupt both",        *)
(* engine.py:173).                                                         *)
(***************************************************************************)
SearchOwnsCheckpoint ==
  \A r \in Executors :
    run[r].phase \in {"searching", "evaluating", "stopping"} =>
      lock = r /\ run[r].batches = checkpoint.batches

(***************************************************************************)
(* However its runs were refused, failed or killed, an experiment nobody   *)
(* runs can be started again: no lock and no place in _ACTIVE_RUNS stays   *)
(* behind ("a crashed worker never blocks its own resume",                 *)
(* docs/experimentation.md:81).                                            *)
(***************************************************************************)
QuietMeansStartable ==
  /\ \A r \in Executors : run[r].phase = "idle"
  /\ \A c \in Clients : client[c].phase = "idle"
  => lock = Nobody /\ ~ accepted

(***************************************************************************)
(* The runs of an experiment together implement one search: generations    *)
(* are added one at a time, none is lost in a crash or a resume, and all   *)
(* come from one version of the dataset, even if it evolves meanwhile.     *)
(***************************************************************************)
Search == INSTANCE SearchHistory WITH history <- checkpoint.batches

ImplementsSearch == Search!Spec

(***************************************************************************)
(* A place in the API's pool is always given back: by a refusal, a result, *)
(* a failure or the end of the process.  Otherwise the sixth leak answers  *)
(* 429 forever.                                                            *)
(***************************************************************************)
PlaceIsGivenBack == accepted ~> ~ accepted

\* A run ends, and lets go of the run lock, whatever is done to it meanwhile.
RunsEnd == \A r \in Executors : lock = r ~> lock # r
=============================================================================

---------------------------- MODULE ModelLifecycle ----------------------------
(***************************************************************************)
(* How a model of one market comes into being and into use.  A trainer is  *)
(* a process of workers.ml_train: it records its run in ml_training_runs,  *)
(* fits the model in a thread whose progress a task of its event loop      *)
(* writes to the run, and puts the file in place.  A registry is the       *)
(* ModelRegistry of a worker or API process: it looks at the file whenever *)
(* a model is asked for, and loads it when it has changed.                 *)
(***************************************************************************)
EXTENDS Naturals, Sequences

CONSTANTS
  Trainers,        \* runs of workers.ml_train, all for one market
  Registries,      \* processes with a ModelRegistry
  OneAtATime,      \* does the operator start a trainer only when no other runs?
  NoFile,          \* neither the model file nor the temporary one
  NoModel,         \* ModelRegistry.get returns None
  MaxProgress,     \* bound: calls of on_progress
  MaxFaults        \* bound: kills and failed calls

ASSUME NamesAssumption == /\ NoFile \notin Trainers /\ NoModel \notin Trainers
                          /\ "empty" \notin Trainers /\ "corrupt" \notin Trainers
ASSUME BoundsAssumption == OneAtATime \in BOOLEAN /\ MaxProgress \in Nat /\ MaxFaults \in Nat

VARIABLES
  \* the database
  row,             \* the ml_training_runs row of a trainer
  silent,          \* has it not been written for ml_training_stale_seconds?
  \* the trainer processes
  pc,              \* where run() stands
  thread,          \* train_strategy, in its thread
  calls,           \* how often it has called on_progress
  queue,           \* progress_queue
  flusher,         \* progress_task
  \* the files; an inode is named by the trainer that created it
  tmp,             \* <SYMBOL>_<timeframe>.json.tmp
  path,            \* <SYMBOL>_<timeframe>.json
  content,         \* of an inode: a trainer's model, or no JSON of a model
  mtime,           \* of an inode
  fd,              \* the inode a trainer writes to
  writes,          \* how many writes there were: the source of mtimes
  \* the registries
  models,          \* _models
  mtimes,          \* _mtimes, 0 for none
  statted,         \* the mtime a get has read and not yet used, 0 for none
  \* history and bounds
  installed,       \* models that have been readable under path
  faults

runVars == << row, silent >>
threadVars == << thread, calls, queue, flusher >>
fileVars == << tmp, path, content, mtime, fd, writes, installed >>
registryVars == << models, mtimes, statted >>
vars == << runVars, pc, threadVars, fileVars, registryVars, faults >>

-----------------------------------------------------------------------------
NoRow == [status |-> "none", stage |-> "none", dryRun |-> FALSE, modelPath |-> FALSE,
          finished |-> FALSE]

Gone(t) == pc[t] \in {"ended", "dead"}
Active(t) == ~Gone(t) /\ pc[t] # "new"

\* What StrategyModel.load makes of an inode: anything but a whole model raises.
ModelIn(inode) == IF content[inode] \in Trainers THEN content[inode] ELSE NoModel
ModelAtPath == IF path = NoFile THEN NoModel ELSE ModelIn(path)

Init ==
  /\ row = [t \in Trainers |-> NoRow]
  /\ silent = [t \in Trainers |-> FALSE]
  /\ pc = [t \in Trainers |-> "new"]
  /\ thread = [t \in Trainers |-> "off"]
  /\ calls = [t \in Trainers |-> 0]
  /\ queue = [t \in Trainers |-> << >>]
  /\ flusher = [t \in Trainers |-> "off"]
  /\ tmp = NoFile /\ path = NoFile
  /\ content = [t \in Trainers |-> "empty"]
  /\ mtime = [t \in Trainers |-> 0]
  /\ fd = [t \in Trainers |-> NoFile]
  /\ writes = 0
  /\ models = [r \in Registries |-> NoModel]
  /\ mtimes = [r \in Registries |-> 0]
  /\ statted = [r \in Registries |-> 0]
  /\ installed = {}
  /\ faults = 0

-----------------------------------------------------------------------------
(* The run's row: update_training_run writes the given columns and           *)
(* updated_at.  A step of run() goes on to the next, or raises after all:    *)
(* the answer to a commit may be lost.                                       *)
UpdateRun(t, changed) ==
  /\ row' = [row EXCEPT ![t] = changed]
  /\ silent' = [silent EXCEPT ![t] = FALSE]

AtStage(t, stage) == [row[t] EXCEPT !.stage = stage]

Succeeded(t) ==
  [row[t] EXCEPT !.status = "succeeded", !.stage = "completed", !.finished = TRUE]

\* Mutants: status and stage are swapped; the status is forgotten.
SwappedRow(t) == [Succeeded(t) EXCEPT !.status = "completed", !.stage = "succeeded"]
UnmarkedRow(t) == [row[t] EXCEPT !.stage = "failed", !.finished = TRUE]

\* The row of a run that has succeeded, and of one that has failed at any step:
\* what the first has written of the model stays in the second.
SucceededRow(t) == [Succeeded(t) EXCEPT !.modelPath = ~row[t].dryRun]
FailedRow(t) == [row[t] EXCEPT !.status = "failed", !.stage = "failed", !.finished = TRUE]

Fault == faults < MaxFaults /\ faults' = faults + 1

GoOn(t, next) ==
  \/ pc' = [pc EXCEPT ![t] = next] /\ UNCHANGED faults
  \/ pc' = [pc EXCEPT ![t] = "failing"] /\ Fault

-----------------------------------------------------------------------------
(* run(), up to the training.                                                *)
CreateRun(t) ==
  /\ pc[t] = "new"
  /\ OneAtATime => \A u \in Trainers : ~Active(u)
  /\ \E dryRun \in BOOLEAN :
       UpdateRun(t, [status |-> "running", stage |-> "starting", dryRun |-> dryRun,
                     modelPath |-> FALSE, finished |-> FALSE])
  /\ pc' = [pc EXCEPT ![t] = "preparing"]
  /\ UNCHANGED << threadVars, fileVars, registryVars, faults >>

\* The backfill is optional.
StagesAfter(stage) == CASE stage = "starting" -> {"backfill", "loading_bars"}
                        [] stage = "backfill" -> {"loading_bars"}
                        [] stage = "loading_bars" -> {"cross_validation"}
                        [] OTHER -> {}

Prepare(t) ==
  /\ pc[t] = "preparing"
  /\ \E stage \in StagesAfter(row[t].stage) : UpdateRun(t, AtStage(t, stage))
  /\ GoOn(t, "preparing")
  /\ UNCHANGED << threadVars, fileVars, registryVars >>

StartTraining(t) ==
  /\ pc[t] = "preparing"
  /\ row[t].stage = "cross_validation"
  /\ pc' = [pc EXCEPT ![t] = "training"]
  /\ thread' = [thread EXCEPT ![t] = "running"]
  /\ flusher' = [flusher EXCEPT ![t] = "waiting"]
  /\ UNCHANGED << runVars, calls, queue, fileVars, registryVars, faults >>

-----------------------------------------------------------------------------
(* The thread, the task that writes its progress, and the wait for both.     *)
(* call_soon_threadsafe keeps the order of the calls and of the thread's end.*)
ReportProgress(t) ==
  /\ thread[t] = "running"
  /\ calls[t] < MaxProgress
  /\ calls' = [calls EXCEPT ![t] = @ + 1]
  /\ queue' = [queue EXCEPT ![t] = Append(@, "progress")]
  /\ UNCHANGED << runVars, pc, thread, flusher, fileVars, registryVars, faults >>

\* It returns a model or raises, InsufficientDataError for one.
EndThread(t) ==
  /\ thread[t] = "running"
  /\ \E outcome \in {"returned", "raised"} : thread' = [thread EXCEPT ![t] = outcome]
  /\ UNCHANGED << runVars, pc, calls, queue, flusher, fileVars, registryVars, faults >>

TakeProgress(t) ==
  /\ flusher[t] = "waiting"
  /\ queue[t] # << >>
  /\ flusher' = [flusher EXCEPT ![t] = IF Head(queue[t]) = "end" THEN "done" ELSE "writing"]
  /\ queue' = [queue EXCEPT ![t] = Tail(@)]
  /\ UNCHANGED << runVars, pc, thread, calls, fileVars, registryVars, faults >>

\* The write of a progress may fail, before the commit or after it.
WriteProgress(t) ==
  /\ flusher[t] = "writing"
  /\ \/ /\ UpdateRun(t, AtStage(t, "fitting"))
        /\ flusher' = [flusher EXCEPT ![t] = "waiting"]
        /\ UNCHANGED faults
     \/ /\ UpdateRun(t, AtStage(t, "fitting")) \/ UNCHANGED runVars
        /\ flusher' = [flusher EXCEPT ![t] = "failed"]
        /\ Fault
  /\ UNCHANGED << pc, thread, calls, queue, fileVars, registryVars >>

\* Mutants: no end after a training that raised, no wait for the flusher.
EndIfReturned(t) == IF thread[t] = "returned" THEN << "end" >> ELSE << >>
NotAwaited(t) == TRUE

\* finally: the end is put whatever has happened, and the task is awaited.
EndOfQueue(t) == << "end" >>
Drained(t) == flusher[t] \in {"done", "failed"}

AwaitThread(t) ==
  /\ pc[t] = "training"
  /\ thread[t] \in {"returned", "raised"}
  /\ queue' = [queue EXCEPT ![t] = @ \o EndOfQueue(t)]
  /\ pc' = [pc EXCEPT ![t] = "draining"]
  /\ UNCHANGED << runVars, thread, calls, flusher, fileVars, registryVars, faults >>

\* Mutant of AfterTraining: the test of --dry-run is the wrong way round.
SavedIfDry(t) == IF row[t].dryRun THEN "saving" ELSE "finishing"
AfterTraining(t) == IF row[t].dryRun THEN "finishing" ELSE "saving"

AwaitFlusher(t) ==
  /\ pc[t] = "draining"
  /\ Drained(t)
  /\ pc' = [pc EXCEPT ![t] = IF thread[t] = "returned" /\ flusher[t] # "failed"
                             THEN AfterTraining(t) ELSE "failing"]
  /\ UNCHANGED << runVars, threadVars, fileVars, registryVars, faults >>

-----------------------------------------------------------------------------
(* StrategyModel.save: write_text truncates the temporary file or creates it *)
(* and fills it; replace puts it under path.                                 *)
Saving(t) ==
  /\ pc[t] = "saving"
  /\ UpdateRun(t, AtStage(t, "saving"))
  /\ GoOn(t, "opening")
  /\ UNCHANGED << threadVars, fileVars, registryVars >>

\* Mutant of TmpInode: the model is written to its path.
PathInode(t) == IF path = NoFile THEN t ELSE path
TmpInode(t) == IF tmp = NoFile THEN t ELSE tmp

OpenTmp(t) ==
  /\ pc[t] = "opening"
  /\ tmp' = TmpInode(t)
  /\ fd' = [fd EXCEPT ![t] = TmpInode(t)]
  /\ content' = [content EXCEPT ![TmpInode(t)] = "empty"]
  /\ writes' = writes + 1
  /\ mtime' = [mtime EXCEPT ![TmpInode(t)] = writes']
  /\ GoOn(t, "writing")
  /\ UNCHANGED << runVars, threadVars, path, installed, registryVars >>

\* Over another trainer's text, of another length, it may leave no JSON.
WriteTmp(t) ==
  /\ pc[t] = "writing"
  /\ \E text \in {t} \cup (IF content[fd[t]] = "empty" THEN {} ELSE {"corrupt"}) :
       content' = [content EXCEPT ![fd[t]] = text]
  /\ writes' = writes + 1
  /\ mtime' = [mtime EXCEPT ![fd[t]] = writes']
  /\ UNCHANGED << runVars, threadVars, tmp, path, fd, registryVars >>
  /\ installed' = installed \cup ({ModelAtPath'} \ {NoModel})
  /\ GoOn(t, "replacing")

Replace(t) ==
  /\ pc[t] = "replacing"
  /\ UNCHANGED << runVars, threadVars, content, mtime, fd, writes, registryVars >>
  /\ \/ /\ tmp # NoFile
        /\ path' = tmp
        /\ tmp' = NoFile
        /\ installed' = installed \cup ({ModelAtPath'} \ {NoModel})
        /\ GoOn(t, "finishing")
     \/ /\ tmp = NoFile
        /\ pc' = [pc EXCEPT ![t] = "failing"]
        /\ UNCHANGED << path, tmp, installed, faults >>

-----------------------------------------------------------------------------
(* The end of run(): the final row, and whatever raised before it.           *)
Finish(t) ==
  /\ pc[t] = "finishing"
  /\ UpdateRun(t, SucceededRow(t))
  /\ GoOn(t, "reporting")
  /\ UNCHANGED << threadVars, fileVars, registryVars >>

PrintReport(t) ==
  /\ pc[t] = "reporting"
  /\ pc' = [pc EXCEPT ![t] = "ended"]
  /\ UNCHANGED << runVars, threadVars, fileVars, registryVars, faults >>

Fail(t) ==
  /\ pc[t] = "failing"
  /\ UpdateRun(t, FailedRow(t))
  /\ pc' = [pc EXCEPT ![t] = "ended"]
  /\ UNCHANGED << threadVars, fileVars, registryVars, faults >>

\* A call inside the try raises without an effect.
CallRaises(t) ==
  /\ pc[t] \in {"preparing", "saving", "opening", "writing", "replacing", "finishing", "reporting"}
  /\ pc' = [pc EXCEPT ![t] = "failing"]
  /\ Fault
  /\ UNCHANGED << runVars, threadVars, fileVars, registryVars >>

\* The process is killed, or the write of the failure fails.
Kill(t) ==
  /\ Active(t)
  /\ pc' = [pc EXCEPT ![t] = "dead"]
  /\ thread' = [thread EXCEPT ![t] = "off"]
  /\ flusher' = [flusher EXCEPT ![t] = "off"]
  /\ queue' = [queue EXCEPT ![t] = << >>]
  /\ Fault
  /\ UNCHANGED << runVars, calls, fileVars, registryVars >>

\* Time passes: training_run_status finds updated_at too old.
FallSilent(t) ==
  /\ row[t] # NoRow
  /\ ~silent[t]
  /\ silent' = [silent EXCEPT ![t] = TRUE]
  /\ UNCHANGED << row, pc, threadVars, fileVars, registryVars, faults >>

-----------------------------------------------------------------------------
(* ModelRegistry.get, in two steps: other processes run in between.          *)

\* Mutant of Changed: a model that is loaded is not looked after any more.
NotLoaded(r) == models[r] = NoModel
Changed(r) == mtimes[r] # mtime[path]

StatFile(r) ==
  /\ statted[r] = 0
  /\ path # NoFile
  /\ Changed(r)
  /\ statted' = [statted EXCEPT ![r] = mtime[path]]
  /\ UNCHANGED << runVars, pc, threadVars, fileVars, models, mtimes, faults >>

\* A model that cannot be loaded is remembered as such.
LoadFile(r) ==
  /\ statted[r] # 0
  /\ models' = [models EXCEPT ![r] = ModelAtPath]
  /\ mtimes' = [mtimes EXCEPT ![r] = statted[r]]
  /\ statted' = [statted EXCEPT ![r] = 0]
  /\ UNCHANGED << runVars, pc, threadVars, fileVars, faults >>

\* The reload endpoint, and the start of the process.
ResetRegistry(r) ==
  /\ statted[r] = 0
  /\ models' = [models EXCEPT ![r] = NoModel]
  /\ mtimes' = [mtimes EXCEPT ![r] = 0]
  /\ UNCHANGED << runVars, pc, threadVars, fileVars, statted, faults >>

-----------------------------------------------------------------------------
RunStep(t) ==
  \/ Prepare(t) \/ StartTraining(t) \/ AwaitThread(t) \/ AwaitFlusher(t)
  \/ Saving(t) \/ OpenTmp(t) \/ WriteTmp(t) \/ Replace(t)
  \/ Finish(t) \/ PrintReport(t) \/ Fail(t)
FlusherStep(t) == TakeProgress(t) \/ WriteProgress(t)

Next ==
  \/ \E t \in Trainers : \/ CreateRun(t) \/ RunStep(t) \/ FlusherStep(t)
                         \/ ReportProgress(t) \/ EndThread(t)
                         \/ CallRaises(t) \/ Kill(t) \/ FallSilent(t)
  \/ \E r \in Registries : StatFile(r) \/ LoadFile(r) \/ ResetRegistry(r)

Spec == Init /\ [][Next]_vars

\* The event loop runs what is ready, a training is finite, and time passes.
\* Nothing makes an operator start a trainer or anyone ask for a model.
Fairness ==
  \A t \in Trainers : /\ WF_vars(RunStep(t)) /\ WF_vars(FlusherStep(t))
                      /\ WF_vars(EndThread(t)) /\ WF_vars(FallSilent(t))

FairSpec == Spec /\ Fairness

-----------------------------------------------------------------------------
Row == [status : {"none", "running", "succeeded", "failed"},
        stage : {"none", "starting", "backfill", "loading_bars", "cross_validation",
                 "fitting", "saving", "completed", "failed"},
        dryRun : BOOLEAN, modelPath : BOOLEAN, finished : BOOLEAN]

Stations == {"new", "preparing", "training", "draining", "saving", "opening", "writing",
             "replacing", "finishing", "reporting", "failing", "ended", "dead"}

TypeOK ==
  /\ row \in [Trainers -> Row]
  /\ silent \in [Trainers -> BOOLEAN]
  /\ pc \in [Trainers -> Stations]
  /\ thread \in [Trainers -> {"off", "running", "returned", "raised"}]
  /\ calls \in [Trainers -> 0 .. MaxProgress]
  /\ queue \in [Trainers -> Seq({"progress", "end"})]
  /\ flusher \in [Trainers -> {"off", "waiting", "writing", "done", "failed"}]
  /\ tmp \in Trainers \cup {NoFile}
  /\ path \in Trainers \cup {NoFile}
  /\ content \in [Trainers -> Trainers \cup {"empty", "corrupt"}]
  /\ mtime \in [Trainers -> Nat]
  /\ fd \in [Trainers -> Trainers \cup {NoFile}]
  /\ \A t \in Trainers : pc[t] = "writing" => fd[t] \in Trainers
  /\ writes \in Nat
  /\ models \in [Registries -> Trainers \cup {NoModel}]
  /\ mtimes \in [Registries -> Nat]
  /\ statted \in [Registries -> Nat]
  /\ installed \subseteq Trainers
  /\ faults \in 0 .. MaxFaults

\* A run that has finished stays finished: no progress that was still queued is
\* written over its last stage, and it can only fail after all.
FinishedStays ==
  [][\A t \in Trainers : row[t].finished =>
       /\ row'[t].finished
       /\ row'[t].stage \in {"completed", "failed"}
       /\ row'[t].status \in {row[t].status, "failed"}]_vars

\* ModelRegistry "hot-reloads on file change": whenever a get would answer from
\* memory, the answer is the model in the file, however the file was replaced
\* between the look at its time and its load.
AnswersFromFile == \A r \in Registries : path # NoFile /\ ~Changed(r) => models[r] = ModelAtPath

\* A market that has a model never loses it: at every moment of a later
\* training, failed or killed ones included, path holds a whole model.
ModelStays == [][ModelAtPath # NoModel => ModelAtPath' # NoModel]_vars

\* Every run "is recorded in ml_training_runs with persisted status, ... and the
\* saved model path": the model of a run that records a path has been under it.
RecordedModelIsSaved == \A t \in Trainers : row[t].modelPath => t \in installed

\* A run ends: run() waits for a thread and a task, and they for it.
EveryRunEnds == \A t \in Trainers : Active(t) ~> Gone(t)

\* training_run_status: the run of a process that is gone is not shown running
\* for ever.
Shown(t) == IF row[t].status = "running" /\ ~row[t].finished /\ silent[t]
            THEN "stale" ELSE row[t].status
GoneIsShown == \A t \in Trainers : Gone(t) ~> Shown(t) # "running"
=============================================================================

------------------------- MODULE ModelLifecycleProofs -------------------------
(***************************************************************************)
(* Theorems about ModelLifecycle, for any number of trainers, registries,  *)
(* calls of on_progress and faults.  What trainers do to each other's      *)
(* files is ruled out where OneAtATime is assumed, and only there.         *)
(***************************************************************************)
EXTENDS ModelLifecycle, TLAPS

\* The flusher has ended when run() has passed the wait for it, so nothing is
\* written to a row that is finished but the failure of its run.
RunInv ==
  \A t \in Trainers :
    /\ flusher[t] \in {"waiting", "writing"} => pc[t] \in {"training", "draining"}
    /\ row[t].finished => /\ pc[t] \in {"reporting", "failing", "ended", "dead"}
                          /\ row[t].stage \in {"completed", "failed"}

\* A trainer creates an inode once, when it opens the temporary file.  The file
\* at path and the temporary file are two, of different times, and no registry
\* knows the time of the temporary one.
Opened == {t \in Trainers : pc[t] \notin {"new", "preparing", "training", "draining",
                                         "saving", "opening"}}
FileInv ==
  /\ tmp # NoFile => tmp \in Opened /\ mtime[tmp] > 0
  /\ path # NoFile => path \in Opened /\ mtime[path] > 0
  /\ tmp # NoFile /\ path # NoFile => tmp # path /\ mtime[tmp] # mtime[path]
  /\ \A t \in Trainers : mtime[t] <= writes
  /\ \A r \in Registries : /\ mtimes[r] <= writes /\ statted[r] <= writes
                           /\ tmp # NoFile => mtime[tmp] \notin {mtimes[r], statted[r]}

\* With one trainer at a time, the temporary file is the one it has opened, and
\* its model is under path before the row says so.
SavedInv(t) ==
  /\ pc[t] = "writing" => tmp # NoFile /\ fd[t] = tmp /\ content[tmp] = "empty"
  /\ pc[t] = "replacing" => tmp # NoFile /\ content[tmp] = t
  /\ pc[t] = "finishing" /\ ~row[t].dryRun => t \in installed
  /\ row[t].modelPath => t \in installed
SoloInv ==
  /\ \A t, u \in Trainers : Active(t) /\ Active(u) => t = u
  /\ \A t \in Trainers : SavedInv(t)

ModelInv == TypeOK /\ RunInv /\ FileInv /\ AnswersFromFile

-----------------------------------------------------------------------------
(* The rows that are written, and the places run() may go to.                *)

Stages == {"backfill", "loading_bars", "cross_validation", "fitting", "saving"}

LEMMA WrittenRows ==
  ASSUME row \in [Trainers -> Row], NEW t \in Trainers
  PROVE  /\ \A stage \in Stages :
              /\ AtStage(t, stage) \in Row
              /\ AtStage(t, stage).stage = stage
              /\ AtStage(t, stage).finished = row[t].finished
              /\ AtStage(t, stage).dryRun = row[t].dryRun
              /\ AtStage(t, stage).modelPath = row[t].modelPath
         /\ /\ SucceededRow(t) \in Row /\ SucceededRow(t).stage = "completed"
            /\ SucceededRow(t).modelPath = ~row[t].dryRun
            /\ SucceededRow(t).dryRun = row[t].dryRun
         /\ /\ FailedRow(t) \in Row /\ FailedRow(t).stage = "failed"
            /\ FailedRow(t).status = "failed" /\ FailedRow(t).finished
            /\ FailedRow(t).modelPath = row[t].modelPath
            /\ FailedRow(t).dryRun = row[t].dryRun
<1>1. row[t] \in Row
  OBVIOUS
<1>2. \A stage \in Stages :
        /\ AtStage(t, stage) \in Row
        /\ AtStage(t, stage).stage = stage
        /\ AtStage(t, stage).finished = row[t].finished
        /\ AtStage(t, stage).dryRun = row[t].dryRun
        /\ AtStage(t, stage).modelPath = row[t].modelPath
  BY <1>1 DEF Row, AtStage, Stages
<1>3. /\ Succeeded(t) \in Row /\ Succeeded(t).stage = "completed"
      /\ Succeeded(t).dryRun = row[t].dryRun
  BY <1>1 DEF Row, Succeeded
<1>4. /\ SucceededRow(t) \in Row /\ SucceededRow(t).stage = "completed"
      /\ SucceededRow(t).modelPath = ~row[t].dryRun
      /\ SucceededRow(t).dryRun = row[t].dryRun
  BY <1>1, <1>3 DEF Row, SucceededRow
<1>5. /\ FailedRow(t) \in Row /\ FailedRow(t).stage = "failed"
      /\ FailedRow(t).status = "failed" /\ FailedRow(t).finished
      /\ FailedRow(t).modelPath = row[t].modelPath
      /\ FailedRow(t).dryRun = row[t].dryRun
  BY <1>1 DEF Row, FailedRow
<1> QED
  BY <1>2, <1>4, <1>5

LEMMA PrepareStages ==
  ASSUME NEW s
  PROVE  StagesAfter(s) \subseteq Stages
BY DEF StagesAfter, Stages

LEMMA Updated ==
  ASSUME TypeOK, NEW t \in Trainers, NEW changed \in Row, UpdateRun(t, changed)
  PROVE  /\ row' \in [Trainers -> Row] /\ silent' \in [Trainers -> BOOLEAN]
         /\ row'[t] = changed
         /\ \A u \in Trainers \ {t} : row'[u] = row[u]
BY DEF UpdateRun, TypeOK

LEMMA Faulted ==
  ASSUME faults \in 0 .. MaxFaults, Fault
  PROVE  faults' \in 0 .. MaxFaults
BY BoundsAssumption DEF Fault

LEMMA WentOn ==
  ASSUME TypeOK, NEW t \in Trainers, NEW next \in Stations, GoOn(t, next)
  PROVE  /\ pc' \in [Trainers -> Stations] /\ faults' \in 0 .. MaxFaults
         /\ pc'[t] \in {next, "failing"}
         /\ \A u \in Trainers \ {t} : pc'[u] = pc[u]
<1>1. "failing" \in Stations /\ pc \in [Trainers -> Stations] /\ faults \in 0 .. MaxFaults
  BY DEF Stations, TypeOK
<1>2. faults' \in 0 .. MaxFaults
  BY <1>1, Faulted DEF GoOn
<1>3. pc' = [pc EXCEPT ![t] = next] \/ pc' = [pc EXCEPT ![t] = "failing"]
  BY DEF GoOn
<1> QED
  BY <1>1, <1>2, <1>3

LEMMA ModelTypes ==
  ASSUME TypeOK
  PROVE  /\ ModelAtPath \in Trainers \cup {NoModel}
         /\ \A inode \in Trainers : ModelIn(inode) \in Trainers \cup {NoModel}
BY DEF TypeOK, ModelAtPath, ModelIn

-----------------------------------------------------------------------------
(* Types.                                                                    *)

LEMMA TypeStep ==
  ASSUME TypeOK, [Next]_vars
  PROVE  TypeOK'
<1> USE DEF runVars, threadVars, fileVars, registryVars
<1>1. ASSUME NEW t \in Trainers, CreateRun(t) PROVE TypeOK'
  <2>1. PICK dryRun \in BOOLEAN :
          UpdateRun(t, [status |-> "running", stage |-> "starting", dryRun |-> dryRun,
                        modelPath |-> FALSE, finished |-> FALSE])
    BY <1>1 DEF CreateRun
  <2>2. row' \in [Trainers -> Row] /\ silent' \in [Trainers -> BOOLEAN]
    BY <2>1, Updated DEF Row
  <2>3. pc' \in [Trainers -> Stations] /\ \A u \in Trainers : pc'[u] = "writing" => pc[u] = "writing"
    BY <1>1 DEF CreateRun, TypeOK, Stations
  <2> QED
    BY <1>1, <2>2, <2>3 DEF CreateRun, TypeOK
<1>2. ASSUME NEW t \in Trainers, Prepare(t) PROVE TypeOK'
  <2>1. row' \in [Trainers -> Row] /\ silent' \in [Trainers -> BOOLEAN]
    BY <1>2, WrittenRows, PrepareStages, Updated DEF Prepare, TypeOK
  <2>2. /\ pc' \in [Trainers -> Stations] /\ faults' \in 0 .. MaxFaults
        /\ \A u \in Trainers : pc'[u] = "writing" => pc[u] = "writing"
    BY <1>2, WentOn DEF Prepare, Stations
  <2> QED
    BY <1>2, <2>1, <2>2 DEF Prepare, TypeOK
<1>3. ASSUME NEW t \in Trainers, StartTraining(t) PROVE TypeOK'
  BY <1>3 DEF StartTraining, TypeOK, Stations
<1>4. ASSUME NEW t \in Trainers, ReportProgress(t) PROVE TypeOK'
  <2>1. calls' \in [Trainers -> 0 .. MaxProgress]
    BY <1>4, BoundsAssumption DEF ReportProgress, TypeOK
  <2>2. queue' \in [Trainers -> Seq({"progress", "end"})]
    BY <1>4 DEF ReportProgress, TypeOK
  <2> QED
    BY <1>4, <2>1, <2>2 DEF ReportProgress, TypeOK
<1>5. ASSUME NEW t \in Trainers, EndThread(t) PROVE TypeOK'
  BY <1>5 DEF EndThread, TypeOK
<1>6. ASSUME NEW t \in Trainers, TakeProgress(t) PROVE TypeOK'
  <2>1. queue' \in [Trainers -> Seq({"progress", "end"})]
    BY <1>6 DEF TakeProgress, TypeOK
  <2>2. flusher' \in [Trainers -> {"off", "waiting", "writing", "done", "failed"}]
    BY <1>6 DEF TakeProgress, TypeOK
  <2> QED
    BY <1>6, <2>1, <2>2 DEF TakeProgress, TypeOK
<1>7. ASSUME NEW t \in Trainers, WriteProgress(t) PROVE TypeOK'
  <2>1. row' \in [Trainers -> Row] /\ silent' \in [Trainers -> BOOLEAN]
    BY <1>7, WrittenRows, Updated DEF WriteProgress, TypeOK, Stages
  <2>2. flusher' \in [Trainers -> {"off", "waiting", "writing", "done", "failed"}]
    BY <1>7 DEF WriteProgress, TypeOK
  <2>3. faults' \in 0 .. MaxFaults
    BY <1>7, Faulted DEF WriteProgress, TypeOK
  <2> QED
    BY <1>7, <2>1, <2>2, <2>3 DEF WriteProgress, TypeOK
<1>8. ASSUME NEW t \in Trainers, AwaitThread(t) PROVE TypeOK'
  <2>1. queue' \in [Trainers -> Seq({"progress", "end"})]
    BY <1>8 DEF AwaitThread, TypeOK, EndOfQueue
  <2> QED
    BY <1>8, <2>1 DEF AwaitThread, TypeOK, Stations
<1>9. ASSUME NEW t \in Trainers, AwaitFlusher(t) PROVE TypeOK'
  BY <1>9 DEF AwaitFlusher, AfterTraining, TypeOK, Stations
<1>10. ASSUME NEW t \in Trainers, Saving(t) PROVE TypeOK'
  <2>1. row' \in [Trainers -> Row] /\ silent' \in [Trainers -> BOOLEAN]
    BY <1>10, WrittenRows, Updated DEF Saving, TypeOK, Stages
  <2>2. /\ pc' \in [Trainers -> Stations] /\ faults' \in 0 .. MaxFaults
        /\ \A u \in Trainers : pc'[u] = "writing" => pc[u] = "writing"
    BY <1>10, WentOn DEF Saving, Stations
  <2> QED
    BY <1>10, <2>1, <2>2 DEF Saving, TypeOK
<1>11. ASSUME NEW t \in Trainers, OpenTmp(t) PROVE TypeOK'
  <2>1. TmpInode(t) \in Trainers
    BY DEF TmpInode, TypeOK
  <2>2. /\ pc' \in [Trainers -> Stations] /\ faults' \in 0 .. MaxFaults
        /\ \A u \in Trainers \ {t} : pc'[u] = pc[u]
    BY <1>11, WentOn DEF OpenTmp, Stations
  <2>3. writes' \in Nat /\ mtime' \in [Trainers -> Nat]
    BY <1>11, <2>1 DEF OpenTmp, TypeOK
  <2>4. /\ fd' \in [Trainers -> Trainers \cup {NoFile}]
        /\ \A u \in Trainers : pc'[u] = "writing" => fd'[u] \in Trainers
    BY <1>11, <2>1, <2>2 DEF OpenTmp, TypeOK
  <2>5. content' \in [Trainers -> Trainers \cup {"empty", "corrupt"}] /\ tmp' \in Trainers
    BY <1>11, <2>1 DEF OpenTmp, TypeOK
  <2> QED
    BY <1>11, <2>2, <2>3, <2>4, <2>5 DEF OpenTmp, TypeOK
<1>12. ASSUME NEW t \in Trainers, WriteTmp(t) PROVE TypeOK'
  <2>1. /\ pc' \in [Trainers -> Stations] /\ faults' \in 0 .. MaxFaults
        /\ \A u \in Trainers : pc'[u] = "writing" => pc[u] = "writing"
    BY <1>12, WentOn DEF WriteTmp, Stations
  <2>2. writes' \in Nat /\ mtime' \in [Trainers -> Nat]
    BY <1>12 DEF WriteTmp, TypeOK
  <2>3. content' \in [Trainers -> Trainers \cup {"empty", "corrupt"}]
    BY <1>12 DEF WriteTmp, TypeOK
  <2>4. ModelAtPath' \in Trainers \cup {NoModel}
    BY <1>12, <2>3 DEF WriteTmp, TypeOK, ModelAtPath, ModelIn
  <2> QED
    BY <1>12, <2>1, <2>2, <2>3, <2>4 DEF WriteTmp, TypeOK
<1>13. ASSUME NEW t \in Trainers, Replace(t) PROVE TypeOK'
  <2>1. /\ pc' \in [Trainers -> Stations] /\ faults' \in 0 .. MaxFaults
        /\ \A u \in Trainers : pc'[u] = "writing" => pc[u] = "writing"
    <3>1. CASE GoOn(t, "finishing")
      BY <3>1, WentOn DEF Stations
    <3>2. CASE pc' = [pc EXCEPT ![t] = "failing"] /\ UNCHANGED faults
      BY <3>2 DEF Stations, TypeOK
    <3> QED
      BY <1>13, <3>1, <3>2 DEF Replace
  <2>2. path' \in Trainers \cup {NoFile} /\ tmp' \in Trainers \cup {NoFile}
    BY <1>13 DEF Replace, TypeOK
  <2>3. ModelAtPath' \in Trainers \cup {NoModel}
    BY <1>13, <2>2 DEF Replace, TypeOK, ModelAtPath, ModelIn
  <2>4. installed' \subseteq Trainers
    BY <1>13, <2>3 DEF Replace, TypeOK
  <2> QED
    BY <1>13, <2>1, <2>2, <2>4 DEF Replace, TypeOK
<1>14. ASSUME NEW t \in Trainers, Finish(t) PROVE TypeOK'
  <2>1. row' \in [Trainers -> Row] /\ silent' \in [Trainers -> BOOLEAN]
    BY <1>14, WrittenRows, Updated DEF Finish, TypeOK
  <2>2. /\ pc' \in [Trainers -> Stations] /\ faults' \in 0 .. MaxFaults
        /\ \A u \in Trainers : pc'[u] = "writing" => pc[u] = "writing"
    BY <1>14, WentOn DEF Finish, Stations
  <2> QED
    BY <1>14, <2>1, <2>2 DEF Finish, TypeOK
<1>15. ASSUME NEW t \in Trainers, Fail(t) PROVE TypeOK'
  <2>1. row' \in [Trainers -> Row] /\ silent' \in [Trainers -> BOOLEAN]
    BY <1>15, WrittenRows, Updated DEF Fail, TypeOK
  <2> QED
    BY <1>15, <2>1 DEF Fail, TypeOK, Stations
<1>16. ASSUME NEW t \in Trainers, CallRaises(t) PROVE TypeOK'
  BY <1>16, Faulted DEF CallRaises, TypeOK, Stations
<1>17. ASSUME NEW t \in Trainers, Kill(t) PROVE TypeOK'
  <2>1. queue' \in [Trainers -> Seq({"progress", "end"})]
    BY <1>17 DEF Kill, TypeOK
  <2>2. faults' \in 0 .. MaxFaults
    BY <1>17, Faulted DEF Kill, TypeOK
  <2> QED
    BY <1>17, <2>1, <2>2 DEF Kill, TypeOK, Stations
<1>18. ASSUME NEW t \in Trainers, PrintReport(t) PROVE TypeOK'
  BY <1>18 DEF PrintReport, TypeOK, Stations
<1>19. ASSUME NEW t \in Trainers, FallSilent(t) PROVE TypeOK'
  BY <1>19 DEF FallSilent, TypeOK
<1>20. ASSUME NEW r \in Registries, StatFile(r) PROVE TypeOK'
  BY <1>20 DEF StatFile, TypeOK
<1>21. ASSUME NEW r \in Registries, LoadFile(r) PROVE TypeOK'
  BY <1>21, ModelTypes DEF LoadFile, TypeOK
<1>22. ASSUME NEW r \in Registries, ResetRegistry(r) PROVE TypeOK'
  BY <1>22 DEF ResetRegistry, TypeOK
<1>23. CASE UNCHANGED vars
  BY <1>23 DEF vars, TypeOK
<1> QED
  BY <1>1, <1>2, <1>3, <1>4, <1>5, <1>6, <1>7, <1>8, <1>9, <1>10, <1>11, <1>12, <1>13,
     <1>14, <1>15, <1>16, <1>17, <1>18, <1>19, <1>20, <1>21, <1>22, <1>23
     DEF Next, RunStep, FlusherStep

LEMMA TypeInit == Init => TypeOK
<1> SUFFICES ASSUME Init PROVE TypeOK
  OBVIOUS
<1>1. NoRow \in Row
  BY DEF NoRow, Row
<1>2. queue \in [Trainers -> Seq({"progress", "end"})]
  BY DEF Init
<1> QED
  BY <1>1, <1>2, BoundsAssumption DEF Init, TypeOK, Stations

-----------------------------------------------------------------------------
(* Finished rows.                                                            *)

\* A step of run() at a place where no flusher is on its way leaves RunInv, when
\* the row it leaves is not finished, or says so.
LEMMA RunFrame ==
  ASSUME TypeOK, RunInv, NEW t \in Trainers, flusher' = flusher,
         \A u \in Trainers \ {t} : pc'[u] = pc[u] /\ row'[u] = row[u],
         flusher[t] \notin {"waiting", "writing"} \/ pc'[t] \in {"training", "draining"},
         row'[t].finished => /\ pc'[t] \in {"reporting", "failing", "ended", "dead"}
                             /\ row'[t].stage \in {"completed", "failed"}
  PROVE  RunInv'
BY DEF RunInv

LEMMA RunKeeps ==
  ASSUME TypeOK, RunInv, [Next]_vars
  PROVE  RunInv'
<1> USE DEF runVars, threadVars
<1>1. ASSUME NEW t \in Trainers, CreateRun(t) PROVE RunInv'
  <2> DEFINE created(dryRun) == [status |-> "running", stage |-> "starting", dryRun |-> dryRun,
                                 modelPath |-> FALSE, finished |-> FALSE]
  <2>1. PICK dryRun \in BOOLEAN : UpdateRun(t, created(dryRun))
    BY <1>1 DEF CreateRun
  <2>2. ~row'[t].finished /\ \A u \in Trainers \ {t} : row'[u] = row[u]
    <3>1. created(dryRun) \in Row /\ ~created(dryRun).finished
      BY DEF Row
    <3>2. row'[t] = created(dryRun) /\ \A u \in Trainers \ {t} : row'[u] = row[u]
      <4> HIDE DEF created
      <4> QED
        BY <2>1, <3>1, Updated
    <3> QED
      BY <3>1, <3>2
  <2>3. pc' = [pc EXCEPT ![t] = "preparing"] /\ flusher' = flusher /\ pc[t] = "new"
    BY <1>1 DEF CreateRun
  <2>4. flusher[t] \notin {"waiting", "writing"} /\ \A u \in Trainers \ {t} : pc'[u] = pc[u]
    BY <2>3 DEF RunInv, TypeOK
  <2>5. row'[t].finished => /\ pc'[t] \in {"reporting", "failing", "ended", "dead"}
                            /\ row'[t].stage \in {"completed", "failed"}
    BY <2>2
  <2> QED
    BY <2>2, <2>3, <2>4, <2>5, RunFrame
<1>2. ASSUME NEW t \in Trainers, Prepare(t) PROVE RunInv'
  <2>1. ~row'[t].finished /\ \A u \in Trainers \ {t} : row'[u] = row[u]
    <3>1. PICK stage \in Stages : UpdateRun(t, AtStage(t, stage))
      BY <1>2, PrepareStages DEF Prepare
    <3>2. AtStage(t, stage) \in Row /\ AtStage(t, stage).finished = row[t].finished
      BY WrittenRows DEF TypeOK
    <3>3. ~row[t].finished
      BY <1>2 DEF Prepare, RunInv
    <3>4. row'[t] = AtStage(t, stage) /\ \A u \in Trainers \ {t} : row'[u] = row[u]
      BY <3>1, <3>2, Updated
    <3> QED
      BY <3>2, <3>3, <3>4
  <2>2. \A u \in Trainers \ {t} : pc'[u] = pc[u]
    BY <1>2, WentOn DEF Prepare, Stations
  <2>3. flusher' = flusher /\ flusher[t] \notin {"waiting", "writing"}
    BY <1>2 DEF Prepare, RunInv
  <2>4. row'[t].finished => /\ pc'[t] \in {"reporting", "failing", "ended", "dead"}
                            /\ row'[t].stage \in {"completed", "failed"}
    BY <2>1
  <2> QED
    BY <2>1, <2>2, <2>3, <2>4, RunFrame
<1>3. ASSUME NEW t \in Trainers, StartTraining(t) PROVE RunInv'
  BY <1>3 DEF StartTraining, TypeOK, RunInv
<1>4. ASSUME NEW t \in Trainers, ReportProgress(t) \/ EndThread(t) \/ FallSilent(t) PROVE RunInv'
  BY <1>4 DEF ReportProgress, EndThread, FallSilent, RunInv
<1>5. ASSUME NEW t \in Trainers, TakeProgress(t) PROVE RunInv'
  BY <1>5 DEF TakeProgress, TypeOK, RunInv
<1>6. ASSUME NEW t \in Trainers, WriteProgress(t) PROVE RunInv'
  <2>1. pc[t] \in {"training", "draining"} /\ ~row[t].finished
    BY <1>6 DEF WriteProgress, RunInv
  <2>2. ~row'[t].finished /\ \A u \in Trainers \ {t} : row'[u] = row[u]
    BY <1>6, <2>1, WrittenRows, Updated DEF WriteProgress, TypeOK, Stages
  <2>3. pc' = pc /\ \A u \in Trainers \ {t} : flusher'[u] = flusher[u]
    BY <1>6 DEF WriteProgress, TypeOK
  <2> QED
    BY <2>1, <2>2, <2>3 DEF RunInv
<1>7. ASSUME NEW t \in Trainers, AwaitThread(t) PROVE RunInv'
  BY <1>7 DEF AwaitThread, TypeOK, RunInv
<1>8. ASSUME NEW t \in Trainers, AwaitFlusher(t) PROVE RunInv'
  BY <1>8 DEF AwaitFlusher, Drained, TypeOK, RunInv
<1>9. ASSUME NEW t \in Trainers, Saving(t) PROVE RunInv'
  <2>1. ~row'[t].finished /\ \A u \in Trainers \ {t} : row'[u] = row[u]
    <3>1. AtStage(t, "saving") \in Row /\ AtStage(t, "saving").finished = row[t].finished
      BY WrittenRows DEF TypeOK, Stages
    <3>2. ~row[t].finished
      BY <1>9 DEF Saving, RunInv
    <3>3. row'[t] = AtStage(t, "saving") /\ \A u \in Trainers \ {t} : row'[u] = row[u]
      BY <1>9, <3>1, Updated DEF Saving
    <3> QED
      BY <3>1, <3>2, <3>3
  <2>2. \A u \in Trainers \ {t} : pc'[u] = pc[u]
    BY <1>9, WentOn DEF Saving, Stations
  <2>3. flusher' = flusher /\ flusher[t] \notin {"waiting", "writing"}
    BY <1>9 DEF Saving, RunInv
  <2>4. row'[t].finished => /\ pc'[t] \in {"reporting", "failing", "ended", "dead"}
                            /\ row'[t].stage \in {"completed", "failed"}
    BY <2>1
  <2> QED
    BY <2>1, <2>2, <2>3, <2>4, RunFrame
<1>10. ASSUME NEW t \in Trainers, OpenTmp(t) \/ WriteTmp(t) \/ Replace(t) PROVE RunInv'
  <2>1. /\ ~row[t].finished /\ flusher[t] \notin {"waiting", "writing"}
        /\ row' = row /\ flusher' = flusher
    BY <1>10 DEF OpenTmp, WriteTmp, Replace, RunInv
  <2>2. CASE GoOn(t, "writing") \/ GoOn(t, "replacing") \/ GoOn(t, "finishing")
    BY <2>1, <2>2, WentOn, RunFrame DEF Stations
  <2>3. CASE pc' = [pc EXCEPT ![t] = "failing"]
    BY <2>1, <2>3, RunFrame DEF TypeOK
  <2> QED
    BY <1>10, <2>2, <2>3 DEF OpenTmp, WriteTmp, Replace
<1>11. ASSUME NEW t \in Trainers, Finish(t) PROVE RunInv'
  <2>1. row'[t].stage = "completed" /\ \A u \in Trainers \ {t} : row'[u] = row[u]
    BY <1>11, WrittenRows, Updated DEF Finish, TypeOK
  <2>2. pc'[t] \in {"reporting", "failing"} /\ \A u \in Trainers \ {t} : pc'[u] = pc[u]
    BY <1>11, WentOn DEF Finish, Stations
  <2> QED
    BY <1>11, <2>1, <2>2, RunFrame DEF Finish, RunInv
<1>12. ASSUME NEW t \in Trainers, Fail(t) PROVE RunInv'
  <2>1. row'[t].stage = "failed" /\ \A u \in Trainers \ {t} : row'[u] = row[u]
    BY <1>12, WrittenRows, Updated DEF Fail, TypeOK
  <2>2. pc' = [pc EXCEPT ![t] = "ended"] /\ pc \in [Trainers -> Stations]
    BY <1>12 DEF Fail, TypeOK
  <2> QED
    BY <1>12, <2>1, <2>2, RunFrame DEF Fail, RunInv
<1>13. ASSUME NEW t \in Trainers, PrintReport(t) \/ CallRaises(t) PROVE RunInv'
  BY <1>13 DEF PrintReport, CallRaises, TypeOK, RunInv
<1>14. ASSUME NEW t \in Trainers, Kill(t) PROVE RunInv'
  BY <1>14 DEF Kill, TypeOK, RunInv
<1>15. ASSUME NEW r \in Registries, StatFile(r) \/ LoadFile(r) \/ ResetRegistry(r) PROVE RunInv'
  BY <1>15 DEF StatFile, LoadFile, ResetRegistry, RunInv
<1>16. CASE UNCHANGED vars
  BY <1>16 DEF vars, RunInv
<1> QED
  BY <1>1, <1>2, <1>3, <1>4, <1>5, <1>6, <1>7, <1>8, <1>9, <1>10, <1>11, <1>12, <1>13,
     <1>14, <1>15, <1>16 DEF Next, RunStep, FlusherStep

\* The row of a run is written by its own steps only.
LEMMA FinishedStep ==
  ASSUME TypeOK, RunInv, [Next]_vars, NEW t \in Trainers, row[t].finished
  PROVE  /\ row'[t].finished
         /\ row'[t].stage \in {"completed", "failed"}
         /\ row'[t].status \in {row[t].status, "failed"}
<1> USE DEF runVars
<1>1. /\ row[t].stage \in {"completed", "failed"} /\ flusher[t] \notin {"waiting", "writing"}
      /\ pc[t] \in {"reporting", "failing", "ended", "dead"}
  BY DEF RunInv
<1>2. CASE row'[t] = row[t]
  BY <1>1, <1>2
<1>3. CASE Fail(t)
  BY <1>3, WrittenRows, Updated DEF Fail, TypeOK
<1>4. ASSUME NEW u \in Trainers, CreateRun(u) \/ RunStep(u) \/ FlusherStep(u), ~Fail(t)
      PROVE  row'[t] = row[t]
  <2>1. CASE u = t
    BY <1>1, <1>4, <2>1 DEF CreateRun, RunStep, FlusherStep, Prepare, StartTraining, AwaitThread,
       AwaitFlusher, Saving, OpenTmp, WriteTmp, Replace, Finish, PrintReport, TakeProgress,
       WriteProgress
  <2>2. CASE u # t
    BY <1>4, <2>2 DEF CreateRun, RunStep, FlusherStep, Prepare, StartTraining, AwaitThread,
       AwaitFlusher, Saving, OpenTmp, WriteTmp, Replace, Finish, PrintReport, Fail, TakeProgress,
       WriteProgress, UpdateRun, TypeOK
  <2> QED
    BY <2>1, <2>2
<1>5. ASSUME NEW u \in Trainers,
             ReportProgress(u) \/ EndThread(u) \/ CallRaises(u) \/ Kill(u) \/ FallSilent(u)
      PROVE  row'[t] = row[t]
  BY <1>5 DEF ReportProgress, EndThread, CallRaises, Kill, FallSilent
<1>6. ASSUME NEW r \in Registries, StatFile(r) \/ LoadFile(r) \/ ResetRegistry(r)
      PROVE  row'[t] = row[t]
  BY <1>6 DEF StatFile, LoadFile, ResetRegistry
<1> QED
  BY <1>2, <1>3, <1>4, <1>5, <1>6 DEF Next, vars

-----------------------------------------------------------------------------
(* The files and what registries know of them.                               *)

LEMMA OthersStay ==
  ASSUME TypeOK, NEW t \in Trainers, NEW u \in Trainers \ {t},
         CreateRun(t) \/ RunStep(t) \/ CallRaises(t) \/ Kill(t)
  PROVE  pc'[u] = pc[u]
<1>1. CASE Prepare(t) \/ Saving(t) \/ OpenTmp(t) \/ WriteTmp(t) \/ Finish(t)
  BY <1>1, WentOn DEF Prepare, Saving, OpenTmp, WriteTmp, Finish, Stations
<1>2. CASE Replace(t)
  BY <1>2 DEF Replace, GoOn, TypeOK
<1>3. CASE CreateRun(t) \/ StartTraining(t) \/ AwaitThread(t) \/ AwaitFlusher(t)
  BY <1>3 DEF CreateRun, StartTraining, AwaitThread, AwaitFlusher, TypeOK
<1>4. CASE PrintReport(t) \/ Fail(t) \/ CallRaises(t) \/ Kill(t)
  BY <1>4 DEF PrintReport, Fail, CallRaises, Kill, TypeOK
<1> QED
  BY <1>1, <1>2, <1>3, <1>4 DEF RunStep

LEMMA OpenedGrows ==
  ASSUME TypeOK, [Next]_vars
  PROVE  Opened \subseteq Opened'
<1> SUFFICES ASSUME NEW u \in Opened PROVE u \in Opened'
  OBVIOUS
<1>1. u \in Trainers /\ pc[u] \notin {"new", "preparing", "training", "draining", "saving", "opening"}
  BY DEF Opened
<1>2. CASE pc'[u] = pc[u]
  BY <1>1, <1>2 DEF Opened
<1>3. ASSUME NEW t \in Trainers, t # u,
             CreateRun(t) \/ RunStep(t) \/ CallRaises(t) \/ Kill(t)
      PROVE  pc'[u] = pc[u]
  BY <1>1, <1>3, OthersStay
<1>4. CASE CreateRun(u) \/ RunStep(u) \/ CallRaises(u) \/ Kill(u)
  <2>1. pc'[u] \in {"replacing", "finishing", "reporting", "failing", "ended", "dead"}
    BY <1>1, <1>4 DEF CreateRun, RunStep, CallRaises, Kill, Prepare, StartTraining, AwaitThread,
       AwaitFlusher, Saving, OpenTmp, WriteTmp, Replace, Finish, PrintReport, Fail, GoOn, TypeOK
  <2> QED
    BY <1>1, <2>1 DEF Opened
<1>5. ASSUME NEW t \in Trainers, FlusherStep(t) \/ ReportProgress(t) \/ EndThread(t) \/ FallSilent(t)
      PROVE  pc'[u] = pc[u]
  BY <1>5 DEF FlusherStep, TakeProgress, WriteProgress, ReportProgress, EndThread, FallSilent
<1>6. ASSUME NEW r \in Registries, StatFile(r) \/ LoadFile(r) \/ ResetRegistry(r)
      PROVE  pc'[u] = pc[u]
  BY <1>6 DEF StatFile, LoadFile, ResetRegistry
<1> QED
  BY <1>2, <1>3, <1>4, <1>5, <1>6 DEF Next, vars

LEMMA FileFrame ==
  ASSUME FileInv, AnswersFromFile, Opened \subseteq Opened',
         UNCHANGED << tmp, path, content, mtime, writes, registryVars >>
  PROVE  FileInv' /\ AnswersFromFile'
BY DEF FileInv, AnswersFromFile, Changed, ModelAtPath, ModelIn, registryVars

LEMMA FileKeeps ==
  ASSUME TypeOK, FileInv, AnswersFromFile, [Next]_vars
  PROVE  FileInv' /\ AnswersFromFile'
<1> USE DEF fileVars, registryVars
<1>0. Opened \subseteq Opened'
  BY OpenedGrows
<1>1. ASSUME NEW t \in Trainers, OpenTmp(t) PROVE FileInv' /\ AnswersFromFile'
  <2> DEFINE inode == TmpInode(t)
  <2>1. inode \in Trainers /\ inode # path
    BY <1>1, NamesAssumption DEF OpenTmp, TmpInode, TypeOK, FileInv, Opened
  <2>2. pc'[t] \in {"writing", "failing"}
    BY <1>1, WentOn DEF OpenTmp, Stations
  <2>3. inode \in Opened'
    BY <1>0, <2>1, <2>2 DEF TmpInode, FileInv, Opened
  <2>4. /\ tmp' = inode /\ path' = path /\ writes' = writes + 1 /\ writes \in Nat
        /\ mtime'[inode] = writes + 1
        /\ \A u \in Trainers \ {inode} : mtime'[u] = mtime[u] /\ content'[u] = content[u]
        /\ models' = models /\ mtimes' = mtimes /\ statted' = statted
    BY <1>1, <2>1 DEF OpenTmp, TypeOK
  <2>5. /\ mtime \in [Trainers -> Nat] /\ mtimes \in [Registries -> Nat]
        /\ statted \in [Registries -> Nat] /\ path \in Trainers \cup {NoFile}
    BY DEF TypeOK
  <2> HIDE DEF inode
  <2>6. FileInv'
    BY <1>0, <2>1, <2>3, <2>4, <2>5 DEF FileInv
  <2>7. AnswersFromFile'
    BY <2>1, <2>4, <2>5 DEF AnswersFromFile, Changed, ModelAtPath, ModelIn
  <2> QED
    BY <2>6, <2>7
<1>2. ASSUME NEW t \in Trainers, WriteTmp(t) PROVE FileInv' /\ AnswersFromFile'
  <2>1. /\ fd[t] \in Trainers /\ writes' = writes + 1 /\ writes \in Nat
        /\ mtime'[fd[t]] = writes + 1
        /\ \A u \in Trainers \ {fd[t]} : mtime'[u] = mtime[u] /\ content'[u] = content[u]
        /\ UNCHANGED << tmp, path, models, mtimes, statted >>
    BY <1>2 DEF WriteTmp, TypeOK
  <2>2. /\ mtime \in [Trainers -> Nat] /\ mtimes \in [Registries -> Nat]
        /\ statted \in [Registries -> Nat] /\ path \in Trainers \cup {NoFile}
        /\ tmp \in Trainers \cup {NoFile}
    BY DEF TypeOK
  <2>3. FileInv'
    BY <1>0, <2>1, <2>2 DEF FileInv
  <2>4. AnswersFromFile'
    <3> SUFFICES ASSUME NEW r \in Registries, path # NoFile, mtimes[r] = mtime'[path]
                 PROVE  models[r] = ModelAtPath'
      BY <2>1 DEF AnswersFromFile, Changed
    <3>1. path # fd[t]
      BY <2>1, <2>2 DEF FileInv
    <3> QED
      BY <2>1, <2>2, <3>1 DEF AnswersFromFile, Changed, ModelAtPath, ModelIn
  <2> QED
    BY <2>3, <2>4
<1>3. ASSUME NEW t \in Trainers, Replace(t) PROVE FileInv' /\ AnswersFromFile'
  <2>1. CASE tmp = NoFile
    BY <1>0, <1>3, <2>1, FileFrame DEF Replace
  <2>2. CASE tmp # NoFile
    <3>1. path' = tmp /\ tmp' = NoFile /\ UNCHANGED << content, mtime, writes, models, mtimes, statted >>
      BY <1>3, <2>2 DEF Replace
    <3> QED
      BY <1>0, <2>2, <3>1 DEF FileInv, AnswersFromFile, Changed
  <2> QED
    BY <2>1, <2>2
<1>4. ASSUME NEW r \in Registries, StatFile(r) PROVE FileInv' /\ AnswersFromFile'
  <2>1. /\ path # NoFile /\ statted'[r] = mtime[path]
        /\ \A q \in Registries \ {r} : statted'[q] = statted[q]
        /\ UNCHANGED << tmp, path, content, mtime, writes, models, mtimes >>
    BY <1>4 DEF StatFile, TypeOK
  <2>2. mtime[path] <= writes
    BY <2>1 DEF FileInv, TypeOK
  <2>3. FileInv'
    BY <1>0, <2>1, <2>2 DEF FileInv
  <2> QED
    BY <2>1, <2>3 DEF AnswersFromFile, Changed, ModelAtPath, ModelIn
<1>5. ASSUME NEW r \in Registries, LoadFile(r) PROVE FileInv' /\ AnswersFromFile'
  <2>1. /\ models'[r] = ModelAtPath /\ mtimes'[r] = statted[r] /\ statted'[r] = 0
        /\ \A q \in Registries \ {r} : /\ models'[q] = models[q] /\ mtimes'[q] = mtimes[q]
                                      /\ statted'[q] = statted[q]
        /\ UNCHANGED << tmp, path, content, mtime, writes >>
    BY <1>5 DEF LoadFile, TypeOK
  <2>2. writes \in Nat /\ mtime \in [Trainers -> Nat]
    BY DEF TypeOK
  <2>3. FileInv'
    BY <1>0, <2>1, <2>2 DEF FileInv
  <2>4. AnswersFromFile'
    BY <2>1 DEF AnswersFromFile, Changed, ModelAtPath, ModelIn
  <2> QED
    BY <2>3, <2>4
<1>6. ASSUME NEW r \in Registries, ResetRegistry(r) PROVE FileInv' /\ AnswersFromFile'
  <2>1. /\ models'[r] = NoModel /\ mtimes'[r] = 0
        /\ \A q \in Registries \ {r} : models'[q] = models[q] /\ mtimes'[q] = mtimes[q]
        /\ UNCHANGED << tmp, path, content, mtime, writes, statted >>
    BY <1>6 DEF ResetRegistry, TypeOK
  <2>2. writes \in Nat /\ mtime \in [Trainers -> Nat]
    BY DEF TypeOK
  <2>3. FileInv'
    BY <1>0, <2>1, <2>2 DEF FileInv
  <2>4. AnswersFromFile'
    BY <2>1, <2>2 DEF FileInv, AnswersFromFile, Changed, ModelAtPath, ModelIn
  <2> QED
    BY <2>3, <2>4
<1>7. ASSUME NEW t \in Trainers,
             \/ CreateRun(t) \/ Prepare(t) \/ StartTraining(t) \/ AwaitThread(t) \/ AwaitFlusher(t)
             \/ Saving(t) \/ Finish(t) \/ PrintReport(t) \/ Fail(t) \/ FlusherStep(t)
             \/ ReportProgress(t) \/ EndThread(t) \/ CallRaises(t) \/ Kill(t) \/ FallSilent(t)
      PROVE  FileInv' /\ AnswersFromFile'
  <2>1. UNCHANGED << tmp, path, content, mtime, writes, models, mtimes, statted >>
    BY <1>7 DEF CreateRun, Prepare, StartTraining, AwaitThread, AwaitFlusher, Saving, Finish,
       PrintReport, Fail, FlusherStep, TakeProgress, WriteProgress, ReportProgress, EndThread,
       CallRaises, Kill, FallSilent
  <2> QED
    BY <1>0, <2>1, FileFrame
<1>8. CASE UNCHANGED vars
  BY <1>0, <1>8, FileFrame DEF vars
<1> QED
  BY <1>1, <1>2, <1>3, <1>4, <1>5, <1>6, <1>7, <1>8 DEF Next, RunStep

-----------------------------------------------------------------------------
(* One trainer at a time.                                                    *)

LEMMA SoloActive ==
  ASSUME OneAtATime = TRUE, TypeOK, SoloInv, [Next]_vars
  PROVE  \A t, u \in Trainers : Active(t)' /\ Active(u)' => t = u
<1> USE DEF Active, Gone
<1>1. ASSUME NEW t \in Trainers, CreateRun(t)
      PROVE  \A u \in Trainers \ {t} : ~Active(u)'
  BY <1>1, OthersStay DEF CreateRun
<1>2. ASSUME NEW t \in Trainers, RunStep(t) \/ CallRaises(t) \/ Kill(t)
      PROVE  \A u \in Trainers : Active(u)' => Active(u)
  <2>1. \A u \in Trainers \ {t} : pc'[u] = pc[u]
    BY <1>2, OthersStay
  <2>2. Active(t)
    BY <1>2 DEF RunStep, CallRaises, Kill, Prepare, StartTraining, AwaitThread, AwaitFlusher,
       Saving, OpenTmp, WriteTmp, Replace, Finish, PrintReport, Fail
  <2> QED
    BY <2>1, <2>2
<1>3. ASSUME NEW t \in Trainers, FlusherStep(t) \/ ReportProgress(t) \/ EndThread(t) \/ FallSilent(t)
      PROVE  pc' = pc
  BY <1>3 DEF FlusherStep, TakeProgress, WriteProgress, ReportProgress, EndThread, FallSilent
<1>4. ASSUME NEW r \in Registries, StatFile(r) \/ LoadFile(r) \/ ResetRegistry(r)
      PROVE  pc' = pc
  BY <1>4 DEF StatFile, LoadFile, ResetRegistry
<1> QED
  BY <1>1, <1>2, <1>3, <1>4 DEF Next, vars, SoloInv

LEMMA SavedFrame ==
  ASSUME NEW t \in Trainers, SavedInv(t), installed \subseteq installed',
         row'[t].modelPath = row[t].modelPath, row'[t].dryRun = row[t].dryRun,
         pc'[t] = pc[t] \/ pc'[t] \notin {"writing", "replacing", "finishing"},
         pc[t] \in {"writing", "replacing"} => UNCHANGED << tmp, fd, content >>
  PROVE  SavedInv(t)'
BY DEF SavedInv

LEMMA RowKeeps ==
  ASSUME TypeOK, NEW t \in Trainers,
         Prepare(t) \/ WriteProgress(t) \/ Saving(t) \/ Fail(t)
  PROVE  \A u \in Trainers : row'[u].modelPath = row[u].modelPath /\ row'[u].dryRun = row[u].dryRun
<1> USE DEF runVars
<1>1. CASE row' = row
  BY <1>1
<1>2. ASSUME NEW stage \in Stages, UpdateRun(t, AtStage(t, stage))
      PROVE  \A u \in Trainers : row'[u].modelPath = row[u].modelPath /\ row'[u].dryRun = row[u].dryRun
  <2>1. /\ AtStage(t, stage) \in Row /\ AtStage(t, stage).modelPath = row[t].modelPath
        /\ AtStage(t, stage).dryRun = row[t].dryRun
    BY WrittenRows DEF TypeOK
  <2>2. row'[t] = AtStage(t, stage) /\ \A u \in Trainers \ {t} : row'[u] = row[u]
    BY <1>2, <2>1, Updated
  <2> QED
    BY <2>1, <2>2
<1>3. CASE UpdateRun(t, FailedRow(t))
  <2>1. /\ FailedRow(t) \in Row /\ FailedRow(t).modelPath = row[t].modelPath
        /\ FailedRow(t).dryRun = row[t].dryRun
    BY WrittenRows DEF TypeOK
  <2>2. row'[t] = FailedRow(t) /\ \A u \in Trainers \ {t} : row'[u] = row[u]
    BY <1>3, <2>1, Updated
  <2> QED
    BY <2>1, <2>2
<1> QED
  BY <1>1, <1>2, <1>3, PrepareStages DEF Prepare, WriteProgress, Saving, Fail, Stages

LEMMA SoloKeeps ==
  ASSUME OneAtATime = TRUE, TypeOK, SoloInv, [Next]_vars
  PROVE  SoloInv'
<1> USE DEF runVars, threadVars, fileVars, registryVars
<1> SUFFICES \A u \in Trainers : SavedInv(u)'
  BY SoloActive DEF SoloInv
<1>0. /\ \A u \in Trainers : SavedInv(u)
      /\ \A t, u \in Trainers : Active(t) /\ Active(u) => t = u
  BY DEF SoloInv
<1>1. ASSUME NEW t \in Trainers, CreateRun(t) PROVE \A u \in Trainers : SavedInv(u)'
  <2> DEFINE created(dryRun) == [status |-> "running", stage |-> "starting", dryRun |-> dryRun,
                                 modelPath |-> FALSE, finished |-> FALSE]
  <2>1. PICK dryRun \in BOOLEAN : UpdateRun(t, created(dryRun))
    BY <1>1 DEF CreateRun
  <2>2. created(dryRun) \in Row /\ ~created(dryRun).modelPath
    BY DEF Row
  <2>3. row'[t] = created(dryRun) /\ \A u \in Trainers \ {t} : row'[u] = row[u]
    <3> HIDE DEF created
    <3> QED
      BY <2>1, <2>2, Updated
  <2>4. /\ \A u \in Trainers \ {t} : pc'[u] = pc[u]
        /\ pc'[t] = "preparing" /\ UNCHANGED << tmp, fd, content, installed >>
    BY <1>1 DEF CreateRun, TypeOK
  <2>5. SavedInv(t)'
    BY <2>2, <2>3, <2>4 DEF SavedInv
  <2> QED
    BY <1>0, <2>3, <2>4, <2>5, SavedFrame
<1>2. ASSUME NEW t \in Trainers, Prepare(t) \/ Saving(t) \/ Fail(t) PROVE \A u \in Trainers : SavedInv(u)'
  <2>1. /\ \A u \in Trainers \ {t} : pc'[u] = pc[u]
        /\ pc'[t] \in {"preparing", "opening", "failing", "ended"}
    BY <1>2, WentOn DEF Prepare, Saving, Fail, Stations, TypeOK
  <2>2. UNCHANGED << tmp, fd, content, installed >>
    BY <1>2 DEF Prepare, Saving, Fail
  <2> QED
    BY <1>0, <1>2, <2>1, <2>2, RowKeeps, SavedFrame
<1>3. ASSUME NEW t \in Trainers, WriteProgress(t) PROVE \A u \in Trainers : SavedInv(u)'
  <2>1. UNCHANGED << pc, tmp, fd, content, installed >>
    BY <1>3 DEF WriteProgress
  <2> QED
    BY <1>0, <1>3, <2>1, RowKeeps, SavedFrame
<1>4. ASSUME NEW t \in Trainers,
             StartTraining(t) \/ AwaitThread(t) \/ PrintReport(t) \/ CallRaises(t) \/ Kill(t)
      PROVE  \A u \in Trainers : SavedInv(u)'
  <2>1. /\ \A u \in Trainers \ {t} : pc'[u] = pc[u]
        /\ pc'[t] \in {"training", "draining", "ended", "failing", "dead"}
        /\ UNCHANGED << row, tmp, fd, content, installed >>
    BY <1>4 DEF StartTraining, AwaitThread, PrintReport, CallRaises, Kill, TypeOK
  <2> QED
    BY <1>0, <2>1, SavedFrame
<1>5. ASSUME NEW t \in Trainers, AwaitFlusher(t) PROVE \A u \in Trainers : SavedInv(u)'
  <2>1. /\ \A u \in Trainers \ {t} : pc'[u] = pc[u]
        /\ pc'[t] \in {"finishing", "saving", "failing"}
        /\ pc'[t] = "finishing" => row[t].dryRun
        /\ UNCHANGED << row, tmp, fd, content, installed >>
    BY <1>5 DEF AwaitFlusher, AfterTraining, TypeOK
  <2>2. SavedInv(t)'
    BY <1>0, <2>1 DEF SavedInv
  <2> QED
    BY <1>0, <2>1, <2>2, SavedFrame
<1>6. ASSUME NEW t \in Trainers, OpenTmp(t) \/ WriteTmp(t) \/ Replace(t)
      PROVE  \A u \in Trainers : SavedInv(u)'
  <2>1. \A u \in Trainers \ {t} : pc[u] \in {"new", "ended", "dead"}
    BY <1>0, <1>6 DEF OpenTmp, WriteTmp, Replace, Active, Gone
  <2>2. row' = row /\ installed \subseteq installed'
    BY <1>6 DEF OpenTmp, WriteTmp, Replace
  <2>3. \A u \in Trainers \ {t} : SavedInv(u)'
    BY <1>0, <1>6, <2>1, <2>2, OthersStay, SavedFrame DEF RunStep
  <2>4. row[t].modelPath => t \in installed'
    BY <1>0, <2>2 DEF SavedInv
  <2>5. CASE OpenTmp(t)
    <3>1. TmpInode(t) \in Trainers /\ TmpInode(t) # NoFile
      BY NamesAssumption DEF TmpInode, TypeOK
    <3>2. tmp' = TmpInode(t) /\ fd'[t] = TmpInode(t) /\ content'[TmpInode(t)] = "empty"
      BY <2>5, <3>1 DEF OpenTmp, TypeOK
    <3>3. pc'[t] \in {"writing", "failing"}
      BY <2>5, WentOn DEF OpenTmp, Stations
    <3> QED
      BY <2>2, <2>3, <2>4, <3>1, <3>2, <3>3 DEF SavedInv
  <2>6. CASE WriteTmp(t)
    <3>1. tmp # NoFile /\ fd[t] = tmp /\ content[tmp] = "empty"
      BY <1>0, <2>6 DEF SavedInv, WriteTmp
    <3>2. tmp' = tmp /\ content'[tmp] = t
      BY <2>6, <3>1 DEF WriteTmp, TypeOK
    <3>3. pc'[t] \in {"replacing", "failing"}
      BY <2>6, WentOn DEF WriteTmp, Stations
    <3> QED
      BY <2>2, <2>3, <2>4, <3>1, <3>2, <3>3 DEF SavedInv
  <2>7. CASE Replace(t)
    <3>1. tmp # NoFile /\ content[tmp] = t
      BY <1>0, <2>7 DEF SavedInv, Replace
    <3>2. path' = tmp /\ content' = content /\ GoOn(t, "finishing")
      BY <2>7, <3>1 DEF Replace
    <3>3. ModelAtPath' = t
      BY <3>1, <3>2 DEF ModelAtPath, ModelIn
    <3>4. t \in installed'
      BY <2>7, <3>1, <3>3, NamesAssumption DEF Replace
    <3>5. pc'[t] \in {"finishing", "failing"}
      BY <3>2, WentOn DEF Stations
    <3> QED
      BY <2>2, <2>3, <2>4, <3>4, <3>5 DEF SavedInv
  <2> QED
    BY <1>6, <2>5, <2>6, <2>7
<1>7. ASSUME NEW t \in Trainers, Finish(t) PROVE \A u \in Trainers : SavedInv(u)'
  <2>1. /\ SucceededRow(t) \in Row /\ SucceededRow(t).modelPath = ~row[t].dryRun
        /\ SucceededRow(t).dryRun = row[t].dryRun
    BY WrittenRows DEF TypeOK
  <2>2. row'[t] = SucceededRow(t) /\ \A u \in Trainers \ {t} : row'[u] = row[u]
    BY <1>7, <2>1, Updated DEF Finish
  <2>3. /\ pc'[t] \in {"reporting", "failing"} /\ \A u \in Trainers \ {t} : pc'[u] = pc[u]
        /\ UNCHANGED << tmp, fd, content, installed >>
    BY <1>7, WentOn DEF Finish, Stations
  <2>4. ~row[t].dryRun => t \in installed
    BY <1>0, <1>7 DEF Finish, SavedInv
  <2>5. row'[t].modelPath => t \in installed'
    BY <2>1, <2>2, <2>3, <2>4
  <2>6. SavedInv(t)'
    BY <2>3, <2>5 DEF SavedInv
  <2> QED
    BY <1>0, <2>2, <2>3, <2>6, SavedFrame
<1>8. ASSUME NEW t \in Trainers, TakeProgress(t) \/ ReportProgress(t) \/ EndThread(t) \/ FallSilent(t)
      PROVE  \A u \in Trainers : SavedInv(u)'
  <2>1. UNCHANGED << row, pc, tmp, fd, content, installed >>
    BY <1>8 DEF TakeProgress, ReportProgress, EndThread, FallSilent
  <2> QED
    BY <1>0, <2>1, SavedFrame
<1>9. ASSUME NEW r \in Registries, StatFile(r) \/ LoadFile(r) \/ ResetRegistry(r)
      PROVE  \A u \in Trainers : SavedInv(u)'
  <2>1. UNCHANGED << row, pc, tmp, fd, content, installed >>
    BY <1>9 DEF StatFile, LoadFile, ResetRegistry
  <2> QED
    BY <1>0, <2>1, SavedFrame
<1>10. CASE UNCHANGED vars
  BY <1>0, <1>10, SavedFrame DEF vars
<1> QED
  BY <1>1, <1>2, <1>3, <1>4, <1>5, <1>6, <1>7, <1>8, <1>9, <1>10 DEF Next, RunStep, FlusherStep

\* A model at path is only replaced by a model.
LEMMA ModelStaysStep ==
  ASSUME OneAtATime = TRUE, TypeOK, FileInv, SoloInv, [Next]_vars, ModelAtPath # NoModel
  PROVE  ModelAtPath' # NoModel
<1> USE DEF fileVars
<1>0. path \in Trainers /\ \A t \in Trainers : SavedInv(t)
  BY DEF SoloInv, TypeOK, ModelAtPath
<1>1. ASSUME NEW t \in Trainers, OpenTmp(t) PROVE ModelAtPath' = ModelAtPath
  <2>1. TmpInode(t) # path
    BY <1>0, <1>1, NamesAssumption DEF OpenTmp, TmpInode, FileInv, Opened
  <2> QED
    BY <1>0, <1>1, <2>1 DEF OpenTmp, ModelAtPath, ModelIn, TypeOK
<1>2. ASSUME NEW t \in Trainers, WriteTmp(t) PROVE ModelAtPath' = ModelAtPath
  <2>1. fd[t] # path
    BY <1>0, <1>2, NamesAssumption DEF WriteTmp, SavedInv, FileInv
  <2> QED
    BY <1>0, <1>2, <2>1 DEF WriteTmp, ModelAtPath, ModelIn, TypeOK
<1>3. ASSUME NEW t \in Trainers, Replace(t) PROVE ModelAtPath' = t
  BY <1>0, <1>3 DEF Replace, SavedInv, ModelAtPath, ModelIn
<1>4. ASSUME NEW t \in Trainers,
             \/ CreateRun(t) \/ Prepare(t) \/ StartTraining(t) \/ AwaitThread(t) \/ AwaitFlusher(t)
             \/ Saving(t) \/ Finish(t) \/ PrintReport(t) \/ Fail(t) \/ FlusherStep(t)
             \/ ReportProgress(t) \/ EndThread(t) \/ CallRaises(t) \/ Kill(t) \/ FallSilent(t)
      PROVE  UNCHANGED << path, content >>
  BY <1>4 DEF CreateRun, Prepare, StartTraining, AwaitThread, AwaitFlusher, Saving, Finish,
     PrintReport, Fail, FlusherStep, TakeProgress, WriteProgress, ReportProgress, EndThread,
     CallRaises, Kill, FallSilent
<1>5. ASSUME NEW r \in Registries, StatFile(r) \/ LoadFile(r) \/ ResetRegistry(r)
      PROVE  UNCHANGED << path, content >>
  BY <1>5 DEF StatFile, LoadFile, ResetRegistry
<1>6. CASE UNCHANGED << path, content >>
  BY <1>6 DEF ModelAtPath, ModelIn
<1> QED
  BY <1>1, <1>2, <1>3, <1>4, <1>5, <1>6, NamesAssumption DEF Next, RunStep, vars

-----------------------------------------------------------------------------
(* Theorems.                                                                 *)

\* The invariant of training runs and registries: finished rows, inodes and
\* their times, and what a registry has in memory.
THEOREM ModelInvHolds == Spec => []ModelInv
<1>1. Init => ModelInv
  <2>1. Init => RunInv
    <3> SUFFICES ASSUME Init, NEW t \in Trainers
                 PROVE  flusher[t] = "off" /\ ~row[t].finished
      BY DEF RunInv
    <3>1. ~NoRow.finished
      BY DEF NoRow
    <3> QED
      BY <3>1 DEF Init
  <2>2. Init => FileInv /\ AnswersFromFile
    <3> SUFFICES ASSUME Init PROVE FileInv /\ AnswersFromFile
      OBVIOUS
    <3>1. /\ path = NoFile /\ tmp = NoFile /\ writes = 0
          /\ \A t \in Trainers : mtime[t] = 0
          /\ \A r \in Registries : mtimes[r] = 0 /\ statted[r] = 0
      BY DEF Init
    <3> QED
      BY <3>1 DEF FileInv, AnswersFromFile
  <2> QED
    BY <2>1, <2>2, TypeInit DEF ModelInv
<1>2. ModelInv /\ [Next]_vars => ModelInv'
  BY TypeStep, RunKeeps, FileKeeps DEF ModelInv
<1> QED
  BY <1>1, <1>2, PTL DEF Spec

\* Trainers, their rows and files, and the registries are type correct.
THEOREM TypeCorrect == Spec => []TypeOK
<1>1. ModelInv => TypeOK
  BY DEF ModelInv
<1> QED
  BY <1>1, ModelInvHolds, PTL

\* Whenever a get of a ModelRegistry would answer from memory, it answers with
\* what is in the file, however many trainers share it.
THEOREM AnswersFromFileHolds == Spec => []AnswersFromFile
<1>1. ModelInv => AnswersFromFile
  BY DEF ModelInv
<1> QED
  BY <1>1, ModelInvHolds, PTL

\* No progress that was still queued is written to a run that has finished.
THEOREM FinishedStaysHolds == Spec => FinishedStays
<1>1. ModelInv /\ [Next]_vars => [\A t \in Trainers : row[t].finished =>
                                    /\ row'[t].finished
                                    /\ row'[t].stage \in {"completed", "failed"}
                                    /\ row'[t].status \in {row[t].status, "failed"}]_vars
  BY FinishedStep DEF ModelInv
<1> QED
  BY <1>1, ModelInvHolds, PTL DEF Spec, FinishedStays

\* With one trainer at a time, a trainer replaces the file by what it has written.
LEMMA SoloInvHolds ==
  ASSUME OneAtATime = TRUE
  PROVE  Spec => []SoloInv
<1>1. Init => SoloInv
  BY DEF Init, SoloInv, SavedInv, Active, Gone, NoRow
<1>2. ModelInv /\ SoloInv /\ [Next]_vars => SoloInv'
  BY SoloKeeps DEF ModelInv
<1> QED
  BY <1>1, <1>2, ModelInvHolds, PTL DEF Spec

\* A run that records a model path has put its model there, when trainers of a
\* market run one after the other.
THEOREM RecordedModelIsSavedHolds ==
  ASSUME OneAtATime = TRUE
  PROVE  Spec => []RecordedModelIsSaved
<1>1. SoloInv => RecordedModelIsSaved
  BY DEF SoloInv, SavedInv, RecordedModelIsSaved
<1> QED
  BY <1>1, SoloInvHolds, PTL

\* A market that has a model has one at every moment of later trainings, when
\* they run one after the other, whatever fails and is killed.
THEOREM ModelStaysHolds ==
  ASSUME OneAtATime = TRUE
  PROVE  Spec => ModelStays
<1>1. ModelInv /\ SoloInv /\ [Next]_vars => [ModelAtPath # NoModel => ModelAtPath' # NoModel]_vars
  BY ModelStaysStep DEF ModelInv
<1> QED
  BY <1>1, ModelInvHolds, SoloInvHolds, PTL DEF Spec, ModelStays
=============================================================================

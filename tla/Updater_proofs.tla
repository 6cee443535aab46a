---------------------------- MODULE Updater_proofs ----------------------------
(***************************************************************************)
(* Theorems about Updater, for any number of updates, releases and faults. *)
(***************************************************************************)
EXTENDS Updater, TLAPS

-----------------------------------------------------------------------------
(* The inductive invariant.                                                 *)

\* The fields of the task, the workers, the installers and the files; their
\* values are bounded by what is said of them below.
Fields ==
  /\ task = [pc |-> task.pc, tag |-> task.tag]
  /\ worker = [i \in Updates |-> [pc |-> worker[i].pc, tag |-> worker[i].tag]]
  /\ installer = [i \in Updates |->
       [pc |-> installer[i].pc, wasUp |-> installer[i].wasUp,
        bin |-> installer[i].bin, init |-> installer[i].init]]
  /\ files = [bin |-> files.bin, init |-> files.init]
  /\ made \in 0..MaxUpdates

Early == {"none", "forked", "locked", "checked"}

\* An update's worker starts once, and its installer after it.
SpawnInv ==
  /\ \A i \in Updates :
       /\ i > made => worker[i].pc = "none"
       /\ worker[i].pc \in Early => installer[i].pc = "none"
  /\ task.pc \notin {"none", "publish"} =>
       made \in Updates /\ worker[made].pc = "none"

\* The installer of update i is inside its lock.
Holds(i) == installer[i].pc \notin {"none", "begin", "ok", "failed"}

Match == torn \/ files.bin = files.init

\* What an installer inside its lock has done to the files, and what it would
\* put back.
Progress(i) ==
  /\ Holds(i) => ilock = i
  /\ installer[i].pc \in {"copy", "stop", "stopped", "undoStart"} => Match
  /\ Holds(i) /\ installer[i].pc # "copy" =>
       torn \/ installer[i].bin = installer[i].init
  /\ installer[i].pc = "replaced" => files.bin = worker[i].tag
  /\ installer[i].pc \in {"start", "verify"} => files.bin = files.init
  /\ installer[i].pc = "undoInit" => files.bin = installer[i].bin

FilesInv ==
  /\ \A i \in Updates : Progress(i)
  /\ (\A i \in Updates : ~Holds(i)) => Match

IInv == Fields /\ SpawnInv /\ FilesInv

LEMMA InitIInv == Init => IInv
<1> SUFFICES ASSUME Init
             PROVE  IInv
  OBVIOUS
<1>1. Fields
  BY UpdaterAssumption DEF Init, Fields, NoTask
<1>2. SpawnInv
  BY DEF Init, SpawnInv, Early, NoTask
<1>3. FilesInv
  BY DEF Init, FilesInv, Progress, Holds, Match
<1> QED
  BY <1>1, <1>2, <1>3 DEF IInv

-----------------------------------------------------------------------------
(* Everybody but the installer.                                             *)

\* The files are the installers' affair.
LEMMA FilesUntouched ==
  ASSUME IInv, UNCHANGED <<files, installer, ilock, torn>>,
         \A i \in Updates : Holds(i) => worker'[i].tag = worker[i].tag
  PROVE  FilesInv'
BY DEF IInv, FilesInv, Progress, Holds, Match

\* A step of prepare() that goes on, or ends it.
LEMMA TaskKeepsInv ==
  ASSUME IInv, UNCHANGED <<worker, installer, files, ilock, made, torn>>,
         \/ task' = NoTask
         \/ /\ \E pc : task' = [task EXCEPT !.pc = pc]
            /\ task.pc \notin {"none", "publish"}
         \/ task' = task
  PROVE  IInv'
<1>0. Fields /\ SpawnInv
  BY DEF IInv
<1>1. /\ task' = [pc |-> task'.pc, tag |-> task'.tag]
      /\ task'.pc \notin {"none", "publish"} =>
             task.pc \notin {"none", "publish"}
  <2>1. CASE task' = NoTask
    BY <2>1 DEF NoTask
  <2>2. CASE \E pc : task' = [task EXCEPT !.pc = pc]
                     /\ task.pc \notin {"none", "publish"}
    BY <1>0, <2>2 DEF Fields
  <2>3. CASE task' = task
    BY <1>0, <2>3 DEF Fields
  <2> QED
    BY <2>1, <2>2, <2>3
<1>2. Fields'
  BY <1>0, <1>1 DEF Fields
<1>3. SpawnInv'
  BY <1>0, <1>1 DEF SpawnInv
<1>4. FilesInv'
  BY FilesUntouched
<1> QED
  BY <1>2, <1>3, <1>4 DEF IInv

LEMMA PanelKeepsInv ==
  ASSUME IInv, Panel
  PROVE  IInv'
<1>0. Fields /\ SpawnInv
  BY DEF IInv
<1>1. UNCHANGED <<files, installer, ilock, torn>>
  BY DEF Panel, Status, Check, Checked, Start, Recover, MakePayload,
         NamePayload, Fetched, FetchFails, WriteStage, WriteTarget, Spawn,
         HandOver, PrepareFailed, processes
<1>2. CASE Status \/ Check \/ Checked
  BY <1>1, <1>2, TaskKeepsInv DEF Status, Check, Checked, processes
<1>3. CASE Start
  <2>1. CASE UNCHANGED <<task, made>>
    BY <1>1, <1>3, <2>1, TaskKeepsInv DEF Start, processes
  <2>2. CASE made' = made + 1 /\ task' = [pc |-> "recover",
                                         tag |-> ReadStatus(panel).latest]
    <3>1. made < MaxUpdates /\ made \in Nat /\ MaxUpdates \in Nat
      BY <1>0, <1>3, UpdaterAssumption DEF Start, Fields
    <3>2. /\ made' \in Updates /\ made' \in 0..MaxUpdates /\ made' > made
          /\ \A i \in Updates : i > made' => i > made
      BY <2>2, <3>1 DEF Updates
    <3>3. worker' = worker
      BY <1>3 DEF Start, processes
    <3>4. Fields'
      BY <1>0, <1>1, <2>2, <3>2, <3>3 DEF Fields
    <3>5. SpawnInv'
      BY <1>0, <1>1, <3>2, <3>3 DEF SpawnInv
    <3> QED
      BY <1>1, <3>3, <3>4, <3>5, FilesUntouched DEF IInv
  <2> QED
    BY <1>3, <2>1, <2>2 DEF Start
<1>4. CASE Recover \/ FetchFails
  <2>1. /\ UNCHANGED <<worker, made>> /\ task.pc \notin {"none", "publish"}
        /\ \/ task' = NoTask
           \/ task' = [task EXCEPT !.pc = "payload"]
    BY <1>4 DEF Recover, FetchFails, PrepareFailed, processes
  <2> QED
    BY <1>1, <2>1, TaskKeepsInv
<1>5. CASE MakePayload \/ NamePayload \/ Fetched \/ WriteStage \/ WriteTarget
  BY <1>1, <1>5, TaskKeepsInv
  DEF MakePayload, NamePayload, Fetched, WriteStage, WriteTarget, processes
<1>6. CASE HandOver
  BY <1>1, <1>6, TaskKeepsInv DEF HandOver, processes
<1>7. CASE Spawn
  <2>1. /\ made' = made /\ task' = [task EXCEPT !.pc = "publish"]
        /\ worker' = [worker EXCEPT ![made] = [pc |-> "forked", tag |-> task.tag]]
        /\ made \in Updates /\ worker[made].pc = "none"
    BY <1>0, <1>7 DEF Spawn, SpawnInv
  <2>2. /\ worker'[made] = [pc |-> "forked", tag |-> task.tag]
        /\ \A i \in Updates \ {made} : worker'[i] = worker[i]
    BY <1>0, <2>1 DEF Fields
  <2>3. Fields'
    BY <1>0, <1>1, <2>1, <2>2 DEF Fields
  <2>4. task'.pc = "publish"
    BY <1>0, <2>1 DEF Fields
  <2>5. \A i \in Updates : i > made => i # made
    BY UpdaterAssumption, <2>1 DEF Updates
  <2>6. SpawnInv'
    BY <1>0, <1>1, <2>1, <2>2, <2>4, <2>5 DEF SpawnInv, Early
  <2>7. \A i \in Updates : Holds(i) => worker'[i].tag = worker[i].tag
    BY <1>0, <2>1, <2>2 DEF SpawnInv, Early, Holds
  <2> QED
    BY <1>1, <2>3, <2>6, <2>7, FilesUntouched DEF IInv
<1> QED
  BY <1>2, <1>3, <1>4, <1>5, <1>6, <1>7 DEF Panel

-----------------------------------------------------------------------------
(* The workers.                                                             *)

\* An installer goes on: the others stay where they are.
LEMMA GoesFacts ==
  ASSUME Fields, NEW i \in Updates, NEW pc, Goes(i, pc)
  PROVE  /\ installer' = [j \in Updates |->
              [pc |-> installer'[j].pc, wasUp |-> installer'[j].wasUp,
               bin |-> installer'[j].bin, init |-> installer'[j].init]]
         /\ \A j \in Updates \ {i} : installer'[j] = installer[j]
         /\ installer'[i].pc = pc
         /\ installer'[i].bin = installer[i].bin
         /\ installer'[i].init = installer[i].init
<1>1. /\ installer = [j \in Updates |-> installer[j]]
      /\ \A j \in Updates : installer[j] =
           [pc |-> installer[j].pc, wasUp |-> installer[j].wasUp,
            bin |-> installer[j].bin, init |-> installer[j].init]
  BY DEF Fields
<1>2. /\ installer' = [j \in Updates |-> installer'[j]]
      /\ \A j \in Updates \ {i} : installer'[j] = installer[j]
      /\ installer'[i] = [installer[i] EXCEPT !.pc = pc]
  BY <1>1 DEF Goes
<1>3. installer'[i] =
        [pc |-> pc, wasUp |-> installer[i].wasUp,
         bin |-> installer[i].bin, init |-> installer[i].init]
  BY <1>1, <1>2
<1>4. \A j \in Updates : installer'[j] =
        [pc |-> installer'[j].pc, wasUp |-> installer'[j].wasUp,
         bin |-> installer'[j].bin, init |-> installer'[j].init]
  BY <1>1, <1>2, <1>3
<1> QED
  BY <1>2, <1>3, <1>4

\* A worker goes on or ends; its installer at most begins.
LEMMA WorkerMoves ==
  ASSUME IInv, UNCHANGED <<files, ilock, made, torn>>,
         task' \in {task, NoTask},
         NEW i \in Updates, NEW pc, pc # "none", worker[i].pc # "none",
         worker' = [worker EXCEPT ![i].pc = pc],
         \/ /\ UNCHANGED installer
            /\ pc \in Early => worker[i].pc \in Early
         \/ /\ installer' = [installer EXCEPT ![i].pc = "begin"]
            /\ worker[i].pc \in Early /\ pc \notin Early
  PROVE  IInv'
<1>0. Fields /\ SpawnInv /\ FilesInv
  BY DEF IInv
<1>1. /\ worker'[i] = [pc |-> pc, tag |-> worker[i].tag]
      /\ \A j \in Updates \ {i} : worker'[j] = worker[j]
  BY <1>0 DEF Fields
<1>2. \A j \in Updates : worker'[j].tag = worker[j].tag
  BY <1>1
<1>3. /\ task' = [pc |-> task'.pc, tag |-> task'.tag]
      /\ task'.pc = task.pc \/ task'.pc = "none"
  BY <1>0 DEF Fields, NoTask
<1>4. worker' = [j \in Updates |-> [pc |-> worker'[j].pc, tag |-> worker'[j].tag]]
  BY <1>0, <1>1 DEF Fields
<1>5. CASE UNCHANGED installer /\ (pc \in Early => worker[i].pc \in Early)
  <2>1. Fields'
    BY <1>0, <1>3, <1>4, <1>5 DEF Fields
  <2>2. SpawnInv'
    BY <1>0, <1>1, <1>3, <1>5 DEF SpawnInv
  <2> QED
    BY <1>2, <1>5, <2>1, <2>2, FilesUntouched DEF IInv
<1>6. CASE /\ installer' = [installer EXCEPT ![i].pc = "begin"]
           /\ worker[i].pc \in Early /\ pc \notin Early
  <2>1. /\ installer'[i].pc = "begin" /\ installer[i].pc = "none"
        /\ \A j \in Updates \ {i} : installer'[j] = installer[j]
    <3>1. Goes(i, "begin")
      BY <1>6 DEF Goes
    <3>2. installer[i].pc = "none"
      BY <1>0, <1>6 DEF SpawnInv
    <3> QED
      BY <1>0, <3>1, <3>2, GoesFacts
  <2>2. installer' = [j \in Updates |->
          [pc |-> installer'[j].pc, wasUp |-> installer'[j].wasUp,
           bin |-> installer'[j].bin, init |-> installer'[j].init]]
    <3>1. Goes(i, "begin")
      BY <1>6 DEF Goes
    <3> QED
      BY <1>0, <3>1, GoesFacts
  <2>3. Fields'
    BY <1>0, <1>3, <1>4, <2>2 DEF Fields
  <2>4. SpawnInv'
    BY <1>0, <1>1, <1>3, <1>6, <2>1 DEF SpawnInv
  <2>5. \A j \in Updates : Holds(j)' <=> Holds(j)
    BY <2>1 DEF Holds
  <2>6. Progress(i)'
    BY <2>1 DEF Progress, Holds
  <2>7. \A j \in Updates \ {i} : Progress(j)'
    BY <1>0, <1>2, <2>1 DEF FilesInv, Progress, Holds, Match
  <2> QED
    BY <1>0, <2>3, <2>4, <2>5, <2>6, <2>7 DEF IInv, FilesInv, Match
<1> QED
  BY <1>5, <1>6

LEMMA WorkerKeepsInv ==
  ASSUME IInv, NEW i \in Updates, Worker(i)
  PROVE  IInv'
<1>1. UNCHANGED <<files, ilock, made, torn, task>>
  BY DEF Worker, WorkerLocks, WorkerValidates, WorkerInstalls, WorkerReports,
         WorkerCompletes, WorkerFails
<1>2. CASE WorkerInstalls(i)
  BY <1>1, <1>2, WorkerMoves DEF WorkerInstalls, At, To, Early
<1>3. CASE WorkerLocks(i) \/ WorkerValidates(i)
  BY <1>1, <1>3, WorkerMoves DEF WorkerLocks, WorkerValidates, At, To, Early
<1>4. CASE WorkerReports(i) \/ WorkerCompletes(i) \/ WorkerFails(i)
  BY <1>1, <1>4, WorkerMoves
  DEF WorkerReports, WorkerCompletes, WorkerFails, Cleanup, At, To, Early
<1> QED
  BY <1>2, <1>3, <1>4 DEF Worker

-----------------------------------------------------------------------------
(* The installers.                                                          *)

\* An installer moves: with the lock, or while nobody has it, or apart from
\* the files.
LEMMA InstallerMoves ==
  ASSUME IInv, UNCHANGED <<worker, made>>, task' \in {task, NoTask},
         NEW i \in Updates, installer[i].pc # "none",
         installer' = [j \in Updates |->
           [pc |-> installer'[j].pc, wasUp |-> installer'[j].wasUp,
            bin |-> installer'[j].bin, init |-> installer'[j].init]],
         \A j \in Updates \ {i} : installer'[j] = installer[j],
         files' = [bin |-> files'.bin, init |-> files'.init],
         \/ Holds(i) \/ ilock = 0
         \/ UNCHANGED <<files, ilock, torn>> /\ ~Holds(i),
         Progress(i)',
         Holds(i)' \/ Match' \/ (UNCHANGED <<files, torn>> /\ ~Holds(i))
  PROVE  IInv'
<1>0. Fields /\ SpawnInv /\ FilesInv
  BY DEF IInv
<1>1. /\ task' = [pc |-> task'.pc, tag |-> task'.tag]
      /\ task'.pc = task.pc \/ task'.pc = "none"
  BY <1>0 DEF Fields, NoTask
<1>2. Fields'
  BY <1>0, <1>1 DEF Fields
<1>3. worker[i].pc \notin Early
  BY <1>0 DEF SpawnInv
<1>4. SpawnInv'
  BY <1>0, <1>1, <1>3 DEF SpawnInv
<1>5. \A j \in Updates \ {i} : Holds(j)' <=> Holds(j)
  BY DEF Holds
<1>6. CASE Holds(i) \/ ilock = 0
  <2>1. \A j \in Updates \ {i} : ~Holds(j)
    BY <1>0, <1>6, UpdaterAssumption DEF FilesInv, Progress, Updates
  <2>2. \A j \in Updates \ {i} : Progress(j)'
    BY <2>1 DEF Progress, Holds
  <2>3. Holds(i)' \/ Match'
    BY <1>0, <1>6, <2>1 DEF FilesInv, Match
  <2> QED
    BY <1>2, <1>4, <2>2, <2>3 DEF IInv, FilesInv
<1>7. CASE UNCHANGED <<files, ilock, torn>> /\ ~Holds(i)
  <2>1. \A j \in Updates \ {i} : Progress(j)'
    BY <1>0, <1>5, <1>7 DEF FilesInv, Progress, Holds, Match
  <2>2. (\A j \in Updates : ~Holds(j)') => Match'
    BY <1>0, <1>5, <1>7 DEF FilesInv, Match
  <2> QED
    BY <1>2, <1>4, <2>1, <2>2 DEF IInv, FilesInv
<1> QED
  BY <1>6, <1>7

LEMMA InstallerKeepsInv ==
  ASSUME IInv, NEW i \in Updates, Installer(i)
  PROVE  IInv'
<1>0. Fields /\ SpawnInv /\ FilesInv /\ Progress(i)
  BY DEF IInv, FilesInv
<1>1. /\ UNCHANGED <<worker, made>> /\ task' \in {task, NoTask}
      /\ installer[i].pc # "none"
  BY DEF Installer, InstallLocks, InstallCopies, InstallStops,
         InstallReplacesBinary, InstallReplacesInit, InstallStarts,
         InstallSucceeds, InstallFails, InstallUndoStops, InstallUndoesBinary,
         InstallUndoesInit, InstallUndoStarts, Does
<1>2. ASSUME NEW pc, Goes(i, pc)
      PROVE  /\ installer' = [j \in Updates |->
                  [pc |-> installer'[j].pc, wasUp |-> installer'[j].wasUp,
                   bin |-> installer'[j].bin, init |-> installer'[j].init]]
             /\ \A j \in Updates \ {i} : installer'[j] = installer[j]
             /\ installer'[i].pc = pc
             /\ installer'[i].bin = installer[i].bin
             /\ installer'[i].init = installer[i].init
  BY <1>0, <1>2, GoesFacts
<1>3. CASE InstallLocks(i)
  <2>0. /\ ~Holds(i) /\ UNCHANGED <<files, torn>>
        /\ \/ ilock = 0 /\ ilock' = i /\ Goes(i, "copy")
           \/ UNCHANGED ilock /\ Goes(i, "failed")
    BY <1>3 DEF InstallLocks, Does, Holds
  <2>1. CASE ilock = 0 /\ ilock' = i /\ Goes(i, "copy")
    <3>1. \A j \in Updates : ~Holds(j)
      BY <1>0, <2>1, UpdaterAssumption DEF FilesInv, Progress, Updates
    <3>2. Match
      BY <1>0, <3>1 DEF FilesInv
    <3>3. installer'[i].pc = "copy"
      BY <1>2, <2>1
    <3>4. Progress(i)' /\ Holds(i)'
      BY <2>0, <2>1, <3>2, <3>3 DEF Progress, Holds, Match
    <3> QED
      BY <1>0, <1>1, <1>2, <2>0, <2>1, <3>4, InstallerMoves DEF Fields
  <2>2. CASE UNCHANGED ilock /\ Goes(i, "failed")
    <3>1. installer'[i].pc = "failed"
      BY <1>2, <2>2
    <3>2. Progress(i)'
      BY <3>1 DEF Progress, Holds
    <3> QED
      BY <1>0, <1>1, <1>2, <2>0, <2>2, <3>2, InstallerMoves DEF Fields
  <2> QED
    BY <2>0, <2>1, <2>2
<1>4. CASE InstallCopies(i) \/ InstallStops(i)
  <2>1. /\ installer' = [j \in Updates |->
             [pc |-> installer'[j].pc, wasUp |-> installer'[j].wasUp,
              bin |-> installer'[j].bin, init |-> installer'[j].init]]
        /\ \A j \in Updates \ {i} : installer'[j] = installer[j]
    BY <1>0, <1>4 DEF InstallCopies, InstallStops, Fields
  <2>2. /\ UNCHANGED <<files, ilock, torn>> /\ Holds(i)
        /\ \/ /\ installer[i].pc = "copy" /\ installer'[i].pc = "stop"
              /\ installer'[i].bin = files.bin
              /\ installer'[i].init = files.init
           \/ /\ installer[i].pc = "stop" /\ installer'[i].pc = "stopped"
              /\ installer'[i].bin = installer[i].bin
              /\ installer'[i].init = installer[i].init
    BY <1>0, <1>4 DEF InstallCopies, InstallStops, Does, Holds, Fields
  <2>3. Progress(i)' /\ Holds(i)'
    BY <1>0, <2>2 DEF Progress, Holds, Match
  <2> QED
    BY <1>0, <1>1, <2>1, <2>2, <2>3, InstallerMoves DEF Fields
<1>5. CASE InstallReplacesBinary(i)
  <2>1. /\ Goes(i, "replaced") /\ Holds(i) /\ installer[i].pc = "stopped"
        /\ UNCHANGED <<worker, ilock, torn>>
        /\ files' = [bin |-> worker[i].tag, init |-> files.init]
    BY <1>0, <1>5 DEF InstallReplacesBinary, Does, Holds, Fields
  <2>2. /\ installer'[i].pc = "replaced"
        /\ installer'[i].bin = installer[i].bin
        /\ installer'[i].init = installer[i].init
    BY <1>2, <2>1
  <2>3. Progress(i)' /\ Holds(i)'
    BY <1>0, <2>1, <2>2 DEF Progress, Holds
  <2> QED
    BY <1>0, <1>1, <1>2, <2>1, <2>3, InstallerMoves DEF Fields
<1>6. CASE InstallReplacesInit(i)
  <2>1. /\ Goes(i, "start") /\ Holds(i) /\ installer[i].pc = "replaced"
        /\ UNCHANGED <<worker, ilock, torn>>
        /\ files' = [bin |-> files.bin, init |-> worker[i].tag]
    BY <1>0, <1>6 DEF InstallReplacesInit, Does, Holds, Fields
  <2>2. /\ installer'[i].pc = "start"
        /\ installer'[i].bin = installer[i].bin
        /\ installer'[i].init = installer[i].init
    BY <1>2, <2>1
  <2>3. Progress(i)' /\ Holds(i)'
    BY <1>0, <2>1, <2>2 DEF Progress, Holds
  <2> QED
    BY <1>0, <1>1, <1>2, <2>1, <2>3, InstallerMoves DEF Fields
<1>7. CASE InstallStarts(i)
  <2>1. /\ Goes(i, "verify") /\ Holds(i) /\ installer[i].pc = "start"
        /\ UNCHANGED <<worker, ilock, torn, files>>
    BY <1>7 DEF InstallStarts, Does, Holds
  <2>2. /\ installer'[i].pc = "verify"
        /\ installer'[i].bin = installer[i].bin
        /\ installer'[i].init = installer[i].init
    BY <1>2, <2>1
  <2>3. Progress(i)' /\ Holds(i)'
    BY <1>0, <2>1, <2>2 DEF Progress, Holds
  <2> QED
    BY <1>0, <1>1, <1>2, <2>1, <2>3, InstallerMoves DEF Fields
<1>8. ASSUME NEW outcome \in {"ok", "failed"}, Exits(i, outcome), Holds(i),
              UNCHANGED files, Match'
       PROVE  IInv'
  <2>1. PICK pc \in {"ok", "failed"} : Goes(i, pc)
    BY <1>8 DEF Exits
  <2>2. /\ installer' = [j \in Updates |->
             [pc |-> installer'[j].pc, wasUp |-> installer'[j].wasUp,
              bin |-> installer'[j].bin, init |-> installer'[j].init]]
        /\ \A j \in Updates \ {i} : installer'[j] = installer[j]
        /\ installer'[i].pc \in {"ok", "failed"}
    BY <1>2, <2>1
  <2>3. Progress(i)'
    BY <2>2 DEF Progress, Holds
  <2> QED
    BY <1>0, <1>1, <1>8, <2>2, <2>3, InstallerMoves DEF Fields
<1>9. CASE InstallSucceeds(i)
  <2>1. /\ Holds(i) /\ installer[i].pc = "verify" /\ UNCHANGED files
        /\ \E outcome \in {"ok", "failed"} : Exits(i, outcome)
    BY <1>9 DEF InstallSucceeds, Does, Holds
  <2>2. Match'
    BY <1>0, <2>1 DEF Progress, Match
  <2> QED
    BY <1>8, <2>1, <2>2
<1>10. CASE InstallFails(i)
  <2>0. UNCHANGED <<files, torn>> /\ Holds(i)
    BY <1>10 DEF InstallFails, Holds
  <2>1. CASE Changed(i) /\ Goes(i, "undo") /\ UNCHANGED ilock
    <3>1. installer[i].pc # "copy"
      BY <2>1 DEF Changed
    <3>2. /\ installer'[i].pc = "undo"
          /\ installer'[i].bin = installer[i].bin
          /\ installer'[i].init = installer[i].init
      BY <1>2, <2>1
    <3>3. Progress(i)' /\ Holds(i)'
      BY <1>0, <2>0, <2>1, <3>1, <3>2 DEF Progress, Holds
    <3> QED
      BY <1>0, <1>1, <1>2, <2>0, <2>1, <3>3, InstallerMoves DEF Fields
  <2>2. CASE (Changed(i) => Does(i, "stopped")) /\ Exits(i, "failed")
    <3>1. installer[i].pc \in {"copy", "stop", "stopped"}
      BY <1>10, <2>2 DEF InstallFails, Changed, Does
    <3>2. Match'
      BY <1>0, <2>0, <3>1 DEF Progress, Match
    <3> QED
      BY <1>8, <2>0, <2>2, <3>2
  <2> QED
    BY <1>10, <2>1, <2>2 DEF InstallFails
<1>12. ASSUME UndoBreaks(i), Holds(i), UNCHANGED ilock
       PROVE  IInv'
  <2>1. /\ Goes(i, "failed") /\ UNCHANGED files
        /\ torn' = (torn \/ files.bin # files.init)
    BY <1>12 DEF UndoBreaks
  <2>2. installer'[i].pc = "failed"
    BY <1>2, <2>1
  <2>3. Progress(i)' /\ Match'
    BY <2>1, <2>2 DEF Progress, Holds, Match
  <2> QED
    BY <1>0, <1>1, <1>2, <1>12, <2>1, <2>3, InstallerMoves DEF Fields
<1>11. CASE InstallUndoStops(i)
  <2>1. /\ Goes(i, "undoBinary") /\ Holds(i) /\ installer[i].pc = "undo"
        /\ UNCHANGED <<worker, ilock, torn, files>>
    BY <1>11 DEF InstallUndoStops, Does, Holds
  <2>2. /\ installer'[i].pc = "undoBinary"
        /\ installer'[i].bin = installer[i].bin
        /\ installer'[i].init = installer[i].init
    BY <1>2, <2>1
  <2>3. Progress(i)' /\ Holds(i)'
    BY <1>0, <2>1, <2>2 DEF Progress, Holds
  <2> QED
    BY <1>0, <1>1, <1>2, <2>1, <2>3, InstallerMoves DEF Fields
<1>13. CASE InstallUndoesBinary(i)
  <2>0. Holds(i) /\ installer[i].pc = "undoBinary" /\ UNCHANGED <<worker, ilock>>
    BY <1>13 DEF InstallUndoesBinary, Does, Holds
  <2>1. CASE UndoBreaks(i)
    BY <1>12, <2>0, <2>1
  <2>2. CASE Goes(i, "undoInit") /\ UNCHANGED torn /\ files' = [bin |-> installer[i].bin, init |-> files.init]
    <3>1. /\ installer'[i].pc = "undoInit"
          /\ installer'[i].bin = installer[i].bin
          /\ installer'[i].init = installer[i].init
      BY <1>2, <2>2
    <3>2. Progress(i)' /\ Holds(i)'
      BY <1>0, <2>0, <2>2, <3>1 DEF Progress, Holds, Match
    <3> QED
      BY <1>0, <1>1, <1>2, <2>0, <2>2, <3>2, InstallerMoves DEF Fields
  <2> QED
    BY <1>0, <1>13, <2>1, <2>2 DEF InstallUndoesBinary, Fields
<1>14. CASE InstallUndoesInit(i)
  <2>0. Holds(i) /\ installer[i].pc = "undoInit" /\ UNCHANGED <<worker, ilock>>
    BY <1>14 DEF InstallUndoesInit, Does, Holds
  <2>1. CASE UndoBreaks(i)
    BY <1>12, <2>0, <2>1
  <2>2. CASE Goes(i, "undoStart") /\ UNCHANGED torn /\ files' = [bin |-> files.bin, init |-> installer[i].init]
    <3>1. /\ installer'[i].pc = "undoStart"
          /\ installer'[i].bin = installer[i].bin
          /\ installer'[i].init = installer[i].init
      BY <1>2, <2>2
    <3>2. Progress(i)' /\ Holds(i)'
      BY <1>0, <2>0, <2>2, <3>1 DEF Progress, Holds, Match
    <3> QED
      BY <1>0, <1>1, <1>2, <2>0, <2>2, <3>2, InstallerMoves DEF Fields
  <2> QED
    BY <1>0, <1>14, <2>1, <2>2 DEF InstallUndoesInit, Fields
<1>15. CASE InstallUndoStarts(i)
  <2>1. /\ Exits(i, "failed") /\ Holds(i) /\ installer[i].pc = "undoStart"
        /\ UNCHANGED <<files, torn>>
    BY <1>15 DEF InstallUndoStarts, Does, Holds
  <2>2. Match'
    BY <1>0, <2>1 DEF Progress, Match
  <2> QED
    BY <1>8, <2>1, <2>2
<1> QED
  BY <1>3, <1>4, <1>5, <1>6, <1>7, <1>9, <1>10, <1>11, <1>13, <1>14, <1>15
  DEF Installer

-----------------------------------------------------------------------------
(* Time, the operator and faults.                                           *)

LEMMA EnvironmentKeepsInv ==
  ASSUME IInv, Environment
  PROVE  IInv'
<1>0. Fields /\ SpawnInv /\ FilesInv
  BY DEF IInv
<1>1. CASE StageAges \/ ServiceStarts \/ PanelDies
  <2>1. /\ UNCHANGED <<worker, installer, files, ilock, made, torn>>
        /\ task' \in {task, NoTask}
    BY <1>1 DEF StageAges, ServiceStarts, PanelDies, processes
  <2> QED
    BY <2>1, TaskKeepsInv
<1>2. CASE StaleLockIsRemoved
  <2>1. /\ UNCHANGED <<task, worker, installer, files, made, torn>>
        /\ \A i \in Updates : ~Holds(i)
    BY <1>2 DEF StaleLockIsRemoved, processes, InstallerRuns, Holds
  <2>2. Fields' /\ SpawnInv'
    BY <1>0, <2>1 DEF Fields, SpawnInv
  <2>3. FilesInv'
    BY <1>0, <2>1 DEF FilesInv, Progress, Holds, Match
  <2> QED
    BY <2>2, <2>3 DEF IInv
<1>3. ASSUME NEW i \in Updates, WorkerDies(i)
      PROVE  IInv'
  BY <1>3, WorkerMoves DEF WorkerDies, To, Early
<1>4. ASSUME NEW i \in Updates, InstallerDies(i)
      PROVE  IInv'
  <2>1. /\ Goes(i, "failed") /\ installer[i].pc # "none"
        /\ UNCHANGED <<task, worker, made, files, ilock>>
        /\ torn' = (torn \/ files.bin # files.init)
    BY <1>4 DEF InstallerDies, InstallerRuns
  <2>2. /\ installer' = [j \in Updates |->
             [pc |-> installer'[j].pc, wasUp |-> installer'[j].wasUp,
              bin |-> installer'[j].bin, init |-> installer'[j].init]]
        /\ \A j \in Updates \ {i} : installer'[j] = installer[j]
        /\ installer'[i].pc = "failed"
    BY <1>0, <2>1, GoesFacts
  <2>3. Match'
    BY <2>1 DEF Match
  <2>4. \A j \in Updates : Progress(j)'
    BY <1>0, <2>1, <2>2, <2>3 DEF FilesInv, Progress, Holds, Match
  <2>5. worker[i].pc \notin Early
    BY <1>0, <2>1 DEF SpawnInv
  <2>6. Fields' /\ SpawnInv'
    BY <1>0, <2>1, <2>2, <2>5 DEF Fields, SpawnInv
  <2> QED
    BY <2>3, <2>4, <2>6 DEF IInv, FilesInv
<1>5. CASE PowerFails
  <2>1. /\ task' = NoTask /\ UNCHANGED <<files, made>>
        /\ torn' = (torn \/ files.bin # files.init)
    BY <1>5 DEF PowerFails
  <2>2. \A i \in Updates :
          /\ worker'[i].pc = IF worker[i].pc = "none" THEN "none" ELSE "over"
          /\ installer'[i].pc =
               IF InstallerRuns(i) THEN "failed" ELSE installer[i].pc
    BY <1>0, <1>5 DEF PowerFails, Fields
  <2>3. /\ worker' = [i \in Updates |->
             [pc |-> worker'[i].pc, tag |-> worker'[i].tag]]
        /\ installer' = [i \in Updates |->
             [pc |-> installer'[i].pc, wasUp |-> installer'[i].wasUp,
              bin |-> installer'[i].bin, init |-> installer'[i].init]]
    BY <1>0, <1>5 DEF PowerFails, Fields
  <2>4. Fields' /\ SpawnInv'
    <3>1. Fields'
      BY <1>0, <2>1, <2>3 DEF Fields, NoTask
    <3>2. task'.pc = "none"
      BY <2>1 DEF NoTask
    <3>3. \A i \in Updates :
            worker'[i].pc \in Early => worker[i].pc = "none"
      BY <2>2 DEF Early
    <3>4. \A i \in Updates :
            worker[i].pc = "none" => installer'[i].pc = "none"
      BY <1>0, <2>2 DEF SpawnInv, Early, InstallerRuns
    <3>5. \A i \in Updates : worker[i].pc = "none" => worker'[i].pc = "none"
      BY <2>2
    <3> QED
      BY <1>0, <2>1, <3>1, <3>2, <3>3, <3>4, <3>5 DEF SpawnInv
  <2>5. \A i \in Updates : ~Holds(i)'
    <3> SUFFICES ASSUME NEW i \in Updates PROVE ~Holds(i)'
      OBVIOUS
    <3>1. installer'[i].pc \in {"none", "ok", "failed"}
      BY <2>2 DEF InstallerRuns
    <3> QED
      BY <3>1 DEF Holds
  <2>6. Match'
    BY <2>1 DEF Match
  <2>7. \A i \in Updates : Progress(i)'
    BY <2>5 DEF Progress, Holds
  <2> QED
    BY <2>4, <2>6, <2>7 DEF IInv, FilesInv
<1> QED
  BY <1>1, <1>2, <1>3, <1>4, <1>5 DEF Environment

-----------------------------------------------------------------------------
LEMMA NextIInv ==
  ASSUME IInv, [Next]_vars
  PROVE  IInv'
<1>1. CASE UNCHANGED vars
  BY <1>1 DEF vars, processes, IInv, Fields, SpawnInv, FilesInv, Progress,
              Holds, Match
<1> QED
  BY <1>1, PanelKeepsInv, EnvironmentKeepsInv, WorkerKeepsInv,
     InstallerKeepsInv DEF Next

\* Only the installer inside its lock has the two files of different versions,
\* and what it would put back matches (install.sh, cleanup).
THEOREM Invariance == Spec => []IInv
BY InitIInv, NextIInv, PTL DEF Spec

\* The binary and the init script are of one version whenever no installer is
\* at work, after any number of updates, faults and failing steps, unless one
\* was killed between its two renames or could not rename a file back, since
\* nothing guards the renames of the roll-back (install.sh, cleanup).
THEOREM UpdatesAreWhole == Spec => []FilesMatch
<1>1. IInv => FilesMatch
  BY DEF IInv, FilesInv, Holds, Match, FilesMatch, InstallerRuns
<1> QED
  BY <1>1, Invariance, PTL

-----------------------------------------------------------------------------
(* One update at a time.                                                    *)

\* The worker of update i exists, and has the lock.
Active(i) == worker[i].pc \notin {"none", "over"}
Live(i) == Active(i) /\ worker[i].pc # "forked"

\* The records of the state directory and of the panel.
Records ==
  /\ dir = [there |-> dir.there, stage |-> dir.stage, fresh |-> dir.fresh,
            target |-> dir.target, lock |-> dir.lock, pid |-> dir.pid,
            named |-> dir.named]
  /\ panel = [up |-> panel.up, version |-> panel.version, handed |-> panel.handed,
              running |-> panel.running, checking |-> panel.checking,
              stage |-> panel.stage, latest |-> panel.latest]

\* A prepare() that is past its check keeps everybody else out...
TaskInv ==
  /\ task.pc # "none" => panel.up /\ panel.running /\ ~panel.handed
  /\ task.pc \notin {"none", "recover"} => dir.there
  /\ task.pc \in {"fetch", "stage", "target", "spawn", "publish"} => dir.named = made
  /\ task.pc \in {"target", "spawn"} => dir.stage = "installing" /\ dir.fresh

\* ... and so does the worker, by its lock or, until it has that, by the stage.
WorkerInv(i) ==
  /\ \A j \in Updates : Active(j) => j = i
  /\ dir.named = i
  /\ task.pc \in {"none", "recover", "publish"}
  /\ task.pc = "publish" => i = made
  /\ At(i, "forked") =>
       /\ dir.stage = "installing" /\ dir.fresh /\ dir.there
       /\ task.pc # "recover" /\ (task.pc = "none" /\ panel.up => panel.handed)
  /\ Live(i) => dir.lock /\ dir.pid = i /\ dir.target = worker[i].tag

TurnInv == TaskInv /\ \A i \in Updates : Active(i) => WorkerInv(i)

\* What status() makes of a state p of the panel.
LEMMA ReadFacts ==
  ASSUME NEW p, NEW r, r = ReadStatus(p),
         p = [up |-> p.up, version |-> p.version, handed |-> p.handed,
              running |-> p.running, checking |-> p.checking, stage |-> p.stage,
              latest |-> p.latest]
  PROVE  /\ r = [up |-> p.up, version |-> p.version, handed |-> r.handed,
                 running |-> r.running, checking |-> p.checking, stage |-> r.stage,
                 latest |-> r.latest]
         /\ ~p.handed => r = p
         /\ p.handed /\ WorkerStarting => r.handed /\ r.running
         /\ r.handed => p.handed /\ r.running
         /\ p.handed => r.latest = IF dir.target # 0 THEN dir.target ELSE p.latest
         /\ p.handed /\ r.stage = "complete" => dir.stage = "complete"
<1>1. CASE ~p.handed
  BY <1>1 DEF ReadStatus
<1>2. CASE p.handed /\ (\/ dir.stage \in {"complete", "error"}
                        \/ ~WorkerLive /\ ~WorkerStarting)
  <2>1. r = [p EXCEPT !.handed = FALSE, !.running = FALSE,
               !.latest = IF dir.target # 0 THEN dir.target ELSE p.latest,
               !.stage = IF dir.stage = "complete" THEN "complete" ELSE "error"]
    BY <1>2 DEF ReadStatus
  <2>2. /\ r.up = p.up /\ r.version = p.version /\ r.checking = p.checking
        /\ r.handed = FALSE /\ r.running = FALSE
        /\ r.latest = IF dir.target # 0 THEN dir.target ELSE p.latest
        /\ r.stage = IF dir.stage = "complete" THEN "complete" ELSE "error"
    BY <2>1
  <2>3. r = [up |-> p.up, version |-> p.version, handed |-> r.handed,
             running |-> r.running, checking |-> p.checking, stage |-> r.stage,
             latest |-> r.latest]
    BY <2>1
  <2>4. ~WorkerStarting
    BY <1>2 DEF WorkerStarting
  <2> QED
    BY <1>2, <2>2, <2>3, <2>4
<1>3. CASE p.handed /\ ~(\/ dir.stage \in {"complete", "error"}
                         \/ ~WorkerLive /\ ~WorkerStarting)
  <2>1. r = [p EXCEPT !.running = TRUE,
               !.latest = IF dir.target # 0 THEN dir.target ELSE p.latest,
               !.stage = IF dir.stage = "installing" THEN "installing"
                         ELSE "restarting"]
    BY <1>3 DEF ReadStatus
  <2>2. /\ r.handed = p.handed /\ r.running = TRUE
        /\ r.latest = IF dir.target # 0 THEN dir.target ELSE p.latest
        /\ r.stage # "complete"
    BY <2>1
  <2>3. r = [up |-> p.up, version |-> p.version, handed |-> r.handed,
             running |-> r.running, checking |-> p.checking, stage |-> r.stage,
             latest |-> r.latest]
    BY <2>1
  <2> QED
    BY <1>3, <2>2, <2>3
<1> QED
  BY <1>1, <1>2, <1>3

\* A service that starts reads what the last one left.
LEMMA StartedFacts ==
  /\ Started = [up |-> TRUE, version |-> files.bin, handed |-> Started.handed,
                running |-> Started.running, checking |-> FALSE,
                stage |-> Started.stage, latest |-> Started.latest]
  /\ dir.there /\ WorkerStarting => Started.handed
  /\ Started.latest = 0 \/ Started.latest = dir.target
  /\ Started.stage = "complete" =>
       dir.stage = "complete" /\ (dir.target # 0 => Started.latest = dir.target)
<1> DEFINE p == [up |-> TRUE, version |-> files.bin, handed |-> dir.there,
                 running |-> FALSE, checking |-> FALSE, stage |-> "idle",
                 latest |-> 0]
<1>1. /\ p.up = TRUE /\ p.version = files.bin /\ p.handed = dir.there
      /\ p.checking = FALSE /\ p.stage = "idle" /\ p.latest = 0
      /\ p = [up |-> p.up, version |-> p.version, handed |-> p.handed,
              running |-> p.running, checking |-> p.checking, stage |-> p.stage,
              latest |-> p.latest]
  OBVIOUS
<1>2. Started = ReadStatus(p)
  BY DEF Started
<1> HIDE DEF p
<1>3. /\ Started = [up |-> p.up, version |-> p.version, handed |-> Started.handed,
                    running |-> Started.running, checking |-> p.checking,
                    stage |-> Started.stage, latest |-> Started.latest]
      /\ ~p.handed => Started = p
      /\ p.handed /\ WorkerStarting => Started.handed
      /\ p.handed => Started.latest = IF dir.target # 0 THEN dir.target ELSE p.latest
      /\ p.handed /\ Started.stage = "complete" => dir.stage = "complete"
  BY <1>1, <1>2, ReadFacts
<1> QED
  BY <1>1, <1>3

LEMMA DownFacts ==
  ASSUME Records
  PROVE  Down = [up |-> FALSE, version |-> panel.version, handed |-> FALSE,
                 running |-> FALSE, checking |-> FALSE, stage |-> "idle", latest |-> 0]
<1>1. PICK p : panel = p /\ p = [up |-> p.up, version |-> p.version, handed |-> p.handed,
                running |-> p.running, checking |-> p.checking, stage |-> p.stage,
                latest |-> p.latest]
  BY DEF Records
<1>2. DOMAIN Down = DOMAIN panel /\ Down = [x \in DOMAIN Down |-> Down[x]]
  BY <1>1 DEF Down
<1>3. DOMAIN panel =
        {"up", "version", "handed", "running", "checking", "stage", "latest"}
  BY <1>1
<1>4. /\ Down["up"] = FALSE /\ Down["version"] = p.version /\ Down["handed"] = FALSE
      /\ Down["running"] = FALSE /\ Down["checking"] = FALSE
      /\ Down["stage"] = "idle" /\ Down["latest"] = 0
  BY <1>1, <1>3 DEF Down
<1> QED
  BY <1>1, <1>2, <1>3, <1>4

LEMMA RecordsKept ==
  ASSUME Records, [Next]_vars
  PROVE  Records'
<1> DEFINE DirRecord(d) ==
      d = [there |-> d.there, stage |-> d.stage, fresh |-> d.fresh,
           target |-> d.target, lock |-> d.lock, pid |-> d.pid, named |-> d.named]
           PanelRecord(p) ==
      p = [up |-> p.up, version |-> p.version, handed |-> p.handed,
           running |-> p.running, checking |-> p.checking, stage |-> p.stage,
           latest |-> p.latest]
<1>1. DirRecord(dir) /\ PanelRecord(panel)
  BY DEF Records
<1>2. PanelRecord(ReadStatus(panel)) /\ PanelRecord(Started) /\ PanelRecord(Down)
  <2>1. PanelRecord(ReadStatus(panel))
    BY <1>1, ReadFacts
  <2>2. PanelRecord(Started)
    BY StartedFacts
  <2>3. PanelRecord(Down)
    BY DownFacts
  <2> QED
    BY <2>1, <2>2, <2>3
<1>3. CASE Panel
  <2>1. PanelRecord(panel')
    BY <1>1, <1>2, <1>3
    DEF Panel, Status, Check, Checked, Start, Recover, MakePayload, NamePayload, Fetched,
        FetchFails, WriteStage, WriteTarget, Spawn, HandOver, PrepareFailed
  <2>2. DirRecord(dir')
    BY <1>1, <1>3
    DEF Panel, Status, Check, Checked, Start, Recover, MakePayload, NamePayload, Fetched,
        FetchFails, WriteStage, WriteTarget, Spawn, HandOver, RecoverStale
  <2> QED
    BY <2>1, <2>2 DEF Records
<1>4. CASE \E i \in Updates : Worker(i)
  <2>1. DirRecord(dir') /\ panel' = panel
    BY <1>1, <1>4 DEF Worker, WorkerLocks, WorkerValidates, WorkerInstalls, WorkerReports,
                      WorkerCompletes, WorkerFails, Cleanup
  <2> QED
    BY <1>1, <2>1 DEF Records
<1>5. CASE \E i \in Updates : Installer(i)
  <2>1. dir' = dir /\ panel' \in {panel, Down, Started}
    BY <1>5 DEF Installer, InstallLocks, InstallCopies, InstallStops,
                InstallReplacesBinary, InstallReplacesInit, InstallStarts,
                InstallSucceeds, InstallFails, InstallUndoStops, InstallUndoesBinary,
                InstallUndoesInit, InstallUndoStarts
  <2> QED
    BY <1>1, <1>2, <2>1 DEF Records
<1>6. CASE Environment
  <2>1. /\ dir' \in {dir, NoDir, [dir EXCEPT !.fresh = FALSE]}
        /\ panel' \in {panel, Down, Started}
    BY <1>6 DEF Environment, StageAges, ServiceStarts, StaleLockIsRemoved, PanelDies,
                PowerFails, WorkerDies, InstallerDies
  <2>2. DirRecord(dir')
    BY <1>1, <2>1 DEF NoDir
  <2> QED
    BY <1>1, <1>2, <2>1, <2>2 DEF Records
<1>7. CASE UNCHANGED vars
  BY <1>1, <1>7 DEF vars, Records
<1> QED
  BY <1>3, <1>4, <1>5, <1>6, <1>7 DEF Next

\* A step that leaves workers and the state directory alone.
LEMMA TurnSame ==
  ASSUME TurnInv, UNCHANGED <<worker, dir, made>>, task'.pc \in {task.pc, "none"},
         task'.pc # "none" => panel'.up /\ panel'.running /\ ~panel'.handed,
         \A i \in Updates :
           At(i, "forked") /\ task'.pc = "none" /\ panel'.up => panel'.handed
  PROVE  TurnInv'
<1>1. TaskInv'
  BY DEF TurnInv, TaskInv
<1>2. ASSUME NEW i \in Updates, Active(i)'
      PROVE  WorkerInv(i)'
  BY <1>2 DEF TurnInv, WorkerInv, Active, Live, At
<1> QED
  BY <1>1, <1>2 DEF TurnInv

\* A service that goes down, or comes back.
LEMMA TurnPanel ==
  ASSUME TurnInv, Fields, Records, UNCHANGED <<worker, dir, made>>,
         \/ panel' = panel /\ task' = task
         \/ panel' = Down /\ task' = NoTask
         \/ ~panel.up /\ panel' = Started /\ task' = task
  PROVE  TurnInv'
<1>1. CASE panel' = panel /\ task' = task
  <2>1. \A i \in Updates : At(i, "forked") => Active(i)
    BY DEF At, Active
  <2> QED
    BY <1>1, <2>1, TurnSame DEF TurnInv, TaskInv, WorkerInv
<1>2. CASE panel' = Down /\ task' = NoTask
  <2>1. ~panel'.up /\ task'.pc = "none"
    BY <1>2, DownFacts DEF NoTask
  <2> QED
    BY <2>1, TurnSame
<1>3. CASE ~panel.up /\ panel' = Started /\ task' = task
  <2>1. task'.pc = "none"
    BY <1>3 DEF TurnInv, TaskInv
  <2>2. ASSUME NEW i \in Updates, At(i, "forked")
        PROVE  panel'.handed
    <3>1. dir.there /\ WorkerStarting
      BY <2>2 DEF TurnInv, WorkerInv, WorkerStarting, Active, At
    <3> QED
      BY <1>3, <3>1, StartedFacts
  <2> QED
    BY <2>1, <2>2, TurnSame
<1> QED
  BY <1>1, <1>2, <1>3

\* Status, Check and Start read the outcome first.
LEMMA TurnRead ==
  ASSUME TurnInv, Fields, Records, UNCHANGED <<worker, dir>>, NEW p, p = ReadStatus(panel),
         panel'.up = p.up, panel'.handed = p.handed,
         \/ /\ UNCHANGED <<task, made>> /\ panel'.running = p.running
         \/ /\ ~p.running /\ panel'.running /\ task'.pc = "recover" /\ panel.up
  PROVE  TurnInv'
<1>1. /\ p.up = panel.up
      /\ ~panel.handed => p = panel
      /\ panel.handed /\ WorkerStarting => p.handed /\ p.running
      /\ p.handed => panel.handed /\ p.running
  BY ReadFacts DEF Records
<1>2. ASSUME NEW i \in Updates, At(i, "forked")
      PROVE  WorkerStarting /\ Active(i)
  BY <1>2 DEF TurnInv, WorkerInv, WorkerStarting, Active, At
<1>3. CASE UNCHANGED <<task, made>> /\ panel'.running = p.running
  <2>1. task.pc # "none" => p = panel
    BY <1>1 DEF TurnInv, TaskInv
  <2>2. \A i \in Updates :
          At(i, "forked") /\ task.pc = "none" /\ panel.up => panel.handed
    BY <1>2 DEF TurnInv, WorkerInv
  <2>3. /\ task'.pc \in {task.pc, "none"}
        /\ task'.pc # "none" => panel'.up /\ panel'.running /\ ~panel'.handed
    BY <1>3, <2>1 DEF TurnInv, TaskInv
  <2>4. \A i \in Updates :
          At(i, "forked") /\ task'.pc = "none" /\ panel'.up => panel'.handed
    BY <1>1, <1>2, <1>3, <2>2
  <2> QED
    BY <1>3, <2>3, <2>4, TurnSame
<1>4. CASE ~p.running /\ panel'.running /\ task'.pc = "recover" /\ panel.up
  <2>1. task.pc = "none" /\ ~p.handed
    BY <1>1, <1>4 DEF TurnInv, TaskInv
  <2>2. \A i \in Updates : ~At(i, "forked")
    BY <1>1, <1>2, <1>4, <2>1 DEF TurnInv, WorkerInv
  <2>3. TaskInv'
    BY <1>1, <1>4, <2>1 DEF TaskInv
  <2>4. ASSUME NEW i \in Updates, Active(i)'
        PROVE  WorkerInv(i)'
    BY <1>4, <2>2, <2>4 DEF TurnInv, WorkerInv, Active, Live, At
  <2> QED
    BY <2>3, <2>4 DEF TurnInv
<1> QED
  BY <1>3, <1>4

\* A prepare() past its check is alone with the state directory...
LEMMA PreparesAlone ==
  ASSUME TurnInv, task.pc \in {"payload", "name", "fetch", "stage", "target", "spawn"}
  PROVE  \A i \in Updates : ~Active(i)
BY DEF TurnInv, WorkerInv

\* ... since the check sees every worker there is.
LEMMA WorkerIsSeen ==
  ASSUME TurnInv, task.pc = "recover", NEW i \in Updates, Active(i)
  PROVE  dir.lock /\ WorkerLive
<1>1. Live(i) /\ dir.lock /\ dir.pid = i
  BY DEF TurnInv, WorkerInv, Live, At
<1>2. i # 0
  BY UpdaterAssumption DEF Updates
<1> QED
  BY <1>1, <1>2 DEF WorkerLive, Live, Active

LEMMA TurnPrepares ==
  ASSUME IInv, Records, TurnInv, Panel
  PROVE  TurnInv'
<1>0. Fields /\ SpawnInv /\ TaskInv
  BY DEF IInv, TurnInv
<1>1. CASE Status \/ Check \/ Start
  <2> DEFINE p == ReadStatus(panel)
  <2>1. /\ p.up = panel.up
        /\ p = [up |-> p.up, version |-> p.version, handed |-> p.handed,
                running |-> p.running, checking |-> p.checking, stage |-> p.stage,
                latest |-> p.latest]
    BY ReadFacts DEF Records
  <2>2. UNCHANGED <<worker, dir>>
    BY <1>1 DEF Status, Check, Start, processes
  <2>3. CASE Status
    BY <1>0, <2>2, <2>3, TurnRead DEF Status
  <2>4. CASE Check
    <3>1. /\ UNCHANGED <<task, made>>
          /\ panel' \in {p, [p EXCEPT !.checking = TRUE, !.stage = "checking"]}
      BY <2>4 DEF Check
    <3> HIDE DEF p
    <3>2. panel'.up = p.up /\ panel'.handed = p.handed /\ panel'.running = p.running
      BY <2>1, <3>1
    <3> QED
      BY <1>0, <2>2, <3>1, <3>2, TurnRead DEF p
  <2>5. CASE Start
    <3>1. /\ panel.up
          /\ \/ panel' = p /\ UNCHANGED <<task, made>>
             \/ /\ ~p.running
                /\ panel' = [p EXCEPT !.running = TRUE, !.stage = "downloading"]
                /\ task' = [pc |-> "recover", tag |-> p.latest]
      BY <2>5 DEF Start
    <3> HIDE DEF p
    <3>2. CASE panel' = p /\ UNCHANGED <<task, made>>
      BY <1>0, <2>2, <3>2, TurnRead DEF p
    <3>3. CASE /\ ~p.running
               /\ panel' = [p EXCEPT !.running = TRUE, !.stage = "downloading"]
               /\ task' = [pc |-> "recover", tag |-> p.latest]
      <4>1. /\ panel'.up = p.up /\ panel'.handed = p.handed /\ panel'.running
            /\ task'.pc = "recover"
        BY <2>1, <3>3
      <4> QED
        BY <1>0, <2>2, <3>1, <3>3, <4>1, TurnRead DEF p
    <3> QED
      BY <3>1, <3>2, <3>3
  <2> QED
    BY <1>1, <2>3, <2>4, <2>5
<1>2. CASE Checked
  <2>1. /\ UNCHANGED <<worker, dir, made, task>>
        /\ panel'.up = panel.up /\ panel'.running = panel.running
        /\ panel'.handed = panel.handed
    BY <1>2 DEF Checked, processes, Records
  <2>2. \A i \in Updates : At(i, "forked") => Active(i)
    BY DEF At, Active
  <2> QED
    BY <2>1, <2>2, TurnSame DEF TurnInv, TaskInv, WorkerInv
<1>3. task.pc \in {"payload", "name", "fetch", "stage", "target", "spawn"} =>
        \A i \in Updates : ~Active(i)
  BY PreparesAlone
<1>4. CASE Recover
  <2>0. task.pc = "recover" /\ UNCHANGED <<worker, made>>
    BY <1>4 DEF Recover, processes
  <2>1. CASE PrepareFailed /\ UNCHANGED dir
    <3>1. task'.pc = "none"
      BY <2>1 DEF PrepareFailed, NoTask
    <3>2. \A i \in Updates : ~At(i, "forked")
      BY <2>0 DEF TurnInv, WorkerInv, Active, At
    <3> QED
      BY <2>0, <2>1, <3>1, <3>2, TurnSame
  <2>2. CASE /\ RecoverStale
             /\ \/ PrepareFailed
                \/ task' = [task EXCEPT !.pc = "payload"] /\ UNCHANGED panel
    <3>1. ~(dir.lock /\ WorkerLive) /\ dir' = [dir EXCEPT !.there = TRUE, !.lock = FALSE]
      BY <2>2 DEF RecoverStale
    <3>2. \A i \in Updates : ~Active(i)
      BY <2>0, <3>1, WorkerIsSeen
    <3>3. /\ dir'.there
          /\ task'.pc = "none" \/ (task'.pc = "payload" /\ UNCHANGED panel)
      BY <1>0, <2>2, <3>1 DEF Fields, Records, PrepareFailed, NoTask
    <3>4. TaskInv'
      BY <1>0, <2>0, <3>3 DEF TaskInv
    <3> QED
      BY <2>0, <3>2, <3>4 DEF TurnInv, Active
  <2> QED
    BY <1>4, <2>1, <2>2 DEF Recover
<1>5. CASE MakePayload \/ NamePayload \/ Fetched \/ WriteStage \/ WriteTarget
  <2>1. /\ UNCHANGED <<worker, made, panel>>
        /\ task.pc \in {"payload", "name", "fetch", "stage", "target"}
        /\ dir'.there = dir.there
        /\ \/ task.pc = "payload" /\ task'.pc = "name"
           \/ task.pc = "name" /\ task'.pc = "fetch" /\ dir'.named = made
           \/ task.pc = "fetch" /\ task'.pc = "stage" /\ dir'.named = dir.named
           \/ /\ task.pc = "stage" /\ task'.pc = "target" /\ dir'.named = dir.named
              /\ dir'.stage = "installing" /\ dir'.fresh
           \/ /\ task.pc = "target" /\ task'.pc = "spawn" /\ dir'.named = dir.named
              /\ dir'.stage = dir.stage /\ dir'.fresh = dir.fresh
    BY <1>0, <1>5 DEF MakePayload, NamePayload, Fetched, WriteStage, WriteTarget,
                      processes, Fields, Records
  <2>2. TaskInv'
    BY <1>0, <2>1 DEF TaskInv
  <2>3. \A i \in Updates : ~Active(i)'
    BY <1>3, <2>1 DEF Active
  <2> QED
    BY <2>2, <2>3 DEF TurnInv
<1>6. CASE FetchFails
  <2>1. /\ UNCHANGED <<worker, dir, made>> /\ task'.pc = "none"
        /\ task.pc \in {"name", "fetch", "stage", "target", "spawn"}
    BY <1>6 DEF FetchFails, PrepareFailed, processes, NoTask
  <2>2. \A i \in Updates : ~At(i, "forked")
    BY <1>3, <2>1 DEF Active, At
  <2> QED
    BY <2>1, <2>2, TurnSame
<1>7. CASE Spawn
  <2>1. /\ task.pc = "spawn" /\ task'.pc = "publish" /\ UNCHANGED <<dir, made, panel>>
        /\ made \in Updates /\ worker'[made].pc = "forked"
        /\ \A i \in Updates \ {made} : worker'[i] = worker[i]
    BY <1>0, <1>7 DEF Spawn, SpawnInv, Fields
  <2>2. TaskInv'
    BY <1>0, <2>1 DEF TaskInv
  <2>3. \A i \in Updates : Active(i)' => i = made
    BY <1>3, <2>1 DEF Active
  <2>4. ASSUME NEW i \in Updates, Active(i)'
        PROVE  WorkerInv(i)'
    <3>1. i = made
      BY <2>3, <2>4
    <3> QED
      BY <1>0, <2>1, <2>3, <3>1 DEF TaskInv, WorkerInv, Live, At
  <2> QED
    BY <2>2, <2>4 DEF TurnInv
<1>8. CASE HandOver
  <2>1. /\ task.pc = "publish" /\ task'.pc = "none" /\ UNCHANGED <<worker, made>>
        /\ panel'.up = panel.up /\ panel'.handed
        /\ dir'.pid = made /\ dir'.there = dir.there /\ dir'.stage = dir.stage
        /\ dir'.fresh = dir.fresh /\ dir'.lock = dir.lock /\ dir'.target = dir.target
        /\ dir'.named = dir.named
    BY <1>8 DEF HandOver, processes, NoTask, Records
  <2>2. TaskInv'
    BY <2>1 DEF TaskInv
  <2>3. ASSUME NEW i \in Updates, Active(i)'
        PROVE  WorkerInv(i)'
    BY <2>1, <2>3 DEF TurnInv, WorkerInv, Active, Live, At
  <2> QED
    BY <2>2, <2>3 DEF TurnInv
<1> QED
  BY <1>1, <1>2, <1>4, <1>5, <1>6, <1>7, <1>8 DEF Panel

\* What a step of a worker does to its state, the state directory and the rest.
LEMMA WorkerActs ==
  ASSUME Fields, Records, NEW i \in Updates, Worker(i)
  PROVE  /\ UNCHANGED <<panel, task, files, ilock, made, torn, lost>>
         /\ \A j \in Updates \ {i} : worker'[j] = worker[j]
         /\ worker'[i].tag = worker[i].tag
         /\ dir'.there = dir.there /\ dir'.named = dir.named
         /\ \/ /\ At(i, "forked") /\ At(i, "over")' /\ dir.lock
               /\ UNCHANGED <<dir, payloads, installer>>
            \/ /\ At(i, "forked") /\ At(i, "locked")' /\ ~dir.lock
               /\ dir'.lock /\ dir'.target = worker[i].tag /\ dir'.pid = i
               /\ dir'.stage = "installing" /\ UNCHANGED <<payloads, installer>>
            \/ /\ At(i, "locked") /\ At(i, "checked")' /\ i \in payloads
               /\ UNCHANGED <<dir, payloads, installer>>
            \/ /\ At(i, "checked") /\ At(i, "installing")'
               /\ dir'.lock = dir.lock /\ dir'.target = dir.target
               /\ dir'.pid = dir.pid /\ dir'.stage = "restarting"
               /\ installer'[i] = [installer[i] EXCEPT !.pc = "begin"]
               /\ \A j \in Updates \ {i} : installer'[j] = installer[j]
               /\ UNCHANGED payloads
            \/ /\ At(i, "installing") /\ At(i, "complete")'
               /\ installer[i].pc = "ok"
               /\ dir'.lock = dir.lock /\ dir'.target = dir.target
               /\ dir'.pid = dir.pid /\ dir'.stage = "complete"
               /\ UNCHANGED <<payloads, installer>>
            \/ /\ worker[i].pc \in {"locked", "checked", "installing", "complete"}
               /\ At(i, "over")' /\ dir'.lock = FALSE /\ dir'.target = dir.target
               /\ \/ dir'.stage = "error"
                  \/ dir'.stage = "complete" /\ At(i, "complete")
               /\ payloads' = IF At(i, "locked") THEN payloads ELSE payloads \ {i}
               /\ At(i, "installing") => installer[i].pc \in {"ok", "failed"}
               /\ UNCHANGED installer
<1> DEFINE Goto(pc) == /\ \A j \in Updates \ {i} : worker'[j] = worker[j]
                       /\ worker'[i].tag = worker[i].tag /\ At(i, pc)'
<1>1. ASSUME NEW pc, To(i, pc)
      PROVE  Goto(pc)
  BY <1>1 DEF To, Fields, At
<1>2. CASE WorkerLocks(i)
  <2>1. CASE dir.lock
    <3>1. Goto("over")
      BY <1>1, <1>2, <2>1 DEF WorkerLocks
    <3> QED
      BY <1>2, <2>1, <3>1 DEF WorkerLocks
  <2>2. CASE ~dir.lock
    <3>1. Goto("locked")
      BY <1>1, <1>2, <2>2 DEF WorkerLocks
    <3>2. /\ dir'.there = dir.there /\ dir'.named = dir.named
          /\ dir'.lock /\ dir'.target = worker[i].tag /\ dir'.pid = i
          /\ dir'.stage = "installing"
      BY <1>2, <2>2 DEF WorkerLocks, Records
    <3> QED
      BY <1>2, <2>2, <3>1, <3>2 DEF WorkerLocks
  <2> QED
    BY <2>1, <2>2
<1>3. CASE WorkerValidates(i)
  <2>1. Goto("checked")
    BY <1>1, <1>3 DEF WorkerValidates
  <2> QED
    BY <1>3, <2>1 DEF WorkerValidates
<1>4. CASE WorkerInstalls(i)
  <2>1. Goto("installing")
    BY <1>1, <1>4 DEF WorkerInstalls
  <2>2. /\ dir'.there = dir.there /\ dir'.named = dir.named
        /\ dir'.lock = dir.lock /\ dir'.target = dir.target
        /\ dir'.pid = dir.pid /\ dir'.stage = "restarting"
    BY <1>4 DEF WorkerInstalls, Records
  <2>3. /\ installer'[i] = [installer[i] EXCEPT !.pc = "begin"]
        /\ \A j \in Updates \ {i} : installer'[j] = installer[j]
    BY <1>4 DEF WorkerInstalls, Fields
  <2> QED
    BY <1>4, <2>1, <2>2, <2>3 DEF WorkerInstalls
<1>5. CASE WorkerReports(i)
  <2>1. Goto("complete")
    BY <1>1, <1>5 DEF WorkerReports
  <2>2. /\ dir'.there = dir.there /\ dir'.named = dir.named
        /\ dir'.lock = dir.lock /\ dir'.target = dir.target
        /\ dir'.pid = dir.pid /\ dir'.stage = "complete"
    BY <1>5 DEF WorkerReports, Records
  <2> QED
    BY <1>5, <2>1, <2>2 DEF WorkerReports
<1>6. CASE WorkerCompletes(i) \/ WorkerFails(i)
  <2>1. PICK outcome \in {"complete", "error"} :
          /\ Cleanup(i, outcome) /\ (outcome = "complete" => At(i, "complete"))
    BY <1>6 DEF WorkerCompletes, WorkerFails
  <2>2. Goto("over")
    BY <1>1, <2>1 DEF Cleanup
  <2>3. /\ dir'.there = dir.there /\ dir'.named = dir.named
        /\ dir'.lock = FALSE /\ dir'.target = dir.target /\ dir'.stage = outcome
    BY <2>1 DEF Cleanup, Records
  <2>4. /\ worker[i].pc \in {"locked", "checked", "installing", "complete"}
        /\ At(i, "installing") => installer[i].pc \in {"ok", "failed"}
        /\ UNCHANGED <<panel, task, files, ilock, made, torn, lost, installer>>
    BY <1>6 DEF WorkerCompletes, WorkerFails, At
  <2> QED
    BY <2>1, <2>2, <2>3, <2>4 DEF Cleanup
<1> QED
  BY <1>2, <1>3, <1>4, <1>5, <1>6 DEF Worker

\* A worker goes on, with the lock or for it, or ends.
LEMMA TurnWorks ==
  ASSUME IInv, Records, TurnInv, NEW i \in Updates, Worker(i)
  PROVE  TurnInv'
<1>0. Fields /\ TaskInv
  BY DEF IInv, TurnInv
<1>1. /\ Active(i) /\ UNCHANGED <<task, made, panel>>
      /\ dir'.named = dir.named /\ dir'.there = dir.there
      /\ \A j \in Updates \ {i} : worker'[j] = worker[j]
      /\ worker'[i].tag = worker[i].tag
      /\ worker'[i].pc \notin {"forked", "none"}
      /\ worker'[i].pc # "over" =>
           \/ dir'.lock /\ dir'.pid = i /\ dir'.target = worker[i].tag
           \/ /\ Live(i) /\ dir'.lock = dir.lock /\ dir'.target = dir.target
              /\ dir'.pid = dir.pid
  BY <1>0, WorkerActs DEF At, Active, Live
<1>2. WorkerInv(i)
  BY <1>1 DEF TurnInv
<1>3. TaskInv'
  BY <1>0, <1>1, <1>2 DEF TaskInv, WorkerInv
<1>4. ASSUME NEW j \in Updates, Active(j)'
      PROVE  WorkerInv(j)'
  <2>1. j = i
    BY <1>1, <1>2, <1>4 DEF Active, WorkerInv
  <2>2. \A k \in Updates : Active(k)' => k = i
    BY <1>1, <1>2 DEF Active, WorkerInv
  <2> QED
    BY <1>1, <1>2, <1>4, <2>1, <2>2 DEF WorkerInv, Live, Active, At
<1> QED
  BY <1>3, <1>4 DEF TurnInv

LEMMA TurnInstalls ==
  ASSUME IInv, Records, TurnInv, NEW i \in Updates, Installer(i)
  PROVE  TurnInv'
<1>1. /\ UNCHANGED <<worker, dir, made>>
      /\ \/ panel' = panel /\ task' = task
         \/ panel' = Down /\ task' = NoTask
         \/ ~panel.up /\ panel' = Started /\ task' = task
  BY DEF Installer, InstallLocks, InstallCopies, InstallStops, InstallReplacesBinary,
         InstallReplacesInit, InstallStarts, InstallSucceeds, InstallFails,
         InstallUndoStops, InstallUndoesBinary, InstallUndoesInit, InstallUndoStarts
<1> QED
  BY <1>1, TurnPanel DEF IInv

LEMMA TurnEnvironment ==
  ASSUME IInv, Records, TurnInv, Environment
  PROVE  TurnInv'
<1>0. Fields /\ SpawnInv /\ TaskInv
  BY DEF IInv, TurnInv
<1>1. CASE StageAges
  <2>1. /\ UNCHANGED <<worker, task, made, panel>> /\ task.pc \notin {"target", "spawn"}
        /\ \A i \in Updates : ~At(i, "forked")
        /\ dir'.there = dir.there /\ dir'.lock = dir.lock /\ dir'.pid = dir.pid
        /\ dir'.target = dir.target /\ dir'.named = dir.named
    BY <1>1 DEF StageAges, processes, Records
  <2>2. TaskInv'
    BY <1>0, <2>1 DEF TaskInv
  <2>3. ASSUME NEW i \in Updates, Active(i)'
        PROVE  WorkerInv(i)'
    BY <2>1, <2>3 DEF TurnInv, WorkerInv, Active, Live, At
  <2> QED
    BY <2>2, <2>3 DEF TurnInv
<1>2. CASE ServiceStarts \/ StaleLockIsRemoved \/ PanelDies
           \/ \E i \in Updates : InstallerDies(i)
  <2>1. /\ UNCHANGED <<worker, dir, made>>
        /\ \/ panel' = panel /\ task' = task
           \/ panel' = Down /\ task' = NoTask
           \/ ~panel.up /\ panel' = Started /\ task' = task
    BY <1>2 DEF ServiceStarts, StaleLockIsRemoved, PanelDies, InstallerDies, processes
  <2> QED
    BY <1>0, <2>1, TurnPanel
<1>3. ASSUME NEW i \in Updates, WorkerDies(i)
      PROVE  TurnInv'
  <2>1. /\ UNCHANGED <<task, made, panel, dir>> /\ worker'[i].pc = "over"
        /\ \A j \in Updates \ {i} : worker'[j] = worker[j]
    BY <1>0, <1>3 DEF WorkerDies, To, Fields
  <2>2. TaskInv'
    BY <1>0, <2>1 DEF TaskInv
  <2>3. ASSUME NEW j \in Updates, Active(j)'
        PROVE  WorkerInv(j)'
    <3>1. j # i /\ Active(j)
      BY <2>1, <2>3 DEF Active
    <3> QED
      BY <2>1, <3>1 DEF TurnInv, WorkerInv, Active, Live, At
  <2> QED
    BY <2>2, <2>3 DEF TurnInv
<1>4. CASE PowerFails
  <2>1. /\ task'.pc = "none"
        /\ \A i \in Updates : worker'[i].pc \in {"none", "over"}
    BY <1>0, <1>4 DEF PowerFails, NoTask, Fields
  <2> QED
    BY <2>1 DEF TurnInv, TaskInv, Active
<1> QED
  BY <1>1, <1>2, <1>3, <1>4 DEF Environment

LEMMA TurnKept ==
  ASSUME IInv, Records, TurnInv, [Next]_vars
  PROVE  TurnInv'
<1>1. CASE UNCHANGED vars
  BY <1>1, TurnPanel DEF vars, processes, IInv
<1> QED
  BY <1>1, TurnPrepares, TurnWorks, TurnInstalls, TurnEnvironment DEF Next

-----------------------------------------------------------------------------
(* Payloads.                                                                *)

\* A payload is for an update that began, is there while its worker needs it,
\* and has its name kept from before the download on.
PayloadInv ==
  /\ payloads \subseteq 1..made
  /\ \A i \in Updates : worker[i].pc \in {"checked", "installing"} => i \in payloads
  /\ \A i \in payloads : i \in lost \/ i = dir.named \/ (i = made /\ task.pc = "name")
  /\ task.pc \in {"recover", "payload"} => made \notin payloads
  /\ task.pc \in {"payload", "name"} => dir.named \notin payloads \/ dir.named = made

\* A step that leaves the payloads and their names alone.
LEMMA PayloadSame ==
  ASSUME PayloadInv, UNCHANGED <<payloads, made>>, dir'.named = dir.named,
         lost \subseteq lost',
         \A i \in Updates : worker'[i].pc \in {"checked", "installing"} =>
           worker[i].pc \in {"checked", "installing"} \/ i \in payloads,
         task'.pc \in {"recover", "payload", "name"} => task'.pc = task.pc,
         task.pc = "name" => task'.pc = "name" \/ made \in lost'
  PROVE  PayloadInv'
BY DEF PayloadInv

LEMMA PayloadPrepares ==
  ASSUME IInv, Records, TurnInv, PayloadInv, Panel
  PROVE  PayloadInv'
<1>0. Fields /\ TaskInv
  BY DEF IInv, TurnInv
<1>1. CASE Status \/ Check \/ Checked
  BY <1>1, PayloadSame DEF Status, Check, Checked, processes
<1>2. CASE Start
  <2>1. CASE UNCHANGED <<task, made>>
    BY <1>2, <2>1, PayloadSame DEF Start, processes
  <2>2. CASE ~UNCHANGED <<task, made>>
    <3>1. /\ ~ReadStatus(panel).running /\ task'.pc = "recover" /\ made' = made + 1
          /\ UNCHANGED <<dir, payloads, worker, lost>>
      BY <1>2, <2>2 DEF Start, processes
    <3>2. task.pc # "name"
      BY <1>0, <3>1, ReadFacts DEF TaskInv, Records
    <3>3. payloads \subseteq 1..(made + 1) /\ made + 1 \notin payloads
      BY <1>0 DEF PayloadInv, Fields
    <3> QED
      BY <3>1, <3>2, <3>3 DEF PayloadInv
  <2> QED
    BY <2>1, <2>2
<1>3. task.pc \in {"payload", "name", "fetch", "stage", "target", "spawn"} =>
        \A i \in Updates : ~Active(i)
  BY PreparesAlone
<1>4. CASE Recover
  <2>0. task.pc = "recover" /\ UNCHANGED <<worker, made, lost>>
    BY <1>4 DEF Recover, processes
  <2>1. CASE PrepareFailed /\ UNCHANGED payloads /\ dir'.named = dir.named
    BY <2>0, <2>1, PayloadSame DEF PrepareFailed, NoTask
  <2>2. CASE /\ RecoverStale
             /\ task' = [task EXCEPT !.pc = "payload"]
             /\ payloads' = payloads \ {dir.named}
    <3>1. ~(dir.lock /\ WorkerLive) /\ dir' = [dir EXCEPT !.there = TRUE, !.lock = FALSE]
      BY <2>2 DEF RecoverStale
    <3>2. \A i \in Updates : worker'[i].pc \notin {"checked", "installing"}
      BY <2>0, <3>1, WorkerIsSeen DEF Active
    <3>3. task'.pc = "payload" /\ dir'.named = dir.named
      BY <1>0, <2>2, <3>1 DEF Fields, Records
    <3> QED
      BY <2>0, <2>2, <3>2, <3>3 DEF PayloadInv
  <2>3. RecoverStale => dir'.named = dir.named
    BY <1>0 DEF RecoverStale, Records
  <2> QED
    BY <1>4, <2>1, <2>2, <2>3 DEF Recover
<1>5. CASE MakePayload
  <2>1. /\ UNCHANGED <<worker, made, dir, lost>> /\ task.pc = "payload" /\ task'.pc = "name"
        /\ payloads' = payloads \union {made}
    BY <1>0, <1>5 DEF MakePayload, processes, Fields
  <2>2. made \in 1..made
    BY <1>0, <2>1, UpdaterAssumption DEF IInv, SpawnInv, Fields, Updates
  <2> QED
    BY <2>1, <2>2 DEF PayloadInv
<1>6. CASE NamePayload
  <2>1. /\ UNCHANGED <<worker, made, payloads, lost>> /\ task.pc = "name"
        /\ task'.pc = "fetch" /\ dir'.named = made
    BY <1>0, <1>6 DEF NamePayload, processes, Fields, Records
  <2> QED
    BY <2>1 DEF PayloadInv
<1>7. CASE Fetched \/ WriteStage \/ WriteTarget \/ HandOver
  <2>1. /\ UNCHANGED <<worker, made, payloads, lost>> /\ dir'.named = dir.named
        /\ task.pc \in {"fetch", "stage", "target", "publish"}
        /\ task'.pc \in {"stage", "target", "spawn", "none"}
    <3>1. CASE Fetched
      BY <1>0, <3>1 DEF Fetched, processes, Fields
    <3>2. CASE WriteStage
      BY <1>0, <3>2 DEF WriteStage, processes, Fields, Records
    <3>3. CASE WriteTarget
      BY <1>0, <3>3 DEF WriteTarget, processes, Fields, Records
    <3>4. CASE HandOver
      BY <3>4 DEF HandOver, processes, NoTask, Records
    <3> QED
      BY <1>7, <3>1, <3>2, <3>3, <3>4
  <2> QED
    BY <2>1, PayloadSame
<1>8. CASE FetchFails
  <2>1. /\ UNCHANGED <<worker, dir, made, lost>> /\ task'.pc = "none"
        /\ task.pc \in {"name", "fetch", "stage", "target", "spawn"}
        /\ payloads' = payloads \ {made}
    BY <1>8 DEF FetchFails, PrepareFailed, processes, NoTask
  <2>2. \A i \in Updates : worker[i].pc \notin {"checked", "installing"}
    BY <1>3, <2>1 DEF Active
  <2> QED
    BY <2>1, <2>2 DEF PayloadInv
<1>9. CASE Spawn
  <2>1. /\ UNCHANGED <<dir, made, payloads, lost>> /\ task.pc = "spawn"
        /\ task'.pc = "publish" /\ worker'[made].pc = "forked" /\ made \in Updates
        /\ \A i \in Updates \ {made} : worker'[i] = worker[i]
    BY <1>0, <1>9 DEF Spawn, IInv, SpawnInv, Fields
  <2> QED
    BY <2>1, PayloadSame
<1> QED
  BY <1>1, <1>2, <1>4, <1>5, <1>6, <1>7, <1>8, <1>9 DEF Panel

LEMMA PayloadWorks ==
  ASSUME IInv, Records, TurnInv, PayloadInv, NEW i \in Updates, Worker(i)
  PROVE  PayloadInv'
<1>0. Fields
  BY DEF IInv
<1>1. /\ Active(i) /\ UNCHANGED <<task, made, lost>> /\ dir'.named = dir.named
      /\ \A j \in Updates \ {i} : worker'[j] = worker[j]
      /\ \/ UNCHANGED payloads
         \/ payloads' = payloads \ {i} /\ worker'[i].pc = "over"
      /\ worker'[i].pc = "checked" => i \in payloads
      /\ worker'[i].pc = "installing" => worker[i].pc = "checked"
  BY <1>0, WorkerActs DEF At, Active
<1>2. task.pc \in {"none", "recover", "publish"}
  BY <1>1 DEF TurnInv, WorkerInv
<1>3. CASE UNCHANGED payloads
  BY <1>1, <1>3, PayloadSame
<1>4. CASE payloads' = payloads \ {i} /\ worker'[i].pc = "over"
  BY <1>1, <1>2, <1>4 DEF PayloadInv
<1> QED
  BY <1>1, <1>3, <1>4

\* A service that goes down with the name of its payload not yet kept.
LEMMA PayloadDown ==
  ASSUME PayloadInv, UNCHANGED <<worker, payloads, dir, made>>,
         \/ task' = task /\ lost' = lost
         \/ /\ task' = NoTask
            /\ lost' = IF task.pc = "name" THEN lost \union {made} ELSE lost
  PROVE  PayloadInv'
<1>1. CASE task' = task /\ lost' = lost
  BY <1>1, PayloadSame
<1>2. CASE /\ task' = NoTask
           /\ lost' = IF task.pc = "name" THEN lost \union {made} ELSE lost
  <2>1. task'.pc = "none"
    BY <1>2 DEF NoTask
  <2> QED
    BY <1>2, <2>1, PayloadSame
<1> QED
  BY <1>1, <1>2

LEMMA PayloadKept ==
  ASSUME IInv, Records, TurnInv, PayloadInv, [Next]_vars
  PROVE  PayloadInv'
<1>0. Fields
  BY DEF IInv
<1>1. CASE \E i \in Updates : Installer(i)
  <2>1. /\ UNCHANGED <<worker, payloads, dir, made>>
        /\ \/ task' = task /\ lost' = lost
           \/ /\ task' = NoTask
              /\ lost' = IF task.pc = "name" THEN lost \union {made} ELSE lost
    BY <1>1 DEF Installer, InstallLocks, InstallCopies, InstallStops, InstallReplacesBinary,
       InstallReplacesInit, InstallStarts, InstallSucceeds, InstallFails,
       InstallUndoStops, InstallUndoesBinary, InstallUndoesInit, InstallUndoStarts
  <2> QED
    BY <2>1, PayloadDown
<1>2. CASE ServiceStarts \/ StaleLockIsRemoved \/ PanelDies
           \/ \E i \in Updates : InstallerDies(i)
  <2>1. /\ UNCHANGED <<worker, payloads, dir, made>>
        /\ \/ task' = task /\ lost' = lost
           \/ /\ task' = NoTask
              /\ lost' = IF task.pc = "name" THEN lost \union {made} ELSE lost
    BY <1>2 DEF ServiceStarts, StaleLockIsRemoved, PanelDies, InstallerDies, processes
  <2> QED
    BY <2>1, PayloadDown
<1>3. CASE StageAges
  <2>1. /\ UNCHANGED <<worker, payloads, made, task, lost>> /\ dir'.named = dir.named
    BY <1>3 DEF StageAges, processes, Records
  <2> QED
    BY <2>1, PayloadSame
<1>4. ASSUME NEW i \in Updates, WorkerDies(i)
      PROVE  PayloadInv'
  <2>1. /\ UNCHANGED <<payloads, made, task, lost, dir>> /\ worker'[i].pc = "over"
        /\ \A j \in Updates \ {i} : worker'[j] = worker[j]
    BY <1>0, <1>4 DEF WorkerDies, To, Fields
  <2> QED
    BY <2>1, PayloadSame
<1>5. CASE PowerFails
  <2>1. /\ UNCHANGED <<payloads, made>> /\ task'.pc = "none"
        /\ \A i \in Updates : worker'[i].pc \in {"none", "over"}
        /\ \/ lost' = lost \union payloads
           \/ dir' = dir /\ lost' = IF task.pc = "name" THEN lost \union {made} ELSE lost
    BY <1>0, <1>5 DEF PowerFails, NoTask, Fields
  <2> QED
    BY <2>1 DEF PayloadInv
<1>6. CASE UNCHANGED vars
  BY <1>6, PayloadDown DEF vars, processes
<1>7. CASE Environment
  BY <1>2, <1>3, <1>4, <1>5, <1>7 DEF Environment
<1> QED
  BY <1>1, <1>6, <1>7, PayloadPrepares, PayloadWorks DEF Next

-----------------------------------------------------------------------------
(* What is installed.                                                       *)

\* Versions are numbers, and no release that is fetched is version 0.
VersionInv ==
  /\ panel.version \in Nat /\ panel.latest \in Nat /\ dir.target \in Nat
  /\ files.bin \in Nat /\ files.init \in Nat
  /\ task.tag \in Nat /\ (task.pc # "none" => task.tag # 0)
  /\ \A i \in Updates :
       /\ worker[i].tag \in Nat /\ (worker[i].pc # "none" => worker[i].tag # 0)
       /\ installer[i].bin \in Nat /\ installer[i].init \in Nat

LEMMA VersionPrepares ==
  ASSUME IInv, Records, VersionInv, Panel
  PROVE  VersionInv'
<1>0. Fields
  BY DEF IInv
<1> DEFINE p == ReadStatus(panel)
<1>1. p.latest \in Nat /\ p.version = panel.version
  <2>1. /\ p.version = panel.version
        /\ ~panel.handed => p = panel
        /\ panel.handed => p.latest = IF dir.target # 0 THEN dir.target ELSE panel.latest
    BY ReadFacts DEF Records
  <2> QED
    BY <2>1 DEF VersionInv
<1>2. CASE Status \/ Check
  <2>1. /\ UNCHANGED <<dir, files, task, worker, installer>>
        /\ panel' \in {p, [p EXCEPT !.checking = TRUE, !.stage = "checking"]}
    BY <1>2 DEF Status, Check, processes
  <2>2. /\ p = [up |-> p.up, version |-> p.version, handed |-> p.handed,
                running |-> p.running, checking |-> p.checking, stage |-> p.stage,
                latest |-> p.latest]
    BY ReadFacts DEF Records
  <2> HIDE DEF p
  <2>3. panel'.version = p.version /\ panel'.latest = p.latest
    BY <2>1, <2>2
  <2> QED
    BY <1>1, <2>1, <2>3 DEF VersionInv
<1>3. CASE Start
  <2>1. /\ UNCHANGED <<dir, files, worker, installer>>
        /\ \/ panel' = p /\ task' = task
           \/ /\ Available(p) /\ task' = [pc |-> "recover", tag |-> p.latest]
              /\ panel' = [p EXCEPT !.running = TRUE, !.stage = "downloading"]
    BY <1>3 DEF Start, processes
  <2>2. /\ p = [up |-> p.up, version |-> p.version, handed |-> p.handed,
                running |-> p.running, checking |-> p.checking, stage |-> p.stage,
                latest |-> p.latest]
    BY ReadFacts DEF Records
  <2> HIDE DEF p
  <2>3. panel'.version = p.version /\ panel'.latest = p.latest
    BY <2>1, <2>2
  <2>4. task' = task \/ (task'.tag = p.latest /\ p.latest > p.version)
    BY <2>1 DEF Available
  <2>5. task'.tag \in Nat /\ (task'.pc # "none" => task'.tag # 0)
    BY <1>1, <2>4 DEF VersionInv
  <2> QED
    BY <1>1, <2>1, <2>3, <2>5 DEF VersionInv
<1>4. CASE Checked
  <2>1. /\ UNCHANGED <<dir, files, task, worker, installer>>
        /\ panel'.version = panel.version
        /\ panel'.latest \in Versions \union {panel.version}
    BY <1>4 DEF Checked, processes, Records
  <2> QED
    BY <2>1, UpdaterAssumption DEF VersionInv, Versions
<1>5. CASE Recover \/ MakePayload \/ NamePayload \/ Fetched \/ FetchFails
           \/ WriteStage \/ WriteTarget \/ HandOver
  <2>1. /\ UNCHANGED <<files, worker, installer>>
        /\ dir'.target \in {dir.target, task.tag}
        /\ panel'.version = panel.version /\ panel'.latest = panel.latest
    <3>1. CASE Recover
      BY <3>1 DEF Recover, RecoverStale, PrepareFailed, processes, Records
    <3>2. CASE MakePayload \/ NamePayload \/ Fetched
      BY <3>2 DEF MakePayload, NamePayload, Fetched, processes, Records
    <3>3. CASE FetchFails \/ WriteStage
      BY <3>3 DEF FetchFails, PrepareFailed, WriteStage, processes, Records
    <3>4. CASE WriteTarget \/ HandOver
      BY <3>4 DEF WriteTarget, HandOver, processes, Records
    <3> QED
      BY <1>5, <3>1, <3>2, <3>3, <3>4
  <2>2. /\ task.pc # "none"
        /\ task'.tag = task.tag \/ task' = NoTask
    BY <1>0, <1>5
    DEF Recover, MakePayload, NamePayload, Fetched, FetchFails, PrepareFailed, WriteStage,
        WriteTarget, HandOver, Fields
  <2>3. task'.tag \in Nat /\ (task'.pc # "none" => task'.tag # 0)
    BY <2>2 DEF VersionInv, NoTask
  <2> QED
    BY <2>1, <2>3 DEF VersionInv
<1>6. CASE Spawn
  <2>1. /\ UNCHANGED <<panel, dir, files, installer>> /\ task'.tag = task.tag
        /\ task.pc # "none" /\ worker'[made].tag = task.tag /\ made \in Updates
        /\ \A i \in Updates \ {made} : worker'[i] = worker[i]
    BY <1>0, <1>6 DEF Spawn, Fields, IInv, SpawnInv
  <2> QED
    BY <2>1 DEF VersionInv
<1> QED
  BY <1>2, <1>3, <1>4, <1>5, <1>6 DEF Panel

LEMMA VersionKept ==
  ASSUME IInv, Records, VersionInv, [Next]_vars
  PROVE  VersionInv'
<1>0. Fields /\ SpawnInv
  BY DEF IInv
<1>1. Down.version = panel.version /\ Down.latest = 0
  BY DownFacts
<1>2. Started.version = files.bin /\ Started.latest \in {0, dir.target}
  BY StartedFacts
<1>3. ASSUME panel' \in {panel, Down, Started}
      PROVE  panel'.version \in Nat /\ panel'.latest \in Nat
  BY <1>1, <1>2, <1>3 DEF VersionInv
<1>4. ASSUME task' \in {task, NoTask}
      PROVE  task'.tag \in Nat /\ (task'.pc # "none" => task'.tag # 0)
  BY <1>4 DEF VersionInv, NoTask
<1>5. ASSUME NEW i \in Updates, Worker(i)
      PROVE  VersionInv'
  <2>1. /\ UNCHANGED <<panel, task, files>>
        /\ \A j \in Updates \ {i} : worker'[j] = worker[j]
        /\ worker'[i].tag = worker[i].tag /\ worker[i].pc # "none"
        /\ dir'.target \in {dir.target, worker[i].tag}
        /\ \A j \in Updates : installer'[j].bin = installer[j].bin
                              /\ installer'[j].init = installer[j].init
    <3>1. \A j \in Updates : installer'[j] \in {installer[j], [installer[j] EXCEPT !.pc = "begin"]}
      BY <1>0, <1>5, WorkerActs
    <3>2. ASSUME NEW j \in Updates
          PROVE  installer'[j].bin = installer[j].bin /\ installer'[j].init = installer[j].init
      BY <1>0, <3>1 DEF Fields
    <3> QED
      BY <1>0, <1>5, <3>2, WorkerActs DEF At
  <2> QED
    BY <2>1 DEF VersionInv
<1>6. ASSUME NEW i \in Updates, Installer(i)
      PROVE  VersionInv'
  <2>1. /\ UNCHANGED <<worker, dir>> /\ task' \in {task, NoTask}
        /\ panel' \in {panel, Down, Started}
    BY <1>6 DEF Installer, InstallLocks, InstallCopies, InstallStops, InstallReplacesBinary,
       InstallReplacesInit, InstallStarts, InstallSucceeds, InstallFails,
       InstallUndoStops, InstallUndoesBinary, InstallUndoesInit, InstallUndoStarts
  <2>2. /\ \A j \in Updates \ {i} : installer'[j] = installer[j]
        /\ installer'[i].bin \in {installer[i].bin, files.bin}
        /\ installer'[i].init \in {installer[i].init, files.init}
        /\ files'.bin \in {files.bin, worker[i].tag, installer[i].bin}
        /\ files'.init \in {files.init, worker[i].tag, installer[i].init}
    <3>1. CASE InstallLocks(i) \/ InstallSucceeds(i) \/ InstallFails(i) \/ InstallStarts(i)
      BY <1>0, <3>1
      DEF InstallLocks, InstallSucceeds, InstallFails, InstallStarts, Exits, Goes, Fields
    <3>2. CASE InstallCopies(i) \/ InstallStops(i)
      BY <1>0, <3>2 DEF InstallCopies, InstallStops, Fields
    <3>3. CASE InstallReplacesBinary(i) \/ InstallReplacesInit(i)
      BY <1>0, <3>3 DEF InstallReplacesBinary, InstallReplacesInit, Goes, Fields
    <3>4. CASE InstallUndoesBinary(i) \/ InstallUndoesInit(i)
      BY <1>0, <3>4 DEF InstallUndoesBinary, InstallUndoesInit, UndoBreaks, Goes, Fields
    <3>5. CASE InstallUndoStops(i) \/ InstallUndoStarts(i)
      BY <1>0, <3>5 DEF InstallUndoStops, InstallUndoStarts, Exits, Goes, Fields
    <3> QED
      BY <1>6, <3>1, <3>2, <3>3, <3>4, <3>5 DEF Installer
  <2>3. panel'.version \in Nat /\ panel'.latest \in Nat
    BY <1>3, <2>1
  <2>4. task'.tag \in Nat /\ (task'.pc # "none" => task'.tag # 0)
    BY <1>4, <2>1
  <2>5. /\ files'.bin \in Nat /\ files'.init \in Nat
        /\ \A j \in Updates : installer'[j].bin \in Nat /\ installer'[j].init \in Nat
    BY <2>2 DEF VersionInv
  <2> QED
    BY <2>1, <2>3, <2>4, <2>5 DEF VersionInv
<1>7. CASE Environment
  <2>1. /\ files' = files /\ task' \in {task, NoTask} /\ panel' \in {panel, Down, Started}
        /\ dir'.target \in {dir.target, 0}
    <3>1. CASE StageAges
      BY <3>1 DEF StageAges, Records, processes
    <3>2. CASE PowerFails
      <4>1. /\ files' = files /\ task' = NoTask /\ panel' = Down
            /\ dir' = NoDir \/ dir' = dir
        BY <3>2 DEF PowerFails
      <4>2. NoDir.target = 0
        BY DEF NoDir
      <4> QED
        BY <4>1, <4>2
    <3>3. CASE ServiceStarts \/ StaleLockIsRemoved \/ PanelDies
               \/ \E i \in Updates : WorkerDies(i) \/ InstallerDies(i)
      BY <3>3 DEF ServiceStarts, StaleLockIsRemoved, PanelDies, WorkerDies, InstallerDies,
                  processes
    <3> QED
      BY <1>7, <3>1, <3>2, <3>3 DEF Environment
  <2>2. \A j \in Updates :
          /\ worker'[j].tag = worker[j].tag /\ (worker'[j].pc # "none" => worker[j].pc # "none")
          /\ installer'[j].bin = installer[j].bin /\ installer'[j].init = installer[j].init
    <3>1. CASE PowerFails
      BY <1>0, <3>1 DEF PowerFails, Fields
    <3>2. ASSUME NEW i \in Updates, WorkerDies(i) \/ InstallerDies(i)
          PROVE  \A j \in Updates :
            /\ worker'[j].tag = worker[j].tag /\ (worker'[j].pc # "none" => worker[j].pc # "none")
            /\ installer'[j].bin = installer[j].bin /\ installer'[j].init = installer[j].init
      BY <1>0, <3>2 DEF WorkerDies, InstallerDies, To, Goes, Fields
    <3>3. CASE StageAges \/ ServiceStarts \/ StaleLockIsRemoved \/ PanelDies
      BY <3>3 DEF StageAges, ServiceStarts, StaleLockIsRemoved, PanelDies, processes
    <3> QED
      BY <1>7, <3>1, <3>2, <3>3 DEF Environment
  <2>3. panel'.version \in Nat /\ panel'.latest \in Nat
    BY <1>3, <2>1
  <2>4. task'.tag \in Nat /\ (task'.pc # "none" => task'.tag # 0)
    BY <1>4, <2>1
  <2> QED
    BY <2>1, <2>2, <2>3, <2>4 DEF VersionInv
<1>8. CASE UNCHANGED vars
  BY <1>8 DEF vars, processes, VersionInv
<1> QED
  BY <1>5, <1>6, <1>7, <1>8, VersionPrepares DEF Next

\* The installer of update i may still replace files: a payload that was taken
\* away stops it before it has copied.
CanWrite(i) ==
  \/ installer[i].pc \in {"begin", "copy"} /\ i \in payloads
  \/ Holds(i) /\ installer[i].pc # "copy"

\* What a step of prepare() leaves alone.
LEMMA PanelActs ==
  ASSUME IInv, Records, Panel
  PROVE  /\ UNCHANGED <<installer, files>>
         /\ \/ worker' = worker
            \/ /\ task.pc = "spawn" /\ made \in Updates /\ worker'[made].pc = "forked"
               /\ \A j \in Updates \ {made} : worker'[j] = worker[j]
         /\ dir'.named = dir.named \/ (task.pc = "name" /\ dir'.named = made)
         /\ dir'.stage = dir.stage \/ (task.pc = "stage" /\ dir'.stage = "installing")
         /\ dir'.target = dir.target \/ task.pc = "target"
         /\ \/ payloads' \subseteq payloads
            \/ task.pc = "payload" /\ payloads' = payloads \union {made}
<1>0. Fields /\ SpawnInv
  BY DEF IInv
<1>1. CASE Status \/ Check \/ Checked \/ Start \/ Fetched \/ MakePayload \/ FetchFails
  BY <1>1 DEF Status, Check, Checked, Start, Fetched, MakePayload, FetchFails, processes
<1>2. CASE Recover
  BY <1>2 DEF Recover, RecoverStale, processes, Records
<1>3. CASE NamePayload
  BY <1>3 DEF NamePayload, processes, Records
<1>4. CASE WriteStage
  BY <1>4 DEF WriteStage, processes, Records
<1>5. CASE WriteTarget
  BY <1>5 DEF WriteTarget, processes, Records
<1>6. CASE Spawn
  BY <1>0, <1>6 DEF Spawn, SpawnInv, Fields
<1>7. CASE HandOver
  BY <1>7 DEF HandOver, processes, Records
<1> QED
  BY <1>1, <1>2, <1>3, <1>4, <1>5, <1>6, <1>7 DEF Panel

\* How an installer goes on, and what it leaves alone.
LEMMA InstallerActs ==
  ASSUME Fields, NEW i \in Updates, Installer(i)
  PROVE  /\ UNCHANGED <<worker, dir, payloads>>
         /\ \A j \in Updates \ {i} : installer'[j] = installer[j]
         /\ files' = files \/ (Holds(i) /\ installer[i].pc # "copy")
         /\ \/ installer[i].pc = "begin" /\ installer'[i].pc \in {"copy", "failed"}
            \/ installer[i].pc = "copy" /\ installer'[i].pc = "stop" /\ i \in payloads
            \/ installer[i].pc = "copy" /\ installer'[i].pc = "failed"
            \/ /\ installer[i].pc = "replaced" /\ installer'[i].pc = "start"
               /\ files'.bin = files.bin
            \/ /\ installer[i].pc = "start" /\ installer'[i].pc = "verify"
               /\ files' = files
            \/ /\ installer[i].pc = "verify" /\ installer'[i].pc = "ok"
               /\ files' = files
            \/ /\ Holds(i) /\ installer[i].pc # "copy"
               /\ installer'[i].pc \notin {"none", "begin", "copy", "start", "verify", "ok"}
<1>1. CASE InstallLocks(i) \/ InstallCopies(i)
  BY <1>1 DEF InstallLocks, InstallCopies, Does, Goes, Fields
<1>2. CASE InstallStops(i) \/ InstallReplacesBinary(i)
  BY <1>2 DEF InstallStops, InstallReplacesBinary, Does, Goes, Holds, Fields
<1>3. CASE InstallReplacesInit(i)
  BY <1>3 DEF InstallReplacesInit, Does, Goes, Holds, Fields
<1>4. CASE InstallStarts(i) \/ InstallSucceeds(i)
  BY <1>4 DEF InstallStarts, InstallSucceeds, Exits, Does, Goes, Holds, Fields
<1>5. CASE InstallFails(i)
  BY <1>5 DEF InstallFails, Exits, Goes, Does, Changed, Holds, Fields
<1>6. CASE InstallUndoStops(i) \/ InstallUndoesBinary(i)
  BY <1>6 DEF InstallUndoStops, InstallUndoesBinary, UndoBreaks, Does, Goes, Holds, Fields
<1>7. CASE InstallUndoesInit(i) \/ InstallUndoStarts(i)
  BY <1>7
  DEF InstallUndoesInit, InstallUndoStarts, UndoBreaks, Exits, Does, Goes, Holds, Fields
<1> QED
  BY <1>1, <1>2, <1>3, <1>4, <1>5, <1>6, <1>7 DEF Installer

\* Time, kills and power cuts write no files and start no process.
LEMMA EnvironmentActs ==
  ASSUME Fields, Records, Environment
  PROVE  /\ UNCHANGED <<files, payloads>>
         /\ \A j \in Updates :
              /\ worker'[j].tag = worker[j].tag /\ worker'[j].pc \in {worker[j].pc, "over"}
              /\ installer'[j].pc \in {installer[j].pc, "failed"}
         /\ \/ /\ dir'.named = dir.named /\ dir'.stage = dir.stage
               /\ dir'.target = dir.target
            \/ /\ dir' = NoDir
               /\ \A j \in Updates :
                    /\ worker'[j].pc \in {"none", "over"}
                    /\ installer'[j].pc \in {"none", "ok", "failed"}
<1>1. CASE StageAges
  BY <1>1 DEF StageAges, processes, Records
<1>2. CASE ServiceStarts \/ StaleLockIsRemoved \/ PanelDies
  BY <1>2 DEF ServiceStarts, StaleLockIsRemoved, PanelDies, processes
<1>3. ASSUME NEW i \in Updates, WorkerDies(i) \/ InstallerDies(i)
      PROVE  /\ UNCHANGED <<files, payloads, dir>>
             /\ \A j \in Updates :
                  /\ worker'[j].tag = worker[j].tag
                  /\ worker'[j].pc \in {worker[j].pc, "over"}
                  /\ installer'[j].pc \in {installer[j].pc, "failed"}
  <2>1. CASE WorkerDies(i)
    BY <2>1 DEF WorkerDies, To, Fields
  <2>2. CASE InstallerDies(i)
    BY <2>2 DEF InstallerDies, Goes, Fields
  <2> QED
    BY <1>3, <2>1, <2>2
<1>4. CASE PowerFails
  <2>1. \A j \in Updates :
          /\ worker'[j].tag = worker[j].tag
          /\ worker'[j].pc \in {"none", "over"} /\ worker'[j].pc \in {worker[j].pc, "over"}
          /\ installer'[j].pc \in {"none", "ok", "failed"}
          /\ installer'[j].pc \in {installer[j].pc, "failed"}
    BY <1>4 DEF PowerFails, InstallerRuns, Fields
  <2>2. UNCHANGED <<files, payloads>> /\ (dir' = NoDir \/ dir' = dir)
    BY <1>4 DEF PowerFails
  <2> QED
    BY <2>1, <2>2
<1> QED
  BY <1>1, <1>2, <1>3, <1>4 DEF Environment

\* An installer that may replace files could before, or begins.
LEMMA CanWriteKept ==
  ASSUME IInv, Records, [Next]_vars, NEW i \in Updates, CanWrite(i)'
  PROVE  CanWrite(i) \/ (At(i, "checked") /\ At(i, "installing")')
<1>0. Fields /\ SpawnInv
  BY DEF IInv
<1>1. CASE Panel
  <2>1. installer'[i].pc = installer[i].pc
    BY <1>1, PanelActs
  <2>2. i \in payloads' => i \in payloads \/ (task.pc = "payload" /\ i = made)
    BY <1>1, PanelActs
  <2>3. task.pc = "payload" => installer[made].pc = "none"
    BY <1>0 DEF SpawnInv, Early
  <2> QED
    BY <2>1, <2>2, <2>3 DEF CanWrite, Holds
<1>2. ASSUME NEW k \in Updates, Worker(k)
      PROVE  CanWrite(i) \/ (At(i, "checked") /\ At(i, "installing")')
  <2>1. payloads' \subseteq payloads
    BY <1>0, <1>2, WorkerActs
  <2>2. installer'[i] = installer[i] \/ (At(i, "checked") /\ At(i, "installing")')
    BY <1>0, <1>2, WorkerActs
  <2> QED
    BY <2>1, <2>2 DEF CanWrite, Holds
<1>3. ASSUME NEW k \in Updates, Installer(k)
      PROVE  CanWrite(i)
  BY <1>0, <1>3, InstallerActs DEF CanWrite, Holds
<1>4. CASE Environment
  BY <1>0, <1>4, EnvironmentActs DEF CanWrite, Holds
<1>5. CASE UNCHANGED vars
  BY <1>5 DEF vars, processes, CanWrite, Holds
<1> QED
  BY <1>1, <1>2, <1>3, <1>4, <1>5 DEF Next

\* Version v is installed, and nobody is about to change that.
Settled(v) ==
  /\ files.bin = v /\ files.init = v
  /\ \A i \in Updates : worker[i].pc \in {"none", "over", "complete"} /\ ~CanWrite(i)

\* Only a new worker unsettles it.
LEMMA SettledKept ==
  ASSUME IInv, Records, NEW v, Settled(v), [Next]_vars, task.pc # "spawn"
  PROVE  Settled(v)'
<1>0. Fields
  BY DEF IInv
<1>1. \A i \in Updates : ~CanWrite(i)'
  BY CanWriteKept DEF Settled, At
<1>2. files' = files
  <2>1. ASSUME NEW i \in Updates, Installer(i)
        PROVE  files' = files
    BY <1>0, <2>1, InstallerActs DEF Settled, CanWrite
  <2>2. ASSUME NEW i \in Updates, Worker(i)
        PROVE  files' = files
    BY <1>0, <2>2, WorkerActs
  <2> QED
    BY <1>0, <2>1, <2>2, PanelActs, EnvironmentActs DEF Next, vars
<1>3. ASSUME NEW i \in Updates
      PROVE  worker'[i].pc \in {"none", "over", "complete"}
  <2>1. CASE Panel
    BY <1>3, <2>1, PanelActs DEF Settled
  <2>2. ASSUME NEW k \in Updates, Worker(k)
        PROVE  worker'[i].pc \in {"none", "over", "complete"}
    BY <1>0, <1>3, <2>2, WorkerActs DEF Settled, At
  <2>3. ASSUME NEW k \in Updates, Installer(k)
        PROVE  worker'[i].pc \in {"none", "over", "complete"}
    BY <1>0, <1>3, <2>3, InstallerActs DEF Settled
  <2>4. CASE Environment
    BY <1>0, <1>3, <2>4, EnvironmentActs DEF Settled
  <2> QED
    BY <1>3, <2>1, <2>2, <2>3, <2>4 DEF Next, vars, processes, Settled
<1> QED
  BY <1>1, <1>2, <1>3 DEF Settled

\* The installer has the payload that is named for it, has the binary in place
\* before it starts the service, and has finished the update when it says so.
InstallInv(i) ==
  /\ installer[i].pc \in {"begin", "copy"} /\ i \in payloads => dir.named = i
  /\ installer[i].pc \in {"start", "verify"} => files.bin = worker[i].tag
  /\ At(i, "installing") /\ installer[i].pc = "ok" =>
       /\ files.bin = worker[i].tag /\ files.init = worker[i].tag
       /\ \A j \in Updates : ~CanWrite(j)
  /\ At(i, "complete") => dir.stage = "complete"

LEMMA InstallPrepares ==
  ASSUME IInv, Records, TurnInv, PayloadInv, Panel, NEW i \in Updates, InstallInv(i)
  PROVE  InstallInv(i)'
<1>0. SpawnInv
  BY DEF IInv
<1>1. /\ UNCHANGED <<installer, files>>
      /\ \/ worker'[i] = worker[i]
         \/ task.pc = "spawn" /\ i = made /\ worker'[i].pc = "forked"
      /\ dir'.named = dir.named \/ (task.pc = "name" /\ dir'.named = made)
      /\ dir'.stage = dir.stage \/ task.pc = "stage"
      /\ i \in payloads' => i \in payloads \/ (task.pc = "payload" /\ i = made)
  BY PanelActs
<1>2. task.pc \in {"payload", "spawn"} => installer[made].pc = "none"
  BY <1>0 DEF SpawnInv, Early
<1>3. installer[i].pc \in {"begin", "copy"} /\ i \in payloads' => dir'.named = i
  BY <1>1, <1>2 DEF InstallInv, PayloadInv
<1>4. installer[i].pc \in {"start", "verify"} => files.bin = worker'[i].tag
  BY <1>1, <1>2 DEF InstallInv
<1>5. At(i, "installing")' /\ installer[i].pc = "ok" =>
        /\ files.bin = worker'[i].tag /\ files.init = worker'[i].tag
        /\ \A j \in Updates : ~CanWrite(j)'
  <2> SUFFICES ASSUME At(i, "installing")', installer[i].pc = "ok"
               PROVE  /\ files.bin = worker'[i].tag /\ files.init = worker'[i].tag
                      /\ \A j \in Updates : ~CanWrite(j)'
    OBVIOUS
  <2>1. worker'[i] = worker[i] /\ At(i, "installing")
    BY <1>1 DEF At
  <2>2. ASSUME NEW j \in Updates
        PROVE  ~(At(j, "checked") /\ At(j, "installing")')
    BY PanelActs DEF At
  <2>3. \A j \in Updates : ~CanWrite(j)'
    BY <2>1, <2>2, CanWriteKept DEF InstallInv, Next
  <2> QED
    BY <2>1, <2>3 DEF InstallInv
<1>6. At(i, "complete")' => dir'.stage = "complete"
  <2>1. At(i, "complete")' => worker'[i] = worker[i] /\ At(i, "complete") /\ Active(i)
    BY <1>1 DEF At, Active
  <2>2. Active(i) => task.pc # "stage"
    BY DEF TurnInv, WorkerInv
  <2> QED
    BY <1>1, <2>1, <2>2 DEF InstallInv
<1> QED
  BY <1>1, <1>3, <1>4, <1>5, <1>6 DEF InstallInv

LEMMA InstallWorks ==
  ASSUME IInv, Records, TurnInv, NEW k \in Updates, Worker(k),
         NEW i \in Updates, InstallInv(i)
  PROVE  InstallInv(i)'
<1>0. Fields
  BY DEF IInv
<1>1. Active(k) /\ UNCHANGED files
  BY <1>0, WorkerActs DEF At, Active
<1>2. WorkerInv(k)
  BY <1>1 DEF TurnInv
<1>3. CASE i # k
  <2>1. /\ worker'[i] = worker[i] /\ installer'[i] = installer[i]
        /\ payloads' \subseteq payloads /\ dir'.named = dir.named
    BY <1>0, <1>3, WorkerActs
  <2>2. ~Active(i)
    BY <1>2, <1>3 DEF WorkerInv
  <2> QED
    BY <1>1, <2>1, <2>2 DEF InstallInv, Active, At
<1>4. CASE i = k
  <2>1. [installer[i] EXCEPT !.pc = "begin"].pc = "begin"
    BY <1>0 DEF Fields
  <2>2. /\ dir'.named = dir.named /\ worker'[i].tag = worker[i].tag
        /\ At(i, "complete")' => dir'.stage = "complete"
    BY <1>0, <1>4, WorkerActs DEF At
  <2>3. \/ installer'[i].pc = "begin"
        \/ installer'[i] = installer[i] /\ ~At(i, "installing")'
    BY <1>0, <1>4, <2>1, WorkerActs DEF At
  <2>4. dir'.named = i
    BY <1>2, <1>4, <2>2 DEF WorkerInv
  <2> QED
    BY <1>1, <2>2, <2>3, <2>4 DEF InstallInv
<1> QED
  BY <1>3, <1>4

LEMMA InstallInstalls ==
  ASSUME IInv, Records, TurnInv, NEW k \in Updates, Installer(k),
         \A i \in Updates : InstallInv(i)
  PROVE  \A i \in Updates : InstallInv(i)'
<1>0. Fields /\ FilesInv
  BY DEF IInv
<1>1. /\ UNCHANGED <<worker, dir, payloads>>
      /\ files' = files \/ (Holds(k) /\ installer[k].pc # "copy")
      /\ \A j \in Updates \ {k} : installer'[j] = installer[j]
  BY <1>0, InstallerActs
<1>2. \A j \in Updates : CanWrite(j)' => CanWrite(j)
  BY <1>1, CanWriteKept DEF Next, At
<1>3. \A j \in Updates \ {k} : Holds(j) => ~Holds(k)
  BY <1>0 DEF FilesInv, Progress
<1>4. ASSUME NEW i \in Updates \ {k}
      PROVE  InstallInv(i)'
  <2>1. installer[i].pc \in {"start", "verify"} => files' = files
    BY <1>1, <1>3, <1>4 DEF Holds
  <2>2. At(i, "installing") /\ installer[i].pc = "ok" => files' = files
    BY <1>1, <1>4 DEF InstallInv, CanWrite
  <2> QED
    BY <1>1, <1>2, <1>4, <2>1, <2>2 DEF InstallInv, At
<1>5. InstallInv(k)'
  <2>1. installer'[k].pc \in {"begin", "copy"} => installer[k].pc = "begin"
    BY <1>0, InstallerActs
  <2>2. installer'[k].pc \in {"start", "verify"} => files'.bin = worker[k].tag
    <3>1. CASE installer'[k].pc = "start"
      <4>1. installer[k].pc = "replaced" /\ files'.bin = files.bin
        BY <1>0, <3>1, InstallerActs
      <4> QED
        BY <1>0, <4>1 DEF FilesInv, Progress
    <3>2. CASE installer'[k].pc = "verify"
      BY <1>0, <3>2, InstallerActs DEF InstallInv
    <3> QED
      BY <3>1, <3>2
  <2>3. At(k, "installing") /\ installer'[k].pc = "ok" =>
          /\ files'.bin = worker[k].tag /\ files'.init = worker[k].tag
          /\ \A j \in Updates : ~CanWrite(j)'
    <3> SUFFICES ASSUME At(k, "installing"), installer'[k].pc = "ok"
                 PROVE  /\ files'.bin = worker[k].tag /\ files'.init = worker[k].tag
                        /\ \A j \in Updates : ~CanWrite(j)'
      OBVIOUS
    <3>1. installer[k].pc = "verify" /\ files' = files
      BY <1>0, InstallerActs
    <3>2. files.bin = worker[k].tag /\ files.init = files.bin
      BY <1>0, <3>1 DEF InstallInv, FilesInv, Progress
    <3>3. dir.named = k
      BY DEF TurnInv, WorkerInv, Active, At
    <3>4. ASSUME NEW j \in Updates
          PROVE  ~CanWrite(j)'
      <4>1. CASE j = k
        BY <4>1 DEF CanWrite, Holds
      <4>2. CASE j # k
        <5>1. ~Holds(j)
          BY <1>3, <3>1, <4>2 DEF Holds
        <5>2. ~CanWrite(j)
          BY <3>3, <4>2, <5>1 DEF CanWrite, InstallInv
        <5> QED
          BY <1>2, <5>2
      <4> QED
        BY <4>1, <4>2
    <3> QED
      BY <3>1, <3>2, <3>4
  <2> QED
    BY <1>1, <2>1, <2>2, <2>3 DEF InstallInv, At
<1> QED
  BY <1>4, <1>5

LEMMA InstallKept ==
  ASSUME IInv, Records, TurnInv, PayloadInv, [Next]_vars,
         \A i \in Updates : InstallInv(i)
  PROVE  \A i \in Updates : InstallInv(i)'
<1>0. Fields
  BY DEF IInv
<1>1. CASE Environment
  <2>1. \A j \in Updates : CanWrite(j)' => CanWrite(j)
    BY <1>0, <1>1, EnvironmentActs DEF CanWrite, Holds
  <2>2. ASSUME NEW i \in Updates
        PROVE  InstallInv(i)'
    BY <1>0, <1>1, <2>1, EnvironmentActs DEF InstallInv, At
  <2> QED
    BY <2>2
<1>2. CASE UNCHANGED vars
  BY <1>2 DEF vars, processes, InstallInv, CanWrite, Holds, At
<1> QED
  BY <1>1, <1>2, InstallPrepares, InstallWorks, InstallInstalls DEF Next

\* A stage that says so, and a panel that shows it, tell what is installed.
OutcomeInv ==
  /\ dir.stage = "complete" => Settled(dir.target) /\ dir.target # 0
  /\ panel.up /\ panel.stage = "complete" => Settled(panel.latest) /\ task.pc = "none"

\* The stage "complete" is the installer's success.
LEMMA StageTells ==
  ASSUME IInv, Records, TurnInv, VersionInv, OutcomeInv, [Next]_vars,
         \A i \in Updates : InstallInv(i), (dir.stage = "complete")'
  PROVE  (Settled(dir.target) /\ dir.target # 0)'
<1>0. Fields /\ TaskInv
  BY DEF IInv, TurnInv
<1>1. CASE dir.stage = "complete" /\ dir'.target = dir.target
  <2>1. PICK v : v = dir.target /\ Settled(v) /\ v # 0
    BY <1>1 DEF OutcomeInv
  <2>2. task.pc # "spawn"
    BY <1>0, <1>1 DEF TaskInv
  <2>3. Settled(v)'
    BY <2>1, <2>2, SettledKept
  <2> QED
    BY <1>1, <2>1, <2>3 DEF Settled
<1>2. ASSUME NEW i \in Updates, Worker(i)
      PROVE  (Settled(dir.target) /\ dir.target # 0)'
  <2>1. Active(i)
    BY <1>0, <1>2, WorkerActs DEF At, Active
  <2>2. WorkerInv(i)
    BY <2>1 DEF TurnInv
  <2>3. \/ At(i, "installing") /\ installer[i].pc = "ok" /\ UNCHANGED payloads
           /\ At(i, "complete")' /\ UNCHANGED installer
        \/ At(i, "complete") 
        \/ UNCHANGED dir
    BY <1>0, <1>2, WorkerActs
  <2>4. CASE /\ At(i, "installing") /\ installer[i].pc = "ok"
             /\ At(i, "complete")' /\ UNCHANGED <<installer, payloads>>
    <3>1. /\ files' = files /\ dir'.target = dir.target /\ dir.target = worker[i].tag
          /\ \A j \in Updates \ {i} : worker'[j] = worker[j] /\ ~Active(j)
      BY <1>0, <1>2, <2>2, <2>4, WorkerActs DEF WorkerInv, Live, Active, At
    <3>2. \A j \in Updates : worker'[j].pc \in {"none", "over", "complete"}
      BY <2>4, <3>1 DEF Active, At
    <3>3. \A j \in Updates : ~CanWrite(j)'
      BY <2>4 DEF InstallInv, CanWrite, Holds
    <3>4. worker[i].tag # 0 /\ files.bin = worker[i].tag /\ files.init = worker[i].tag
      BY <2>4 DEF VersionInv, InstallInv, At
    <3> QED
      BY <3>1, <3>2, <3>3, <3>4 DEF Settled
  <2>5. CASE At(i, "complete")
    <3>1. dir.stage = "complete" /\ dir'.target = dir.target
      BY <1>0, <1>2, <2>5, WorkerActs DEF InstallInv, At
    <3> QED
      BY <1>1, <3>1
  <2>6. CASE UNCHANGED dir
    BY <1>1, <2>6
  <2> QED
    BY <2>3, <2>4, <2>5, <2>6
<1>3. CASE Panel
  <2>1. dir.stage = "complete" /\ (dir'.target = dir.target \/ task.pc = "target")
    BY <1>3, PanelActs
  <2> QED
    BY <1>0, <1>1, <2>1 DEF TaskInv
<1>4. CASE (\E i \in Updates : Installer(i)) \/ UNCHANGED vars
  <2>1. UNCHANGED dir
    BY <1>0, <1>4, InstallerActs DEF vars
  <2> QED
    BY <1>1, <2>1
<1>5. CASE Environment
  <2>1. NoDir.stage # "complete"
    BY DEF NoDir
  <2>2. dir'.stage = dir.stage /\ dir'.target = dir.target
    BY <1>0, <1>5, <2>1, EnvironmentActs
  <2> QED
    BY <1>1, <2>2
<1> QED
  BY <1>2, <1>3, <1>4, <1>5 DEF Next

\* A panel shows a complete update that it showed before, or that it reads from
\* the stage.
LEMMA PanelShows ==
  ASSUME IInv, Records, TurnInv, [Next]_vars, panel'.up, panel'.stage = "complete"
  PROVE  \/ /\ panel.up /\ panel.stage = "complete" /\ panel'.latest = panel.latest
            /\ task.pc = "none" => task'.pc = "none"
         \/ /\ dir' = dir /\ dir.stage = "complete" /\ task'.pc = "none"
            /\ dir.target # 0 => panel'.latest = dir.target
<1> DEFINE Shown == /\ panel.up /\ panel.stage = "complete"
                    /\ panel'.latest = panel.latest
                    /\ task.pc = "none" => task'.pc = "none"
           Read == /\ dir' = dir /\ dir.stage = "complete" /\ task'.pc = "none"
                   /\ dir.target # 0 => panel'.latest = dir.target
<1> SUFFICES Shown \/ Read
  OBVIOUS
<1>0. TaskInv
  BY DEF TurnInv
<1>1. ASSUME panel' = panel, task' = task
      PROVE  Shown
  BY <1>1
<1>2. ASSUME panel' = ReadStatus(panel), task' = task, dir' = dir
      PROVE  Shown \/ Read
  <2>1. /\ ~panel.handed => panel' = panel
        /\ panel.handed => panel'.latest = IF dir.target # 0 THEN dir.target ELSE panel.latest
        /\ panel.handed /\ panel'.stage = "complete" => dir.stage = "complete"
    BY <1>2, ReadFacts DEF Records
  <2> QED
    BY <1>0, <1>2, <2>1 DEF TaskInv
<1>3. ASSUME ~panel.up, panel' = Started, task' = task, dir' = dir
      PROVE  Read
  BY <1>0, <1>3, StartedFacts DEF TaskInv
<1>4. panel' # Down
  BY DownFacts
<1>5. CASE Panel
  <2>1. CASE Status \/ Check \/ Checked \/ Start
    <3> DEFINE p == ReadStatus(panel)
    <3>1. p = [up |-> p.up, version |-> p.version, handed |-> p.handed,
               running |-> p.running, checking |-> p.checking, stage |-> p.stage,
               latest |-> p.latest]
      BY ReadFacts DEF Records
    <3>2. \/ panel' = p /\ UNCHANGED <<task, dir>>
          \/ panel' = [p EXCEPT !.checking = TRUE, !.stage = "checking"]
          \/ panel' = [p EXCEPT !.running = TRUE, !.stage = "downloading"]
          \/ \E v : panel' = [panel EXCEPT !.checking = FALSE, !.stage = "idle", !.latest = v]
      BY <2>1 DEF Status, Check, Checked, Start
    <3> HIDE DEF p
    <3>3. /\ [p EXCEPT !.checking = TRUE, !.stage = "checking"].stage = "checking"
          /\ [p EXCEPT !.running = TRUE, !.stage = "downloading"].stage = "downloading"
      BY <3>1
    <3>4. ASSUME NEW v
          PROVE  [panel EXCEPT !.checking = FALSE, !.stage = "idle", !.latest = v].stage
                   = "idle"
      BY DEF Records
    <3>5. panel' = p /\ UNCHANGED <<task, dir>>
      BY <3>2, <3>3, <3>4
    <3> QED
      BY <1>2, <3>5 DEF p
  <2>2. CASE PrepareFailed
    BY <2>2 DEF PrepareFailed, Records
  <2>3. CASE HandOver
    BY <2>3 DEF HandOver, Records
  <2>4. CASE task.pc # "none" /\ UNCHANGED panel
    BY <2>4
  <2> QED
    BY <1>5, <2>1, <2>2, <2>3, <2>4 DEF Panel, Recover, MakePayload, NamePayload, Fetched,
       FetchFails, WriteStage, WriteTarget, Spawn
<1>6. ASSUME NEW i \in Updates, Worker(i)
      PROVE  Shown
  BY <1>6 DEF Worker, WorkerLocks, WorkerValidates, WorkerInstalls, WorkerReports,
              WorkerCompletes, WorkerFails
<1>7. ASSUME NEW i \in Updates, Installer(i)
      PROVE  Shown \/ Read
  <2>1. \/ panel' = panel /\ task' = task
        \/ panel' = Down
        \/ ~panel.up /\ panel' = Started /\ task' = task /\ dir' = dir
    BY <1>7 DEF Installer, InstallLocks, InstallCopies, InstallStops, InstallReplacesBinary,
       InstallReplacesInit, InstallStarts, InstallSucceeds, InstallFails,
       InstallUndoStops, InstallUndoesBinary, InstallUndoesInit, InstallUndoStarts
  <2> QED
    BY <1>1, <1>3, <1>4, <2>1
<1>8. CASE Environment
  <2>1. \/ panel' = panel /\ task' = task
        \/ panel' = Down
        \/ ~panel.up /\ panel' = Started /\ task' = task /\ dir' = dir
    BY <1>8 DEF Environment, StageAges, ServiceStarts, StaleLockIsRemoved, PanelDies,
                PowerFails, WorkerDies, InstallerDies
  <2> QED
    BY <1>1, <1>3, <1>4, <2>1
<1>9. CASE UNCHANGED vars
  BY <1>1, <1>9 DEF vars
<1> QED
  BY <1>5, <1>6, <1>7, <1>8, <1>9 DEF Next

LEMMA OutcomeKept ==
  ASSUME IInv, Records, TurnInv, VersionInv, OutcomeInv, [Next]_vars,
         \A i \in Updates : InstallInv(i)
  PROVE  OutcomeInv'
<1>1. (dir.stage = "complete" => Settled(dir.target) /\ dir.target # 0)'
  BY StageTells
<1>2. ASSUME panel'.up, panel'.stage = "complete"
      PROVE  (Settled(panel.latest) /\ task.pc = "none")'
  <2>1. CASE /\ panel.up /\ panel.stage = "complete" /\ panel'.latest = panel.latest
             /\ task.pc = "none" => task'.pc = "none"
    <3>1. PICK v : v = panel.latest /\ Settled(v) /\ task.pc = "none"
      BY <2>1 DEF OutcomeInv
    <3>2. Settled(v)'
      BY <3>1, SettledKept
    <3> QED
      BY <2>1, <3>1, <3>2 DEF Settled
  <2>2. CASE /\ dir' = dir /\ dir.stage = "complete" /\ task'.pc = "none"
             /\ dir.target # 0 => panel'.latest = dir.target
    <3>1. Settled(dir.target)' /\ dir.target # 0
      BY <1>1, <2>2
    <3> QED
      BY <2>2, <3>1 DEF Settled
  <2> QED
    BY <1>2, <2>1, <2>2, PanelShows
<1> QED
  BY <1>1, <1>2 DEF OutcomeInv

-----------------------------------------------------------------------------
(* The theorems.                                                            *)

UpdateInv ==
  /\ Records /\ TurnInv /\ PayloadInv /\ VersionInv /\ OutcomeInv
  /\ \A i \in Updates : InstallInv(i)

LEMMA InitUpdateInv == Init => UpdateInv
<1> SUFFICES ASSUME Init
             PROVE  UpdateInv
  OBVIOUS
<1>1. Records /\ PayloadInv
  BY DEF Init, Records, PayloadInv, NoDir, NoTask
<1>2. TurnInv
  BY DEF Init, TurnInv, TaskInv, Active, NoTask
<1>3. VersionInv
  BY DEF Init, VersionInv, NoDir, NoTask
<1>4. OutcomeInv
  BY DEF Init, OutcomeInv, NoDir
<1>5. \A i \in Updates : InstallInv(i)
  BY DEF Init, InstallInv, At
<1> QED
  BY <1>1, <1>2, <1>3, <1>4, <1>5 DEF UpdateInv

\* What the theorems below rest on: one update at a time has the state
\* directory, its payload and the files, and nobody reports an outcome that is
\* not the installer's.
THEOREM UpdateInvariance == Spec => [](IInv /\ UpdateInv)
<1>1. Init => IInv /\ UpdateInv
  BY InitIInv, InitUpdateInv
<1>2. IInv /\ UpdateInv /\ [Next]_vars => (IInv /\ UpdateInv)'
  <2> SUFFICES ASSUME IInv, UpdateInv, [Next]_vars
               PROVE  IInv' /\ UpdateInv'
    OBVIOUS
  <2>1. IInv'
    BY NextIInv
  <2>2. Records' /\ TurnInv' /\ PayloadInv' /\ VersionInv' /\ OutcomeInv'
    BY RecordsKept, TurnKept, PayloadKept, VersionKept, OutcomeKept DEF UpdateInv
  <2>3. \A i \in Updates : InstallInv(i)'
    BY InstallKept DEF UpdateInv
  <2> QED
    BY <2>1, <2>2, <2>3 DEF UpdateInv
<1> QED
  BY <1>1, <1>2, PTL DEF Spec

\* Whoever is killed when, a validated worker keeps its payload, and a payload
\* nobody works on is named for the next update to remove, unless a crash lost
\* its name (update.rs, recover_stale and prepare).
THEOREM PayloadsAreOwnedAlways == Spec => []PayloadsAreOwned
<1>1. UpdateInv => PayloadsAreOwned
  BY DEF UpdateInv, PayloadInv, PayloadsAreOwned
<1> QED
  BY <1>1, UpdateInvariance, PTL

\* A panel that shows a complete update has its version on disk, the binary and
\* the init script both (update.rs, status and launch_worker).
THEOREM CompleteIsInstalledAlways == Spec => []CompleteIsInstalled
<1>1. UpdateInv => CompleteIsInstalled
  BY DEF UpdateInv, OutcomeInv, Settled, CompleteIsInstalled
<1> QED
  BY <1>1, UpdateInvariance, PTL

=============================================================================

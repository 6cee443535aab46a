-------------------------------- MODULE Updater --------------------------------
(***************************************************************************)
(* The self-update (src/update.rs, scripts/update-worker.sh and            *)
(* scripts/install.sh): the panel checks and prepares a release, then      *)
(* hands it over to a detached worker, which runs the installer, which     *)
(* replaces the binary and the init script, stopping and starting the      *)
(* panel itself on the way.  The three share only files: the state         *)
(* directory, the payload directories and the two locks.  Any of them may  *)
(* be killed between two steps, and the power may go.                      *)
(*                                                                         *)
(* A version is a number; the name of a payload directory is the number of *)
(* the update it was made for.  Downloads, checksums and archives are one  *)
(* step that works or fails.  A private_dir that cannot be made, and a     *)
(* build for an unsupported system, are left out.                          *)
(***************************************************************************)
EXTENDS Integers

CONSTANTS
  Systems,     \* subset of {"entware", "openwrt"}
  MaxUpdates,  \* bound: updates prepared
  MaxVersion,  \* bound: newest release
  MaxFaults    \* bound: kills and power cuts

ASSUME UpdaterAssumption ==
  /\ Systems \subseteq {"entware", "openwrt"}
  /\ MaxUpdates \in Nat \ {0} /\ MaxVersion \in Nat \ {0} /\ MaxFaults \in Nat

Updates == 1..MaxUpdates
Versions == 1..MaxVersion

VARIABLES
  system,    \* "openwrt" keeps the state directory in memory
  panel,     \* the running service: Updater.state and the version it is
  task,      \* prepare(): where it is and the version it fetches
  dir,       \* the files of the state directory
  payloads,  \* payload directories on the disk
  worker,    \* of each update: its worker process
  installer, \* of each update: its installer process
  files,     \* versions of the binary and of the init script
  ilock,     \* the installer's lock directory: 0, or who made it
  made,      \* updates begun
  faults,    \* bound: faults so far
  torn,      \* history: files of two versions were left by a killed installer,
             \* or by a roll-back whose own rename failed
  lost       \* history: payloads whose name was lost to a crash

processes == <<worker, installer>>
vars == <<system, panel, task, dir, payloads, worker, installer, files, ilock,
          made, faults, torn, lost>>

NoDir == [there |-> FALSE, stage |-> "", fresh |-> FALSE, target |-> 0,
          lock |-> FALSE, pid |-> 0, named |-> 0]
NoTask == [pc |-> "none", tag |-> 0]

Init ==
  /\ system \in Systems
  /\ panel = [up |-> TRUE, version |-> 1, handed |-> FALSE, running |-> FALSE,
              checking |-> FALSE, stage |-> "idle", latest |-> 0]
  /\ task = NoTask /\ dir = NoDir /\ payloads = {}
  /\ worker = [i \in Updates |-> [pc |-> "none", tag |-> 0]]
  /\ installer = [i \in Updates |->
       [pc |-> "none", wasUp |-> FALSE, bin |-> 0, init |-> 0]]
  /\ files = [bin |-> 1, init |-> 1] /\ ilock = 0
  /\ made = 0 /\ faults = 0 /\ torn = FALSE /\ lost = {}

-----------------------------------------------------------------------------
(* What the panel reads from the state directory.                           *)

\* Faulty: a worker that waits for its installer is not recognised.
WorkerLiveNarrowly ==
  dir.pid # 0 /\ worker[dir.pid].pc \in {"locked", "checked"}

\* worker_live: the published process runs the worker script.
WorkerLive ==
  dir.pid # 0 /\ worker[dir.pid].pc \notin {"none", "forked", "over"}

\* worker_starting: the stage was written less than ten seconds ago.
WorkerStarting == dir.stage \in {"installing", "restarting"} /\ dir.fresh

\* Faulty: status() waits for an outcome even when nobody will write one.
ReadStatusPatiently(p) ==
  IF ~p.handed THEN p
  ELSE IF dir.stage \in {"complete", "error"}
  THEN [p EXCEPT !.handed = FALSE, !.running = FALSE, !.latest = dir.target,
                 !.stage = dir.stage]
  ELSE [p EXCEPT !.running = TRUE, !.stage = "restarting"]

\* Updater::status on the state p of the panel.
ReadStatus(p) ==
  LET latest == IF dir.target # 0 THEN dir.target ELSE p.latest
  IN IF ~p.handed THEN p
     ELSE IF \/ dir.stage \in {"complete", "error"}
             \/ ~WorkerLive /\ ~WorkerStarting
     THEN [p EXCEPT !.handed = FALSE, !.running = FALSE, !.latest = latest,
             !.stage = IF dir.stage = "complete" THEN "complete" ELSE "error"]
     ELSE [p EXCEPT !.running = TRUE, !.latest = latest,
             !.stage = IF dir.stage = "installing" THEN "installing"
                       ELSE "restarting"]

Available(p) == p.latest > p.version

\* Updater::new in a service just started from the installed binary.
Started ==
  ReadStatus([up |-> TRUE, version |-> files.bin, handed |-> dir.there,
              running |-> FALSE, checking |-> FALSE, stage |-> "idle",
              latest |-> 0])

Down == [panel EXCEPT !.up = FALSE, !.handed = FALSE, !.running = FALSE,
                      !.checking = FALSE, !.stage = "idle", !.latest = 0]

-----------------------------------------------------------------------------
(* The panel.                                                               *)

\* GET /api/update/status, and /api/state.
Status ==
  /\ panel.up /\ panel.handed
  /\ panel' = ReadStatus(panel)
  /\ UNCHANGED <<system, task, dir, payloads, processes, files, ilock, made,
                 faults, torn, lost>>

\* Updater::check spawns the query of the latest release...
Check ==
  LET p == ReadStatus(panel)
  IN /\ panel.up
     /\ panel' = IF p.checking \/ p.running THEN p
                 ELSE [p EXCEPT !.checking = TRUE, !.stage = "checking"]
     /\ UNCHANGED <<system, task, dir, payloads, processes, files, ilock, made,
                    faults, torn, lost>>

\* ... whose answer, or failure, ends in the stage "idle".
Checked ==
  /\ panel.up /\ panel.checking
  /\ \E v \in Versions \union {0} :
       panel' = [panel EXCEPT !.checking = FALSE, !.stage = "idle",
                              !.latest = IF v = 0 THEN panel.version ELSE v]
  /\ UNCHANGED <<system, task, dir, payloads, processes, files, ilock, made,
                 faults, torn, lost>>

\* Updater::start.
Start ==
  LET p == ReadStatus(panel)
  IN /\ panel.up /\ made < MaxUpdates
     /\ IF p.running \/ p.checking \/ ~Available(p)
        THEN panel' = p /\ UNCHANGED <<task, made>>
        ELSE /\ panel' = [p EXCEPT !.running = TRUE, !.stage = "downloading"]
             /\ task' = [pc |-> "recover", tag |-> p.latest]
             /\ made' = made + 1
     /\ UNCHANGED <<system, dir, payloads, processes, files, ilock, faults,
                    torn, lost>>

\* prepare() returned an error.
PrepareFailed ==
  /\ panel' = [panel EXCEPT !.running = FALSE, !.stage = "error"]
  /\ task' = NoTask

\* recover_stale: the lock of an update that is over is removed.
RecoverStale ==
  /\ dir.lock => ~WorkerLive /\ ~WorkerStarting
  /\ dir' = [dir EXCEPT !.there = TRUE, !.lock = FALSE]

\* private_dir, recover_stale, and the payload a crash left behind; what cannot
\* be removed refuses the update.
Recover ==
  /\ task.pc = "recover"
  /\ \/ PrepareFailed /\ UNCHANGED <<dir, payloads>>
     \/ /\ RecoverStale
        /\ \/ PrepareFailed /\ UNCHANGED payloads
           \/ /\ task' = [task EXCEPT !.pc = "payload"]
              /\ payloads' = payloads \ {dir.named}
              /\ UNCHANGED panel
  /\ UNCHANGED <<system, processes, files, ilock, made, faults, torn, lost>>

\* The new payload directory is made...
MakePayload ==
  /\ task.pc = "payload"
  /\ payloads' = payloads \union {made}
  /\ task' = [task EXCEPT !.pc = "name"]
  /\ UNCHANGED <<system, panel, dir, processes, files, ilock, made, faults,
                 torn, lost>>

\* ... and then its name is kept for the next prepare().
NamePayload ==
  /\ task.pc = "name"
  /\ dir' = [dir EXCEPT !.named = made]
  /\ task' = [task EXCEPT !.pc = "fetch"]
  /\ UNCHANGED <<system, panel, payloads, processes, files, ilock, made,
                 faults, torn, lost>>

\* Download, checksum, extraction and trial run.
Fetched ==
  /\ task.pc = "fetch"
  /\ task' = [task EXCEPT !.pc = "stage"]
  /\ UNCHANGED <<system, panel, dir, payloads, processes, files, ilock, made,
                 faults, torn, lost>>

\* Any of them, or a write of launch_worker, fails: the guard removes the
\* payload.
FetchFails ==
  /\ task.pc \in {"name", "fetch", "stage", "target", "spawn"}
  /\ PrepareFailed
  /\ payloads' = payloads \ {made}
  /\ UNCHANGED <<system, dir, processes, files, ilock, made, faults, torn,
                 lost>>

\* Faulty: launch_worker leaves the stage of the last update in place.
WriteStageLate ==
  /\ task.pc = "stage"
  /\ task' = [task EXCEPT !.pc = "target"]
  /\ UNCHANGED <<system, panel, dir, payloads, processes, files, ilock, made,
                 faults, torn, lost>>

\* launch_worker: the stage is prepared before the worker exists...
WriteStage ==
  /\ task.pc = "stage"
  /\ dir' = [dir EXCEPT !.stage = "installing", !.fresh = TRUE]
  /\ task' = [task EXCEPT !.pc = "target"]
  /\ UNCHANGED <<system, panel, payloads, processes, files, ilock, made,
                 faults, torn, lost>>

WriteTarget ==
  /\ task.pc = "target"
  /\ dir' = [dir EXCEPT !.target = task.tag]
  /\ task' = [task EXCEPT !.pc = "spawn"]
  /\ UNCHANGED <<system, panel, payloads, processes, files, ilock, made,
                 faults, torn, lost>>

\* ... which from here on owns the payload.
Spawn ==
  /\ task.pc = "spawn"
  /\ worker' = [worker EXCEPT ![made] = [pc |-> "forked", tag |-> task.tag]]
  /\ task' = [task EXCEPT !.pc = "publish"]
  /\ UNCHANGED <<system, panel, dir, payloads, installer, files, ilock, made,
                 faults, torn, lost>>

HandOver ==
  /\ task.pc = "publish"
  /\ dir' = [dir EXCEPT !.pid = made]
  /\ panel' = [panel EXCEPT !.handed = TRUE, !.stage = "installing"]
  /\ task' = NoTask
  /\ UNCHANGED <<system, payloads, processes, files, ilock, made, faults, torn,
                 lost>>

Panel ==
  \/ Status \/ Check \/ Checked \/ Start
  \/ Recover \/ MakePayload \/ NamePayload \/ Fetched \/ FetchFails
  \/ WriteStage \/ WriteTarget \/ Spawn \/ HandOver

-----------------------------------------------------------------------------
(* The worker of update i.                                                  *)

At(i, pc) == worker[i].pc = pc
To(i, pc) == worker' = [worker EXCEPT ![i].pc = pc]

\* The lock is taken and the state published, or another worker is active.
WorkerLocks(i) ==
  /\ At(i, "forked")
  /\ IF dir.lock
     THEN To(i, "over") /\ UNCHANGED dir
     ELSE /\ To(i, "locked")
          /\ dir' = [dir EXCEPT !.lock = TRUE, !.target = worker[i].tag,
                       !.pid = i, !.stage = "installing", !.fresh = TRUE]
  /\ UNCHANGED <<system, panel, task, payloads, installer, files, ilock, made,
                 faults, torn, lost>>

\* The EXIT trap: the outcome, the payload once it was validated, the lock.
Cleanup(i, outcome) ==
  /\ To(i, "over")
  /\ dir' = [dir EXCEPT !.stage = outcome, !.lock = FALSE]
  /\ payloads' = IF At(i, "locked") THEN payloads ELSE payloads \ {i}

WorkerValidates(i) ==
  /\ At(i, "locked") /\ i \in payloads
  /\ To(i, "checked")
  /\ UNCHANGED <<system, panel, task, dir, payloads, installer, files, ilock,
                 made, faults, torn, lost>>

WorkerInstalls(i) ==
  /\ At(i, "checked")
  /\ To(i, "installing")
  /\ dir' = [dir EXCEPT !.stage = "restarting", !.fresh = TRUE]
  /\ installer' = [installer EXCEPT ![i].pc = "begin"]
  /\ UNCHANGED <<system, panel, task, payloads, files, ilock, made, faults,
                 torn, lost>>

\* The installer succeeded: the stage is written before COMPLETE is set.
WorkerReports(i) ==
  /\ At(i, "installing") /\ installer[i].pc = "ok"
  /\ To(i, "complete")
  /\ dir' = [dir EXCEPT !.stage = "complete"]
  /\ UNCHANGED <<system, panel, task, payloads, installer, files, ilock, made,
                 faults, torn, lost>>

WorkerCompletes(i) ==
  /\ At(i, "complete")
  /\ Cleanup(i, "complete")
  /\ UNCHANGED <<system, panel, task, installer, files, ilock, made, faults,
                 torn, lost>>

\* The payload is gone, the installer failed, or a signal arrived: the shell
\* runs the trap once the installer it waits for has ended.
WorkerFails(i) ==
  /\ worker[i].pc \in {"locked", "checked", "installing", "complete"}
  /\ At(i, "installing") => installer[i].pc \in {"ok", "failed"}
  /\ Cleanup(i, "error")
  /\ UNCHANGED <<system, panel, task, installer, files, ilock, made, faults,
                 torn, lost>>

-----------------------------------------------------------------------------
(* The installer of update i.                                               *)

Does(i, pc) == installer[i].pc = pc
Goes(i, pc) == installer' = [installer EXCEPT ![i].pc = pc]

InstallLocks(i) ==
  /\ Does(i, "begin")
  /\ IF ilock = 0 THEN ilock' = i /\ Goes(i, "copy")
     ELSE Goes(i, "failed") /\ UNCHANGED ilock
  /\ UNCHANGED <<system, panel, task, dir, payloads, worker, files, made,
                 faults, torn, lost>>

\* New and previous files are staged beside the installed ones.
InstallCopies(i) ==
  /\ Does(i, "copy") /\ i \in payloads
  /\ installer' = [installer EXCEPT ![i] =
       [pc |-> "stop", wasUp |-> FALSE, bin |-> files.bin, init |-> files.init]]
  /\ UNCHANGED <<system, panel, task, dir, payloads, worker, files, ilock,
                 made, faults, torn, lost>>

\* "status" and "stop" of the old service, whose prepare() dies with it.
InstallStops(i) ==
  /\ Does(i, "stop")
  /\ installer' = [installer EXCEPT ![i] =
       [pc |-> "stopped", wasUp |-> panel.up, bin |-> @.bin, init |-> @.init]]
  /\ panel' = Down /\ task' = NoTask
  /\ UNCHANGED <<system, dir, payloads, worker, files, ilock, made, faults,
                 torn>>
  /\ lost' = IF task.pc = "name" THEN lost \union {made} ELSE lost

\* CHANGED is set and the binary renamed...
InstallReplacesBinary(i) ==
  /\ Does(i, "stopped")
  /\ Goes(i, "replaced")
  /\ files' = [files EXCEPT !.bin = worker[i].tag]
  /\ UNCHANGED <<system, panel, task, dir, payloads, worker, ilock, made,
                 faults, torn, lost>>

\* ... then the init script.
InstallReplacesInit(i) ==
  /\ Does(i, "replaced")
  /\ Goes(i, "start")
  /\ files' = [files EXCEPT !.init = worker[i].tag]
  /\ UNCHANGED <<system, panel, task, dir, payloads, worker, ilock, made,
                 faults, torn, lost>>

InstallStarts(i) ==
  /\ Does(i, "start")
  /\ Goes(i, "verify")
  /\ panel' = IF panel.up THEN panel ELSE Started
  /\ UNCHANGED <<system, task, dir, payloads, worker, files, ilock, made,
                 faults, torn, lost>>

\* The end of the EXIT trap, which gives the lock back unless a file before it
\* cannot be removed.
Exits(i, outcome) ==
  \/ Goes(i, outcome) /\ ilock' = 0
  \/ Goes(i, "failed") /\ ilock' = i

\* The new service is still there: CHANGED is reset, and what fails after that
\* rolls nothing back.
InstallSucceeds(i) ==
  /\ Does(i, "verify") /\ panel.up
  /\ \E outcome \in {"ok", "failed"} : Exits(i, outcome)
  /\ torn' = FALSE
  /\ UNCHANGED <<system, panel, task, dir, payloads, worker, files, made,
                 faults, lost>>

\* Faulty: only an installer that started the service rolls back.
ChangedLate(i) == installer[i].pc = "verify"

\* CHANGED: set just before the first rename.
Changed(i) == installer[i].pc \in {"stopped", "replaced", "start", "verify"}

\* Any step fails, or a signal arrives: roll back, or only give the lock back.
\* A signal may come between the end of "stop" and CHANGED.
InstallFails(i) ==
  /\ installer[i].pc \in {"copy", "stop", "stopped", "replaced", "start",
                          "verify"}
  /\ \/ Changed(i) /\ Goes(i, "undo") /\ UNCHANGED ilock
     \/ (Changed(i) => Does(i, "stopped")) /\ Exits(i, "failed")
  /\ UNCHANGED <<system, panel, task, dir, payloads, worker, files, made,
                 faults, torn, lost>>

InstallUndoStops(i) ==
  /\ Does(i, "undo")
  /\ Goes(i, "undoBinary")
  /\ panel' = Down /\ task' = NoTask
  /\ lost' = IF task.pc = "name" THEN lost \union {made} ELSE lost
  /\ UNCHANGED <<system, dir, payloads, worker, files, ilock, made, faults,
                 torn>>

\* A rename of the roll-back fails, and "set -e" ends the trap: the files stay
\* as they are, the lock stays, and no service is started.
UndoBreaks(i) ==
  /\ Goes(i, "failed")
  /\ torn' = (torn \/ files.bin # files.init)
  /\ UNCHANGED files

InstallUndoesBinary(i) ==
  /\ Does(i, "undoBinary")
  /\ \/ UndoBreaks(i)
     \/ /\ Goes(i, "undoInit")
        /\ files' = [files EXCEPT !.bin = installer[i].bin]
        /\ UNCHANGED torn
  /\ UNCHANGED <<system, panel, task, dir, payloads, worker, ilock, made,
                 faults, lost>>

InstallUndoesInit(i) ==
  /\ Does(i, "undoInit")
  /\ \/ UndoBreaks(i)
     \/ /\ Goes(i, "undoStart")
        /\ files' = [files EXCEPT !.init = installer[i].init]
        /\ UNCHANGED torn
  /\ UNCHANGED <<system, panel, task, dir, payloads, worker, ilock, made,
                 faults, lost>>

\* The previous service starts again if it was running, and can.
InstallUndoStarts(i) ==
  /\ Does(i, "undoStart")
  /\ Exits(i, "failed")
  /\ \/ ~panel.up /\ installer[i].wasUp /\ panel' = Started
     \/ UNCHANGED panel
  /\ UNCHANGED <<system, task, dir, payloads, worker, files, made, faults,
                 torn, lost>>

Worker(i) ==
  \/ WorkerLocks(i) \/ WorkerValidates(i) \/ WorkerInstalls(i)
  \/ WorkerReports(i) \/ WorkerCompletes(i) \/ WorkerFails(i)

Installer(i) ==
  \/ InstallLocks(i) \/ InstallCopies(i) \/ InstallStops(i)
  \/ InstallReplacesBinary(i) \/ InstallReplacesInit(i) \/ InstallStarts(i)
  \/ InstallSucceeds(i) \/ InstallFails(i)
  \/ InstallUndoStops(i) \/ InstallUndoesBinary(i) \/ InstallUndoesInit(i)
  \/ InstallUndoStarts(i)

-----------------------------------------------------------------------------
(* Time, the operator and faults.                                           *)

InstallerRuns(i) == installer[i].pc \notin {"none", "ok", "failed"}

\* Between a stop of the installer and its next start.
HasStopped(i) ==
  installer[i].pc \in {"stopped", "replaced", "start", "undo", "undoBinary",
                       "undoInit", "undoStart"}

\* Ten seconds pass since the stage was written.  Assumed: launch_worker, which
\* does not yield, and the start of the shell up to its lock take less.
StageAges ==
  /\ dir.fresh
  /\ task.pc \notin {"target", "spawn"} /\ \A i \in Updates : ~At(i, "forked")
  /\ dir' = [dir EXCEPT !.fresh = FALSE]
  /\ UNCHANGED <<system, panel, task, payloads, processes, files, ilock, made,
                 faults, torn, lost>>

\* At boot, by hand, or respawned by procd, which leaves a service alone that an
\* installer has stopped.
ServiceStarts ==
  /\ ~panel.up /\ \A i \in Updates : ~HasStopped(i)
  /\ panel' = Started
  /\ UNCHANGED <<system, task, dir, payloads, processes, files, ilock, made,
                 faults, torn, lost>>

\* By hand, once no installer runs: its message asks for it.
StaleLockIsRemoved ==
  /\ ilock # 0 /\ \A i \in Updates : ~InstallerRuns(i)
  /\ ilock' = 0
  /\ UNCHANGED <<system, panel, task, dir, payloads, processes, files, made,
                 faults, torn, lost>>

Fault == faults < MaxFaults /\ faults' = faults + 1

\* The service is stopped or crashes.
PanelDies ==
  /\ Fault /\ panel.up
  /\ panel' = Down /\ task' = NoTask
  /\ lost' = IF task.pc = "name" THEN lost \union {made} ELSE lost
  /\ UNCHANGED <<system, dir, payloads, processes, files, ilock, made, torn>>

\* SIGKILL: no trap runs; the installer of a killed worker goes on.
WorkerDies(i) ==
  /\ Fault /\ worker[i].pc \notin {"none", "over"}
  /\ To(i, "over")
  /\ UNCHANGED <<system, panel, task, dir, payloads, installer, files, ilock,
                 made, torn, lost>>

InstallerDies(i) ==
  /\ Fault /\ InstallerRuns(i)
  /\ Goes(i, "failed")
  /\ torn' = (torn \/ files.bin # files.init)
  /\ UNCHANGED <<system, panel, task, dir, payloads, worker, files, ilock,
                 made, lost>>

\* Everything stops; on OpenWrt the state directory and the lock are in memory.
PowerFails ==
  /\ Fault
  /\ panel' = Down /\ task' = NoTask
  /\ worker' = [i \in Updates |-> [worker[i] EXCEPT
       !.pc = IF @ = "none" THEN @ ELSE "over"]]
  /\ installer' = [i \in Updates |-> [installer[i] EXCEPT
       !.pc = IF InstallerRuns(i) THEN "failed" ELSE @]]
  /\ torn' = (torn \/ files.bin # files.init)
  /\ IF system = "openwrt"
     THEN dir' = NoDir /\ ilock' = 0 /\ lost' = lost \union payloads
     ELSE /\ UNCHANGED <<dir, ilock>>
          /\ lost' = IF task.pc = "name" THEN lost \union {made} ELSE lost
  /\ UNCHANGED <<system, payloads, files, made>>

Environment ==
  \/ StageAges \/ ServiceStarts \/ StaleLockIsRemoved \/ PanelDies \/ PowerFails
  \/ \E i \in Updates : WorkerDies(i) \/ InstallerDies(i)

Next == Panel \/ Environment \/ \E i \in Updates : Worker(i) \/ Installer(i)

\* The panel is polled while it shows an update, its calls have deadlines, the
\* two scripts run and time passes.
Fairness ==
  /\ WF_vars(Status) /\ WF_vars(StageAges) /\ WF_vars(Checked)
  /\ WF_vars(task.pc # "none" /\ Panel /\ task' # task)
  /\ \A i \in Updates : WF_vars(Worker(i)) /\ WF_vars(Installer(i))

Spec == Init /\ [][Next]_vars /\ Fairness

-----------------------------------------------------------------------------
(* Properties.                                                              *)

\* Whatever step of an installation fails, the binary and the init script are of
\* one version when no installer is at work, unless one was killed between its
\* two renames or a rename of the roll-back itself failed, which the EXIT trap
\* does not survive (install.sh, cleanup).
FilesMatch ==
  torn \/ files.bin = files.init \/ \E i \in Updates : InstallerRuns(i)

\* A panel that shows a complete update has the version it was for on disk,
\* after any number of failed, interrupted and repeated ones (update.rs, status
\* and launch_worker).
CompleteIsInstalled ==
  panel.up /\ panel.stage = "complete" =>
    files.bin = panel.latest /\ files.init = panel.latest

\* The payload of a validated worker is not taken away from it, and a payload
\* nobody works on is named for the next update to remove, unless its name was
\* lost to a crash (update.rs, recover_stale and prepare).
PayloadsAreOwned ==
  /\ \A i \in Updates :
       worker[i].pc \in {"checked", "installing"} => i \in payloads
  /\ \A i \in payloads :
       \/ i \in lost \/ i = dir.named
       \/ i = made /\ task.pc \notin {"none", "recover"}
       \/ worker[i].pc \notin {"none", "over"}

\* A panel that shows an update in progress sees its end, whoever is killed.
UpdateEnds == panel.running ~> ~panel.running
=============================================================================

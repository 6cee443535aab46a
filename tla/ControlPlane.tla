---------------------------- MODULE ControlPlane ----------------------------
(***************************************************************************)
(* How the configuration changes while the proxy runs (src/main.rs, serve  *)
(* and apply; src/web.rs, handle): the panel's POST handlers snapshot the  *)
(* configuration under a lock, queue the changed one and wait, within 15   *)
(* seconds altogether; the main loop applies queued changes and SIGHUP     *)
(* reloads one by one, saving the file and restarting the listener, and    *)
(* undoes what it can when a part of that fails.                           *)
(*                                                                         *)
(* A configuration maps each field to who wrote it last.  Every POST       *)
(* writes one field; the operator edits the file by hand.                  *)
(***************************************************************************)
EXTENDS Integers, Sequences

CONSTANTS
  Posts,      \* requests to /api/config
  Operator,   \* edits the configuration file and sends SIGHUP
  Cli,        \* the command line, which overrides a field in memory only
  Factory,    \* the configuration at first
  Fields, PortField, OverriddenField,
  FieldOf,    \* the field a POST, or the operator, writes
  QueueCap,   \* capacity of the changes channel, 4
  Slow,       \* POSTs whose handler may take more than its 15 seconds
  Edits,      \* may the operator edit the file?
  MaxCrashes, \* how often the process dies and is started again
  MaxFaults   \* how many steps of one apply() fail

Writers == Posts \cup {Operator}
Configs == [Fields -> Writers \cup {Factory}]

ASSUME ControlAssumption ==
  /\ PortField \in Fields /\ OverriddenField \in Fields
  /\ FieldOf \in [Writers -> Fields]
  /\ Factory \notin Writers /\ Cli \notin Writers \cup {Factory}
  /\ Operator \notin Posts
  /\ QueueCap \in Nat \ {0} /\ MaxCrashes \in Nat /\ MaxFaults \in Nat
  /\ Slow \subseteq Posts /\ Edits \in BOOLEAN

VARIABLES
  file,      \* config.json
  shared,    \* what the panel shows: current_saved
  current,   \* the effective configuration last applied
  running,   \* the configuration of the listener, or Down
  spare,     \* the replacement listener on another port, or Down
  queue,     \* changes not yet received
  step,      \* where serve() or apply() is
  change,    \* the change being applied
  faults,    \* its failed steps
  broken,    \* history: what undoing a change failed to put back
  late,      \* history: POSTs whose handler timed out, their change yet to be applied
  mutation,  \* holder of the panel's mutation lock
  pc,        \* where a handler is
  answer,    \* what it learned
  hangup,    \* SIGHUP is pending
  crashes

history == <<broken, late>>
serveVars == <<file, shared, current, running, spare, step, change, faults>>
webVars == <<mutation, pc, answer>>
vars == <<serveVars, queue, webVars, hangup, crashes, history>>

Down == [f \in {} |-> Factory]
Nobody == Factory
NoChange == [config |-> Down, owner |-> Nobody, unknown |-> {}]

\* A change; "unknown" is history: the fields changed since its snapshot by a
\* reload, or by a POST whose handler had timed out.
Changes(owners) == [config : Configs, owner : owners, unknown : SUBSET Fields]

\* RuntimeOverrides::apply()
Effective(c) == [c EXCEPT ![OverriddenField] = Cli]

\* The program starts with the configuration in the file.
Init ==
  /\ file = [f \in Fields |-> Factory]
  /\ shared = file /\ current = Effective(file) /\ running = Effective(file)
  /\ spare = Down /\ queue = <<>> /\ step = "select" /\ change = NoChange
  /\ faults = 0 /\ mutation = Nobody /\ hangup = FALSE
  /\ pc = [h \in Posts |-> "reading"] /\ answer = [h \in Posts |-> "none"]
  /\ crashes = 0
  /\ broken = {} /\ late = {}

-----------------------------------------------------------------------------
(* The panel: handle() under its timeout.                                   *)

\* The request was read; the handler asks for the mutation lock.
ReadRequest(h) ==
  /\ pc[h] = "reading"
  /\ pc' = [pc EXCEPT ![h] = "locking"]
  /\ UNCHANGED <<serveVars, queue, mutation, answer, hangup, crashes, history>>

\* With the lock: refused for its host, credentials, token or content.
Reject(h) ==
  /\ pc[h] = "locking" /\ mutation = Nobody
  /\ mutation' = h
  /\ pc' = [pc EXCEPT ![h] = "answering"]
  /\ answer' = [answer EXCEPT ![h] = "error"]
  /\ UNCHANGED <<serveVars, queue, hangup, crashes, history>>

\* Faulty: the lock is not waited for.
SubmitUnlocked(h) ==
  /\ pc[h] = "locking"
  /\ mutation' = h
  /\ LET c == [config |-> [shared EXCEPT ![FieldOf[h]] = h], owner |-> h,
                unknown |-> {}]
     IN  IF Len(queue) < QueueCap
         THEN /\ queue' = Append(queue, c)
              /\ pc' = [pc EXCEPT ![h] = "waiting"] /\ UNCHANGED answer
         ELSE /\ pc' = [pc EXCEPT ![h] = "answering"]
              /\ answer' = [answer EXCEPT ![h] = "error"]
              /\ UNCHANGED queue
  /\ UNCHANGED <<serveVars, hangup, crashes, history>>

\* With the lock: the snapshot, merge_config() and try_send(), without an await.
Submit(h) ==
  /\ pc[h] = "locking" /\ mutation = Nobody
  /\ mutation' = h
  /\ LET c == [config |-> [shared EXCEPT ![FieldOf[h]] = h], owner |-> h,
                unknown |-> {}]
     IN  IF Len(queue) < QueueCap
         THEN /\ queue' = Append(queue, c)
              /\ pc' = [pc EXCEPT ![h] = "waiting"] /\ UNCHANGED answer
         ELSE /\ pc' = [pc EXCEPT ![h] = "answering"]
              /\ answer' = [answer EXCEPT ![h] = "error"]
              /\ UNCHANGED queue
  /\ UNCHANGED <<serveVars, hangup, crashes, history>>

\* Faulty: the lock outlives the handler.
LeaveLocked(h) ==
  /\ pc' = [pc EXCEPT ![h] = "done"]
  /\ UNCHANGED <<serveVars, queue, mutation, answer, hangup, crashes, broken>>

\* The handler is over, its lock released.
Leave(h) ==
  /\ pc' = [pc EXCEPT ![h] = "done"]
  /\ mutation' = IF mutation = h THEN Nobody ELSE mutation
  /\ UNCHANGED <<serveVars, queue, answer, hangup, crashes, broken>>

Respond(h) == pc[h] = "answering" /\ Leave(h) /\ UNCHANGED late

\* The 15 seconds are over, whatever the handler waits for; a change it has
\* queued stays queued.
TimeOut(h) ==
  /\ h \in Slow /\ pc[h] # "done"
  /\ Leave(h)
  /\ late' = IF pc[h] = "waiting" THEN late \cup {h} ELSE late

-----------------------------------------------------------------------------
(* serve(): the next change, and the answer to it.                          *)

TakePost ==
  /\ step = "select" /\ queue # <<>>
  /\ change' = Head(queue) /\ queue' = Tail(queue)
  /\ step' = "check" /\ faults' = 0
  /\ UNCHANGED <<file, shared, current, running, spare, webVars, hangup, crashes, history>>

TakeReload ==
  /\ step = "select" /\ hangup
  /\ change' = [config |-> file, owner |-> Operator, unknown |-> {}]
  /\ hangup' = FALSE
  /\ step' = "check" /\ faults' = 0
  /\ UNCHANGED <<file, shared, current, running, spare, queue, webVars, crashes,
                 history>>

Persist == change.owner # Operator
New == Effective(change.config)

\* The reply reaches the handler if it still waits.
Reply(result) ==
  LET h == change.owner
  IN  IF h \in Posts /\ pc[h] = "waiting"
      THEN /\ pc' = [pc EXCEPT ![h] = "answering"]
           /\ answer' = [answer EXCEPT ![h] = result]
      ELSE UNCHANGED <<pc, answer>>

\* What an applied change does to the history: of the fields it changed, those
\* queued may know only if its handler still held the lock.
Remember ==
  /\ broken' = {}
  /\ late' = late \ {change.owner}
  /\ queue' = IF change.owner \in late \cup {Operator}
              THEN LET news == {f \in Fields : change.config[f] # shared[f]}
                   IN  [i \in DOMAIN queue |->
                          [queue[i] EXCEPT !.unknown = @ \cup news]]
              ELSE queue

\* Faulty: the panel goes on showing the configuration of before.
AppliedUnpublished ==
  /\ current' = New
  /\ Remember
  /\ step' = "select" /\ change' = NoChange /\ faults' = 0
  /\ Reply("ok")
  /\ UNCHANGED <<shared, mutation, hangup, crashes>>

\* apply() returned Ok.
Applied ==
  /\ current' = New /\ shared' = change.config
  /\ Remember
  /\ step' = "select" /\ change' = NoChange /\ faults' = 0
  /\ Reply("ok")
  /\ UNCHANGED <<mutation, hangup, crashes>>

\* apply() returned an error.
Refused ==
  /\ step' = "select" /\ change' = NoChange /\ faults' = 0
  /\ Reply("error")
  /\ late' = late \ {change.owner}
  /\ UNCHANGED <<shared, current, queue, mutation, hangup, crashes>>

\* What the steps of apply() leave alone.
Meanwhile ==
  UNCHANGED <<shared, current, change, queue, webVars, hangup, crashes, late>>

Fault == faults < MaxFaults /\ faults' = faults + 1

-----------------------------------------------------------------------------
(* apply(): its steps end where something fails or is awaited.              *)

\* validate() or the panel's address refuses the change.
RefuseInvalid ==
  /\ step = "check"
  /\ Refused /\ UNCHANGED <<file, running, spare, broken>>

NewPort == New[PortField] # current[PortField]

\* Another port is bound before the running listener is touched.
Check ==
  /\ step = "check"
  /\ spare' = IF NewPort THEN New ELSE Down
  /\ step' = "save"
  /\ Meanwhile /\ UNCHANGED <<file, running, faults, broken>>

BindFails ==
  /\ step = "check" /\ NewPort /\ faults < MaxFaults
  /\ Refused /\ UNCHANGED <<file, running, spare, broken>>

\* Config::save() replaces the file by rename; a reload saves nothing.
Save ==
  /\ step = "save"
  /\ file' = IF Persist THEN change.config ELSE file
  /\ step' = "stop"
  /\ Meanwhile /\ UNCHANGED <<running, spare, faults, broken>>

SaveFails ==
  /\ step = "save" /\ Persist /\ faults < MaxFaults
  /\ spare' = Down
  /\ Refused /\ UNCHANGED <<file, running, broken>>

\* proxy.shutdown() is awaited; a replacement takes the listener's place.
Stop ==
  /\ step = "stop"
  /\ IF spare # Down
     THEN /\ running' = spare /\ spare' = Down
          /\ Applied /\ UNCHANGED file
     ELSE /\ running' = Down /\ step' = "start"
          /\ Meanwhile /\ UNCHANGED <<file, spare, faults, broken>>

Start ==
  /\ step = "start"
  /\ running' = New
  /\ Applied /\ UNCHANGED <<file, spare>>

StartFails ==
  /\ step = "start" /\ Fault
  /\ step' = "restore"
  /\ Meanwhile /\ UNCHANGED <<file, running, spare, broken>>

\* Faulty: a failed start leaves the new configuration in the file.
RestoreNothing ==
  /\ step = "restore"
  /\ step' = "revive"
  /\ Meanwhile /\ UNCHANGED <<file, running, spare, faults, broken>>

\* The previous configuration is saved again ...
Restore ==
  /\ step = "restore"
  /\ file' = IF Persist THEN shared ELSE file
  /\ step' = "revive"
  /\ Meanwhile /\ UNCHANGED <<running, spare, faults>>
  /\ broken' = IF Persist THEN broken \ {"file"} ELSE broken

RestoreFails ==
  /\ step = "restore" /\ Persist /\ Fault
  /\ step' = "revive"
  /\ Meanwhile /\ UNCHANGED <<file, running, spare>>
  /\ broken' = broken \cup {"file"}

\* ... and its listener started, after which the change is refused.
Revive ==
  /\ step = "revive"
  /\ running' = current
  /\ Refused /\ UNCHANGED <<file, spare>>
  /\ broken' = broken \ {"listener"}

ReviveFails ==
  /\ step = "revive" /\ faults < MaxFaults
  /\ Refused /\ UNCHANGED <<file, running, spare>>
  /\ broken' = broken \cup {"listener"}

-----------------------------------------------------------------------------
(* The surroundings.                                                        *)

\* The operator edits the file, once, and asks for a reload.
EditFile ==
  /\ Edits /\ file[FieldOf[Operator]] # Operator
  /\ file' = [file EXCEPT ![FieldOf[Operator]] = Operator]
  /\ hangup' = TRUE
  /\ UNCHANGED <<shared, current, running, spare, step, change, faults, queue,
                 webVars, crashes, history>>

\* The process dies, with its handlers and its queue, and is started again.
Crash ==
  /\ crashes < MaxCrashes /\ crashes' = crashes + 1
  /\ UNCHANGED <<file, answer>>
  /\ broken' = {} /\ late' = {}
  /\ shared' = file /\ current' = Effective(file) /\ running' = Effective(file)
  /\ spare' = Down /\ queue' = <<>> /\ step' = "select" /\ change' = NoChange
  /\ faults' = 0 /\ mutation' = Nobody /\ hangup' = FALSE
  /\ pc' = [h \in Posts |-> IF pc[h] = "reading" THEN "reading" ELSE "done"]

Serve ==
  \/ TakePost \/ TakeReload \/ RefuseInvalid \/ Check \/ BindFails
  \/ Save \/ SaveFails \/ Stop \/ Start \/ StartFails
  \/ Restore \/ RestoreFails \/ Revive \/ ReviveFails

Next ==
  \/ \E h \in Posts :
       ReadRequest(h) \/ Reject(h) \/ Submit(h) \/ Respond(h) \/ TimeOut(h)
  \/ Serve \/ EditFile \/ Crash

Spec == Init /\ [][Next]_vars

(* The main loop goes on, and tokio's lock is fair to those in its queue.    *)
(* Answers are sent; nothing is assumed of the timeout, of clients still     *)
(* sending a request, nor, as edits end, of which branch select! takes.      *)
Fairness ==
  /\ WF_vars(Serve)
  /\ \A h \in Posts : SF_vars(Submit(h)) /\ WF_vars(Respond(h))

FairSpec == Spec /\ Fairness

-----------------------------------------------------------------------------
(* Properties.                                                              *)

\* A change the panel was told to be done is in the file and in effect, or
\* another writer of that field has replaced it; queued changes built on an
\* older snapshot, failed changes and crashes do not undo it.
AcknowledgedIsKept ==
  \A h \in Posts :
    answer[h] = "ok" =>
      \A c \in {file, shared} :
        c[FieldOf[h]] \in {w \in Writers : FieldOf[w] = FieldOf[h]}

\* Between changes the listener runs what the panel shows, and so does the
\* file but for what the operator has edited: also after a refused change, but
\* for the part of its undoing that failed too, until a change is applied.  What
\* the command line overrides reaches the file by no detour.
ServiceMatchesFile ==
  step = "select" =>
    /\ spare = Down
    /\ running = IF "listener" \in broken THEN Down ELSE Effective(shared)
    /\ "file" \in broken \/
         \A f \in Fields \ {FieldOf[Operator]} : file[f] = shared[f]
    /\ \A f \in Fields : file[f] # Cli

\* "Snapshot and authenticate AFTER taking the mutation lock": a POST changes
\* its own field, and undoes nothing another POST has saved ...
PostKeepsOthers ==
  [][\A f \in Fields :
       shared'[f] # shared[f] /\ crashes' = crashes /\ Persist =>
         f = FieldOf[change.owner]]_vars

\* ... except what came from a POST whose handler had timed out, as its lock no
\* longer kept others from an old snapshot, and what a reload brought while the
\* POST was queued.
PostUndoesOnlyLate ==
  [][\A f \in Fields :
       shared'[f] # shared[f] /\ crashes' = crashes /\ Persist =>
         f \in change.unknown \cup {FieldOf[change.owner]}]_vars

\* Every queued change is answered, or its handler gone.
PostIsAnswered ==
  \A h \in Posts : pc[h] \in {"locking", "waiting"} ~> pc[h] = "done"

=============================================================================

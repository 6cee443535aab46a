--------------------------- MODULE LaneConnection ---------------------------
(***************************************************************************)
(* The shared HTTP/2 connection of one origin lane (src/cf_h2.rs, Lane):   *)
(* many request tasks multiplex over one TCP/TLS connection, identified by *)
(* a generation number.  A request clones the connection's sender, waits   *)
(* for it to be ready, and is then admitted as a stream or sent round the  *)
(* loop.  A request that times out retires the connection, but only once   *)
(* no other stream is using it.                                            *)
(*                                                                         *)
(* The runtime is single threaded (src/main.rs starts a current_thread     *)
(* Tokio runtime), so one action is the code between two awaits.  Request  *)
(* identities are reused: an idle request is a task not yet spawned.       *)
(* The h2 crate is external.  What is assumed of it: ready() answers Ok    *)
(* while the connection task runs without an error and Err once a GOAWAY   *)
(* was received or the task is gone; the streams of a connection whose     *)
(* task is gone fail.                                                      *)
(***************************************************************************)
EXTENDS Integers, FiniteSets

CONSTANTS
  Requests,   \* request tasks of the lane, over all its channels
  NoRequest,  \* nobody holds the connect lock
  MaxGen      \* bound: connections ever published by the lane

ASSUME LaneAssumption ==
  /\ IsFiniteSet(Requests)
  /\ NoRequest \notin Requests
  /\ MaxGen \in Nat

VARIABLES
  gen,      \* ConnectionState.generation, 0 before the first connection
  sender,   \* ConnectionState.sender: "some" or "none"
  slot,     \* generation whose task is ConnectionState.driver, 0 for None
  retired,  \* generations whose tasks are in retired_drivers
  driver,   \* per generation: state of the task that drives the connection
  lock,     \* holder of connect_lock
  counts,   \* ActiveRequestState.counts, 0 for an absent key
  poison,   \* ActiveRequestState.invalidate_when_idle
  pc,       \* where each request task is suspended
  held,     \* generation of the sender clone or stream guard a request holds
  attempt,  \* attempt of the ready_sender loop
  phase,    \* "open", or how far the closing of the lane has got
  awaited   \* generations whose tasks were handed to the closer

conn == <<gen, sender, slot, retired, driver>>
active == <<counts, poison>>
task == <<pc, held, attempt>>
closing == <<phase, awaited>>
vars == <<gen, sender, slot, retired, driver, lock, counts, poison,
          pc, held, attempt, phase, awaited>>

Gens == 1..MaxGen
Closed == phase # "open"
Running(g) == driver[g] \in {"live", "draining"}
Streams(g) == {r \in Requests : pc[r] = "active" /\ held[r] = g}

\* The types of the lane's state, of its connections and of the requests.
TypeOK ==
  /\ gen \in 0..MaxGen
  /\ sender \in {"none", "some"}
  /\ slot \in 0..MaxGen
  /\ retired \subseteq Gens
  /\ driver \in [Gens -> {"none", "live", "draining", "aborting", "ended"}]
  /\ lock \in Requests \cup {NoRequest}
  /\ counts \in [Gens -> Nat]
  /\ poison \subseteq Gens
  /\ pc \in [Requests -> {"idle", "lock", "dial", "ready", "wait", "woken",
                          "active"}]
  /\ held \in [Requests -> 0..MaxGen]
  /\ attempt \in [Requests -> {0, 1}]
  /\ phase \in {"open", "aborted", "draining", "settled"}
  /\ awaited \subseteq Gens

Init ==
  /\ gen = 0 /\ sender = "none" /\ slot = 0 /\ retired = {}
  /\ driver = [g \in Gens |-> "none"]
  /\ lock = NoRequest
  /\ counts = [g \in Gens |-> 0] /\ poison = {}
  /\ pc = [r \in Requests |-> "idle"]
  /\ held = [r \in Requests |-> 0]
  /\ attempt = [r \in Requests |-> 0]
  /\ phase = "open" /\ awaited = {}

-----------------------------------------------------------------------------
(* Pieces of the handlers.                                                  *)

\* Handles of finished tasks are forgotten, the others are kept.
Unfinished(handles) == {g \in handles : driver[g] # "ended"}

\* JoinHandle::abort on the tasks of these generations: a task that is still
\* running is dropped the next time the runtime reaches it.
Aborted(gs) ==
  [g \in Gens |-> IF g \in gs /\ Running(g) THEN "aborting" ELSE driver[g]]

\* Faulty: the aborted task's handle is dropped instead of retained.
InvalidateDropsHandle(g) ==
  IF gen # g
  THEN UNCHANGED conn
  ELSE /\ sender' = "none"
       /\ driver' = Aborted({slot})
       /\ slot' = 0
       /\ UNCHANGED <<gen, retired>>

\* invalidate_connection(g): nothing happens for a generation already replaced.
InvalidateConnection(g) ==
  IF gen # g
  THEN UNCHANGED conn
  ELSE /\ sender' = "none"
       /\ driver' = Aborted({slot})
       /\ retired' = IF slot = 0 THEN retired
                     ELSE Unfinished(retired) \cup {slot}
       /\ slot' = 0
       /\ UNCHANGED gen

\* Faulty: nobody is notified.
NotifiedNobody(p) == p

\* active_changed.notify_waiters(): every registered admission waiter.
Notified(p) == [q \in Requests |-> IF p[q] = "wait" THEN "woken" ELSE p[q]]

\* connect() up to its first await, with s the sender as it now is: an error
\* once closed, a clone of a published sender, or the queue of connect_lock.
EnterConnect(r, a, s) ==
  /\ pc' = [pc EXCEPT ![r] = IF Closed THEN "idle"
                             ELSE IF s = "some" THEN "ready" ELSE "lock"]
  /\ held' = [held EXCEPT ![r] = IF ~Closed /\ s = "some" THEN gen ELSE 0]
  /\ attempt' = [attempt EXCEPT ![r] = IF Closed THEN 0 ELSE a]

\* The future of post() or preflight() is dropped, and with it what it owned.
Forget(r, p) ==
  /\ pc' = [p EXCEPT ![r] = "idle"]
  /\ held' = [held EXCEPT ![r] = 0]
  /\ attempt' = [attempt EXCEPT ![r] = 0]
  /\ lock' = IF lock = r THEN NoRequest ELSE lock

-----------------------------------------------------------------------------
(* Obtaining a connection.                                                  *)

Start(r) ==
  /\ pc[r] = "idle" /\ ~Closed
  /\ EnterConnect(r, 0, sender)
  /\ UNCHANGED <<conn, active, closing, lock>>

\* connect_lock is granted: somebody may have published or closed meanwhile.
AcquireLock(r) ==
  /\ pc[r] = "lock" /\ lock = NoRequest
  /\ retired' = Unfinished(retired)
  /\ \/ /\ Closed \/ sender = "some"
        /\ EnterConnect(r, attempt[r], sender)
        /\ UNCHANGED lock
     \/ /\ ~Closed /\ sender = "none"
        /\ lock' = r
        /\ pc' = [pc EXCEPT ![r] = "dial"]
        /\ UNCHANGED <<held, attempt>>
  /\ UNCHANGED <<gen, sender, slot, driver, active, closing>>

\* TCP, TLS, ALPN or the HTTP/2 handshake failed or ran into connect_timeout.
DialFails(r) ==
  /\ pc[r] = "dial"
  /\ Forget(r, pc)
  /\ UNCHANGED <<conn, active, closing>>

\* The handshake is done: publish the connection unless the lane closed.
Publish(r) ==
  /\ pc[r] = "dial"
  /\ IF Closed
     THEN Forget(r, pc) /\ UNCHANGED conn
     ELSE /\ gen < MaxGen
          /\ gen' = gen + 1
          /\ sender' = "some"
          /\ driver' = [driver EXCEPT ![gen + 1] = "live"]
          /\ retired' = IF slot = 0 THEN retired
                        ELSE Unfinished(retired) \cup {slot}
          /\ slot' = gen + 1
          /\ lock' = NoRequest
          /\ pc' = [pc EXCEPT ![r] = "ready"]
          /\ held' = [held EXCEPT ![r] = gen + 1]
          /\ UNCHANGED attempt
  /\ UNCHANGED <<active, closing>>

-----------------------------------------------------------------------------
(* Admission of a stream.                                                   *)

\* ready() failed.  The first time, drop the connection and connect again.
ReadyFails(r) ==
  /\ pc[r] = "ready" /\ driver[held[r]] \in {"draining", "ended"}
  /\ IF attempt[r] = 0
     THEN /\ InvalidateConnection(held[r])
          /\ EnterConnect(r, 1, sender')
          /\ UNCHANGED lock
     ELSE Forget(r, pc) /\ UNCHANGED conn
  /\ UNCHANGED <<active, closing>>

ReadySucceeds(r) ==
  /\ pc[r] = "ready" /\ driver[held[r]] \in {"live", "aborting"}

\* The sender clone still belongs to the connection in use: send the headers.
Admit(r) ==
  /\ ReadySucceeds(r)
  /\ held[r] \notin poison /\ gen = held[r] /\ sender = "some"
  /\ counts' = [counts EXCEPT ![held[r]] = @ + 1]
  /\ pc' = [pc EXCEPT ![r] = "active"]
  /\ attempt' = [attempt EXCEPT ![r] = 0]
  /\ UNCHANGED <<conn, poison, held, lock, closing>>

\* The generation is being retired: wait for its last stream.
AwaitRetirement(r) ==
  /\ ReadySucceeds(r)
  /\ held[r] \in poison
  /\ pc' = [pc EXCEPT ![r] = "wait"]
  /\ UNCHANGED <<conn, active, held, attempt, lock, closing>>

\* The clone is out of date: start over without waiting.
StaleClone(r) ==
  /\ ReadySucceeds(r)
  /\ held[r] \notin poison /\ ~(gen = held[r] /\ sender = "some")
  /\ EnterConnect(r, 0, sender)
  /\ UNCHANGED <<conn, active, lock, closing>>

Resume(r) ==
  /\ pc[r] = "woken"
  /\ EnterConnect(r, 0, sender)
  /\ UNCHANGED <<conn, active, lock, closing>>

-----------------------------------------------------------------------------
(* The end of a request.                                                    *)

\* Faulty: the last guard does not retire the generation.
LastOfPoisonedIgnored(g) == FALSE

\* Drop of ActiveRequestGuard for a stream of g, and whether it was the last
\* one of a generation that a timeout had marked.
LastOfPoisoned(g) == counts[g] = 1 /\ g \in poison

\* A request ends without timing out: answered, failed, or its task aborted.
Leave(r) ==
  /\ pc[r] # "idle"
  /\ IF pc[r] = "active"
     THEN LET g == held[r] IN
          /\ counts' = [counts EXCEPT ![g] = @ - 1]
          /\ IF LastOfPoisoned(g)
             THEN /\ poison' = poison \ {g}
                  /\ InvalidateConnection(g)
                  /\ Forget(r, Notified(pc))
             ELSE /\ Forget(r, pc)
                  /\ UNCHANGED <<conn, poison>>
     ELSE Forget(r, pc) /\ UNCHANGED <<conn, active>>
  /\ UNCHANGED closing

\* Faulty: the connection is invalidated whoever else uses it.
TimeoutCutsConnection(r) ==
  /\ pc[r] # "idle"
  /\ IF pc[r] = "active"
     THEN LET g == held[r] IN
          /\ counts' = [counts EXCEPT ![g] = @ - 1]
          /\ poison' = poison \ {g}
          /\ InvalidateConnection(g)
          /\ Forget(r, Notified(pc))
     ELSE Forget(r, pc) /\ UNCHANGED <<conn, active>>
  /\ UNCHANGED closing

\* REQUEST_TIMEOUT: timeout() drops the future of post(), then the connection
\* is invalidated if idle and marked otherwise.  A request without a stream
\* blames the origin instead (cool_down) and leaves the connection alone.
Timeout(r) ==
  /\ pc[r] # "idle"
  /\ IF pc[r] = "active"
     THEN LET g == held[r] IN
          /\ counts' = [counts EXCEPT ![g] = @ - 1]
          /\ IF counts[g] = 1
             THEN /\ poison' = poison \ {g}
                  /\ InvalidateConnection(g)
                  /\ Forget(r, Notified(pc))
             ELSE /\ poison' = poison \cup {g}
                  /\ Forget(r, pc)
                  /\ UNCHANGED conn
     ELSE Forget(r, pc) /\ UNCHANGED <<conn, active>>
  /\ UNCHANGED closing

-----------------------------------------------------------------------------
(* The connection task.                                                     *)

\* The origin announces that it will take no new streams.
GoAway(g) ==
  /\ driver[g] = "live"
  /\ driver' = [driver EXCEPT ![g] = "draining"]
  /\ UNCHANGED <<gen, sender, slot, retired, lock, active, task, closing>>

\* connection.await returns, and connection_finished(g) runs.
ConnectionFinished(g) ==
  /\ Running(g)
  /\ driver' = [driver EXCEPT ![g] = "ended"]
  /\ IF gen = g
     THEN sender' = "none" /\ pc' = Notified(pc)
     ELSE UNCHANGED <<sender, pc>>
  /\ UNCHANGED <<gen, slot, retired, lock, active, held, attempt, closing>>

\* The runtime drops an aborted task: connection_finished never runs for it.
AbortTakesEffect(g) ==
  /\ driver[g] = "aborting"
  /\ driver' = [driver EXCEPT ![g] = "ended"]
  /\ UNCHANGED <<gen, sender, slot, retired, lock, active, task, closing>>

-----------------------------------------------------------------------------
(* Closing the lane.  abort() also fails the channels and aborts every      *)
(* request task; those tasks are dropped one by one later (Leave).          *)

\* close(): handles stay with the lane.
Abort ==
  /\ phase = "open"
  /\ phase' = "aborted"
  /\ sender' = "none"
  /\ driver' = Aborted({slot} \cup retired)
  /\ UNCHANGED <<gen, slot, retired, lock, active, task, awaited>>

\* start_close(): abort() and hand every task to the caller.
TakeTasks ==
  /\ sender' = "none"
  /\ driver' = Aborted({slot} \cup retired)
  /\ awaited' = awaited \cup retired \cup ({slot} \ {0})
  /\ slot' = 0
  /\ retired' = {}
  /\ UNCHANGED <<gen, lock, active, task>>

StartClose ==
  /\ phase \in {"open", "aborted"}
  /\ phase' = "draining"
  /\ TakeTasks

\* settle_close(): once no connect() is inside its setup, take what is left.
SettleClose ==
  /\ phase = "draining" /\ lock = NoRequest
  /\ phase' = "settled"
  /\ TakeTasks

-----------------------------------------------------------------------------
RequestStep(r) ==
  \/ Start(r) \/ AcquireLock(r) \/ DialFails(r) \/ Publish(r)
  \/ ReadyFails(r) \/ Admit(r) \/ AwaitRetirement(r) \/ StaleClone(r)
  \/ Resume(r) \/ Leave(r) \/ Timeout(r)

DriverStep(g) == GoAway(g) \/ ConnectionFinished(g) \/ AbortTakesEffect(g)

Next ==
  \/ \E r \in Requests : RequestStep(r)
  \/ \E g \in Gens : DriverStep(g)
  \/ Abort \/ StartClose \/ SettleClose

Spec == Init /\ [][Next]_vars

(* Every await of a request ends: ready() answers, a dial succeeds, fails or *)
(* hits connect_timeout, connect_lock is first come first served, a notified *)
(* or aborted task runs again, and REQUEST_TIMEOUT bounds an open stream.    *)
(* No fairness is assumed of the timeout of a request that waits, of the     *)
(* origin, or of anybody closing the lane.                                   *)
Fairness ==
  /\ \A r \in Requests :
       /\ WF_vars(Resume(r))
       /\ WF_vars(ReadyFails(r) \/ Admit(r) \/ AwaitRetirement(r) \/ StaleClone(r))
       /\ WF_vars(Publish(r) \/ DialFails(r))
       /\ SF_vars(AcquireLock(r))
       /\ WF_vars(pc[r] = "active" /\ (Leave(r) \/ Timeout(r)))
  /\ \A g \in Gens : WF_vars(AbortTakesEffect(g))
  /\ WF_vars(SettleClose)

FairSpec == Spec /\ Fairness

-----------------------------------------------------------------------------
(* Properties.                                                              *)

\* The per-generation counts of invalidate_connection_if_idle and of the guard
\* are exactly the live stream guards, whatever ended the streams.
CountsAreStreams == \A g \in Gens : counts[g] = Cardinality(Streams(g))

\* A generation stays marked only while a stream is left whose end will retire
\* it, so an admission waiter always has somebody to wake it.
WaiterIsOwedWakeup ==
  /\ \A g \in poison : Streams(g) # {}
  /\ \A r \in Requests : pc[r] = "wait" => held[r] \in poison

\* A sender is published exactly while the newest connection runs, and no older
\* connection of the lane still runs beside it: one socket serves all streams.
OneConnection ==
  /\ sender = "some" <=> (gen # 0 /\ Running(gen) /\ ~Closed)
  /\ \A g \in Gens : Running(g) => g = gen

\* Every task that has not finished is held by the lane or by whoever closes
\* it: close() can wait for the sockets of all of them.
DriversAreOwned ==
  \A g \in Gens :
    driver[g] \in {"live", "draining", "aborting"} =>
      g = slot \/ g \in retired \/ g \in awaited

\* After settle_close nothing runs on and nothing can be published any more.
SettledIsFinal ==
  phase = "settled" =>
    /\ slot = 0 /\ retired = {} /\ lock = NoRequest
    /\ \A g \in Gens : ~Running(g)

Accepts(g) == gen = g /\ sender = "some" /\ g \notin poison

\* A generation that stopped taking streams never takes one again, although
\* old sender clones, timeouts and failures of other requests intervene.
NeverReopens ==
  [][\A g \in Gens : g <= gen /\ ~Accepts(g) => ~Accepts(g)']_vars

\* On an open lane no step cuts a healthy connection that other streams use:
\* a timeout of one request cannot take another one down with it.
TimeoutSparesOthers ==
  [][\A g \in Gens :
       driver[g] = "live" /\ driver'[g] = "aborting" /\ ~Closed' =>
         Streams(g)' = {}]_vars

Life ==
  INSTANCE ConnectionLife WITH
    current <- gen,
    life <- IF gen = 0 THEN "none" ELSE driver[gen],
    accepting <- {g \in Gens : Accepts(g)},
    stream <- [r \in Requests |-> IF pc[r] = "active" THEN held[r] ELSE 0],
    closed <- IF Closed THEN "yes" ELSE "no"

\* What requests may rely on, in spite of old sender clones, timeouts and
\* failures of other requests: no connection beside another one, none that takes
\* streams again, and none that is aborted under healthy streams.
ImplementsConnectionLife == Life!Spec

\* The comment in ready_sender: an idle connection is dropped and replaced.
\* Refuted: after a GOAWAY the next request drops it under open streams.
ReconnectDropsOnlyIdle ==
  [][\A g \in Gens :
       Running(g) /\ driver'[g] = "aborting" /\ ~Closed' =>
         Streams(g)' = {}]_vars

\* A request that waits for a retirement is always let go again.
WaiterProceeds == \A r \in Requests : pc[r] = "wait" ~> pc[r] # "wait"

=============================================================================

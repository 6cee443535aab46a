----------------------- MODULE LaneConnection_proofs -----------------------
(***************************************************************************)
(* Theorems about LaneConnection, for every finite set of requests and     *)
(* every bound on the generations.  The last one: it implements            *)
(* ConnectionLife.                                                         *)
(***************************************************************************)
EXTENDS LaneConnection, FiniteSetTheorems, TLAPS

-----------------------------------------------------------------------------
(* The inductive invariant: what the handlers rely on beside the properties. *)

\* The only request inside connect()'s setup is the holder of connect_lock.
DialerHoldsLock == \A r \in Requests : pc[r] = "dial" <=> lock = r

\* Nobody dials beside a published connection.
DialsWithoutSender == lock # NoRequest => sender = "none"

\* A request beyond connect() holds a clone of a connection that was published.
HeldIsPublished ==
  \A r \in Requests :
    pc[r] \in {"ready", "wait", "active"} => held[r] \in 1..gen

\* Tasks exist for the published generations, and a running one is the current
\* connection of an open lane, with its handle still in place.
DriverIsCurrent ==
  /\ slot \in {0, gen}
  /\ \A g \in Gens : driver[g] = "none" <=> gen < g
  /\ \A g \in Gens : Running(g) => g = gen /\ slot = gen /\ ~Closed

\* The part of the invariant about the connection and its tasks ...
ConnType ==
  /\ gen \in 0..MaxGen /\ sender \in {"none", "some"} /\ slot \in 0..MaxGen
  /\ retired \subseteq Gens /\ awaited \subseteq Gens
  /\ driver \in [Gens -> {"none", "live", "draining", "aborting", "ended"}]
  /\ phase \in {"open", "aborted", "draining", "settled"}

ConnInv ==
  /\ ConnType
  /\ OneConnection
  /\ DriversAreOwned
  /\ DriverIsCurrent
  /\ phase = "settled" => slot = 0 /\ retired = {}

\* ... and the part about the request tasks and their streams.
TaskType ==
  /\ lock \in Requests \cup {NoRequest}
  /\ counts \in [Gens -> Nat] /\ poison \subseteq Gens
  /\ pc \in [Requests -> {"idle", "lock", "dial", "ready", "wait", "woken",
                          "active"}]
  /\ held \in [Requests -> 0..MaxGen] /\ attempt \in [Requests -> {0, 1}]

TaskInv ==
  /\ TaskType
  /\ CountsAreStreams
  /\ WaiterIsOwedWakeup
  /\ DialerHoldsLock
  /\ DialsWithoutSender
  /\ HeldIsPublished
  /\ phase = "settled" => lock = NoRequest

IInv == ConnInv /\ TaskInv

-----------------------------------------------------------------------------
(* Streams and their counts.                                                *)

\* The set of streams is what pc and held say, so it is finite.
LEMMA StreamsFinite ==
  ASSUME NEW g
  PROVE  /\ IsFiniteSet(Streams(g))
         /\ Cardinality(Streams(g)) \in Nat
<1>1. Streams(g) \subseteq Requests
  BY DEF Streams
<1>2. IsFiniteSet(Streams(g))
  BY <1>1, LaneAssumption, FS_Subset
<1> QED
  BY <1>2, FS_CardinalityType

\* No request becomes or ceases to be a stream in this step.
SameStreams ==
  \A q \in Requests :
    /\ pc'[q] = "active" <=> pc[q] = "active"
    /\ pc[q] = "active" => held'[q] = held[q]

LEMMA SameStreamsKeepSets ==
  ASSUME SameStreams
  PROVE  \A g \in Gens : Streams(g)' = Streams(g)
BY DEF SameStreams, Streams

\* Admission adds one stream to one generation.
LEMMA JoinCounts ==
  ASSUME CountsAreStreams, counts \in [Gens -> Nat],
         NEW r \in Requests, NEW h \in Gens,
         r \notin Streams(h),
         counts' = [counts EXCEPT ![h] = @ + 1],
         Streams(h)' = Streams(h) \cup {r},
         \A g \in Gens \ {h} : Streams(g)' = Streams(g)
  PROVE  CountsAreStreams'
<1>1. Cardinality(Streams(h) \cup {r}) = Cardinality(Streams(h)) + 1
  BY StreamsFinite, FS_AddElement
<1>2. counts'[h] = Cardinality(Streams(h)')
  BY <1>1 DEF CountsAreStreams
<1>3. ASSUME NEW g \in Gens, g # h
      PROVE  counts'[g] = Cardinality(Streams(g)')
  BY <1>3 DEF CountsAreStreams
<1> QED
  BY <1>2, <1>3 DEF CountsAreStreams

\* The drop of a stream guard takes one stream from one generation; the count
\* it finds is positive, and one exactly if the stream was the last.
LEMMA LeaveCounts ==
  ASSUME CountsAreStreams, counts \in [Gens -> Nat],
         NEW r \in Requests, NEW h \in Gens,
         r \in Streams(h),
         counts' = [counts EXCEPT ![h] = @ - 1],
         Streams(h)' = Streams(h) \ {r},
         \A g \in Gens \ {h} : Streams(g)' = Streams(g)
  PROVE  /\ CountsAreStreams'
         /\ counts' \in [Gens -> Nat]
         /\ counts[h] = 1 <=> Streams(h)' = {}
<1>1. Cardinality(Streams(h) \ {r}) = Cardinality(Streams(h)) - 1
  BY StreamsFinite, FS_RemoveElement
<1>2. IsFiniteSet(Streams(h) \ {r}) /\ Cardinality(Streams(h) \ {r}) \in Nat
  BY StreamsFinite, FS_RemoveElement, FS_CardinalityType
<1>3. counts'[h] = Cardinality(Streams(h)') /\ counts'[h] \in Nat
  BY <1>1, <1>2 DEF CountsAreStreams
<1>4. ASSUME NEW g \in Gens, g # h
      PROVE  counts'[g] = Cardinality(Streams(g)') /\ counts'[g] \in Nat
  BY <1>4 DEF CountsAreStreams
<1>5. Cardinality(Streams(h) \ {r}) = 0 <=> Streams(h) \ {r} = {}
  BY <1>2, FS_EmptySet
<1>6. counts[h] = 1 <=> Streams(h)' = {}
  BY <1>1, <1>5, StreamsFinite DEF CountsAreStreams
<1>7. CountsAreStreams'
  BY <1>3, <1>4 DEF CountsAreStreams
<1>8. counts' \in [Gens -> Nat]
  BY <1>3, <1>4
<1> QED
  BY <1>6, <1>7, <1>8

-----------------------------------------------------------------------------
(* The connection and its tasks.                                            *)

\* JoinHandle::abort changes no task that is not running, and leaves none of
\* its targets running.
AbortsOnly(S) ==
  /\ driver' \in [Gens -> {"none", "live", "draining", "aborting", "ended"}]
  /\ \A g \in Gens :
       /\ driver'[g] = "none" <=> driver[g] = "none"
       /\ driver'[g] = "ended" <=> driver[g] = "ended"
       /\ g \in S => driver'[g] \notin {"live", "draining"}
       /\ g \notin S => driver'[g] = driver[g]

LEMMA AbortedTasks ==
  ASSUME ConnType, NEW S, driver' = Aborted(S)
  PROVE  AbortsOnly(S)
BY DEF ConnType, Aborted, Running, AbortsOnly

\* retain_driver() forgets finished tasks only.
LEMMA RetainedHandles ==
  ASSUME ConnType
  PROVE  /\ Unfinished(retired) \subseteq Gens
         /\ retired \subseteq Gens
         /\ slot # 0 => slot \in Gens
<1>1. slot # 0 => slot \in Gens
  BY LaneAssumption DEF ConnType, Gens
<1>2. retired \subseteq Gens /\ Unfinished(retired) \subseteq Gens
  BY DEF ConnType, Unfinished
<1> QED
  BY <1>1, <1>2

\* No task runs once every handle the lane holds was aborted.
LEMMA NothingRuns ==
  ASSUME ConnType, DriverIsCurrent, NEW S, slot \in S, AbortsOnly(S)
  PROVE  \A g \in Gens : ~Running(g)'
<1> SUFFICES ASSUME NEW g \in Gens, Running(g)'
             PROVE  FALSE
  OBVIOUS
<1>1. g \notin S /\ driver'[g] = driver[g]
  BY DEF AbortsOnly, Running
<1>2. slot = g
  BY <1>1 DEF DriverIsCurrent, Running
<1> QED
  BY <1>1, <1>2

LEMMA InvalidateKeepsConn ==
  ASSUME ConnInv, NEW h \in Gens, InvalidateConnection(h), UNCHANGED closing
  PROVE  /\ ConnInv'
         /\ gen' = gen
         /\ gen = h => sender' = "none"
         /\ gen # h => sender' = sender
<1>0. /\ ConnType /\ OneConnection /\ DriversAreOwned /\ DriverIsCurrent
      /\ phase = "settled" => slot = 0 /\ retired = {}
  BY DEF ConnInv
<1>1. CASE gen # h
  BY <1>0, <1>1 DEF InvalidateConnection, conn, ConnType, OneConnection, ConnInv,
              DriversAreOwned, DriverIsCurrent, Running, Closed, closing
<1>2. CASE gen = h
  <2>1. /\ gen' = gen /\ sender' = "none" /\ slot' = 0
        /\ driver' = Aborted({slot})
        /\ retired' = IF slot = 0 THEN retired
                      ELSE Unfinished(retired) \cup {slot}
        /\ awaited' = awaited /\ phase' = phase
    BY <1>2 DEF InvalidateConnection, closing
  <2>2. AbortsOnly({slot})
    BY <1>0, <2>1, AbortedTasks
  <2>3. retired' \subseteq Gens
    BY <1>0, <2>1, RetainedHandles
  <2>4. ConnType'
    BY <1>0, <2>1, <2>2, <2>3, LaneAssumption DEF ConnType, AbortsOnly
  <2>5. \A g \in Gens : ~Running(g)'
    BY <1>0, <2>2, NothingRuns
  <2>6. OneConnection'
    BY <1>0, <2>1, <2>5, LaneAssumption DEF OneConnection, ConnType, Gens
  <2>7. DriversAreOwned'
    <3> SUFFICES ASSUME NEW g \in Gens, driver'[g] = "aborting"
                 PROVE  g \in retired' \/ g \in awaited'
      BY <2>4, <2>5 DEF DriversAreOwned, Running
    <3>1. driver[g] \in {"live", "draining", "aborting"}
      BY <1>0, <2>2 DEF AbortsOnly, ConnType
    <3>2. g = slot \/ g \in retired \/ g \in awaited
      BY <1>0, <3>1 DEF DriversAreOwned
    <3> QED
      BY <2>1, <3>1, <3>2, LaneAssumption DEF Unfinished, Gens
  <2>8. DriverIsCurrent'
    BY <1>0, <2>1, <2>2, <2>5 DEF DriverIsCurrent, AbortsOnly
  <2>9. (phase = "settled" => slot = 0 /\ retired = {})'
    BY <1>0, <2>1
  <2> QED
    BY <1>2, <2>1, <2>4, <2>6, <2>7, <2>8, <2>9 DEF ConnInv
<1> QED
  BY <1>1, <1>2

LEMMA PublishKeepsConn ==
  ASSUME ConnInv, sender = "none", NEW r \in Requests, Publish(r)
  PROVE  ConnInv'
<1>0. /\ ConnType /\ OneConnection /\ DriversAreOwned /\ DriverIsCurrent
      /\ phase = "settled" => slot = 0 /\ retired = {}
  BY DEF ConnInv
<1>1. CASE Closed
  BY <1>0, <1>1 DEF Publish, conn, ConnType, OneConnection, DriversAreOwned,
              DriverIsCurrent, Running, Closed, ConnInv, closing
<1>2. CASE ~Closed
  <2>1. /\ gen' = gen + 1 /\ sender' = "some" /\ slot' = gen' /\ gen' \in Gens
        /\ driver' = [driver EXCEPT ![gen'] = "live"]
        /\ retired' = IF slot = 0 THEN retired
                      ELSE Unfinished(retired) \cup {slot}
        /\ awaited' = awaited /\ phase' = phase
    BY <1>0, <1>2, LaneAssumption DEF Publish, closing, ConnType, Gens
  <2>2. retired' \subseteq Gens
    BY <1>0, <2>1, RetainedHandles
  <2>3. ConnType'
    BY <1>0, <2>1, <2>2, LaneAssumption DEF ConnType, Gens
  <2>4. \A g \in Gens : ~Running(g)
    BY <1>0, <1>2, LaneAssumption DEF OneConnection, ConnType, DriverIsCurrent, Gens
  <2>5. \A g \in Gens : Running(g)' <=> g = gen'
    BY <1>0, <2>1, <2>4 DEF Running, ConnType
  <2>6. OneConnection'
    BY <1>2, <2>1, <2>5, LaneAssumption DEF OneConnection, Closed, Gens
  <2>7. DriversAreOwned'
    BY <1>0, <2>1, LaneAssumption DEF DriversAreOwned, Unfinished, ConnType, Gens
  <2>8. DriverIsCurrent'
    BY <1>0, <1>2, <2>1, <2>5, LaneAssumption
    DEF DriverIsCurrent, ConnType, Closed, Gens
  <2>9. (phase = "settled" => slot = 0 /\ retired = {})'
    BY <1>2, <2>1 DEF Closed
  <2> QED
    BY <2>3, <2>6, <2>7, <2>8, <2>9 DEF ConnInv
<1> QED
  BY <1>1, <1>2

LEMMA AcquireLockKeepsConn ==
  ASSUME ConnInv, NEW r \in Requests, AcquireLock(r)
  PROVE  ConnInv'
BY LaneAssumption DEF ConnInv, ConnType, OneConnection, DriversAreOwned, DriverIsCurrent,
       Running, Closed, Gens, closing, AcquireLock, Unfinished

LEMMA DriverStepKeepsConn ==
  ASSUME ConnInv, NEW g \in Gens, DriverStep(g)
  PROVE  ConnInv' /\ gen' = gen
<1> USE LaneAssumption DEF ConnInv, ConnType, OneConnection, DriversAreOwned,
            DriverIsCurrent, Running, Closed, Gens, closing
<1>1. CASE GoAway(g)
  BY <1>1 DEF GoAway
<1>2. CASE ConnectionFinished(g)
  BY <1>2 DEF ConnectionFinished
<1>3. CASE AbortTakesEffect(g)
  BY <1>3 DEF AbortTakesEffect
<1> QED
  BY <1>1, <1>2, <1>3 DEF DriverStep

LEMMA TakeTasksKeepsConn ==
  ASSUME ConnInv, TakeTasks, phase' \in {"draining", "settled"}
  PROVE  ConnInv' /\ gen' = gen
<1>0. ConnType /\ DriversAreOwned /\ DriverIsCurrent
  BY DEF ConnInv
<1>1. /\ gen' = gen /\ slot' = 0 /\ retired' = {} /\ sender' = "none"
      /\ driver' = Aborted({slot} \cup retired)
      /\ awaited' = awaited \cup retired \cup ({slot} \ {0})
  BY DEF TakeTasks
<1>2. AbortsOnly({slot} \cup retired)
  BY <1>0, <1>1, AbortedTasks
<1>3. ConnType'
  <2>1. awaited' \subseteq Gens
    BY <1>0, <1>1, RetainedHandles DEF ConnType
  <2> QED
    BY <1>0, <1>1, <1>2, <2>1, LaneAssumption DEF ConnType, AbortsOnly
<1>4. \A g \in Gens : ~Running(g)'
  BY <1>0, <1>2, NothingRuns
<1>5. OneConnection'
  BY <1>1, <1>3, <1>4, LaneAssumption DEF OneConnection, ConnType, Gens
<1>6. DriversAreOwned'
  <2> SUFFICES ASSUME NEW g \in Gens, driver'[g] = "aborting"
               PROVE  g \in awaited'
    BY <1>3, <1>4 DEF DriversAreOwned, Running
  <2>1. driver[g] \in {"live", "draining", "aborting"}
    BY <1>0, <1>2 DEF AbortsOnly, ConnType
  <2>2. g = slot \/ g \in retired \/ g \in awaited
    BY <1>0, <2>1 DEF DriversAreOwned
  <2> QED
    BY <1>1, <2>2, LaneAssumption DEF Gens
<1>7. DriverIsCurrent'
  BY <1>0, <1>1, <1>2, <1>4 DEF DriverIsCurrent, AbortsOnly
<1> QED
  BY <1>1, <1>3, <1>5, <1>6, <1>7 DEF ConnInv

LEMMA CloseKeepsConn ==
  ASSUME ConnInv, Abort \/ StartClose \/ SettleClose
  PROVE  ConnInv' /\ gen' = gen
<1>1. CASE Abort
  BY <1>1, LaneAssumption DEF Abort, ConnInv, ConnType, OneConnection, DriversAreOwned, DriverIsCurrent,
              Running, Closed, Gens, Aborted
<1>2. CASE StartClose
  BY <1>2, TakeTasksKeepsConn DEF StartClose
<1>3. CASE SettleClose
  BY <1>3, TakeTasksKeepsConn DEF SettleClose
<1> QED
  BY <1>1, <1>2, <1>3

-----------------------------------------------------------------------------
(* The request tasks.                                                       *)

\* A step that moves no stream and marks no generation keeps the counts, and
\* whoever waits is still owed its wakeup.
LEMMA QuietStep ==
  ASSUME TaskInv, SameStreams, counts' = counts, poison' = poison,
         \A q \in Requests :
           pc'[q] = "wait" => \/ pc[q] = "wait" /\ held'[q] = held[q]
                             \/ held'[q] \in poison
  PROVE  CountsAreStreams' /\ WaiterIsOwedWakeup'
<1>1. \A g \in Gens : Streams(g)' = Streams(g)
  BY SameStreamsKeepSets
<1>2. CountsAreStreams'
  BY <1>1 DEF TaskInv, CountsAreStreams
<1>3. poison \subseteq Gens
  BY DEF TaskInv, TaskType
<1>4. WaiterIsOwedWakeup'
  BY <1>1, <1>3 DEF TaskInv, WaiterIsOwedWakeup
<1> QED
  BY <1>2, <1>4

\* connect() is entered by a request that is neither dialing nor a stream.
LEMMA EnterConnectKeepsTask ==
  ASSUME TaskInv, ConnInv', NEW r \in Requests, NEW a \in {0, 1},
         pc[r] \notin {"dial", "active"},
         EnterConnect(r, a, sender'), UNCHANGED <<lock, counts, poison, phase>>,
         gen' = gen, sender' \in {sender, "none"}
  PROVE  TaskInv'
<1>1. gen \in 0..MaxGen /\ (sender' = "some" => gen \in 1..MaxGen)
  BY LaneAssumption DEF ConnInv, ConnType, OneConnection
<1>2. TaskType'
  <2>1. TaskType
    BY DEF TaskInv
  <2>2. held' \in [Requests -> 0..MaxGen]
    BY <1>1, <2>1, LaneAssumption DEF TaskType, EnterConnect
  <2>3. /\ pc' \in [Requests -> {"idle", "lock", "dial", "ready", "wait",
                                 "woken", "active"}]
        /\ attempt' \in [Requests -> {0, 1}]
    BY <2>1 DEF TaskType, EnterConnect
  <2> QED
    BY <2>1, <2>2, <2>3 DEF TaskType
<1>3. SameStreams
  BY DEF SameStreams, EnterConnect, TaskInv, TaskType
<1>4. \A q \in Requests : pc'[q] = "wait" => pc[q] = "wait" /\ held'[q] = held[q]
  BY DEF EnterConnect, TaskInv, TaskType
<1>5. CountsAreStreams' /\ WaiterIsOwedWakeup'
  BY <1>3, <1>4, QuietStep
<1>6. DialerHoldsLock'
  BY DEF DialerHoldsLock, EnterConnect, TaskInv, TaskType
<1>7. DialsWithoutSender'
  BY DEF DialsWithoutSender, TaskInv
<1>8. HeldIsPublished'
  <2> SUFFICES ASSUME NEW q \in Requests, pc'[q] \in {"ready", "wait", "active"}
               PROVE  held'[q] \in 1..gen
    BY DEF HeldIsPublished
  <2>1. CASE q = r
    BY <1>1, <2>1, LaneAssumption DEF EnterConnect, TaskInv, TaskType
  <2>2. CASE q # r
    BY <2>2 DEF HeldIsPublished, EnterConnect, TaskInv, TaskType
  <2> QED
    BY <2>1, <2>2
<1> QED
  BY <1>2, <1>5, <1>6, <1>7, <1>8 DEF TaskInv

\* A request without a stream disappears.
LEMMA ForgetKeepsTask ==
  ASSUME TaskInv, NEW r \in Requests, pc[r] # "active", Forget(r, pc),
         UNCHANGED <<counts, poison, phase, gen, sender>>
  PROVE  TaskInv'
<1>1. TaskType'
  BY LaneAssumption DEF TaskInv, TaskType, Forget
<1>2. SameStreams
  BY DEF SameStreams, Forget, TaskInv, TaskType
<1>3. \A q \in Requests : pc'[q] = "wait" => pc[q] = "wait" /\ held'[q] = held[q]
  BY DEF Forget, TaskInv, TaskType
<1>4. CountsAreStreams' /\ WaiterIsOwedWakeup'
  BY <1>2, <1>3, QuietStep
<1>5. DialerHoldsLock'
  BY LaneAssumption DEF DialerHoldsLock, Forget, TaskInv, TaskType
<1>6. DialsWithoutSender' /\ (phase = "settled" => lock = NoRequest)'
  BY DEF DialsWithoutSender, TaskInv, Forget
<1>7. HeldIsPublished'
  BY DEF HeldIsPublished, Forget, TaskInv, TaskType
<1> QED
  BY <1>1, <1>4, <1>5, <1>6, <1>7 DEF TaskInv

\* No request moves, except that admission waiters may be woken.
LEMMA WakingKeepsTask ==
  ASSUME TaskInv, pc' \in {pc, Notified(pc)},
         UNCHANGED <<held, attempt, lock, counts, poison, gen>>,
         sender' \in {sender, "none"},
         phase' = "settled" => lock = NoRequest
  PROVE  TaskInv'
<1>0. TaskType
  BY DEF TaskInv
<1>1. \A q \in Requests :
        /\ pc'[q] = pc[q] \/ (pc[q] = "wait" /\ pc'[q] = "woken")
  BY DEF Notified
<1>2. pc' \in [Requests -> {"idle", "lock", "dial", "ready", "wait", "woken",
                            "active"}]
  BY <1>0 DEF TaskType, Notified
<1>3. TaskType'
  BY <1>0, <1>2 DEF TaskType
<1>4. CountsAreStreams' /\ WaiterIsOwedWakeup'
  <2>1. SameStreams
    BY <1>1 DEF SameStreams
  <2> QED
    BY <1>1, <2>1, QuietStep
<1>5. DialerHoldsLock' /\ HeldIsPublished'
  BY <1>1 DEF DialerHoldsLock, HeldIsPublished, TaskInv
<1>6. DialsWithoutSender'
  BY DEF DialsWithoutSender, TaskInv
<1> QED
  BY <1>3, <1>4, <1>5, <1>6 DEF TaskInv

\* What the drop of a future with an open stream does to the streams.
LEMMA ForgetStream ==
  ASSUME TaskInv, NEW r \in Requests, pc[r] = "active",
         NEW h, h = held[r],
         NEW p, p \in {pc, Notified(pc)}, Forget(r, p),
         counts' = [counts EXCEPT ![h] = @ - 1], gen' = gen
  PROVE  /\ CountsAreStreams'
         /\ counts' \in [Gens -> Nat]
         /\ counts[h] = 1 <=> Streams(h)' = {}
         /\ \A g \in Gens \ {h} : Streams(g)' = Streams(g)
<1>0. TaskType /\ CountsAreStreams /\ HeldIsPublished
  BY DEF TaskInv
<1>1. h \in Gens
  BY <1>0, LaneAssumption DEF HeldIsPublished, TaskType, Gens
<1>2. pc \in [Requests -> {"idle", "lock", "dial", "ready", "wait", "woken",
                           "active"}]
  BY <1>0 DEF TaskType
<1>3. \A q \in Requests : q # r => /\ pc'[q] = p[q]
                                   /\ held'[q] = held[q]
  BY <1>0, <1>2 DEF Forget, TaskType, Notified
<1>4. pc'[r] = "idle"
  BY <1>2 DEF Forget, Notified
<1>5. \A q \in Requests : p[q] = "active" <=> pc[q] = "active"
  BY <1>2 DEF Notified
<1>6. Streams(h)' = Streams(h) \ {r}
  BY <1>3, <1>4, <1>5 DEF Streams
<1>7. \A g \in Gens \ {h} : Streams(g)' = Streams(g)
  BY <1>3, <1>4, <1>5 DEF Streams
<1>8. r \in Streams(h)
  BY DEF Streams
<1>9. counts \in [Gens -> Nat]
  BY <1>0 DEF TaskType
<1> QED
  BY <1>0, <1>1, <1>6, <1>7, <1>8, <1>9, LeaveCounts

\* The drop of a future with an open stream.  The generation stays marked only
\* if the stream was not its last, and it is unmarked only if waiters are woken.
LEMMA ForgetStreamKeepsTask ==
  ASSUME TaskInv, NEW r \in Requests, pc[r] = "active",
         NEW h, h = held[r],
         NEW p, p = Notified(pc) \/ (p = pc /\ poison \subseteq poison'),
         Forget(r, p), counts' = [counts EXCEPT ![h] = @ - 1],
         poison' \subseteq poison \cup {h},
         h \in poison' => counts[h] # 1,
         gen' = gen, phase' = phase, sender' \in {sender, "none"}
  PROVE  TaskInv'
<1>0. TaskType /\ WaiterIsOwedWakeup /\ HeldIsPublished /\ DialerHoldsLock
  BY DEF TaskInv
<1>1. /\ CountsAreStreams'
      /\ counts' \in [Gens -> Nat]
      /\ counts[h] = 1 <=> Streams(h)' = {}
      /\ \A g \in Gens \ {h} : Streams(g)' = Streams(g)
  BY ForgetStream
<1>2. h \in Gens
  BY <1>0, LaneAssumption DEF HeldIsPublished, TaskType, Gens
<1>3. pc \in [Requests -> {"idle", "lock", "dial", "ready", "wait", "woken",
                           "active"}]
  BY <1>0 DEF TaskType
<1>4. ASSUME NEW q \in Requests, q # r
      PROVE  /\ held'[q] = held[q]
             /\ pc'[q] = pc[q] \/ (pc[q] = "wait" /\ pc'[q] = "woken")
  <2>1. held'[q] = held[q]
    BY <1>0, <1>4 DEF Forget, TaskType
  <2>2. pc'[q] = p[q]
    BY <1>3, <1>4 DEF Forget, Notified
  <2> QED
    BY <2>1, <2>2 DEF Notified
<1>5. pc'[r] = "idle" /\ lock' = lock
  BY <1>0, <1>3, LaneAssumption DEF Forget, Notified, DialerHoldsLock
<1>6. TaskType'
  <2>1. poison' \subseteq Gens
    BY <1>0, <1>2 DEF TaskType
  <2>2. pc' \in [Requests -> {"idle", "lock", "dial", "ready", "wait", "woken",
                              "active"}]
    BY <1>3 DEF Forget, Notified
  <2>3. held' \in [Requests -> 0..MaxGen] /\ attempt' \in [Requests -> {0, 1}]
    BY <1>0, LaneAssumption DEF Forget, TaskType
  <2> QED
    BY <1>0, <1>1, <1>5, <2>1, <2>2, <2>3 DEF TaskType
<1>7. WaiterIsOwedWakeup'
  <2>1. ASSUME NEW g \in poison'
        PROVE  Streams(g)' # {}
    <3>1. CASE g = h
      BY <1>1, <3>1
    <3>2. CASE g # h
      BY <1>0, <1>1, <3>2 DEF WaiterIsOwedWakeup, TaskType
    <3> QED
      BY <3>1, <3>2
  <2>2. ASSUME NEW q \in Requests, pc'[q] = "wait"
        PROVE  held'[q] \in poison'
    <3>1. q # r /\ pc[q] = "wait" /\ held'[q] = held[q]
      BY <1>4, <1>5, <2>2
    <3>2. held[q] \in poison
      BY <1>0, <3>1 DEF WaiterIsOwedWakeup
    <3>3. pc'[q] = p[q] /\ Notified(pc)[q] = "woken"
      BY <1>3, <3>1 DEF Forget, Notified
    <3>4. p # Notified(pc)
      BY <2>2, <3>3
    <3> QED
      BY <3>1, <3>2, <3>4
  <2> QED
    BY <2>1, <2>2 DEF WaiterIsOwedWakeup
<1>8. DialerHoldsLock' /\ HeldIsPublished'
  BY <1>0, <1>4, <1>5, LaneAssumption DEF DialerHoldsLock, HeldIsPublished
<1>9. DialsWithoutSender' /\ (phase = "settled" => lock = NoRequest)'
  BY <1>5 DEF DialsWithoutSender, TaskInv
<1> QED
  BY <1>1, <1>6, <1>7, <1>8, <1>9 DEF TaskInv

\* Admission opens a stream of an unmarked generation.
LEMMA AdmitKeepsTask ==
  ASSUME TaskInv, NEW r \in Requests, Admit(r)
  PROVE  TaskInv'
<1>0. TaskType /\ CountsAreStreams /\ WaiterIsOwedWakeup /\ HeldIsPublished
  BY DEF TaskInv
<1> DEFINE h == held[r]
<1>1. h \in Gens
  BY <1>0, LaneAssumption
  DEF Admit, ReadySucceeds, HeldIsPublished, TaskType, Gens
<1> HIDE DEF h
<1>2. PICK k \in Gens : k = held[r]
  BY <1>1 DEF h
<1>3. /\ pc[r] = "ready" /\ pc' = [pc EXCEPT ![r] = "active"]
      /\ counts' = [counts EXCEPT ![k] = @ + 1]
      /\ attempt' = [attempt EXCEPT ![r] = 0]
      /\ UNCHANGED <<poison, held, lock, gen, sender, phase>>
  BY <1>2 DEF Admit, ReadySucceeds, conn, closing
<1>4. TaskType'
  <2>1. counts' \in [Gens -> Nat]
    BY <1>0, <1>3 DEF TaskType
  <2>2. /\ pc' \in [Requests -> {"idle", "lock", "dial", "ready", "wait",
                                 "woken", "active"}]
        /\ attempt' \in [Requests -> {0, 1}]
    BY <1>0, <1>3 DEF TaskType
  <2> QED
    BY <1>0, <1>3, <2>1, <2>2 DEF TaskType
<1>5. \A q \in Requests : q # r => pc'[q] = pc[q]
  BY <1>0, <1>3 DEF TaskType
<1>6. pc'[r] = "active"
  BY <1>0, <1>3 DEF TaskType
<1>7. Streams(k)' = Streams(k) \cup {r} /\ r \notin Streams(k)
  BY <1>2, <1>3, <1>5, <1>6 DEF Streams
<1>8. \A g \in Gens \ {k} : Streams(g)' = Streams(g)
  BY <1>2, <1>3, <1>5, <1>6 DEF Streams
<1>9. CountsAreStreams'
  BY <1>0, <1>3, <1>7, <1>8, JoinCounts DEF TaskType
<1>10. WaiterIsOwedWakeup'
  <2>1. \A g \in poison' : Streams(g)' # {}
    BY <1>0, <1>3, <1>7, <1>8 DEF WaiterIsOwedWakeup, TaskType
  <2> QED
    BY <1>0, <1>3, <1>5, <1>6, <2>1 DEF WaiterIsOwedWakeup
<1>11. DialerHoldsLock' /\ HeldIsPublished'
  BY <1>3, <1>5, <1>6 DEF TaskInv, DialerHoldsLock, HeldIsPublished
<1>12. DialsWithoutSender' /\ (phase = "settled" => lock = NoRequest)'
  BY <1>3 DEF TaskInv, DialsWithoutSender
<1> QED
  BY <1>4, <1>9, <1>10, <1>11, <1>12 DEF TaskInv

\* A request that is no stream before or after moves on by itself, and waits
\* only for a marked generation.
LEMMA MoveKeepsTask ==
  ASSUME TaskInv, NEW r \in Requests, pc[r] # "active",
         NEW to \in {"dial", "ready", "wait"}, NEW h \in 0..MaxGen,
         pc' = [pc EXCEPT ![r] = to], held' = [held EXCEPT ![r] = h],
         attempt' = attempt, counts' = counts, poison' = poison,
         to = "wait" => h \in poison,
         to # "dial" => h \in 1..gen',
         gen \in Nat, gen' \in Nat, gen <= gen',
         lock' = IF to = "dial" THEN r ELSE IF lock = r THEN NoRequest ELSE lock,
         to = "dial" => lock = NoRequest,
         pc[r] = "dial" <=> lock = r,
         DialsWithoutSender',
         phase' = "settled" => lock' = NoRequest
  PROVE  TaskInv'
<1>0. TaskType /\ HeldIsPublished /\ DialerHoldsLock
  BY DEF TaskInv
<1>1. \A q \in Requests : q # r => pc'[q] = pc[q] /\ held'[q] = held[q]
  BY <1>0 DEF TaskType
<1>2. pc'[r] = to /\ held'[r] = h
  BY <1>0 DEF TaskType
<1>3. TaskType'
  BY <1>0 DEF TaskType
<1>4. SameStreams
  BY <1>1, <1>2 DEF SameStreams
<1>5. CountsAreStreams' /\ WaiterIsOwedWakeup'
  BY <1>1, <1>2, <1>4, QuietStep
<1>6. DialerHoldsLock'
  BY <1>0, <1>1, <1>2, LaneAssumption DEF DialerHoldsLock
<1>7. HeldIsPublished'
  <2> SUFFICES ASSUME NEW q \in Requests, pc'[q] \in {"ready", "wait", "active"}
               PROVE  held'[q] \in 1..gen'
    BY DEF HeldIsPublished
  <2>1. CASE q = r
    BY <1>2, <2>1
  <2>2. CASE q # r
    BY <1>0, <1>1, <2>2 DEF HeldIsPublished
  <2> QED
    BY <2>1, <2>2
<1> QED
  BY <1>3, <1>5, <1>6, <1>7 DEF TaskInv

\* The end of a request, with or without a timeout.
LEMMA EndKeepsInv ==
  ASSUME IInv, NEW r \in Requests, Leave(r) \/ Timeout(r)
  PROVE  IInv'
<1>0. ConnInv /\ TaskInv /\ TaskType /\ HeldIsPublished /\ UNCHANGED closing
  BY DEF IInv, TaskInv, Leave, Timeout
<1>1. CASE pc[r] # "active"
  <2>1. Forget(r, pc) /\ UNCHANGED <<conn, active, closing>>
    BY <1>1 DEF Leave, Timeout
  <2>2. UNCHANGED <<counts, poison, phase, gen, sender>>
    BY <2>1 DEF conn, active, closing
  <2>3. TaskInv'
    BY <1>0, <1>1, <2>1, <2>2, ForgetKeepsTask
  <2>4. ConnInv'
    BY <1>0, <2>1 DEF conn, closing, ConnInv, ConnType, OneConnection,
                      DriversAreOwned, DriverIsCurrent, Running, Closed
  <2> QED
    BY <2>3, <2>4 DEF IInv
<1>2. CASE pc[r] = "active"
  <2>1. held[r] \in Gens
    BY <1>0, <1>2, LaneAssumption DEF HeldIsPublished, TaskType, Gens
  <2>2. PICK h \in Gens : h = held[r]
    BY <2>1
  <2>3. counts' = [counts EXCEPT ![h] = @ - 1]
    BY <1>2, <2>2 DEF Leave, Timeout
  <2>4. CASE /\ poison' = poison \ {h}
             /\ InvalidateConnection(h)
             /\ Forget(r, Notified(pc))
    <3>1. ConnInv' /\ gen' = gen /\ sender' \in {sender, "none"}
      BY <1>0, <2>4, InvalidateKeepsConn
    <3>2. TaskInv'
      BY <1>0, <1>2, <2>2, <2>3, <2>4, <3>1, ForgetStreamKeepsTask DEF closing
    <3> QED
      BY <3>1, <3>2 DEF IInv
  <2>5. CASE /\ poison' \in {poison, poison \cup {h}}
             /\ h \in poison' => counts[h] # 1
             /\ Forget(r, pc)
             /\ UNCHANGED conn
    <3>1. ConnInv' /\ gen' = gen /\ sender' = sender
      BY <1>0, <2>5 DEF conn, closing, ConnInv, ConnType, OneConnection,
                        DriversAreOwned, DriverIsCurrent, Running, Closed
    <3>2. TaskInv'
      BY <1>0, <1>2, <2>2, <2>3, <2>5, <3>1, ForgetStreamKeepsTask DEF closing
    <3> QED
      BY <3>1, <3>2 DEF IInv
  <2>6. CASE Leave(r)
    BY <1>2, <2>2, <2>4, <2>5, <2>6 DEF Leave, LastOfPoisoned
  <2>7. CASE Timeout(r)
    BY <1>2, <2>2, <2>4, <2>5, <2>7 DEF Timeout
  <2> QED
    BY <2>6, <2>7
<1> QED
  BY <1>1, <1>2

LEMMA RequestStepKeepsInv ==
  ASSUME IInv, NEW r \in Requests, RequestStep(r)
  PROVE  IInv'
<1>0. /\ ConnInv /\ TaskInv /\ TaskType /\ HeldIsPublished /\ DialerHoldsLock
      /\ DialsWithoutSender /\ gen \in 0..MaxGen /\ sender \in {"none", "some"}
  BY DEF IInv, TaskInv, ConnInv, ConnType
<1>1. ASSUME UNCHANGED <<conn, closing>>
      PROVE  ConnInv'
  BY <1>0, <1>1 DEF conn, closing, ConnInv, ConnType, OneConnection,
                    DriversAreOwned, DriverIsCurrent, Running, Closed
<1>2. attempt[r] \in {0, 1} /\ held[r] \in 0..MaxGen
  BY <1>0 DEF TaskType
<1>3. CASE Start(r)
  <2>1. ConnInv'
    BY <1>1, <1>3 DEF Start
  <2>2. TaskInv'
    BY <1>0, <1>3, <2>1, EnterConnectKeepsTask DEF Start, conn, active, closing
  <2> QED
    BY <2>1, <2>2 DEF IInv
<1>4. CASE AcquireLock(r)
  <2>1. ConnInv'
    BY <1>0, <1>4, AcquireLockKeepsConn
  <2>2. UNCHANGED <<gen, sender, counts, poison, phase>>
    BY <1>4 DEF AcquireLock, active, closing
  <2>3. PICK a \in {0, 1} : a = attempt[r]
    BY <1>2
  <2>4. CASE EnterConnect(r, attempt[r], sender) /\ UNCHANGED lock
    BY <1>0, <1>4, <2>1, <2>2, <2>3, <2>4, EnterConnectKeepsTask
    DEF AcquireLock, IInv
  <2>5. CASE /\ ~Closed /\ sender = "none"
             /\ lock' = r
             /\ pc' = [pc EXCEPT ![r] = "dial"]
             /\ UNCHANGED <<held, attempt>>
    <3>1. PICK h \in 0..MaxGen : h = held[r]
      BY <1>2
    <3>2. held' = [held EXCEPT ![r] = h]
      BY <1>0, <2>5, <3>1 DEF TaskType
    <3>3. pc[r] = "lock" /\ lock = NoRequest /\ phase' # "settled"
      BY <1>4, <2>2, <2>5 DEF AcquireLock, Closed
    <3>4. DialsWithoutSender'
      BY <2>2, <2>5 DEF DialsWithoutSender
    <3>5. gen \in Nat /\ gen' \in Nat /\ gen <= gen'
      BY <1>0, <2>2, LaneAssumption
    <3>6. TaskInv'
      BY <1>0, <2>2, <2>5, <3>2, <3>3, <3>4, <3>5, LaneAssumption, MoveKeepsTask
    <3> QED
      BY <2>1, <3>6 DEF IInv
  <2> QED
    BY <1>4, <2>4, <2>5 DEF AcquireLock
<1>5. CASE DialFails(r)
  <2>1. ConnInv'
    BY <1>1, <1>5 DEF DialFails
  <2>2. TaskInv'
    BY <1>0, <1>5, ForgetKeepsTask DEF DialFails, conn, active, closing
  <2> QED
    BY <2>1, <2>2 DEF IInv
<1>6. CASE Publish(r)
  <2>1. lock = r /\ pc[r] = "dial" /\ sender = "none"
    BY <1>0, <1>6, LaneAssumption
    DEF Publish, DialerHoldsLock, DialsWithoutSender
  <2>2. ConnInv'
    BY <1>0, <1>6, <2>1, PublishKeepsConn
  <2>3. CASE Closed
    <3>1. TaskInv'
      BY <1>0, <1>6, <2>1, <2>3, ForgetKeepsTask
      DEF Publish, conn, active, closing
    <3> QED
      BY <2>2, <3>1 DEF IInv
  <2>4. CASE ~Closed
    <3>1. /\ gen' = gen + 1 /\ gen' \in 1..MaxGen /\ lock' = NoRequest
          /\ pc' = [pc EXCEPT ![r] = "ready"]
          /\ held' = [held EXCEPT ![r] = gen + 1]
          /\ attempt' = attempt /\ counts' = counts /\ poison' = poison
          /\ phase' = phase
      BY <1>0, <1>6, <2>4, LaneAssumption DEF Publish, active, closing
    <3>2. PICK h \in 1..MaxGen : h = gen + 1
      BY <3>1
    <3>3. DialsWithoutSender'
      BY <3>1 DEF DialsWithoutSender
    <3>4. gen \in Nat /\ gen' \in Nat /\ gen <= gen' /\ h \in 1..gen' /\ h \in 0..MaxGen
      BY <1>0, <3>1, <3>2, LaneAssumption
    <3>5. TaskInv'
      BY <1>0, <2>1, <3>1, <3>2, <3>3, <3>4, MoveKeepsTask
    <3> QED
      BY <2>2, <3>5 DEF IInv
  <2> QED
    BY <2>3, <2>4
<1>7. CASE ReadyFails(r)
  <2>0. /\ pc[r] = "ready" /\ held[r] \in Gens
        /\ UNCHANGED <<counts, poison, closing>>
    BY <1>0, <1>7, LaneAssumption
    DEF ReadyFails, HeldIsPublished, active, Gens
  <2>1. CASE attempt[r] = 0
    <3>1. PICK h \in Gens : h = held[r]
      BY <2>0
    <3>2. InvalidateConnection(h) /\ EnterConnect(r, 1, sender') /\ lock' = lock
      BY <1>7, <2>1, <3>1 DEF ReadyFails
    <3>3. ConnInv' /\ gen' = gen /\ sender' \in {sender, "none"}
      BY <1>0, <2>0, <3>2, InvalidateKeepsConn
    <3>4. TaskInv'
      BY <1>0, <2>0, <3>2, <3>3, EnterConnectKeepsTask DEF closing
    <3> QED
      BY <3>3, <3>4 DEF IInv
  <2>2. CASE attempt[r] # 0
    <3>1. Forget(r, pc) /\ UNCHANGED conn
      BY <1>7, <2>2 DEF ReadyFails
    <3>2. TaskInv'
      BY <1>0, <2>0, <3>1, ForgetKeepsTask DEF conn, closing
    <3> QED
      BY <1>1, <2>0, <3>1, <3>2 DEF IInv
  <2> QED
    BY <2>1, <2>2
<1>8. CASE Admit(r)
  <2>1. ConnInv'
    BY <1>1, <1>8 DEF Admit
  <2> QED
    BY <1>0, <1>8, <2>1, AdmitKeepsTask DEF IInv
<1>9. CASE AwaitRetirement(r)
  <2>1. ConnInv'
    BY <1>1, <1>9 DEF AwaitRetirement
  <2>2. PICK h \in 0..MaxGen : h = held[r]
    BY <1>2
  <2>3. /\ pc[r] = "ready" /\ h \in poison
        /\ pc' = [pc EXCEPT ![r] = "wait"] /\ held' = [held EXCEPT ![r] = h]
        /\ UNCHANGED <<counts, poison, attempt, lock, phase, gen, sender>>
    BY <1>0, <1>9, <2>2
    DEF AwaitRetirement, ReadySucceeds, conn, active, closing, TaskType
  <2>4. h \in 1..gen' /\ gen \in Nat /\ gen' \in Nat /\ gen <= gen'
    BY <1>0, <2>2, <2>3, LaneAssumption DEF HeldIsPublished
  <2>5. DialsWithoutSender' /\ lock # r
    BY <1>0, <2>3 DEF DialsWithoutSender, DialerHoldsLock
  <2>6. phase' = "settled" => lock' = NoRequest
    BY <1>0, <2>3 DEF TaskInv
  <2>7. TaskInv'
    BY <1>0, <2>3, <2>4, <2>5, <2>6, MoveKeepsTask
  <2> QED
    BY <2>1, <2>7 DEF IInv
<1>10. CASE StaleClone(r)
  <2>1. ConnInv'
    BY <1>1, <1>10 DEF StaleClone
  <2>2. TaskInv'
    BY <1>0, <1>10, <2>1, EnterConnectKeepsTask
    DEF StaleClone, ReadySucceeds, conn, active, closing
  <2> QED
    BY <2>1, <2>2 DEF IInv
<1>11. CASE Resume(r)
  <2>1. ConnInv'
    BY <1>1, <1>11 DEF Resume
  <2>2. TaskInv'
    BY <1>0, <1>11, <2>1, EnterConnectKeepsTask
    DEF Resume, conn, active, closing
  <2> QED
    BY <2>1, <2>2 DEF IInv
<1>12. CASE Leave(r) \/ Timeout(r)
  BY <1>12, EndKeepsInv
<1> QED
  BY <1>3, <1>4, <1>5, <1>6, <1>7, <1>8, <1>9, <1>10, <1>11, <1>12
  DEF RequestStep

-----------------------------------------------------------------------------
(* The invariant is inductive.                                              *)

LEMMA InitIInv == Init => IInv
<1> SUFFICES ASSUME Init
             PROVE  IInv
  OBVIOUS
<1>1. ConnInv
  BY LaneAssumption
  DEF Init, ConnInv, ConnType, OneConnection, DriversAreOwned, DriverIsCurrent,
      Running, Closed, Gens
<1>2. \A g \in Gens : Streams(g) = {}
  BY DEF Init, Streams
<1>3. CountsAreStreams
  BY <1>2, FS_EmptySet DEF Init, CountsAreStreams
<1>4. TaskType
  BY LaneAssumption DEF Init, TaskType
<1>5. /\ WaiterIsOwedWakeup /\ DialerHoldsLock /\ DialsWithoutSender
      /\ HeldIsPublished
  BY LaneAssumption
  DEF Init, WaiterIsOwedWakeup, DialerHoldsLock, DialsWithoutSender,
      HeldIsPublished
<1>6. phase = "settled" => lock = NoRequest
  BY DEF Init
<1> QED
  BY <1>1, <1>3, <1>4, <1>5, <1>6 DEF IInv, TaskInv

LEMMA NextIInv == IInv /\ [Next]_vars => IInv'
<1> SUFFICES ASSUME IInv, [Next]_vars
             PROVE  IInv'
  OBVIOUS
<1>0. ConnInv /\ TaskInv /\ sender \in {"none", "some"}
  BY DEF IInv, ConnInv, ConnType
<1>1. ASSUME NEW r \in Requests, RequestStep(r)
      PROVE  IInv'
  BY <1>1, RequestStepKeepsInv
<1>2. ASSUME NEW g \in Gens, DriverStep(g)
      PROVE  IInv'
  <2>1. ConnInv' /\ gen' = gen
    BY <1>0, <1>2, DriverStepKeepsConn
  <2>2. /\ UNCHANGED <<held, attempt, lock, counts, poison, phase>>
        /\ pc' \in {pc, Notified(pc)} /\ sender' \in {sender, "none"}
    BY <1>2 DEF DriverStep, GoAway, ConnectionFinished, AbortTakesEffect,
                active, task, closing
  <2>3. TaskInv'
    BY <1>0, <2>1, <2>2, WakingKeepsTask DEF TaskInv
  <2> QED
    BY <2>1, <2>3 DEF IInv
<1>3. CASE Abort \/ StartClose \/ SettleClose
  <2>1. ConnInv' /\ gen' = gen
    BY <1>0, <1>3, CloseKeepsConn
  <2>2. /\ UNCHANGED <<pc, held, attempt, lock, counts, poison>>
        /\ sender' = "none"
        /\ phase' = "settled" => lock = NoRequest
    BY <1>3 DEF Abort, StartClose, SettleClose, TakeTasks, active, task
  <2>3. TaskInv'
    BY <1>0, <2>1, <2>2, WakingKeepsTask
  <2> QED
    BY <2>1, <2>3 DEF IInv
<1>4. CASE UNCHANGED vars
  <2>1. ConnInv'
    BY <1>0, <1>4 DEF vars, ConnInv, ConnType, OneConnection, DriversAreOwned,
                      DriverIsCurrent, Running, Closed
  <2>2. /\ UNCHANGED <<held, attempt, lock, counts, poison, phase, gen>>
        /\ pc' = pc /\ sender' = sender
    BY <1>4 DEF vars
  <2>3. TaskInv'
    BY <1>0, <2>2, WakingKeepsTask DEF TaskInv
  <2> QED
    BY <2>1, <2>3 DEF IInv
<1> QED
  BY <1>1, <1>2, <1>3, <1>4 DEF Next

\* The invariant holds of every reachable state of a lane.
THEOREM Invariance == Spec => []IInv
BY InitIInv, NextIInv, PTL DEF Spec

-----------------------------------------------------------------------------
(* What it implies.                                                         *)

\* The variables keep their types; each field of Lane stays in its range.
THEOREM TypeCorrect == Spec => []TypeOK
<1>1. IInv => TypeOK
  BY DEF IInv, ConnInv, ConnType, TaskInv, TaskType, TypeOK
<1> QED
  BY <1>1, Invariance, PTL

\* ActiveRequestState.counts is the number of open streams, per generation.
THEOREM StreamCounting == Spec => []CountsAreStreams
<1>1. IInv => CountsAreStreams
  BY DEF IInv, TaskInv
<1> QED
  BY <1>1, Invariance, PTL

\* A marked generation has a stream left, whose guard will notify the waiters.
THEOREM WakeupOwed == Spec => []WaiterIsOwedWakeup
<1>1. IInv => WaiterIsOwedWakeup
  BY DEF IInv, TaskInv
<1> QED
  BY <1>1, Invariance, PTL

\* connect() never runs two connections of one lane side by side.
THEOREM SingleConnection == Spec => []OneConnection
<1>1. IInv => OneConnection
  BY DEF IInv, ConnInv
<1> QED
  BY <1>1, Invariance, PTL

\* close() finds every unfinished connection task.
THEOREM TaskOwnership == Spec => []DriversAreOwned
<1>1. IInv => DriversAreOwned
  BY DEF IInv, ConnInv
<1> QED
  BY <1>1, Invariance, PTL

\* Nothing runs, and nobody is about to connect, once settle_close has run.
THEOREM SettledForGood == Spec => []SettledIsFinal
<1>1. IInv => SettledIsFinal
  BY DEF IInv, ConnInv, TaskInv, SettledIsFinal, DriverIsCurrent, Closed
<1> QED
  BY <1>1, Invariance, PTL

-----------------------------------------------------------------------------
(* Action properties.                                                       *)

\* Only a new connection is opened: a step either publishes the next generation
\* or leaves the sender at most as it was, and unmarking goes with closing.
LEMMA StepsOfAcceptance ==
  ASSUME IInv, [Next]_vars
  PROVE  \/ gen' = gen + 1
         \/ /\ gen' = gen
            /\ sender' \in {sender, "none"}
            /\ gen \in poison /\ gen \notin poison' => sender' = "none"
<1>0. ConnInv /\ TaskInv /\ TaskType /\ HeldIsPublished /\ gen \in 0..MaxGen
  BY DEF IInv, TaskInv, ConnInv, ConnType
<1>1. ASSUME NEW h \in Gens, InvalidateConnection(h)
      PROVE  /\ gen' = gen /\ sender' \in {sender, "none"}
             /\ gen = h => sender' = "none"
  BY <1>1 DEF InvalidateConnection, conn
<1>2. ASSUME NEW r \in Requests, Leave(r) \/ Timeout(r)
      PROVE  /\ gen' = gen
             /\ sender' \in {sender, "none"}
             /\ gen \in poison /\ gen \notin poison' => sender' = "none"
  <2>1. CASE pc[r] # "active"
    BY <1>2, <2>1 DEF Leave, Timeout, conn, active
  <2>2. CASE pc[r] = "active"
    <3>1. PICK h \in Gens : h = held[r]
      BY <1>0, <2>2, LaneAssumption DEF HeldIsPublished, TaskType, Gens
    <3>2. CASE InvalidateConnection(h) /\ poison' = poison \ {h}
      BY <1>1, <3>2
    <3>3. CASE UNCHANGED conn /\ poison \subseteq poison'
      BY <3>3 DEF conn
    <3> QED
      BY <1>2, <2>2, <3>1, <3>2, <3>3 DEF Leave, Timeout
  <2> QED
    BY <2>1, <2>2
<1>3. ASSUME NEW r \in Requests, ReadyFails(r)
      PROVE  /\ gen' = gen /\ sender' \in {sender, "none"} /\ poison' = poison
  <2>1. held[r] \in Gens
    BY <1>0, <1>3, LaneAssumption DEF ReadyFails, HeldIsPublished, Gens
  <2> QED
    BY <1>1, <1>3, <2>1 DEF ReadyFails, conn, active
<1>4. ASSUME NEW r \in Requests, RequestStep(r),
             ~(Leave(r) \/ Timeout(r) \/ ReadyFails(r) \/ Publish(r))
      PROVE  gen' = gen /\ sender' = sender /\ poison' = poison
  BY <1>4 DEF RequestStep, Start, AcquireLock, DialFails, Admit, AwaitRetirement,
              StaleClone, Resume, conn, active
<1>5. ASSUME NEW r \in Requests, Publish(r)
      PROVE  \/ gen' = gen + 1
             \/ gen' = gen /\ sender' = sender /\ poison' = poison
  BY <1>5 DEF Publish, conn, active
<1>6. ASSUME NEW g \in Gens, DriverStep(g)
      PROVE  gen' = gen /\ sender' \in {sender, "none"} /\ poison' = poison
  BY <1>6 DEF DriverStep, GoAway, ConnectionFinished, AbortTakesEffect, active
<1>7. CASE Abort \/ StartClose \/ SettleClose
  BY <1>7 DEF Abort, StartClose, SettleClose, TakeTasks, active
<1>8. CASE UNCHANGED vars
  BY <1>8 DEF vars
<1> QED
  BY <1>2, <1>3, <1>4, <1>5, <1>6, <1>7, <1>8 DEF Next

\* A retired or lost generation never takes a stream again.
THEOREM RetirementIsFinal == Spec => NeverReopens
<1>1. ASSUME IInv, [Next]_vars, NEW g \in Gens, g <= gen, ~Accepts(g)
      PROVE  ~Accepts(g)'
  <2>1. gen \in 0..MaxGen
    BY <1>1 DEF IInv, ConnInv, ConnType
  <2> QED
    BY <1>1, <2>1, StepsOfAcceptance, LaneAssumption DEF Accepts, Gens
<1>2. IInv /\ [Next]_vars => \A g \in Gens : g <= gen /\ ~Accepts(g) => ~Accepts(g)'
  BY <1>1
<1> QED
  BY <1>2, Invariance, PTL DEF Spec, NeverReopens

\* A request's timeout never takes down a healthy connection that others use.
THEOREM TimeoutsAreLocal == Spec => TimeoutSparesOthers
<1>1. ASSUME IInv, [Next]_vars, NEW g \in Gens,
             driver[g] = "live", driver'[g] = "aborting", ~Closed'
      PROVE  Streams(g)' = {}
  <2>0. /\ ConnType /\ DriverIsCurrent /\ TaskInv /\ TaskType /\ HeldIsPublished
        /\ driver' # driver
    BY <1>1 DEF IInv, ConnInv, TaskInv
  <2>1. g = gen /\ g = slot
    BY <1>1, <2>0 DEF DriverIsCurrent, Running
  <2>2. ASSUME NEW h \in Gens, InvalidateConnection(h)
        PROVE  h = g
    BY <2>0, <2>1, <2>2 DEF InvalidateConnection, conn
  <2>3. ASSUME NEW r \in Requests, ReadyFails(r)
        PROVE  FALSE
    <3>1. PICK h \in Gens : h = held[r]
      BY <2>0, <2>3, LaneAssumption
      DEF ReadyFails, HeldIsPublished, ConnType, Gens
    <3> QED
      BY <1>1, <2>0, <2>2, <2>3, <3>1 DEF ReadyFails, conn
  <2>4. ASSUME NEW r \in Requests, Leave(r) \/ Timeout(r)
        PROVE  Streams(g)' = {}
    <3>1. CASE pc[r] # "active"
      BY <2>0, <2>4, <3>1 DEF Leave, Timeout, conn
    <3>2. CASE pc[r] = "active"
      <4>1. PICK h \in Gens : h = held[r]
        BY <2>0, <3>2, LaneAssumption DEF HeldIsPublished, TaskType, Gens
      <4>2. /\ counts' = [counts EXCEPT ![h] = @ - 1]
            /\ counts[h] = 1
            /\ InvalidateConnection(h)
            /\ Forget(r, Notified(pc))
        BY <2>0, <2>4, <3>2, <4>1 DEF Leave, Timeout, LastOfPoisoned, conn
      <4>3. h = g /\ gen' = gen
        BY <2>2, <4>2 DEF InvalidateConnection, conn
      <4>4. Streams(h)' = {}
        BY <2>0, <3>2, <4>1, <4>2, <4>3, ForgetStream
      <4> QED
        BY <4>3, <4>4
    <3> QED
      BY <3>1, <3>2
  <2>5. ASSUME NEW r \in Requests, RequestStep(r),
               ~(Leave(r) \/ Timeout(r) \/ ReadyFails(r))
        PROVE  driver'[g] = driver[g]
    <3>1. CASE Publish(r)
      <4>1. gen + 1 # g
        BY <2>0, <2>1, LaneAssumption DEF ConnType
      <4>2. driver' \in {driver, [driver EXCEPT ![gen + 1] = "live"]}
        BY <3>1 DEF Publish, conn
      <4> QED
        BY <2>0, <4>1, <4>2 DEF ConnType
    <3>2. CASE ~Publish(r)
      BY <2>5, <3>2 DEF RequestStep, Start, AcquireLock, DialFails, Admit,
                        AwaitRetirement, StaleClone, Resume, conn
    <3> QED
      BY <3>1, <3>2
  <2>6. ASSUME NEW k \in Gens, DriverStep(k)
        PROVE  FALSE
    BY <1>1, <2>0, <2>6 DEF DriverStep, GoAway, ConnectionFinished,
                            AbortTakesEffect, ConnType
  <2>7. CASE Abort \/ StartClose \/ SettleClose
    BY <1>1, <2>7 DEF Abort, StartClose, SettleClose, Closed
  <2>8. CASE UNCHANGED vars
    BY <2>0, <2>8 DEF vars
  <2> QED
    BY <1>1, <2>3, <2>4, <2>5, <2>6, <2>7, <2>8 DEF Next
<1>2. IInv /\ [Next]_vars =>
        \A g \in Gens : driver[g] = "live" /\ driver'[g] = "aborting" /\ ~Closed'
                          => Streams(g)' = {}
  BY <1>1
<1> QED
  BY <1>2, Invariance, PTL DEF Spec, TimeoutSparesOthers

-----------------------------------------------------------------------------
(* LaneConnection implements ConnectionLife: the initial states map to       *)
(* initial states, and every step to a step or a stutter.                    *)

\* The refinement mapping, by name.
life == IF gen = 0 THEN "none" ELSE driver[gen]
accepting == {g \in Gens : Accepts(g)}
stream == [r \in Requests |-> IF pc[r] = "active" THEN held[r] ELSE 0]
closed == IF Closed THEN "yes" ELSE "no"

\* What is taken from the invariant of LaneConnection.
Facts ==
  /\ ConnType /\ TaskType /\ OneConnection /\ DriverIsCurrent
  /\ CountsAreStreams /\ WaiterIsOwedWakeup /\ HeldIsPublished
  /\ DialsWithoutSender /\ DialerHoldsLock

LEMMA InvariantFacts == IInv => Facts
BY DEF IInv, ConnInv, TaskInv, Facts

\* Accepting connections: the newest, or none.
LEMMA AcceptingIsNewest ==
  ASSUME ConnType
  PROVE  accepting = IF gen # 0 /\ sender = "some" /\ gen \notin poison
                     THEN {gen} ELSE {}
<1>1. gen # 0 => gen \in Gens
  BY LaneAssumption DEF ConnType, Gens
<1>2. \A g : g \in accepting <=>
               g \in Gens /\ g = gen /\ sender = "some" /\ g \notin poison
  BY DEF accepting, Accepts
<1>3. 0 \notin Gens
  BY DEF Gens
<1> QED
  BY <1>1, <1>2, <1>3

LEMMA AcceptingIsNewestNext ==
  ASSUME ConnType'
  PROVE  accepting' = IF gen' # 0 /\ sender' = "some" /\ gen' \notin poison'
                      THEN {gen'} ELSE {}
<1>1. gen' # 0 => gen' \in Gens
  BY LaneAssumption DEF ConnType, Gens
<1>2. \A g : g \in accepting' <=>
             g \in Gens /\ g = gen' /\ sender' = "some" /\ g \notin poison'
  BY DEF accepting, Accepts
<1>3. 0 \notin Gens
  BY DEF Gens
<1> QED
  BY <1>1, <1>2, <1>3

\* Only changes to the newest connection, to streams and to the phase show.
LEMMA Invisible ==
  ASSUME ConnType, ConnType', gen' = gen, sender' = sender,
         gen # 0 => driver'[gen] = driver[gen],
         gen # 0 => (gen \in poison' <=> gen \in poison),
         SameStreams, phase' = phase
  PROVE  UNCHANGED <<gen, life, accepting, stream, closed>>
<1>1. life' = life
  BY DEF life
<1>2. accepting' = accepting
  BY AcceptingIsNewest, AcceptingIsNewestNext
<1>3. stream' = stream
  BY DEF stream, SameStreams
<1> QED
  BY <1>1, <1>2, <1>3 DEF closed, Closed

\* A request that neither is nor becomes a stream moves.
LEMMA MovesAlone ==
  ASSUME TaskType, NEW r \in Requests, pc[r] # "active", pc'[r] # "active",
         \A q \in Requests \ {r} : pc'[q] = pc[q] /\ held'[q] = held[q]
  PROVE  SameStreams
BY DEF SameStreams

LEMMA EnterConnectMovesAlone ==
  ASSUME TaskType, NEW r \in Requests, pc[r] # "active", NEW a, NEW s,
         EnterConnect(r, a, s)
  PROVE  SameStreams
BY MovesAlone DEF EnterConnect, TaskType

LEMMA ForgetMovesAlone ==
  ASSUME TaskType, NEW r \in Requests, pc[r] # "active", Forget(r, pc)
  PROVE  SameStreams
BY MovesAlone DEF Forget, TaskType

-----------------------------------------------------------------------------
(* The steps of a request.                                                  *)

\* The request goes from one await to another, or is forgotten before it had
\* a stream.
LEMMA QuietRequestStep ==
  ASSUME Facts, ConnType', NEW r \in Requests,
         \/ Start(r) \/ AcquireLock(r) \/ DialFails(r)
         \/ AwaitRetirement(r) \/ StaleClone(r) \/ Resume(r)
         \/ (Publish(r) /\ Closed)
         \/ ((Leave(r) \/ Timeout(r)) /\ pc[r] # "active")
  PROVE  UNCHANGED <<gen, life, accepting, stream, closed>>
<1>0. ConnType /\ TaskType
  BY DEF Facts
<1>1. UNCHANGED <<gen, sender, driver, poison, phase>>
  BY DEF Start, AcquireLock, DialFails, AwaitRetirement, StaleClone, Resume,
         Publish, Leave, Timeout, conn, active, closing
<1>2. SameStreams
  <2>1. CASE Start(r) \/ StaleClone(r) \/ Resume(r)
    BY <1>0, <2>1, EnterConnectMovesAlone
    DEF Start, StaleClone, Resume, ReadySucceeds
  <2>2. CASE AcquireLock(r)
    <3>1. CASE EnterConnect(r, attempt[r], sender)
      BY <1>0, <2>2, <3>1, EnterConnectMovesAlone DEF AcquireLock
    <3>2. CASE pc' = [pc EXCEPT ![r] = "dial"] /\ UNCHANGED <<held, attempt>>
      BY <1>0, <2>2, <3>2, MovesAlone DEF AcquireLock, TaskType
    <3> QED
      BY <2>2, <3>1, <3>2 DEF AcquireLock
  <2>3. CASE DialFails(r) \/ (Publish(r) /\ Closed)
    BY <1>0, <2>3, ForgetMovesAlone DEF DialFails, Publish
  <2>4. CASE AwaitRetirement(r)
    BY <1>0, <2>4, MovesAlone DEF AwaitRetirement, ReadySucceeds, TaskType
  <2>5. CASE (Leave(r) \/ Timeout(r)) /\ pc[r] # "active"
    BY <1>0, <2>5, ForgetMovesAlone DEF Leave, Timeout
  <2> QED
    BY <2>1, <2>2, <2>3, <2>4, <2>5
<1> QED
  BY <1>0, <1>1, <1>2, Invisible

\* connect() publishes a connection: no other one runs.
LEMMA PublishConnects ==
  ASSUME Facts, ConnType', NEW r \in Requests, Publish(r), ~Closed
  PROVE  Life!Connect
<1>0. /\ ConnType /\ TaskType /\ gen \in Nat
      /\ gen' = gen + 1 /\ sender' = "some" /\ gen + 1 \in Gens
      /\ driver' = [driver EXCEPT ![gen + 1] = "live"]
      /\ pc' = [pc EXCEPT ![r] = "ready"]
      /\ held' = [held EXCEPT ![r] = gen + 1]
      /\ UNCHANGED <<poison, phase>> /\ pc[r] = "dial" /\ lock = r
  BY LaneAssumption DEF Facts, ConnType, Publish, active, closing, Gens,
                        DialerHoldsLock
<1>1. sender = "none"
  BY <1>0, LaneAssumption DEF Facts, DialsWithoutSender
<1>2. life \in {"none", "aborting", "ended"}
  <2>1. CASE gen = 0
    BY <2>1 DEF life
  <2>2. CASE gen # 0
    <3>1. gen \in Gens
      BY <1>0, <2>2, LaneAssumption DEF Gens, ConnType
    <3>2. ~Running(gen) /\ driver[gen] # "none"
      BY <1>0, <1>1, <2>2, <3>1 DEF Facts, OneConnection, DriverIsCurrent
    <3> QED
      BY <1>0, <2>2, <3>1, <3>2 DEF ConnType, Running, life
  <2> QED
    BY <2>1, <2>2
<1>3. gen' # 0 /\ life' = "live"
  BY <1>0 DEF life, ConnType
<1>4. accepting' = {gen + 1}
  <2>1. gen + 1 \notin poison
    <3>1. ASSUME NEW q \in Streams(gen + 1)
          PROVE  FALSE
      BY <1>0, <3>1 DEF Streams, Facts, HeldIsPublished
    <3> QED
      BY <1>0, <3>1 DEF Facts, WaiterIsOwedWakeup
  <2> QED
    BY <1>0, <1>3, <2>1, AcceptingIsNewestNext
<1>5. stream' = stream
  <2>1. SameStreams
    BY <1>0, MovesAlone DEF TaskType
  <2> QED
    BY <2>1 DEF stream, SameStreams
<1> QED
  BY <1>0, <1>2, <1>3, <1>4, <1>5
  DEF Life!Connect, life, accepting, stream, closed, Closed

\* The sender clone is of the connection that takes streams.
LEMMA AdmitAdmits ==
  ASSUME Facts, ConnType', NEW r \in Requests, Admit(r)
  PROVE  Life!Admit(r)
<1>0. /\ ConnType /\ TaskType /\ pc[r] = "ready"
      /\ gen = held[r] /\ sender = "some" /\ gen \notin poison
      /\ pc' = [pc EXCEPT ![r] = "active"]
      /\ UNCHANGED <<gen, sender, driver, poison, held, phase>>
  BY DEF Facts, Admit, ReadySucceeds, conn, closing
<1>1. gen # 0
  BY <1>0, LaneAssumption DEF Facts, HeldIsPublished
<1>2. gen \in accepting /\ accepting' = accepting
  BY <1>0, <1>1, AcceptingIsNewest, AcceptingIsNewestNext
<1>3. stream[r] = 0 /\ stream' = [stream EXCEPT ![r] = gen]
  BY <1>0 DEF stream, TaskType
<1>4. UNCHANGED <<gen, life, closed>>
  BY <1>0 DEF life, closed, Closed
<1> QED
  BY <1>2, <1>3, <1>4 DEF Life!Admit, life, accepting, stream, closed

\* What dropping the newest connection shows: it takes no more streams, and it
\* is aborted if it was still running.
LEMMA InvalidateShows ==
  ASSUME Facts, ConnType', gen \in Gens, InvalidateConnection(gen)
  PROVE  /\ gen' = gen /\ accepting' = {} /\ life = driver[gen]
         /\ life' = IF Running(gen) THEN "aborting" ELSE life
<1>0. /\ ConnType /\ DriverIsCurrent /\ gen # 0
      /\ gen' = gen /\ sender' = "none" /\ driver' = Aborted({slot})
  BY DEF Facts, InvalidateConnection, Gens
<1>1. accepting' = {}
  BY <1>0, AcceptingIsNewestNext
<1>2. driver'[gen] = IF Running(gen) THEN "aborting" ELSE driver[gen]
  BY <1>0 DEF Aborted, DriverIsCurrent
<1> QED
  BY <1>0, <1>1, <1>2 DEF life

\* A connection without streams for new requests is dropped for another one.
LEMMA ReadyFailsGivesUp ==
  ASSUME Facts, ConnType', NEW r \in Requests, ReadyFails(r)
  PROVE  Life!GiveUp \/ UNCHANGED <<gen, life, accepting, stream, closed>>
<1>0. /\ ConnType /\ TaskType /\ OneConnection /\ pc[r] = "ready"
      /\ driver[held[r]] \in {"draining", "ended"}
      /\ UNCHANGED <<poison, phase>>
  BY DEF Facts, ReadyFails, active, closing
<1>1. held[r] \in Gens
  BY <1>0, LaneAssumption DEF Facts, HeldIsPublished, ConnType, Gens
<1>2. SameStreams
  <2>1. CASE attempt[r] = 0
    BY <1>0, <2>1, EnterConnectMovesAlone DEF ReadyFails
  <2>2. CASE attempt[r] # 0
    BY <1>0, <2>2, ForgetMovesAlone DEF ReadyFails
  <2> QED
    BY <2>1, <2>2
<1>3. stream' = stream /\ closed' = closed
  BY <1>0, <1>2 DEF stream, SameStreams, closed, Closed
<1>4. CASE UNCHANGED conn
  BY <1>0, <1>2, <1>4, Invisible DEF conn
<1>5. CASE InvalidateConnection(held[r]) /\ gen = held[r]
  <2>1. /\ gen' = gen /\ accepting' = {} /\ life = driver[gen]
        /\ life' = IF Running(gen) THEN "aborting" ELSE life
    BY <1>1, <1>5, InvalidateShows
  <2>2. CASE Running(gen)
    <3>1. life = "draining" /\ life' = "aborting"
      BY <1>0, <1>5, <2>1, <2>2 DEF Running
    <3> QED
      BY <1>3, <2>1, <3>1 DEF Life!GiveUp, life, accepting, stream, closed
  <2>3. CASE ~Running(gen)
    <3>1. sender = "none"
      BY <1>0, <2>3 DEF OneConnection, ConnType
    <3>2. accepting = {}
      BY <1>0, <3>1, AcceptingIsNewest
    <3> QED
      BY <1>3, <2>1, <2>3, <3>2
  <2> QED
    BY <2>2, <2>3
<1> QED
  BY <1>4, <1>5 DEF ReadyFails, InvalidateConnection

\* The end of a stream, whatever ended it.  Its connection is dropped only by
\* the guard of the last one, so that nobody else's stream is cut.
LEMMA EndEnds ==
  ASSUME Facts, TaskInv, ConnType', NEW r \in Requests, pc[r] = "active",
         Leave(r) \/ Timeout(r)
  PROVE  Life!End(r)
<1>0. /\ ConnType /\ TaskType /\ OneConnection /\ closed' = closed
      /\ held[r] \in Gens /\ held[r] # 0
  BY LaneAssumption DEF Facts, Leave, Timeout, closing, closed, Closed,
                        HeldIsPublished, ConnType, Gens
<1>1. PICK h \in Gens : h = held[r] /\ h # 0
  BY <1>0
<1>2. counts' = [counts EXCEPT ![h] = @ - 1]
  BY <1>1 DEF Leave, Timeout
<1>3. stream[r] = h
  BY <1>1 DEF stream
<1>4. ASSUME NEW p, p \in {pc, Notified(pc)}, Forget(r, p)
      PROVE  /\ stream' = [stream EXCEPT ![r] = 0]
             /\ \A q \in Requests \ {r} :
                  stream[q] = h => q \in Streams(h)'
  <2>1. \A q \in Requests \ {r} :
          /\ held'[q] = held[q]
          /\ pc'[q] = "active" <=> pc[q] = "active"
    BY <1>0, <1>4 DEF Forget, Notified, TaskType
  <2>2. pc'[r] # "active"
    BY <1>0, <1>4 DEF Forget, Notified, TaskType
  <2> QED
    BY <1>1, <2>1, <2>2 DEF stream, Streams
<1>5. CASE /\ counts[h] = 1 /\ poison' = poison \ {h}
           /\ InvalidateConnection(h) /\ Forget(r, Notified(pc))
  <2>1. stream' = [stream EXCEPT ![r] = 0]
    BY <1>4, <1>5
  <2>2. CASE gen # h
    <3>1. UNCHANGED <<gen, sender, driver>>
      BY <1>5, <2>2 DEF InvalidateConnection, conn
    <3>2. UNCHANGED <<gen, life, accepting>>
      BY <1>0, <1>5, <2>2, <3>1, AcceptingIsNewest, AcceptingIsNewestNext
      DEF life
    <3> QED
      BY <1>0, <1>1, <1>3, <2>1, <3>2
      DEF Life!End, life, accepting, stream, closed
  <2>3. CASE gen = h
    <3>1. /\ gen' = gen /\ accepting' = {} /\ life = driver[gen]
          /\ life' = IF Running(gen) THEN "aborting" ELSE life
      BY <1>5, <2>3, InvalidateShows
    <3>2. Streams(h)' = {}
      BY <1>1, <1>2, <1>5, <3>1, ForgetStream
    <3>3. \A q \in Requests \ {r} : stream[q] # gen
      BY <1>4, <1>5, <2>3, <3>2
    <3>4. \/ life' = life
          \/ life \in {"live", "draining"} /\ life' = "aborting"
      BY <3>1 DEF Running
    <3> QED
      BY <1>0, <1>1, <1>3, <2>1, <2>3, <3>1, <3>3, <3>4
      DEF Life!End, Life!OnlyFor, life, accepting, stream, closed
  <2> QED
    BY <2>2, <2>3
<1>6. CASE /\ poison' \in {poison, poison \cup {h}}
           /\ UNCHANGED conn /\ Forget(r, pc)
  <2>1. stream' = [stream EXCEPT ![r] = 0]
    BY <1>4, <1>6
  <2>2. UNCHANGED <<gen, sender, life>>
    BY <1>6 DEF conn, life
  <2>3. \/ accepting' = accepting
        \/ h = gen /\ accepting' = {}
    BY <1>0, <1>6, <2>2, AcceptingIsNewest, AcceptingIsNewestNext
  <2> QED
    BY <1>0, <1>1, <1>3, <2>1, <2>2, <2>3
    DEF Life!End, life, accepting, stream, closed
<1>7. CASE Leave(r)
  BY <1>1, <1>5, <1>6, <1>7 DEF Leave, LastOfPoisoned
<1>8. CASE Timeout(r)
  BY <1>1, <1>5, <1>6, <1>8 DEF Timeout
<1> QED
  BY <1>7, <1>8

-----------------------------------------------------------------------------
(* The steps of the connection task, and the closing of the lane.           *)

LEMMA DriverStepShows ==
  ASSUME Facts, ConnType', NEW g \in Gens, DriverStep(g)
  PROVE  \/ Life!GoAway \/ Life!Ends
         \/ UNCHANGED <<gen, life, accepting, stream, closed>>
<1>0. /\ ConnType /\ TaskType /\ OneConnection /\ g # 0
      /\ UNCHANGED <<gen, poison, phase>> /\ closed' = closed
  BY DEF Facts, DriverStep, GoAway, ConnectionFinished, AbortTakesEffect,
         active, closing, closed, Closed, Gens
<1>1. SameStreams
  BY DEF DriverStep, GoAway, ConnectionFinished, AbortTakesEffect, task,
         SameStreams, Notified
<1>2. stream' = stream
  BY <1>1 DEF stream, SameStreams
<1>3. CASE GoAway(g)
  <2>1. g = gen /\ sender' = sender
    BY <1>0, <1>3 DEF GoAway, OneConnection, Running
  <2>2. life = "live" /\ life' = "draining"
    BY <1>0, <1>3, <2>1 DEF GoAway, life, ConnType
  <2>3. accepting' = accepting
    BY <1>0, <2>1, AcceptingIsNewest, AcceptingIsNewestNext
  <2> QED
    BY <1>0, <1>2, <2>2, <2>3
    DEF Life!GoAway, life, accepting, stream, closed
<1>4. CASE ConnectionFinished(g)
  <2>1. g = gen /\ sender' = "none"
    BY <1>0, <1>4 DEF ConnectionFinished, OneConnection
  <2>2. life \in {"live", "draining"} /\ life' = "ended"
    BY <1>0, <1>4, <2>1 DEF ConnectionFinished, life, ConnType, Running
  <2>3. accepting' = {}
    BY <2>1, AcceptingIsNewestNext
  <2> QED
    BY <1>0, <1>2, <2>2, <2>3 DEF Life!Ends, life, accepting, stream, closed
<1>5. CASE AbortTakesEffect(g) /\ g = gen
  <2>1. life = "aborting" /\ life' = "ended" /\ sender' = sender
    BY <1>0, <1>5 DEF AbortTakesEffect, life, ConnType
  <2>2. sender = "none"
    BY <1>0, <1>5 DEF AbortTakesEffect, OneConnection, Running, ConnType
  <2>3. accepting' = {}
    BY <2>1, <2>2, AcceptingIsNewestNext
  <2> QED
    BY <1>0, <1>2, <2>1, <2>3 DEF Life!Ends, life, accepting, stream, closed
<1>6. CASE AbortTakesEffect(g) /\ g # gen
  <2>1. sender' = sender /\ (gen # 0 => driver'[gen] = driver[gen])
    BY <1>0, <1>6, LaneAssumption DEF AbortTakesEffect, ConnType, Gens
  <2> QED
    BY <1>0, <1>1, <2>1, Invisible
<1> QED
  BY <1>3, <1>4, <1>5, <1>6 DEF DriverStep

\* Only the first step of a close shows.
LEMMA CloseShows ==
  ASSUME Facts, ConnType', Abort \/ StartClose \/ SettleClose
  PROVE  \/ Life!Close
         \/ UNCHANGED <<gen, life, accepting, stream, closed>>
<1>0. /\ ConnType /\ OneConnection /\ DriverIsCurrent
      /\ gen' = gen /\ sender' = "none" /\ phase' # "open"
      /\ driver' = Aborted({slot} \cup retired)
      /\ UNCHANGED <<poison, pc, held>>
  BY DEF Facts, Abort, StartClose, SettleClose, TakeTasks, active, task
<1>1. accepting' = {} /\ closed' = "yes" /\ stream' = stream
  BY <1>0, AcceptingIsNewestNext DEF closed, Closed, stream
<1>2. gen # 0 => gen \in Gens
  BY <1>0, LaneAssumption DEF ConnType, Gens
<1>3. life' = IF life \in {"live", "draining"} THEN "aborting" ELSE life
  BY <1>0, <1>2 DEF life, Aborted, Running, DriverIsCurrent
<1>4. CASE ~Closed
  BY <1>0, <1>1, <1>3, <1>4
  DEF Life!Close, life, accepting, stream, closed
<1>5. CASE Closed
  <2>1. sender = "none" /\ (gen # 0 => ~Running(gen))
    BY <1>0, <1>2, <1>5 DEF OneConnection, ConnType, DriverIsCurrent
  <2>2. accepting = {}
    BY <1>0, <2>1, AcceptingIsNewest
  <2>3. life' = life
    BY <1>3, <2>1 DEF life, Running
  <2> QED
    BY <1>0, <1>1, <1>5, <2>2, <2>3 DEF closed
<1> QED
  BY <1>4, <1>5

-----------------------------------------------------------------------------
(* The refinement.                                                          *)

LEMMA InitImplements == Init => Life!Init
BY DEF Init, Life!Init, Accepts, Closed

LEMMA StepImplements ==
  ASSUME IInv, IInv', [Next]_vars
  PROVE  [Life!Next]_Life!vars
<1>0. Facts /\ TaskInv /\ ConnType'
  BY InvariantFacts DEF IInv, ConnInv
<1>1. \/ Life!Next
      \/ UNCHANGED <<gen, life, accepting, stream, closed>>
  <2>1. ASSUME NEW r \in Requests, RequestStep(r)
        PROVE  \/ Life!Next
               \/ UNCHANGED <<gen, life, accepting, stream, closed>>
    <3>1. CASE \/ Start(r) \/ AcquireLock(r) \/ DialFails(r)
               \/ AwaitRetirement(r) \/ StaleClone(r) \/ Resume(r)
               \/ (Publish(r) /\ Closed)
               \/ ((Leave(r) \/ Timeout(r)) /\ pc[r] # "active")
      BY <1>0, <3>1, QuietRequestStep
    <3>2. CASE Publish(r) /\ ~Closed
      BY <1>0, <3>2, PublishConnects DEF Life!Next
    <3>3. CASE ReadyFails(r)
      BY <1>0, <3>3, ReadyFailsGivesUp DEF Life!Next
    <3>4. CASE Admit(r)
      BY <1>0, <3>4, AdmitAdmits DEF Life!Next
    <3>5. CASE (Leave(r) \/ Timeout(r)) /\ pc[r] = "active"
      BY <1>0, <3>5, EndEnds DEF Life!Next
    <3> QED
      BY <2>1, <3>1, <3>2, <3>3, <3>4, <3>5 DEF RequestStep
  <2>2. ASSUME NEW g \in Gens, DriverStep(g)
        PROVE  \/ Life!Next
               \/ UNCHANGED <<gen, life, accepting, stream, closed>>
    BY <1>0, <2>2, DriverStepShows DEF Life!Next
  <2>3. CASE Abort \/ StartClose \/ SettleClose
    BY <1>0, <2>3, CloseShows DEF Life!Next
  <2>4. CASE UNCHANGED vars
    BY <2>4 DEF vars, life, accepting, Accepts, stream, closed, Closed
  <2> QED
    BY <2>1, <2>2, <2>3, <2>4 DEF Next
<1> QED
  BY <1>1 DEF Life!vars, life, accepting, stream, closed

\* The lane keeps the promises of ConnectionLife, whatever its requests, its
\* connection tasks and its closer do: one connection at a time, none that
\* takes streams again, and none aborted under streams of others unless the
\* origin sent a GOAWAY or the lane closes.
THEOREM LaneRefines == Spec => ImplementsConnectionLife
<1>1. IInv /\ IInv' /\ [Next]_vars => [Life!Next]_Life!vars
  BY StepImplements
<1> QED
  BY <1>1, InitImplements, Invariance, PTL
  DEF Spec, Life!Spec, ImplementsConnectionLife

=============================================================================

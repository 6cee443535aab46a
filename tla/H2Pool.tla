------------------------------- MODULE H2Pool -------------------------------
(***************************************************************************)
(* The pool of HTTP/2 lanes (src/cf_h2.rs, CfH2Pool): one cached lane per  *)
(* origin host, at most MAX_LIVE_LANES lanes alive, cold set-ups one at a  *)
(* time under setup_lock, eviction of an idle lane when no slot is left,   *)
(* cancelled set-ups, and the closing of the whole pool.                   *)
(*                                                                         *)
(* A lane is alive while something refers to it (its Arc): the cache, the  *)
(* list of tracked lanes, a set-up or an eviction in progress, a channel   *)
(* or its request tasks, or close().  Its slot of the semaphore is held    *)
(* exactly that long, so the free slots are those of no live lane.  The    *)
(* tasks of a lane (its connection and its requests) are one value here;   *)
(* LaneConnection models them one by one.                                  *)
(*                                                                         *)
(* MAX_CACHED_LANES is MAX_LIVE_LANES, so that the cache always has room   *)
(* for a lane that is alive and not in it: what cache_lane() does when     *)
(* there is none never happens, and is left out.                           *)
(*                                                                         *)
(* A host or a lane in its cooldown makes open() return without effect,    *)
(* which every step of an opener may do: it is a stuttering step.          *)
(***************************************************************************)
EXTENDS Integers, FiniteSets

CONSTANTS
  Openers,    \* bridges that open a channel
  Hosts,      \* origin hosts
  Lanes,      \* lane identities, reused when nothing refers to them
  NoLane, Nobody, Closer,
  MaxLive     \* MAX_LIVE_LANES

ASSUME PoolAssumption ==
  /\ IsFiniteSet(Lanes) /\ IsFiniteSet(Hosts) /\ Hosts # {}
  /\ NoLane \notin Lanes
  /\ Nobody \notin Openers /\ Closer \notin Openers /\ Nobody # Closer
  /\ MaxLive \in Nat

VARIABLES
  cache,    \* lanes: the cached lane of each host
  tracked,  \* all_lanes
  host,     \* host of each lane
  shut,     \* lanes whose closed flag is set
  work,     \* tasks of each lane
  taken,    \* lanes whose task handles were handed to whoever closes them
  setup,    \* holder of setup_lock
  pc,       \* where each opener is suspended, or "open" with its channel
  want,     \* host each opener asks for
  own,      \* lane an opener sets up, or the lane of its channel
  victim,   \* lane an opener evicts
  closer,   \* progress of close()
  closing   \* lanes close() waits for

lanes == <<host, shut, work, taken>>
openers == <<pc, want, own, victim>>
vars == <<cache, tracked, host, shut, work, taken, setup, pc, want, own,
          victim, closer, closing>>

Closed == closer # "none"
Cached == {cache[h] : h \in Hosts} \ {NoLane}

\* The channel is alive in an open bridge; aborted request tasks linger on.
HasLiveChannels(l) == \E o \in Openers : own[o] = l /\ pc[o] = "open"

\* References besides those of the cache and of the tracked list.
InUse(l) == (\E o \in Openers : l \in {own[o], victim[o]}) \/ l \in closing
Alive(l) == l \in Cached \/ l \in tracked \/ InUse(l)

\* The types of the pool's state, of the lanes and of the openers.
TypeOK ==
  /\ cache \in [Hosts -> Lanes \cup {NoLane}]
  /\ tracked \subseteq Lanes /\ shut \subseteq Lanes /\ taken \subseteq Lanes
  /\ host \in [Lanes -> Hosts]
  /\ work \in [Lanes -> {"none", "running", "stopping"}]
  /\ setup \in Openers \cup {Nobody, Closer}
  /\ pc \in [Openers -> {"idle", "queue", "evict", "preflight", "open", "leaving"}]
  /\ want \in [Openers -> Hosts]
  /\ own \in [Openers -> Lanes \cup {NoLane}]
  /\ victim \in [Openers -> Lanes \cup {NoLane}]
  /\ closer \in {"none", "waiting", "draining", "done"}
  /\ closing \subseteq Lanes

Init ==
  /\ cache = [h \in Hosts |-> NoLane] /\ tracked = {}
  /\ host = [l \in Lanes |-> CHOOSE h \in Hosts : TRUE]
  /\ shut = {} /\ taken = {} /\ work = [l \in Lanes |-> "none"]
  /\ setup = Nobody
  /\ pc = [o \in Openers |-> "idle"]
  /\ want = [o \in Openers |-> CHOOSE h \in Hosts : TRUE]
  /\ own = [o \in Openers |-> NoLane]
  /\ victim = [o \in Openers |-> NoLane]
  /\ closer = "none" /\ closing = {}

-----------------------------------------------------------------------------
(* Pieces of the handlers.                                                  *)

\* Faulty: an idle lane is forgotten without having been closed.
ReapableOpen(l) ==
  /\ ~HasLiveChannels(l)
  /\ ~\E o \in Openers : own[o] = l

\* reap_if_quiescent(l): closed, without channels, and without unfinished tasks
\* among the handles the lane still holds.
Reapable(l) ==
  /\ l \in shut /\ ~HasLiveChannels(l)
  /\ l \notin taken =>
       work[l] = "none" /\ ~\E o \in Openers : own[o] = l /\ pc[o] = "leaving"

\* prune_tracked_lanes()
Pruned(ls) == {l \in ls : ~Reapable(l)}

\* Faulty: the tasks are not aborted.
StoppedNot(ls) == work

\* Aborting the tasks of these lanes.
Stopped(ls) ==
  [l \in Lanes |-> IF l \in ls /\ work[l] = "running" THEN "stopping" ELSE work[l]]

\* close() of one lane: its handles stay with it.
CloseLane(l) ==
  /\ shut' = shut \cup {l}
  /\ work' = Stopped({l})
  /\ UNCHANGED <<host, taken>>

\* start_close() of these lanes: their handles go to the caller.
StartClose(ls) ==
  /\ shut' = shut \cup ls
  /\ work' = Stopped(ls)
  /\ taken' = taken \cup ls
  /\ UNCHANGED host

\* Faulty: the references are not counted, so a lane in use counts as idle.
EvictableBusy == {h \in Hosts : cache[h] # NoLane}

\* Hosts whose cached lane is idle: nothing but the cache and the tracked list
\* refers to it.  Which of them was used last is left open.
Evictable ==
  {h \in Hosts : cache[h] # NoLane /\ ~InUse(cache[h])}

\* track_lane(l)
Track(kept, l) == kept \cup {l}

\* Lanes alive once the tracked list is kept and o has dropped its references.
AliveWithout(o, kept) ==
  (Cached \cup kept \cup closing \cup {own[q] : q \in Openers \ {o}}
     \cup {victim[q] : q \in Openers \ {o}}) \ {NoLane}

SlotFree(o, kept) == Cardinality(AliveWithout(o, kept)) < MaxLive

\* A slot is free: Lane::new(), track_lane, and the preflight begins.
SetUp(o, kept) ==
  \E l \in Lanes \ AliveWithout(o, kept) :
    /\ tracked' = Track(kept, l)
    /\ host' = [host EXCEPT ![l] = want[o]]
    /\ shut' = shut \ {l} /\ taken' = taken \ {l}
    /\ work' = [work EXCEPT ![l] = "none"]
    /\ own' = [own EXCEPT ![o] = l]
    /\ victim' = [victim EXCEPT ![o] = NoLane]
    /\ pc' = [pc EXCEPT ![o] = "preflight"]
    /\ setup' = o
    /\ UNCHANGED want

\* open() is over: without a channel, or with one on l.  setup_lock is released.
Leave(o, to, l) ==
  /\ pc' = [pc EXCEPT ![o] = to]
  /\ own' = [own EXCEPT ![o] = l]
  /\ victim' = [victim EXCEPT ![o] = NoLane]
  /\ setup' = IF setup = o THEN Nobody ELSE setup
  /\ UNCHANGED want

Return(o) == Leave(o, "idle", NoLane)
HandOut(o, l) == Leave(o, "open", l)

-----------------------------------------------------------------------------
(* open(), from the call to the channel.                                    *)

\* A cached lane is shared at once; otherwise queue for a cold set-up.
Open(o, h) ==
  /\ pc[o] = "idle" /\ ~Closed
  /\ \/ /\ cache[h] \in Lanes \ shut
        /\ HandOut(o, cache[h])
     \/ /\ cache[h] = NoLane
        /\ pc' = [pc EXCEPT ![o] = "queue"] /\ want' = [want EXCEPT ![o] = h]
        /\ UNCHANGED <<own, victim, setup>>
  /\ UNCHANGED <<cache, tracked, lanes, closer, closing>>

\* setup_lock is granted; nothing is done for a pool closed meanwhile, nor for a
\* host whose lane another opener has cached meanwhile.
Granted(o) == pc[o] = "queue" /\ setup = Nobody

RefusedByClose(o) ==
  /\ Granted(o) /\ Closed
  /\ Return(o)
  /\ UNCHANGED <<cache, tracked, lanes, closer, closing>>

FoundCached(o) ==
  /\ Granted(o) /\ ~Closed /\ cache[want[o]] # NoLane
  /\ IF cache[want[o]] \in shut THEN Return(o) ELSE HandOut(o, cache[want[o]])
  /\ UNCHANGED <<cache, tracked, lanes, closer, closing>>

\* Faulty: the cache is not read again under setup_lock.
StartSetUpUnchecked(o) ==
  /\ Granted(o) /\ ~Closed
  /\ SlotFree(o, Pruned(tracked))
  /\ SetUp(o, Pruned(tracked))
  /\ UNCHANGED <<cache, closer, closing>>

\* A slot is free after pruning the tracked lanes.
StartSetUp(o) ==
  /\ Granted(o) /\ ~Closed /\ cache[want[o]] = NoLane
  /\ SlotFree(o, Pruned(tracked))
  /\ SetUp(o, Pruned(tracked))
  /\ UNCHANGED <<cache, closer, closing>>

\* No slot: evict an idle lane, or give up and let the caller use its fallback.
StartEviction(o) ==
  /\ Granted(o) /\ ~Closed /\ cache[want[o]] = NoLane
  /\ tracked' = Pruned(tracked)
  /\ ~SlotFree(o, tracked')
  /\ \/ \E h \in Evictable :
          /\ cache' = [cache EXCEPT ![h] = NoLane]
          /\ victim' = [victim EXCEPT ![o] = cache[h]]
          /\ StartClose({cache[h]})
          /\ pc' = [pc EXCEPT ![o] = "evict"] /\ setup' = o
          /\ UNCHANGED <<want, own>>
     \/ /\ Evictable = {}
        /\ Return(o)
        /\ UNCHANGED <<cache, lanes>>
  /\ UNCHANGED <<closer, closing>>

\* The evicted lane's tasks are gone: take its slot.
EvictionDone(o) ==
  /\ pc[o] = "evict" /\ work[victim[o]] = "none"
  /\ \/ /\ ~Closed /\ SlotFree(o, Pruned(tracked))
        /\ SetUp(o, Pruned(tracked))
     \/ /\ Closed \/ ~SlotFree(o, Pruned(tracked))
        /\ tracked' = Pruned(tracked)
        /\ Return(o)
        /\ UNCHANGED lanes
  /\ UNCHANGED <<cache, closer, closing>>

\* Faulty: the guard of the set-up is never disarmed.
PreflightOkArmed(o) ==
  /\ pc[o] = "preflight" /\ work[own[o]] = "running"
  /\ CloseLane(own[o])
  /\ IF Closed
     THEN Return(o) /\ UNCHANGED cache
     ELSE /\ cache' = [cache EXCEPT ![want[o]] = own[o]]
          /\ HandOut(o, own[o])
  /\ UNCHANGED <<tracked, closer, closing>>

\* The preflight was answered: hand out a channel and cache the lane.
PreflightOk(o) ==
  /\ pc[o] = "preflight" /\ work[own[o]] = "running"
  /\ IF Closed
     THEN CloseLane(own[o]) /\ Return(o) /\ UNCHANGED cache
     ELSE /\ cache' = [cache EXCEPT ![want[o]] = own[o]]
          /\ HandOut(o, own[o])
          /\ UNCHANGED lanes
  /\ UNCHANGED <<tracked, closer, closing>>

\* The preflight failed or took SETUP_TIMEOUT.
PreflightFails(o) ==
  /\ pc[o] = "preflight"
  /\ CloseLane(own[o])
  /\ Return(o)
  /\ UNCHANGED <<cache, tracked, closer, closing>>

\* The bridge gives up on open(): its future is dropped where it is suspended,
\* and an armed LaneSetupGuard closes the lane.
Cancel(o) ==
  /\ pc[o] \in {"queue", "evict", "preflight"}
  /\ IF pc[o] = "preflight" THEN CloseLane(own[o]) ELSE UNCHANGED lanes
  /\ Return(o)
  /\ UNCHANGED <<cache, tracked, closer, closing>>

-----------------------------------------------------------------------------
(* Channels and the tasks of a lane.                                        *)

\* The bridge ends.  Its aborted request tasks keep the lane a little longer.
DropChannel(o) ==
  /\ pc[o] = "open"
  /\ pc' = [pc EXCEPT ![o] = "leaving"]
  /\ UNCHANGED <<cache, tracked, lanes, want, own, victim, setup, closer, closing>>

RequestTasksGone(o) ==
  /\ pc[o] = "leaving"
  /\ Return(o)
  /\ UNCHANGED <<cache, tracked, lanes, closer, closing>>

\* A preflight or a request establishes a connection.
Connect(l) ==
  /\ work[l] = "none" /\ l \notin shut
  /\ \E o \in Openers : own[o] = l /\ pc[o] \in {"preflight", "open"}
  /\ work' = [work EXCEPT ![l] = "running"]
  /\ UNCHANGED <<cache, tracked, host, shut, taken, openers, setup, closer, closing>>

\* The connection ends by itself, or an aborted task is dropped.
TasksEnd(l) ==
  /\ work[l] # "none"
  /\ work' = [work EXCEPT ![l] = "none"]
  /\ UNCHANGED <<cache, tracked, host, shut, taken, openers, setup, closer, closing>>

-----------------------------------------------------------------------------
(* close(): refuse new openers, wait for the set-up in progress, then close  *)
(* every lane and wait for its tasks.                                       *)

RequestClose ==
  /\ closer = "none"
  /\ closer' = "waiting"
  /\ UNCHANGED <<cache, tracked, lanes, openers, setup, closing>>

\* Faulty: close() does not wait for the set-up in progress.
CloseAllAtOnce ==
  /\ closer = "waiting"
  /\ closer' = "draining"
  /\ closing' = Cached \cup tracked
  /\ StartClose(closing')
  /\ cache' = [h \in Hosts |-> NoLane] /\ tracked' = {}
  /\ UNCHANGED <<openers, setup>>

\* close() has setup_lock, so that no set-up is in progress.
CloseAll ==
  /\ closer = "waiting" /\ setup = Nobody
  /\ setup' = Closer
  /\ closer' = "draining"
  /\ closing' = Cached \cup tracked
  /\ StartClose(closing')
  /\ cache' = [h \in Hosts |-> NoLane] /\ tracked' = {}
  /\ UNCHANGED openers

CloseDone ==
  /\ closer = "draining"
  /\ \A l \in closing :
       work[l] = "none" /\ ~\E o \in Openers : own[o] = l /\ pc[o] = "leaving"
  /\ closer' = "done" /\ closing' = {} /\ setup' = Nobody
  /\ UNCHANGED <<cache, tracked, lanes, openers>>

-----------------------------------------------------------------------------
OpenerStep(o) ==
  \/ \E h \in Hosts : Open(o, h)
  \/ RefusedByClose(o) \/ FoundCached(o) \/ StartSetUp(o) \/ StartEviction(o)
  \/ EvictionDone(o) \/ PreflightOk(o) \/ PreflightFails(o) \/ Cancel(o)
  \/ DropChannel(o) \/ RequestTasksGone(o)

Next ==
  \/ \E o \in Openers : OpenerStep(o)
  \/ \E l \in Lanes : Connect(l) \/ TasksEnd(l)
  \/ RequestClose \/ CloseAll \/ CloseDone

Spec == Init /\ [][Next]_vars

(* setup_lock is granted in order; a preflight ends within SETUP_TIMEOUT; an *)
(* aborted task is dropped.  No fairness is assumed of cancellation, of the  *)
(* end of a bridge, or of a connection that runs.                            *)
Fairness ==
  /\ \A o \in Openers :
       /\ SF_vars(RefusedByClose(o) \/ FoundCached(o) \/ StartSetUp(o)
                    \/ StartEviction(o))
       /\ WF_vars(EvictionDone(o) \/ RequestTasksGone(o))
       /\ WF_vars(PreflightOk(o) \/ PreflightFails(o))
  /\ \A l \in Lanes : WF_vars(work[l] = "stopping" /\ TasksEnd(l))
  /\ SF_vars(CloseAll) /\ WF_vars(CloseDone)

FairSpec == Spec /\ Fairness

-----------------------------------------------------------------------------
(* Properties.                                                              *)

\* Until close() takes the cache, a cached lane is open and of its host.  A
\* closed lane left in the cache would make open() refuse its host for good.
CachedIsOpen ==
  \A h \in Hosts :
    cache[h] # NoLane => cache[h] \notin shut /\ host[cache[h]] = h

\* An origin never has two open lanes: set-ups queue, look again, and leave.
OneLanePerHost ==
  \A k, l \in Lanes :
    Alive(k) /\ Alive(l) /\ {k, l} \cap shut = {} /\ host[k] = host[l] => k = l

\* A lane with tasks nobody aborted is in all_lanes, through cancellations,
\* failed set-ups and evictions: close() finds it.
RunningIsTracked == \A l \in Lanes : work[l] = "running" => l \in tracked

\* While the pool is open, no eviction, cancelled set-up or failure of another
\* opener closes the lane of a channel in use.
OpenChannelsKeepTheirLane ==
  [][\A o \in Openers :
       pc[o] = "open" /\ own[o] \notin shut /\ own[o] \in shut' => Closed]_vars

\* An opener waiting for a set-up gets its turn.
QueueMoves == \A o \in Openers : pc[o] = "queue" ~> pc[o] # "queue"

\* Nothing is cached, tracked, running or being set up.
Quiet ==
  /\ Cached = {} /\ tracked = {}
  /\ \A l \in Lanes : work[l] # "running"
  /\ \A o \in Openers : pc[o] \notin {"evict", "preflight"}

\* close() ends, whatever its lanes and openers were doing, and when it has
\* returned no lane runs or is being set up.
CloseEnds ==
  /\ Closed ~> closer = "done"
  /\ [](closer = "done" => Quiet)

=============================================================================

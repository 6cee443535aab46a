---------------------------- MODULE H2Pool_proofs ----------------------------
(***************************************************************************)
(* Theorems about H2Pool, for any number of openers, hosts, lanes and      *)
(* slots.                                                                  *)
(***************************************************************************)
EXTENDS H2Pool, TLAPS

-----------------------------------------------------------------------------
(* The inductive invariant.                                                 *)

\* setup_lock: a set-up or an eviction holds it, and so does close() while it
\* drains the lanes.
LockInv ==
  /\ \A o \in Openers : pc[o] \in {"evict", "preflight"} => setup = o
  /\ closer = "draining" => setup = Closer

\* A lane is set up open, for a host that has none.
SetUpInv ==
  \A o \in Openers :
    /\ pc[o] \in {"evict", "preflight"} => cache[want[o]] = NoLane
    /\ pc[o] = "preflight" => own[o] \in Lanes \ shut /\ host[own[o]] = want[o]

\* An open lane something refers to is cached or being set up, and tracked.
OpenInv ==
  \A l \in Lanes :
    Alive(l) /\ l \notin shut =>
      /\ l \in tracked
      /\ \/ cache[host[l]] = l
         \/ \E o \in Openers : pc[o] = "preflight" /\ own[o] = l

\* Only open lanes run.
WorkInv == \A l \in Lanes : work[l] = "running" => l \in tracked /\ l \notin shut

IInv == TypeOK /\ LockInv /\ SetUpInv /\ OpenInv /\ WorkInv /\ CachedIsOpen

LEMMA InitIInv == Init => IInv
<1> SUFFICES ASSUME Init
             PROVE  IInv
  OBVIOUS
<1>1. (CHOOSE h \in Hosts : TRUE) \in Hosts
  BY PoolAssumption
<1>2. TypeOK
  BY <1>1 DEF Init, TypeOK
<1>3. \A l \in Lanes : ~Alive(l)
  BY PoolAssumption DEF Init, Alive, Cached, InUse
<1> QED
  BY <1>2, <1>3
  DEF Init, IInv, LockInv, SetUpInv, OpenInv, WorkInv, CachedIsOpen

-----------------------------------------------------------------------------
(* Steps that add no reference to a lane and close none.                    *)

\* A closed lane may be forgotten; otherwise all lanes stay as they are.
QuietRefs ==
  /\ UNCHANGED <<cache, host, shut, taken>>
  /\ tracked' \subseteq tracked /\ tracked \ tracked' \subseteq shut
  /\ \A l \in Lanes : Alive(l)' => Alive(l)
  /\ \A o \in Openers :
       /\ pc'[o] = "preflight" <=> pc[o] = "preflight"
       /\ pc'[o] = "evict" => pc[o] = "evict"
       /\ pc'[o] \in {"evict", "preflight"} =>
            own'[o] = own[o] /\ want'[o] = want[o]

LEMMA QuietKeepsInv ==
  ASSUME IInv, TypeOK', LockInv', WorkInv', QuietRefs
  PROVE  IInv'
<1>1. SetUpInv'
  BY DEF IInv, QuietRefs, SetUpInv
<1>2. OpenInv'
  BY DEF IInv, QuietRefs, OpenInv
<1>3. CachedIsOpen'
  BY DEF IInv, QuietRefs, CachedIsOpen
<1> QED
  BY <1>1, <1>2, <1>3 DEF IInv

\* Leaving open() without a lane, or with one that was alive.
LEMMA LeaveKeepsInv ==
  ASSUME IInv, NEW o \in Openers, NEW to \in {"idle", "open"},
         NEW l \in Lanes \cup {NoLane}, l # NoLane => Alive(l),
         Leave(o, to, l), pc[o] # "preflight",
         tracked' \in {tracked, Pruned(tracked)},
         UNCHANGED <<cache, lanes, closer, closing>>
  PROVE  IInv'
<1>0. /\ TypeOK /\ LockInv /\ WorkInv
      /\ pc' = [pc EXCEPT ![o] = to] /\ own' = [own EXCEPT ![o] = l]
      /\ victim' = [victim EXCEPT ![o] = NoLane] /\ want' = want
      /\ setup' = IF setup = o THEN Nobody ELSE setup
      /\ UNCHANGED <<host, shut, work, taken>>
  BY DEF IInv, Leave, lanes
<1>1. tracked' \subseteq tracked /\ tracked \ tracked' \subseteq shut
  BY DEF Pruned, Reapable
<1>2. TypeOK'
  BY <1>0, <1>1 DEF TypeOK
<1>3. LockInv'
  BY <1>0, PoolAssumption DEF LockInv, TypeOK
<1>4. WorkInv'
  BY <1>0, <1>1 DEF WorkInv
<1>5. ASSUME NEW k \in Lanes, Alive(k)'
      PROVE  Alive(k)
  <2>1. \A q \in Openers :
          k \in {own'[q], victim'[q]} =>
            k \in {own[q], victim[q]} \/ k = l
    BY <1>0, PoolAssumption DEF TypeOK
  <2> QED
    BY <1>5, <1>1, <2>1, PoolAssumption DEF Alive, InUse, Cached
<1>6. QuietRefs
  BY <1>0, <1>5, <1>1 DEF QuietRefs, TypeOK
<1> QED
  BY <1>2, <1>3, <1>4, <1>6, QuietKeepsInv

-----------------------------------------------------------------------------
(* Set-ups.                                                                 *)

\* Pruning forgets closed lanes only.
LEMMA PrunedLanes ==
  /\ Pruned(tracked) \subseteq tracked
  /\ tracked \ Pruned(tracked) \subseteq shut
BY DEF Pruned, Reapable

\* A new lane takes an identity nothing refers to any more.
LEMMA SetUpKeepsInv ==
  ASSUME IInv, NEW o \in Openers, pc[o] # "preflight",
         SetUp(o, Pruned(tracked)),
         setup \in {o, Nobody}, cache[want[o]] = NoLane,
         UNCHANGED <<cache, closer, closing>>
  PROVE  IInv'
<1>0. /\ TypeOK /\ LockInv /\ SetUpInv /\ OpenInv /\ WorkInv /\ CachedIsOpen
      /\ NoLane \notin Lanes
  BY PoolAssumption DEF IInv
<1>1. PICK l \in Lanes \ AliveWithout(o, Pruned(tracked)) :
        /\ tracked' = Pruned(tracked) \cup {l}
        /\ host' = [host EXCEPT ![l] = want[o]]
        /\ shut' = shut \ {l} /\ taken' = taken \ {l}
        /\ work' = [work EXCEPT ![l] = "none"]
        /\ own' = [own EXCEPT ![o] = l]
        /\ victim' = [victim EXCEPT ![o] = NoLane]
        /\ pc' = [pc EXCEPT ![o] = "preflight"]
        /\ setup' = o
        /\ UNCHANGED want
  BY DEF SetUp, Track
<1>2. TypeOK'
  BY <1>0, <1>1, PrunedLanes DEF TypeOK
<1>3. \A q \in Openers \ {o} : pc[q] \notin {"evict", "preflight"}
  BY <1>0, PoolAssumption DEF LockInv, TypeOK
<1>4. \A h \in Hosts : cache[h] # l
  BY <1>0, <1>1 DEF AliveWithout, Cached
<1>5. \A k \in Lanes : Alive(k)' /\ k # l => Alive(k)
  BY <1>0, <1>1, PrunedLanes DEF Alive, Cached, InUse, TypeOK
<1>6. LockInv'
  BY <1>0, <1>1, <1>3, PoolAssumption DEF LockInv, TypeOK
<1>7. SetUpInv'
  BY <1>0, <1>1, <1>3 DEF SetUpInv, TypeOK
<1>8. OpenInv'
  <2> SUFFICES ASSUME NEW k \in Lanes, Alive(k)', k \notin shut'
               PROVE  /\ k \in tracked'
                      /\ \/ cache'[host'[k]] = k
                         \/ \E q \in Openers : pc'[q] = "preflight" /\ own'[q] = k
    BY DEF OpenInv
  <2>1. CASE k = l
    BY <1>0, <1>1, <2>1 DEF TypeOK
  <2>2. CASE k # l
    <3>1. Alive(k) /\ k \notin shut /\ host'[k] = host[k]
      BY <1>0, <1>1, <1>5, <2>2 DEF TypeOK
    <3>2. k \in tracked
      BY <1>0, <3>1 DEF OpenInv
    <3>3. \/ cache[host[k]] = k
          \/ \E q \in Openers : pc[q] = "preflight" /\ own[q] = k
      BY <1>0, <3>1 DEF OpenInv
    <3>4. ~\E q \in Openers : pc[q] = "preflight"
      BY <1>0, <1>3, PoolAssumption DEF LockInv
    <3> QED
      BY <1>1, <3>1, <3>2, <3>3, <3>4, PrunedLanes
  <2> QED
    BY <2>1, <2>2
<1>9. WorkInv'
  BY <1>0, <1>1, PrunedLanes DEF WorkInv, TypeOK
<1>10. CachedIsOpen'
  BY <1>0, <1>1, <1>4 DEF CachedIsOpen, TypeOK
<1> QED
  BY <1>2, <1>6, <1>7, <1>8, <1>9, <1>10 DEF IInv

\* A set-up that ends without a channel closes its lane, which nobody shares.
LEMMA GiveUpKeepsInv ==
  ASSUME IInv, NEW o \in Openers, pc[o] = "preflight",
         CloseLane(own[o]), Return(o),
         UNCHANGED <<cache, tracked, closer, closing>>
  PROVE  IInv'
<1>0. /\ TypeOK /\ LockInv /\ SetUpInv /\ OpenInv /\ WorkInv /\ CachedIsOpen
      /\ NoLane \notin Lanes
  BY PoolAssumption DEF IInv
<1>1. PICK l \in Lanes : l = own[o] /\ host[l] = want[o]
  BY <1>0 DEF SetUpInv
<1>2. /\ shut' = shut \cup {l} /\ work' = Stopped({l})
      /\ pc' = [pc EXCEPT ![o] = "idle"] /\ own' = [own EXCEPT ![o] = NoLane]
      /\ victim' = [victim EXCEPT ![o] = NoLane] /\ want' = want
      /\ setup' = IF setup = o THEN Nobody ELSE setup
      /\ UNCHANGED <<host, taken>>
  BY <1>1 DEF CloseLane, Return, Leave
<1>3. setup = o /\ setup' = Nobody
      /\ \A q \in Openers : pc'[q] \notin {"evict", "preflight"}
  BY <1>0, <1>2, PoolAssumption DEF LockInv, TypeOK
<1>4. \A k \in Lanes : work'[k] \in {"none", "running", "stopping"}
                       /\ (work'[k] = "running" => work[k] = "running" /\ k # l)
  BY <1>0, <1>2 DEF Stopped, TypeOK
<1>5. TypeOK'
  BY <1>0, <1>1, <1>2 DEF TypeOK, Stopped
<1>6. \A k \in Lanes : Alive(k)' => Alive(k)
  BY <1>0, <1>2 DEF Alive, Cached, InUse, TypeOK
<1>7. LockInv' /\ SetUpInv'
  BY <1>0, <1>3, PoolAssumption DEF LockInv, SetUpInv, TypeOK
<1>8. OpenInv'
  <2> SUFFICES ASSUME NEW k \in Lanes, Alive(k), k \notin shut, k # l
               PROVE  k \in tracked /\ cache[host[k]] = k
    BY <1>2, <1>6 DEF OpenInv
  <2> QED
    BY <1>0, <1>1, <1>3, PoolAssumption DEF OpenInv, LockInv
<1>9. WorkInv'
  BY <1>0, <1>2, <1>4 DEF WorkInv
<1>10. CachedIsOpen'
  BY <1>0, <1>1, <1>2 DEF CachedIsOpen, SetUpInv
<1> QED
  BY <1>5, <1>7, <1>8, <1>9, <1>10 DEF IInv

\* The lane that was set up is cached.
LEMMA CachingKeepsInv ==
  ASSUME IInv, NEW o \in Openers, pc[o] = "preflight",
         cache' = [cache EXCEPT ![want[o]] = own[o]],
         HandOut(o, own[o]),
         UNCHANGED <<tracked, lanes, closer, closing>>
  PROVE  IInv'
<1>0. /\ TypeOK /\ LockInv /\ SetUpInv /\ OpenInv /\ WorkInv /\ CachedIsOpen
      /\ NoLane \notin Lanes
  BY PoolAssumption DEF IInv
<1>1. PICK l \in Lanes : l = own[o] /\ host[l] = want[o] /\ l \notin shut
  BY <1>0 DEF SetUpInv
<1>2. /\ cache' = [cache EXCEPT ![want[o]] = l]
      /\ pc' = [pc EXCEPT ![o] = "open"] /\ own' = [own EXCEPT ![o] = l]
      /\ victim' = [victim EXCEPT ![o] = NoLane] /\ want' = want
      /\ setup' = IF setup = o THEN Nobody ELSE setup
      /\ UNCHANGED <<host, shut, work, taken>>
  BY <1>1 DEF HandOut, Leave, lanes
<1>3. /\ want[o] \in Hosts /\ cache[want[o]] = NoLane
      /\ setup = o /\ setup' = Nobody
      /\ \A q \in Openers : pc'[q] \notin {"evict", "preflight"}
  BY <1>0, <1>2, PoolAssumption DEF LockInv, SetUpInv, TypeOK
<1>4. TypeOK'
  BY <1>0, <1>1, <1>2, <1>3 DEF TypeOK
<1>5. Alive(l) /\ \A k \in Lanes : Alive(k)' => Alive(k)
  <2>1. Alive(l)
    BY <1>1 DEF Alive, InUse
  <2>2. \A k \in Lanes \ {l} : k \in Cached' => k \in Cached
    BY <1>0, <1>2, <1>3 DEF Cached, TypeOK
  <2>3. \A k \in Lanes \ {l} : InUse(k)' => InUse(k)
    BY <1>0, <1>2 DEF InUse, TypeOK
  <2> QED
    BY <2>1, <2>2, <2>3 DEF Alive
<1>6. LockInv' /\ SetUpInv'
  BY <1>0, <1>3, PoolAssumption DEF LockInv, SetUpInv, TypeOK
<1>7. OpenInv'
  <2> SUFFICES ASSUME NEW k \in Lanes, Alive(k), k \notin shut
               PROVE  k \in tracked /\ cache'[host[k]] = k
    BY <1>2, <1>5 DEF OpenInv
  <2>1. k = l \/ cache[host[k]] = k
    BY <1>0, <1>1, <1>3, PoolAssumption DEF OpenInv, LockInv
  <2> QED
    BY <1>0, <1>1, <1>2, <1>3, <2>1 DEF OpenInv, TypeOK
<1>8. WorkInv'
  BY <1>0, <1>2 DEF WorkInv
<1>9. CachedIsOpen'
  BY <1>0, <1>1, <1>2, <1>3 DEF CachedIsOpen, TypeOK
<1> QED
  BY <1>4, <1>6, <1>7, <1>8, <1>9 DEF IInv

\* An idle lane leaves the cache and is closed in one step.
LEMMA EvictKeepsInv ==
  ASSUME IInv, NEW o \in Openers, Granted(o), cache[want[o]] = NoLane,
         tracked' = Pruned(tracked),
         NEW h \in Evictable,
         cache' = [cache EXCEPT ![h] = NoLane],
         victim' = [victim EXCEPT ![o] = cache[h]],
         StartClose({cache[h]}),
         pc' = [pc EXCEPT ![o] = "evict"], setup' = o,
         UNCHANGED <<want, own, closer, closing>>
  PROVE  IInv'
<1>0. /\ TypeOK /\ LockInv /\ SetUpInv /\ OpenInv /\ WorkInv /\ CachedIsOpen
      /\ NoLane \notin Lanes
  BY PoolAssumption DEF IInv
<1>1. PICK l \in Lanes : l = cache[h] /\ h \in Hosts
  BY <1>0 DEF Evictable, TypeOK
<1>2. /\ shut' = shut \cup {l} /\ work' = Stopped({l}) /\ taken' = taken \cup {l}
      /\ host' = host
  BY <1>1 DEF StartClose
<1>3. \A q \in Openers : pc[q] \notin {"evict", "preflight"}
  BY <1>0, PoolAssumption DEF Granted, LockInv, TypeOK
<1>4. \A k \in Lanes : work'[k] \in {"none", "running", "stopping"}
                       /\ (work'[k] = "running" => work[k] = "running" /\ k # l)
  BY <1>0, <1>2 DEF Stopped, TypeOK
<1>5. TypeOK'
  BY <1>0, <1>1, <1>2, PrunedLanes DEF TypeOK, Stopped
<1>6. \A k \in Lanes : Alive(k)' => Alive(k)
  <2>1. Alive(l)
    BY <1>1, <1>0 DEF Alive, Cached
  <2>2. \A k \in Lanes \ {l} : InUse(k)' => InUse(k)
    BY <1>0, <1>1 DEF InUse, TypeOK
  <2>3. \A k \in Lanes : k \in Cached' => k \in Cached
    BY <1>0 DEF Cached, TypeOK
  <2> QED
    BY <2>1, <2>2, <2>3, PrunedLanes DEF Alive
<1>7. LockInv' /\ SetUpInv'
  BY <1>0, <1>1, <1>3, PoolAssumption DEF LockInv, SetUpInv, TypeOK, Granted
<1>8. OpenInv'
  <2> SUFFICES ASSUME NEW k \in Lanes, Alive(k), k \notin shut, k # l
               PROVE  k \in tracked' /\ cache'[host[k]] = k
    BY <1>2, <1>6 DEF OpenInv
  <2>1. k \in tracked /\ cache[host[k]] = k
    BY <1>0, <1>3 DEF OpenInv
  <2>2. host[k] \in Hosts /\ host[k] # h
    BY <1>0, <1>1, <2>1 DEF TypeOK
  <2> QED
    BY <1>0, <2>1, <2>2, PrunedLanes DEF TypeOK
<1>9. WorkInv'
  BY <1>0, <1>2, <1>4, PrunedLanes DEF WorkInv
<1>10. CachedIsOpen'
  <2> SUFFICES ASSUME NEW g \in Hosts, g # h, cache[g] # NoLane
               PROVE  cache[g] # l /\ cache[g] \notin shut /\ host[cache[g]] = g
    BY <1>0, <1>2 DEF CachedIsOpen, TypeOK
  <2>1. host[l] = h
    BY <1>0, <1>1 DEF CachedIsOpen
  <2> QED
    BY <1>0, <2>1 DEF CachedIsOpen
<1> QED
  BY <1>5, <1>7, <1>8, <1>9, <1>10 DEF IInv

-----------------------------------------------------------------------------
(* All steps.                                                               *)

LEMMA OpenerKeepsInv ==
  ASSUME IInv, NEW o \in Openers, OpenerStep(o)
  PROVE  IInv'
<1>0. /\ TypeOK /\ LockInv /\ SetUpInv /\ WorkInv
      /\ NoLane \notin Lanes
  BY PoolAssumption DEF IInv
<1>1. \A h \in Hosts : cache[h] # NoLane => cache[h] \in Lanes /\ Alive(cache[h])
  BY <1>0 DEF TypeOK, Alive, Cached
<1>2. ASSUME NEW h \in Hosts, Open(o, h)
      PROVE  IInv'
  <2>1. CASE cache[h] \in Lanes \ shut /\ HandOut(o, cache[h])
    BY <1>0, <1>1, <1>2, <2>1, LeaveKeepsInv DEF Open, HandOut
  <2>2. CASE /\ pc' = [pc EXCEPT ![o] = "queue"]
             /\ want' = [want EXCEPT ![o] = h]
             /\ UNCHANGED <<own, victim, setup>>
    <3>1. UNCHANGED <<cache, tracked, host, shut, work, taken, closer, closing>>
      BY <1>2 DEF Open, lanes
    <3>2. pc[o] = "idle"
      BY <1>2 DEF Open
    <3>3. TypeOK' /\ LockInv' /\ WorkInv'
      BY <1>0, <2>2, <3>1 DEF TypeOK, LockInv, WorkInv
    <3>4. QuietRefs
      BY <1>0, <2>2, <3>1, <3>2
      DEF QuietRefs, TypeOK, Alive, Cached, InUse
    <3> QED
      BY <3>3, <3>4, QuietKeepsInv
  <2> QED
    BY <1>2, <2>1, <2>2 DEF Open
<1>3. CASE RefusedByClose(o) \/ RequestTasksGone(o)
  BY <1>3, LeaveKeepsInv DEF RefusedByClose, RequestTasksGone, Granted, Return
<1>4. CASE FoundCached(o)
  <2>1. want[o] \in Hosts
    BY <1>0 DEF TypeOK
  <2> QED
    BY <1>1, <1>4, <2>1, LeaveKeepsInv DEF FoundCached, Granted, Return, HandOut
<1>5. CASE StartSetUp(o)
  BY <1>5, SetUpKeepsInv DEF StartSetUp, Granted
<1>6. CASE StartEviction(o)
  <2>1. CASE \E h \in Evictable :
               /\ cache' = [cache EXCEPT ![h] = NoLane]
               /\ victim' = [victim EXCEPT ![o] = cache[h]]
               /\ StartClose({cache[h]})
               /\ pc' = [pc EXCEPT ![o] = "evict"] /\ setup' = o
               /\ UNCHANGED <<want, own>>
    BY <1>6, <2>1, EvictKeepsInv DEF StartEviction
  <2>2. CASE Return(o) /\ UNCHANGED <<cache, lanes>>
    BY <1>6, <2>2, LeaveKeepsInv DEF StartEviction, Granted, Return
  <2> QED
    BY <1>6, <2>1, <2>2 DEF StartEviction
<1>7. CASE EvictionDone(o)
  <2>1. setup = o /\ cache[want[o]] = NoLane
    BY <1>0, <1>7 DEF EvictionDone, LockInv, SetUpInv
  <2>2. CASE SetUp(o, Pruned(tracked))
    BY <1>7, <2>1, <2>2, SetUpKeepsInv DEF EvictionDone
  <2>3. CASE tracked' = Pruned(tracked) /\ Return(o) /\ UNCHANGED lanes
    BY <1>7, <2>3, LeaveKeepsInv DEF EvictionDone, Return
  <2> QED
    BY <1>7, <2>2, <2>3 DEF EvictionDone
<1>8. CASE PreflightOk(o)
  BY <1>8, GiveUpKeepsInv, CachingKeepsInv DEF PreflightOk
<1>9. CASE PreflightFails(o)
  BY <1>9, GiveUpKeepsInv DEF PreflightFails
<1>10. CASE Cancel(o)
  <2>1. CASE pc[o] = "preflight"
    BY <1>10, <2>1, GiveUpKeepsInv DEF Cancel
  <2>2. CASE pc[o] # "preflight"
    BY <1>10, <2>2, LeaveKeepsInv DEF Cancel, Return
  <2> QED
    BY <2>1, <2>2
<1>11. CASE DropChannel(o)
  <2>1. /\ UNCHANGED <<cache, tracked, host, shut, work, taken, want, own, victim,
                       setup, closer, closing>>
        /\ pc[o] = "open" /\ pc' = [pc EXCEPT ![o] = "leaving"]
    BY <1>11 DEF DropChannel, lanes
  <2>2. TypeOK' /\ LockInv' /\ WorkInv'
    BY <1>0, <2>1 DEF TypeOK, LockInv, WorkInv
  <2>3. QuietRefs
    BY <1>0, <2>1 DEF QuietRefs, TypeOK, Alive, Cached, InUse
  <2> QED
    BY <2>2, <2>3, QuietKeepsInv
<1> QED
  BY <1>2, <1>3, <1>4, <1>5, <1>6, <1>7, <1>8, <1>9, <1>10, <1>11 DEF OpenerStep

LEMMA LaneKeepsInv ==
  ASSUME IInv, NEW l \in Lanes, Connect(l) \/ TasksEnd(l)
  PROVE  IInv'
<1>0. TypeOK /\ LockInv /\ OpenInv /\ WorkInv
  BY DEF IInv
<1>1. UNCHANGED <<cache, tracked, host, shut, taken, pc, want, own, victim,
                  setup, closer, closing>>
  BY DEF Connect, TasksEnd, openers
<1>2. QuietRefs
  BY <1>1 DEF QuietRefs, Alive, Cached, InUse
<1>3. TypeOK' /\ LockInv'
  BY <1>0, <1>1 DEF TypeOK, LockInv, Connect, TasksEnd
<1>4. WorkInv'
  <2>1. CASE Connect(l)
    <3>1. Alive(l) /\ l \notin shut
      BY <2>1 DEF Connect, Alive, InUse
    <3>2. l \in tracked
      BY <1>0, <3>1 DEF OpenInv
    <3> QED
      BY <1>0, <1>1, <2>1, <3>1, <3>2 DEF WorkInv, Connect, TypeOK
  <2>2. CASE TasksEnd(l)
    BY <1>0, <1>1, <2>2 DEF WorkInv, TasksEnd, TypeOK
  <2> QED
    BY <2>1, <2>2
<1> QED
  BY <1>2, <1>3, <1>4, QuietKeepsInv

LEMMA CloserKeepsInv ==
  ASSUME IInv, RequestClose \/ CloseAll \/ CloseDone
  PROVE  IInv'
<1>0. /\ TypeOK /\ LockInv /\ SetUpInv /\ OpenInv /\ WorkInv /\ CachedIsOpen
      /\ NoLane \notin Lanes /\ Closer \notin Openers /\ Nobody \notin Openers
      /\ Closer # Nobody
  BY PoolAssumption DEF IInv
<1>1. CASE RequestClose \/ CloseDone
  <2>1. UNCHANGED <<cache, tracked, host, shut, work, taken, pc, want, own, victim>>
    BY <1>1 DEF RequestClose, CloseDone, lanes, openers
  <2>2. closing' \subseteq closing
    BY <1>1 DEF RequestClose, CloseDone
  <2>3. QuietRefs
    BY <2>1, <2>2 DEF QuietRefs, Alive, Cached, InUse
  <2>4. TypeOK' /\ LockInv' /\ WorkInv'
    BY <1>0, <1>1, <2>1, <2>2
    DEF TypeOK, LockInv, WorkInv, RequestClose, CloseDone
  <2> QED
    BY <2>3, <2>4, QuietKeepsInv
<1>2. CASE CloseAll
  <2>1. /\ setup = Nobody /\ setup' = Closer /\ closer' = "draining"
        /\ closing' = Cached \cup tracked
        /\ shut' = shut \cup closing' /\ work' = Stopped(closing')
        /\ taken' = taken \cup closing'
        /\ cache' = [h \in Hosts |-> NoLane] /\ tracked' = {}
        /\ UNCHANGED <<host, pc, want, own, victim>>
    BY <1>2 DEF CloseAll, StartClose, openers
  <2>2. Cached \cup tracked \subseteq Lanes
    BY <1>0 DEF TypeOK, Cached
  <2>3. TypeOK'
    BY <1>0, <2>1, <2>2 DEF TypeOK, Stopped
  <2>4. LockInv' /\ SetUpInv' /\ CachedIsOpen'
    BY <1>0, <2>1 DEF LockInv, SetUpInv, CachedIsOpen
  <2>5. \A k \in Lanes : Alive(k)' => Alive(k)
    BY <1>0, <2>1, <2>2 DEF Alive, Cached, InUse
  <2>6. OpenInv'
    BY <1>0, <2>1, <2>5 DEF OpenInv
  <2>7. WorkInv'
    BY <1>0, <2>1 DEF WorkInv, Stopped, TypeOK
  <2> QED
    BY <2>3, <2>4, <2>6, <2>7 DEF IInv
<1> QED
  BY <1>1, <1>2

LEMMA NextIInv == IInv /\ [Next]_vars => IInv'
<1> SUFFICES ASSUME IInv, [Next]_vars
             PROVE  IInv'
  OBVIOUS
<1>1. CASE Next
  BY <1>1, OpenerKeepsInv, LaneKeepsInv, CloserKeepsInv DEF Next
<1>2. CASE UNCHANGED vars
  BY <1>2 DEF vars, IInv, TypeOK, LockInv, SetUpInv, OpenInv, WorkInv,
              CachedIsOpen, Alive, Cached, InUse
<1> QED
  BY <1>1, <1>2

\* The invariant holds of every reachable state of the pool.
THEOREM Invariance == Spec => []IInv
BY InitIInv, NextIInv, PTL DEF Spec

-----------------------------------------------------------------------------
(* What it implies.                                                         *)

\* open() never finds a closed lane in the cache while the pool is open: none of
\* the ways to close a lane leaves it there.
THEOREM CacheIsUsable == Spec => []CachedIsOpen
<1>1. IInv => CachedIsOpen
  BY DEF IInv
<1> QED
  BY <1>1, Invariance, PTL

\* Two open lanes of one origin never exist: openers of one host queue for
\* setup_lock and look again, whatever was cancelled or evicted meanwhile.
THEOREM LanesAreUnique == Spec => []OneLanePerHost
<1>1. ASSUME IInv, NEW k \in Lanes, NEW l \in Lanes, Alive(k), Alive(l),
             k \notin shut, l \notin shut, host[k] = host[l]
      PROVE  k = l
  <2>0. LockInv /\ SetUpInv /\ OpenInv /\ NoLane \notin Lanes
    BY <1>1, PoolAssumption DEF IInv
  <2>1. \/ cache[host[k]] = k
        \/ \E o \in Openers : pc[o] = "preflight" /\ own[o] = k
    BY <1>1, <2>0 DEF OpenInv
  <2>2. \/ cache[host[l]] = l
        \/ \E o \in Openers : pc[o] = "preflight" /\ own[o] = l
    BY <1>1, <2>0 DEF OpenInv
  <2>3. \A o \in Openers : pc[o] = "preflight" =>
          setup = o /\ cache[host[own[o]]] = NoLane
    BY <2>0 DEF LockInv, SetUpInv
  <2> QED
    BY <1>1, <2>0, <2>1, <2>2, <2>3
<1>2. IInv => OneLanePerHost
  BY <1>1 DEF OneLanePerHost
<1> QED
  BY <1>2, Invariance, PTL

\* close() finds every lane that runs in all_lanes.
THEOREM NothingRunsUntracked == Spec => []RunningIsTracked
<1>1. IInv => RunningIsTracked
  BY DEF IInv, WorkInv, RunningIsTracked
<1> QED
  BY <1>1, Invariance, PTL

-----------------------------------------------------------------------------
(* Who may close a lane.                                                    *)

\* A lane that is set up has one user.
PrivateInv ==
  \A o \in Openers : pc[o] = "preflight" => \A q \in Openers \ {o} : own[q] # own[o]

\* Nobody leaves open() with a lane that another opener still sets up: those in
\* the cache are not.
LEMMA LeaveKeepsPrivate ==
  ASSUME IInv, PrivateInv, NEW o \in Openers, NEW to, NEW l, Leave(o, to, l),
         to # "preflight",
         l \in {NoLane, own[o]} \/ \E h \in Hosts : l = cache[h]
  PROVE  PrivateInv'
<1>0. /\ TypeOK /\ SetUpInv /\ CachedIsOpen /\ NoLane \notin Lanes
      /\ pc' = [pc EXCEPT ![o] = to] /\ own' = [own EXCEPT ![o] = l]
  BY PoolAssumption DEF IInv, Leave
<1> SUFFICES ASSUME NEW p \in Openers, pc'[p] = "preflight",
                    NEW q \in Openers \ {p}
             PROVE  own'[q] # own'[p]
  BY DEF PrivateInv
<1>1. p # o /\ pc[p] = "preflight" /\ own'[p] = own[p]
  BY <1>0 DEF TypeOK
<1>2. own[q] # own[p]
  BY <1>1 DEF PrivateInv
<1>3. own[p] \in Lanes /\ cache[host[own[p]]] = NoLane
  BY <1>0, <1>1 DEF SetUpInv
<1>4. \A h \in Hosts : own[p] # cache[h]
  BY <1>0, <1>3 DEF CachedIsOpen
<1> QED
  BY <1>0, <1>1, <1>2, <1>3, <1>4 DEF TypeOK

LEMMA SetUpKeepsPrivate ==
  ASSUME IInv, PrivateInv, NEW o \in Openers, SetUp(o, Pruned(tracked)),
         setup \in {o, Nobody}
  PROVE  PrivateInv'
<1>0. TypeOK /\ LockInv /\ NoLane \notin Lanes
  BY PoolAssumption DEF IInv
<1>1. PICK l \in Lanes \ AliveWithout(o, Pruned(tracked)) :
        /\ own' = [own EXCEPT ![o] = l] /\ pc' = [pc EXCEPT ![o] = "preflight"]
  BY DEF SetUp
<1>2. \A q \in Openers \ {o} : pc[q] # "preflight" /\ own[q] # l
  BY <1>0, <1>1, PoolAssumption DEF LockInv, AliveWithout, TypeOK
<1> QED
  BY <1>0, <1>1, <1>2 DEF PrivateInv, TypeOK

LEMMA PrivateKept ==
  ASSUME IInv, PrivateInv, [Next]_vars
  PROVE  PrivateInv'
<1>0. TypeOK /\ LockInv
  BY DEF IInv
<1>1. ASSUME NEW o \in Openers, OpenerStep(o)
      PROVE  PrivateInv'
  <2>1. ASSUME NEW h \in Hosts, Open(o, h)
        PROVE  PrivateInv'
    <3>1. CASE HandOut(o, cache[h])
      BY <3>1, LeaveKeepsPrivate DEF HandOut
    <3>2. CASE pc' = [pc EXCEPT ![o] = "queue"] /\ UNCHANGED own
      BY <1>0, <3>2 DEF PrivateInv, TypeOK
    <3> QED
      BY <2>1, <3>1, <3>2 DEF Open
  <2>2. CASE RefusedByClose(o) \/ RequestTasksGone(o) \/ PreflightFails(o) \/ Cancel(o)
    BY <2>2, LeaveKeepsPrivate
    DEF RefusedByClose, RequestTasksGone, PreflightFails, Cancel, Return
  <2>3. CASE FoundCached(o)
    <3>1. want[o] \in Hosts
      BY <1>0 DEF TypeOK
    <3> QED
      BY <2>3, <3>1, LeaveKeepsPrivate DEF FoundCached, Return, HandOut
  <2>4. CASE StartSetUp(o)
    BY <2>4, SetUpKeepsPrivate DEF StartSetUp, Granted
  <2>5. CASE StartEviction(o)
    <3>1. CASE Return(o)
      BY <3>1, LeaveKeepsPrivate DEF Return
    <3>2. CASE pc' = [pc EXCEPT ![o] = "evict"] /\ UNCHANGED own
      BY <1>0, <3>2 DEF PrivateInv, TypeOK
    <3> QED
      BY <2>5, <3>1, <3>2 DEF StartEviction
  <2>6. CASE EvictionDone(o)
    <3>1. setup = o
      BY <1>0, <2>6 DEF EvictionDone, LockInv
    <3> QED
      BY <2>6, <3>1, LeaveKeepsPrivate, SetUpKeepsPrivate DEF EvictionDone, Return
  <2>7. CASE PreflightOk(o)
    BY <2>7, LeaveKeepsPrivate DEF PreflightOk, Return, HandOut
  <2>8. CASE DropChannel(o)
    BY <1>0, <2>8 DEF DropChannel, PrivateInv, TypeOK
  <2> QED
    BY <1>1, <2>1, <2>2, <2>3, <2>4, <2>5, <2>6, <2>7, <2>8 DEF OpenerStep
<1>2. CASE (\E l \in Lanes : Connect(l) \/ TasksEnd(l))
           \/ RequestClose \/ CloseAll \/ CloseDone \/ UNCHANGED vars
  BY <1>2 DEF Connect, TasksEnd, RequestClose, CloseAll, CloseDone, openers, vars,
              PrivateInv
<1> QED
  BY <1>1, <1>2 DEF Next

\* Before close() takes them all, a lane is closed by the one opener that sets it
\* up, or while nobody uses it: no eviction, cancelled or failed set-up closes
\* the lane of another opener's channel.
THEOREM ChannelsKeepTheirLane == Spec => OpenChannelsKeepTheirLane
<1> DEFINE Kept == \A o \in Openers :
             pc[o] = "open" /\ own[o] \notin shut /\ own[o] \in shut' => Closed
<1>1. ASSUME IInv, PrivateInv, Next
      PROVE  Kept
  <2> SUFFICES ASSUME NEW o \in Openers, pc[o] = "open", own[o] \notin shut,
                      own[o] \in shut'
               PROVE  Closed
    OBVIOUS
  <2>0. TypeOK
    BY <1>1 DEF IInv
  <2>1. ASSUME NEW p \in Openers, pc[p] = "preflight", CloseLane(own[p])
        PROVE  FALSE
    <3>1. own[o] # own[p]
      BY <1>1, <2>1 DEF PrivateInv
    <3> QED
      BY <2>1, <3>1 DEF CloseLane
  <2>2. ASSUME NEW p \in Openers, StartEviction(p)
        PROVE  FALSE
    <3>1. PICK h \in Evictable : shut' = shut \cup {cache[h]}
      BY <2>2 DEF StartEviction, StartClose, lanes
    <3>2. cache[h] # own[o]
      BY <3>1 DEF Evictable, InUse
    <3> QED
      BY <3>1, <3>2
  <2>3. ASSUME NEW p \in Openers, OpenerStep(p)
        PROVE  FALSE
    <3>1. \/ shut' \subseteq shut
          \/ pc[p] = "preflight" /\ CloseLane(own[p])
          \/ StartEviction(p)
      BY <2>3 DEF OpenerStep, Open, RefusedByClose, FoundCached, StartSetUp, EvictionDone,
                  PreflightOk, PreflightFails, Cancel, DropChannel, RequestTasksGone,
                  SetUp, lanes
    <3> QED
      BY <2>1, <2>2, <3>1
  <2>4. CASE (\E l \in Lanes : Connect(l) \/ TasksEnd(l)) \/ RequestClose \/ CloseDone
    BY <2>4 DEF Connect, TasksEnd, RequestClose, CloseDone, lanes
  <2>5. CASE CloseAll
    BY <2>5 DEF CloseAll, Closed
  <2> QED
    BY <1>1, <2>3, <2>4, <2>5 DEF Next
<1>2. Init => PrivateInv
  BY DEF Init, PrivateInv
<1>3. IInv /\ PrivateInv /\ [Next]_vars => PrivateInv'
  BY PrivateKept
<1>4. IInv /\ PrivateInv /\ [Next]_vars => [Kept]_vars
  BY <1>1
<1>5. Spec => [][Kept]_vars
  BY <1>2, <1>3, <1>4, Invariance, PTL DEF Spec
<1> QED
  BY <1>5 DEF OpenChannelsKeepTheirLane

-----------------------------------------------------------------------------
(* What close() leaves behind.                                              *)

\* Once close() has taken the lanes, none is cached, tracked or set up again.
Emptied ==
  closer \in {"draining", "done"} =>
    /\ cache = [h \in Hosts |-> NoLane] /\ tracked = {}
    /\ \A o \in Openers : pc[o] \notin {"evict", "preflight"}

LEMMA OpenerKeepsEmptied ==
  ASSUME IInv, Emptied, NEW o \in Openers, OpenerStep(o)
  PROVE  Emptied'
<1> SUFFICES ASSUME closer' \in {"draining", "done"}
             PROVE  Emptied'
  BY DEF Emptied
<1>1. closer' = closer
  BY DEF OpenerStep, Open, RefusedByClose, FoundCached, StartSetUp, StartEviction,
         EvictionDone, PreflightOk, PreflightFails, Cancel, DropChannel,
         RequestTasksGone
<1>2. /\ Closed /\ tracked = {} /\ TypeOK
      /\ \A q \in Openers : pc[q] \notin {"evict", "preflight"}
  BY <1>1 DEF Emptied, Closed, IInv
<1>3. CASE RefusedByClose(o) \/ RequestTasksGone(o) \/ Cancel(o)
  BY <1>2, <1>3
  DEF RefusedByClose, RequestTasksGone, Cancel, Return, Leave, TypeOK, Emptied
<1>4. CASE DropChannel(o)
  BY <1>2, <1>4 DEF DropChannel, TypeOK, Emptied
<1> QED
  BY <1>2, <1>3, <1>4
  DEF OpenerStep, Open, FoundCached, StartSetUp, StartEviction, EvictionDone,
      PreflightOk, PreflightFails, Emptied

LEMMA NextEmptied ==
  ASSUME IInv, Emptied, [Next]_vars
  PROVE  Emptied'
<1>1. ASSUME NEW l \in Lanes, Connect(l) \/ TasksEnd(l)
      PROVE  Emptied'
  BY <1>1 DEF Connect, TasksEnd, openers, Emptied
<1>2. CASE RequestClose
  BY <1>2 DEF RequestClose, Emptied
<1>3. CASE CloseAll
  <2>1. \A o \in Openers : pc[o] \notin {"evict", "preflight"}
    BY <1>3, PoolAssumption DEF CloseAll, IInv, LockInv
  <2> QED
    BY <1>3, <2>1 DEF CloseAll, openers, Emptied
<1>4. CASE CloseDone
  BY <1>4 DEF CloseDone, openers, Emptied
<1>5. CASE UNCHANGED vars
  BY <1>5 DEF vars, Emptied
<1> QED
  BY <1>1, <1>2, <1>3, <1>4, <1>5, OpenerKeepsEmptied DEF Next

\* When close() has returned, no lane is cached or tracked, runs, or is being set
\* up: a set-up it waited for, an opener cancelled meanwhile and one that got
\* setup_lock after it leave nothing.  (The safety half of CloseEnds.)
THEOREM CloseIsComplete == Spec => [](closer = "done" => Quiet)
<1>1. Init => Emptied
  BY DEF Init, Emptied
<1>2. IInv /\ Emptied /\ [Next]_vars => Emptied'
  BY NextEmptied
<1>3. IInv /\ Emptied => (closer = "done" => Quiet)
  BY DEF IInv, WorkInv, Emptied, Quiet, Cached
<1> QED
  BY <1>1, <1>2, <1>3, Invariance, PTL DEF Spec

=============================================================================

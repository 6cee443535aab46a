----------------------------- MODULE ProxyClients -----------------------------
(***************************************************************************)
(* The running proxy of src/proxy.rs: the listener admits clients to a     *)
(* bounded number of slots, each client's task reads its handshake, walks  *)
(* the routes of module Routes and bridges; a stop drops every task        *)
(* wherever it is suspended and waits for it before the routes are closed. *)
(*                                                                         *)
(* With Fake TLS configured, a ClientHello is verified against the clock   *)
(* and against the cache of those already served.  A ClientHello is named  *)
(* by the timestamp it authenticates.  Time is counted in minutes, only    *)
(* where Fake TLS reads it; the wall clock and the monotonic clock of the  *)
(* cache are assumed to advance together.  A refused connection and the    *)
(* content of the bridges do not change this state.                        *)
(***************************************************************************)
EXTENDS Routes

CONSTANTS
  MaxConnections,  \* config.max_connections
  Hellos,          \* timestamps of the ClientHellos that arrive
  Tolerance,       \* TIMESTAMP_TOLERANCE
  Retention,       \* how long the replay cache keeps a ClientHello
  CacheLimit,      \* capacity of the replay cache
  MaxTime          \* bound: the clock stops there

ASSUME ProxyAssumption ==
  /\ IsFiniteSet(Clients) /\ NoDC \notin DCs
  /\ MaxConnections \in Nat /\ CacheLimit \in Nat
  /\ Hellos \subseteq Nat /\ MaxTime \in Nat
  /\ Tolerance \in Nat /\ Retention \in Nat
  /\ 2 * Tolerance < Retention

VARIABLES
  listener,    \* "accepting", "paused", "draining", "closing" or "done"
  stop,        \* 1 once shutdown() has been called
  slots,       \* permits left in the semaphore
  active,      \* the gauge of active connections
  background,  \* background tasks in the JoinSet
  now,         \* the clock
  seen,        \* the replay cache: pairs of a ClientHello and its arrival
  served       \* history: how often each ClientHello was accepted

books == <<slots, active>>
tls == <<now, seen, served>>
vars == <<routeVars, listener, stop, slots, active, background, now, seen, served>>

Init ==
  /\ RoutesInit
  /\ listener = "accepting" /\ stop = 0
  /\ slots = MaxConnections /\ active = 0
  /\ background = {"maintain", "refresh_domains"}
  /\ now = 0 /\ seen = {} /\ served = [h \in Hellos |-> 0]

Serving == listener \in {"accepting", "paused"}
Tables == <<blacklisted, failedIp, h2retry, tcpRetry>>

\* When the task of c ends, its permit and its gauge are dropped.
Counted(c) ==
  IF pc'[c] = "none"
  THEN slots' = slots + 1 /\ active' = active - 1
  ELSE UNCHANGED books

-----------------------------------------------------------------------------
(* The listener.                                                            *)

Accept(c) ==
  /\ listener = "accepting" /\ pc[c] = "none" /\ slots > 0
  /\ slots' = slots - 1 /\ active' = active + 1
  /\ Move(c, "prefix")
  /\ UNCHANGED <<config, Tables, listener, stop, background, tls>>

\* accept() failed: the loop sleeps, and does not look at the stop meanwhile.
AcceptFails ==
  /\ listener = "accepting"
  /\ listener' = "paused"
  /\ UNCHANGED <<routeVars, stop, books, background, tls>>

Resume ==
  /\ listener = "paused"
  /\ listener' = "accepting"
  /\ UNCHANGED <<routeVars, stop, books, background, tls>>

\* A background task that has nothing to do returns at once.
BackgroundReturns(b) ==
  /\ Serving /\ b \in background
  /\ b = "maintain" => ~config.pooled
  /\ b = "refresh_domains" => ~config.cfproxy
  /\ background' = background \ {b}
  /\ UNCHANGED <<routeVars, listener, stop, books, tls>>

-----------------------------------------------------------------------------
(* The handshake of a client.                                               *)

\* Faulty: an entry is forgotten as soon as its timestamp may have expired.
RememberedBriefly == {p \in seen : now - p[2] <= Tolerance}

\* The entries younger than five minutes are kept.
Remembered == {p \in seen : now - p[2] < Retention}

Timely(h) == (now - h) \in (-Tolerance)..Tolerance

\* A ClientHello that is authentic, timely and new is answered and remembered,
\* unless the cache is full; any other is relayed to the masking host.
ClientHello(c, h) ==
  /\ Serving /\ pc[c] = "prefix" /\ config.fakeTls
  /\ LET known == \E p \in Remembered : p[1] = h
         fits == Cardinality(Remembered) < CacheLimit
     IN IF Timely(h) /\ ~known /\ fits
        THEN /\ Move(c, "handshake")
             /\ seen' = Remembered \cup {<<h, now>>}
             /\ served' = [served EXCEPT ![h] = @ + 1]
        ELSE /\ Move(c, "mask")
             /\ seen' = IF Timely(h) THEN Remembered ELSE seen
             /\ UNCHANGED served
  /\ UNCHANGED <<config, Tables, listener, stop, books, background, now>>

\* A first byte that opens no Fake TLS: an obfuscated handshake where none is
\* configured, and a redirect to the masking host otherwise.
PlainPrefix(c) ==
  /\ Serving /\ pc[c] = "prefix"
  /\ Move(c, IF config.fakeTls THEN "redirect" ELSE "handshake")
  /\ UNCHANGED <<config, Tables, listener, stop, books, background, tls>>

\* The 64 bytes are read and name a data centre: connect() starts.
Handshake(c, d, k) ==
  /\ Serving /\ pc[c] = "handshake"
  /\ MoveFor(c, DirectStage(d, k), d, k, mixed)
  /\ Counted(c)
  /\ UNCHANGED <<config, Tables, listener, stop, background, tls>>

Walk(c) ==
  /\ Serving /\ WalkStep(c) /\ Counted(c)
  /\ UNCHANGED <<listener, stop, background, tls>>

\* The handshake fails or takes too long, the mask or the redirect is done, or
\* the bridge ends.
ClientEnds(c) ==
  /\ Serving /\ pc[c] \notin Walking \cup {"none"}
  /\ Move(c, "none") /\ Counted(c)
  /\ UNCHANGED <<config, Tables, listener, stop, background, tls>>

\* Deadlines of the tables pass, and the clock that Fake TLS reads goes on.
Cool ==
  /\ CoolingEnds
  /\ UNCHANGED <<listener, stop, books, background, tls>>

Minute ==
  /\ Serving /\ config.fakeTls /\ now < MaxTime
  /\ now' = now + 1
  /\ UNCHANGED <<routeVars, listener, stop, books, background, seen, served>>

-----------------------------------------------------------------------------
(* Shutdown.                                                                *)

Stop ==
  /\ stop = 0 /\ stop' = 1
  /\ UNCHANGED <<routeVars, listener, books, background, tls>>

\* The loop sees the stop: jobs.abort_all().
StopSeen ==
  /\ listener = "accepting" /\ stop = 1
  /\ listener' = "draining"
  /\ UNCHANGED <<routeVars, stop, books, background, tls>>

\* Faulty: a client that bridges is left to its end.
DroppedUnlessBridging(c) ==
  /\ listener = "draining" /\ pc[c] \notin {"none", "bridge"}
  /\ Move(c, "none") /\ Counted(c)
  /\ UNCHANGED <<config, Tables, listener, stop, background, tls>>

\* The runtime drops an aborted task where it is suspended.
Dropped(c) ==
  /\ listener = "draining" /\ pc[c] # "none"
  /\ Move(c, "none") /\ Counted(c)
  /\ UNCHANGED <<config, Tables, listener, stop, background, tls>>

BackgroundDropped(b) ==
  /\ listener = "draining" /\ b \in background
  /\ background' = background \ {b}
  /\ UNCHANGED <<routeVars, listener, stop, books, tls>>

\* jobs.join_next() has nothing left: upstream.close() starts, and ends.
Joined ==
  /\ listener = "draining" /\ background = {}
  /\ \A c \in Clients : pc[c] = "none"
  /\ listener' = "closing"
  /\ UNCHANGED <<routeVars, stop, books, background, tls>>

UpstreamClosed ==
  /\ listener = "closing"
  /\ listener' = "done"
  /\ UNCHANGED <<routeVars, stop, books, background, tls>>

-----------------------------------------------------------------------------
ClientStep(c) ==
  \/ Accept(c) \/ PlainPrefix(c) \/ Walk(c) \/ ClientEnds(c) \/ Dropped(c)
  \/ \E h \in Hellos : ClientHello(c, h)
  \/ \E d \in DCs, k \in Kinds : Handshake(c, d, k)

BackgroundStep(b) == BackgroundReturns(b) \/ BackgroundDropped(b)

Next ==
  \/ \E c \in Clients : ClientStep(c)
  \/ \E b \in {"maintain", "refresh_domains"} : BackgroundStep(b)
  \/ AcceptFails \/ Resume \/ Cool \/ Minute
  \/ Stop \/ StopSeen \/ Joined \/ UpstreamClosed

Spec == Init /\ [][Next]_vars

(* The select of the loop takes its branches in random order, so a stop is   *)
(* seen although clients keep arriving; an aborted task is dropped; H2Pool   *)
(* shows that close() ends.  Nothing is assumed of the clients.              *)
Fairness ==
  /\ WF_vars(Resume) /\ SF_vars(StopSeen)
  /\ \A c \in Clients : WF_vars(Dropped(c))
  /\ \A b \in {"maintain", "refresh_domains"} : WF_vars(BackgroundDropped(b))
  /\ WF_vars(Joined) /\ WF_vars(UpstreamClosed)

FairSpec == Spec /\ Fairness

-----------------------------------------------------------------------------
(* Properties.                                                              *)

Tasks == {c \in Clients : pc[c] # "none"}

\* "A completed shutdown guarantees every socket, guard and background dial is
\* gone" (proxy.rs): when the routes are closed no task, permit or dial is left,
\* and until then permits and the gauge stand for the tasks that run.
ShutdownIsComplete ==
  /\ slots + Cardinality(Tasks) = MaxConnections /\ active = Cardinality(Tasks)
  /\ listener \in {"closing", "done"} =>
       Tasks = {} /\ background = {} /\ connecting = {}

\* A ClientHello is answered once: the cache remembers it until its timestamp
\* is out of tolerance, also when it came from a clock that is ahead.
HelloServedOnce == \A h \in Hellos : served[h] <= 1

\* shutdown() returns, whatever the clients and the routes are doing, and what
\* it leaves is complete.
ShutdownEnds == (stop = 1 ~> listener = "done") /\ []ShutdownIsComplete

=============================================================================

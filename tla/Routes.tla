-------------------------------- MODULE Routes --------------------------------
(***************************************************************************)
(* The way of one client to Telegram: Upstream::connect of src/upstream.rs *)
(* tries the direct WebSocket, the Worker, HTTP/2, the Cloudflare          *)
(* WebSocket and plain TCP in turn, and leaves marks in the shared State:  *)
(* targets not to be tried again for a while, and the one TCP dial a       *)
(* target may have.  Module ProxyClients composes these steps with the     *)
(* listener, which may drop a client in the middle of any of them.         *)
(*                                                                         *)
(* A walk over the fallback domains is one stage: which base answers is    *)
(* data, and with it preferred and refresh_domains.  Only a shorter time   *)
(* limit depends on failed_dc, only the length of a back-off on            *)
(* tcp_failures; both are left out.  The direct targets share one address, *)
(* as in the default configuration.  Only data centres that fallback_ip    *)
(* knows get as far as a walk.  A deadline in the tables is an entry that  *)
(* some time disappears.                                                   *)
(***************************************************************************)
EXTENDS Integers, FiniteSets

CONSTANTS
  Clients,  \* tasks that serve a client
  DCs,      \* Telegram data centres
  Kinds,    \* what a client may ask for: records of media and test
  Configs,  \* the configurations considered
  NoDC      \* the client has not been parsed yet

VARIABLES
  config,       \* the running configuration
  pc,           \* where each client's task is suspended
  dc,           \* the data centre a client asked for
  kind,         \* and the kind of connection
  left,         \* direct domains the client has still to try
  mixed,        \* clients whose direct attempts did not all end in a redirect
  blacklisted,  \* State.blacklisted
  failedIp,     \* State.failed_ip: 1 while the direct address cools down
  h2retry,      \* keys of State.h2_retry_after that lie in the future
  tcpRetry,     \* keys of State.tcp_retry_after that lie in the future
  connecting    \* State.tcp_connecting

routeVars == <<config, pc, dc, kind, left, mixed, blacklisted, failedIp,
               h2retry, tcpRetry, connecting>>

Walking == {"pool", "direct", "front", "workerPool", "worker", "h2", "cf", "tcp"}

AnyKind == CHOOSE k \in Kinds : TRUE

RoutesInit ==
  /\ config \in Configs
  /\ pc = [c \in Clients |-> "none"]
  /\ dc = [c \in Clients |-> NoDC]
  /\ kind = [c \in Clients |-> AnyKind]
  /\ left = [c \in Clients |-> 0] /\ mixed = {}
  /\ blacklisted = {} /\ failedIp = 0
  /\ h2retry = {} /\ tcpRetry = {} /\ connecting = {}

-----------------------------------------------------------------------------
(* Where a walk to data centre d for kind k goes on, up to its next await.  *)

\* fallback_ip: a test data centre has an address of its own.
TcpTarget(d, k) == <<d, k.test>>

\* Faulty: a dial in progress is not looked at.
TcpStageUnseen(d, k) == IF TcpTarget(d, k) \in tcpRetry THEN "none" ELSE "tcp"

\* TcpAttempt::begin: refused while the target is dialled or backs off.
TcpStage(d, k) ==
  IF TcpTarget(d, k) \in connecting \cup tcpRetry THEN "none" ELSE "tcp"

\* HTTP/2 for media of a production data centre, else the CF WebSocket.
CfStage(d, k) ==
  IF ~config.cfproxy \/ k.test THEN TcpStage(d, k)
  ELSE IF k.media /\ config.h2 /\ d \notin h2retry THEN "h2" ELSE "cf"

\* The Worker, from its pool first unless a test data centre is asked for.
WorkerStage(d, k) ==
  IF ~config.workers THEN CfStage(d, k)
  ELSE IF k.test THEN "worker" ELSE "workerPool"

HasCf(k) == (config.cfproxy /\ ~k.test) \/ config.workers

\* direct_route: from its pool, or on demand unless that was given up.
DirectStage(d, k) ==
  IF \/ d \notin config.direct
     \/ /\ ~config.pooled
        /\ <<d, k>> \in blacklisted \/ (HasCf(k) /\ failedIp = 1)
  THEN WorkerStage(d, k)
  ELSE IF config.pooled THEN "pool" ELSE "direct"

\* ws_domains: a media connection has a host of its own and the regular one.
DomainsFor(k) == IF k.media THEN 2 ELSE 1

\* The target that the task of c dials, or would.
Target(c) == TcpTarget(dc[c], kind[c])

\* The task of c is suspended in stage, for data centre d and kind k, with m
\* the clients that met more than redirects.  What the walk held and does not
\* need any more is dropped, TcpAttempt included.
MoveFor(c, stage, d, k, m) ==
  /\ pc' = [pc EXCEPT ![c] = stage]
  /\ dc' = [dc EXCEPT ![c] = IF stage \in Walking THEN d ELSE NoDC]
  /\ kind' = [kind EXCEPT ![c] = IF stage \in Walking THEN k ELSE AnyKind]
  /\ left' = [left EXCEPT ![c] =
                CASE stage = "front" -> @
                  [] stage = "direct" -> IF pc[c] \in {"direct", "front"}
                                         THEN @ - 1 ELSE DomainsFor(k)
                  [] OTHER -> 0]
  /\ mixed' = IF stage \in {"direct", "front"} THEN m ELSE m \ {c}
  /\ connecting' = (connecting \ (IF pc[c] = "tcp" THEN {Target(c)} ELSE {}))
                     \cup (IF stage = "tcp" THEN {TcpTarget(d, k)} ELSE {})

Move(c, stage) == MoveFor(c, stage, dc[c], kind[c], mixed)

-----------------------------------------------------------------------------
(* The direct WebSocket.                                                    *)

AtDirect(c) == pc[c] \in {"pool", "direct", "front"}
AfterDirect(c) == WorkerStage(dc[c], kind[c])

\* direct_success(): a socket from the pool or a handshake that went through.
DirectOk(c) ==
  /\ AtDirect(c)
  /\ failedIp' = 0
  /\ Move(c, "bridge")
  /\ UNCHANGED <<config, blacklisted, h2retry, tcpRetry>>

\* The pool missed, or direct_route has had its 15 seconds: nothing is noted.
DirectCut(c) ==
  /\ AtDirect(c)
  /\ Move(c, AfterDirect(c))
  /\ UNCHANGED <<config, blacklisted, failedIp, h2retry, tcpRetry>>

\* Only a walk in which every domain redirected rules the target out.
DirectRedirects(c) ==
  /\ pc[c] = "direct"
  /\ Move(c, IF left[c] > 1 THEN "direct" ELSE AfterDirect(c))
  /\ blacklisted' = IF left[c] = 1 /\ c \notin mixed
                    THEN blacklisted \cup {<<dc[c], kind[c]>>} ELSE blacklisted
  /\ UNCHANGED <<config, failedIp, h2retry, tcpRetry>>

\* A time-out or reset is tried again under another server name.
TryFronting(c) ==
  /\ pc[c] = "direct" /\ config.fronting
  /\ MoveFor(c, "front", dc[c], kind[c], mixed \cup {c})
  /\ UNCHANGED <<config, blacklisted, failedIp, h2retry, tcpRetry>>

\* A domain failed otherwise; the next one, if there is one.
DirectFails(c) ==
  /\ pc[c] \in {"direct", "front"}
  /\ MoveFor(c, IF left[c] > 1 THEN "direct" ELSE AfterDirect(c),
             dc[c], kind[c], mixed \cup {c})
  /\ UNCHANGED <<config, blacklisted, failedIp, h2retry, tcpRetry>>

\* The attempt timed out: the address is given up, and the walk with it.
DirectTimesOut(c) ==
  /\ pc[c] = "front" \/ (pc[c] = "direct" /\ ~config.fronting)
  /\ Move(c, AfterDirect(c))
  /\ failedIp' = 1
  /\ UNCHANGED <<config, blacklisted, h2retry, tcpRetry>>

-----------------------------------------------------------------------------
(* The fallbacks.                                                           *)

directMarks == <<config, blacklisted, failedIp>>

\* Worker, HTTP/2 or CF answered.
FallbackOk(c) ==
  /\ pc[c] \in {"workerPool", "worker", "h2", "cf"}
  /\ Move(c, "bridge")
  /\ UNCHANGED <<directMarks, h2retry, tcpRetry>>

WorkerPoolMiss(c) ==
  /\ pc[c] = "workerPool"
  /\ Move(c, "worker")
  /\ UNCHANGED <<directMarks, h2retry, tcpRetry>>

WorkerFails(c) ==
  /\ pc[c] = "worker"
  /\ Move(c, CfStage(dc[c], kind[c]))
  /\ UNCHANGED <<directMarks, h2retry, tcpRetry>>

\* No domain answered, or not within 8 seconds: HTTP/2 cools down.
H2Fails(c) ==
  /\ pc[c] = "h2"
  /\ h2retry' = h2retry \cup {dc[c]}
  /\ Move(c, "cf")
  /\ UNCHANGED <<directMarks, tcpRetry>>

CfFails(c) ==
  /\ pc[c] = "cf"
  /\ Move(c, TcpStage(dc[c], kind[c]))
  /\ UNCHANGED <<directMarks, h2retry, tcpRetry>>

\* TcpAttempt::success
TcpOk(c) ==
  /\ pc[c] = "tcp"
  /\ tcpRetry' = tcpRetry \ {Target(c)}
  /\ Move(c, "bridge")
  /\ UNCHANGED <<directMarks, h2retry>>

\* TcpAttempt::failure; the client is refused.
TcpFails(c) ==
  /\ pc[c] = "tcp"
  /\ tcpRetry' = tcpRetry \cup {Target(c)}
  /\ Move(c, "none")
  /\ UNCHANGED <<directMarks, h2retry>>

\* connect() as a whole has had its time.
ConnectTimesOut(c) ==
  /\ pc[c] \in Walking
  /\ Move(c, "none")
  /\ UNCHANGED <<directMarks, h2retry, tcpRetry>>

\* A deadline in the tables passes.
CoolingEnds ==
  /\ \/ failedIp = 1 /\ failedIp' = 0 /\ UNCHANGED <<h2retry, tcpRetry>>
     \/ \E d \in h2retry : h2retry' = h2retry \ {d} /\ UNCHANGED <<failedIp, tcpRetry>>
     \/ \E t \in tcpRetry : tcpRetry' = tcpRetry \ {t} /\ UNCHANGED <<failedIp, h2retry>>
  /\ UNCHANGED <<config, pc, dc, kind, left, mixed, blacklisted, connecting>>

WalkStep(c) ==
  \/ DirectOk(c) \/ DirectCut(c) \/ DirectRedirects(c) \/ TryFronting(c)
  \/ DirectFails(c) \/ DirectTimesOut(c) \/ FallbackOk(c) \/ WorkerPoolMiss(c)
  \/ WorkerFails(c) \/ H2Fails(c) \/ CfFails(c) \/ TcpOk(c) \/ TcpFails(c)
  \/ ConnectTimesOut(c)

-----------------------------------------------------------------------------
(* Properties.                                                              *)

\* A target is dialled by exactly the client that holds its slot, through
\* failures and dropped futures, and is never dialled and backed off at once.
TcpSlotIsHeld ==
  /\ connecting \cap tcpRetry = {}
  /\ \A t \in DCs \X BOOLEAN :
       Cardinality({c \in Clients : pc[c] = "tcp" /\ Target(c) = t})
         = IF t \in connecting THEN 1 ELSE 0

=============================================================================

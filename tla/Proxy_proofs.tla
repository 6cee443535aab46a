----------------------------- MODULE Proxy_proofs -----------------------------
(***************************************************************************)
(* Theorems about src/proxy.rs and src/upstream.rs: about ProxyClients     *)
(* with the routes that it extends, for any clients, data centres and      *)
(* configurations, any clock and any number of ClientHellos; about         *)
(* RelayBridge, for packets and frames of every length and every           *)
(* inactivity limit; and about WarmPool, for any users, buckets and sizes. *)
(***************************************************************************)
EXTENDS ProxyClients, RelayBridge, WarmPool, FiniteSetTheorems,
        WellFoundedInduction, TLAPS

-----------------------------------------------------------------------------
(* The inductive invariant of clients and listener.                         *)

Stages == {"none", "prefix", "handshake", "mask", "redirect", "bridge"} \cup Walking

\* A task knows its data centre while it walks the routes.
WalkType ==
  /\ pc \in [Clients -> Stages] /\ dc \in [Clients -> DCs \cup {NoDC}]
  /\ kind \in [Clients -> Kinds \cup {AnyKind}]
  /\ \A c \in Clients : pc[c] \in Walking => dc[c] \in DCs

\* The targets being dialled are those of the clients that dial, one each.
SlotInv ==
  /\ connecting = {Target(c) : c \in {e \in Clients : pc[e] = "tcp"}}
  /\ \A c, e \in Clients :
       pc[c] = "tcp" /\ pc[e] = "tcp" /\ Target(c) = Target(e) => c = e
  /\ connecting \cap tcpRetry = {}

\* Permits and the gauge stand for tasks; nothing runs once all were joined.
BooksInv ==
  /\ slots \in Nat /\ slots + Cardinality(Tasks) = MaxConnections
  /\ active = Cardinality(Tasks)
  /\ listener \in {"closing", "done"} => Tasks = {} /\ background = {}

\* A ClientHello that was served is remembered from an arrival when it was
\* timely, or is out of tolerance for good.
HelloInv ==
  /\ now \in Nat /\ seen \subseteq Hellos \X Nat
  /\ served \in [Hellos -> 0..1]
  /\ \A h \in Hellos : served[h] = 1 =>
       \/ now - h > Tolerance
       \/ \E p \in seen : p[1] = h /\ p[2] \in Nat /\ h - p[2] <= Tolerance

IInv == WalkType /\ SlotInv /\ BooksInv /\ HelloInv

-----------------------------------------------------------------------------
(* A step moves one client, or none.                                        *)

\* The task of c goes on to stage, with what MoveFor says of its dial, and
\* permits are taken and returned with tasks.
Moves(c, stage, d, k) ==
  /\ pc' = [pc EXCEPT ![c] = stage]
  /\ dc' = [dc EXCEPT ![c] = IF stage \in Walking THEN d ELSE NoDC]
  /\ kind' = [kind EXCEPT ![c] = IF stage \in Walking THEN k ELSE AnyKind]
  /\ connecting' = (connecting \ (IF pc[c] = "tcp" THEN {Target(c)} ELSE {}))
                     \cup (IF stage = "tcp" THEN {TcpTarget(d, k)} ELSE {})
  /\ stage \in Stages /\ (stage \in Walking => d \in DCs /\ k \in Kinds \cup {AnyKind})
  /\ stage = "tcp" => TcpTarget(d, k) \notin connecting \cup tcpRetry
  /\ tcpRetry' \subseteq tcpRetry \cup
       (IF pc[c] = "tcp" /\ stage = "none" THEN {Target(c)} ELSE {})
  /\ listener \notin {"closing", "done"} /\ listener' = listener
  /\ IF pc[c] = "none"
     THEN stage # "none" /\ slots > 0 /\ slots' = slots - 1 /\ active' = active + 1
     ELSE IF stage = "none"
     THEN slots' = slots + 1 /\ active' = active - 1
     ELSE slots' = slots /\ active' = active

Still ==
  /\ UNCHANGED <<pc, dc, kind, connecting, slots, active>> /\ tcpRetry' \subseteq tcpRetry
  /\ background' \subseteq background
  /\ listener' \in {"closing", "done"} =>
       listener \in {"closing", "done"} \/ (Tasks = {} /\ background = {})

\* Where a walk goes on, it never takes a slot that is taken or cools down.
LEMMA StagesAreFree ==
  ASSUME NEW d, NEW k, NEW stage,
         stage \in {TcpStage(d, k), CfStage(d, k), WorkerStage(d, k), DirectStage(d, k)}
  PROVE  /\ stage \in Walking \cup {"none"}
         /\ stage = "tcp" => TcpTarget(d, k) \notin connecting \cup tcpRetry
<1>1. stage = "tcp" => TcpTarget(d, k) \notin connecting \cup tcpRetry
  BY DEF TcpStage, CfStage, WorkerStage, DirectStage
<1>2. stage \in Walking \cup {"none"}
  BY DEF TcpStage, CfStage, WorkerStage, DirectStage, Walking
<1> QED
  BY <1>1, <1>2

\* The walk of a client through the routes.
LEMMA WalkMoves ==
  ASSUME WalkType, NEW c \in Clients, Walk(c)
  PROVE  \E stage : Moves(c, stage, dc[c], kind[c])
<1>1. ASSUME pc[c] \in Walking, Counted(c), Serving, listener' = listener,
             NEW stage, stage \in Stages,
             stage = "tcp" => Target(c) \notin connecting \cup tcpRetry,
             tcpRetry' \subseteq tcpRetry \cup
               (IF pc[c] = "tcp" /\ stage = "none" THEN {Target(c)} ELSE {}),
             NEW m, MoveFor(c, stage, dc[c], kind[c], m)
      PROVE  Moves(c, stage, dc[c], kind[c])
  <2>1. pc'[c] = stage /\ pc[c] # "none" /\ dc[c] \in DCs
    BY <1>1 DEF WalkType, MoveFor, Walking
  <2> QED
    BY <1>1, <2>1 DEF Moves, MoveFor, Counted, books, Serving, Target, WalkType
<1>2. Serving /\ WalkStep(c) /\ Counted(c) /\ listener' = listener
  BY DEF Walk
<1>3. \A stage \in {TcpStage(dc[c], kind[c]), CfStage(dc[c], kind[c]), AfterDirect(c)} :
        stage \in Stages /\ (stage = "tcp" => Target(c) \notin connecting \cup tcpRetry)
  BY StagesAreFree DEF AfterDirect, Stages, Target
<1>4. {"bridge", "none", "front", "direct", "worker", "cf"} \subseteq Stages
  BY DEF Stages, Walking
<1>5. CASE DirectOk(c)
  BY <1>1, <1>2, <1>4, <1>5 DEF DirectOk, AtDirect, Move, Walking
<1>6. CASE DirectCut(c)
  BY <1>1, <1>2, <1>3, <1>6 DEF DirectCut, AtDirect, Move, Walking
<1>7. CASE DirectRedirects(c)
  BY <1>1, <1>2, <1>3, <1>4, <1>7 DEF DirectRedirects, Move, Walking
<1>8. CASE TryFronting(c)
  BY <1>1, <1>2, <1>4, <1>8 DEF TryFronting, Walking
<1>9. CASE DirectFails(c)
  BY <1>1, <1>2, <1>3, <1>4, <1>9 DEF DirectFails, Walking
<1>10. CASE DirectTimesOut(c)
  BY <1>1, <1>2, <1>3, <1>10 DEF DirectTimesOut, Move, Walking
<1>11. CASE FallbackOk(c)
  BY <1>1, <1>2, <1>4, <1>11 DEF FallbackOk, Move, Walking
<1>12. CASE WorkerPoolMiss(c)
  BY <1>1, <1>2, <1>4, <1>12 DEF WorkerPoolMiss, Move, Walking
<1>13. CASE WorkerFails(c)
  BY <1>1, <1>2, <1>3, <1>13 DEF WorkerFails, Move, Walking
<1>14. CASE H2Fails(c)
  BY <1>1, <1>2, <1>4, <1>14 DEF H2Fails, Move, Walking
<1>15. CASE CfFails(c)
  BY <1>1, <1>2, <1>3, <1>15 DEF CfFails, Move, Walking
<1>16. CASE TcpOk(c)
  BY <1>1, <1>2, <1>4, <1>16 DEF TcpOk, Move, Walking
<1>17. CASE TcpFails(c)
  BY <1>1, <1>2, <1>4, <1>17 DEF TcpFails, Move, Walking
<1>18. CASE ConnectTimesOut(c)
  BY <1>1, <1>2, <1>4, <1>18 DEF ConnectTimesOut, Move, Walking
<1> QED
  BY <1>2, <1>5, <1>6, <1>7, <1>8, <1>9, <1>10, <1>11, <1>12, <1>13, <1>14,
     <1>15, <1>16, <1>17, <1>18 DEF WalkStep

LEMMA StepMoves ==
  ASSUME WalkType, [Next]_vars
  PROVE  Still \/ \E c \in Clients : \E stage, d, k : Moves(c, stage, d, k)
<1>1. ASSUME NEW c \in Clients, NEW h \in Hellos, ClientHello(c, h)
      PROVE  \E stage : Moves(c, stage, dc[c], kind[c])
  <2>1. /\ pc[c] = "prefix" /\ Serving /\ UNCHANGED <<listener, books, tcpRetry>>
        /\ Move(c, "handshake") \/ Move(c, "mask")
    BY <1>1 DEF ClientHello, Tables
  <2> QED
    BY <2>1 DEF Moves, Move, MoveFor, Stages, Walking, Serving, books
<1>2. ASSUME NEW c \in Clients, PlainPrefix(c)
      PROVE  \E stage : Moves(c, stage, dc[c], kind[c])
  <2>1. /\ pc[c] = "prefix" /\ Serving /\ UNCHANGED <<listener, books, tcpRetry>>
        /\ Move(c, "redirect") \/ Move(c, "handshake")
    BY <1>2 DEF PlainPrefix, Tables
  <2> QED
    BY <2>1 DEF Moves, Move, MoveFor, Stages, Walking, Serving, books
<1>3. ASSUME NEW c \in Clients, Accept(c)
      PROVE  Moves(c, "prefix", dc[c], kind[c])
  BY <1>3 DEF Accept, Tables, Moves, Move, MoveFor, Stages, Walking
<1>4. ASSUME NEW c \in Clients, ClientEnds(c) \/ Dropped(c)
      PROVE  Moves(c, "none", dc[c], kind[c])
  <2>1. /\ pc[c] # "none" /\ listener \notin {"closing", "done"}
        /\ Move(c, "none") /\ Counted(c) /\ UNCHANGED <<listener, tcpRetry>>
    BY <1>4 DEF ClientEnds, Dropped, Serving, Tables
  <2>2. pc'[c] = "none"
    BY <2>1 DEF Move, MoveFor, WalkType
  <2> QED
    BY <2>1, <2>2 DEF Moves, Move, MoveFor, Counted, Stages, Walking
<1>5. ASSUME NEW c \in Clients, NEW d \in DCs, NEW k \in Kinds, Handshake(c, d, k)
      PROVE  Moves(c, DirectStage(d, k), d, k)
  <2> DEFINE stage == DirectStage(d, k)
  <2>1. /\ pc[c] = "handshake" /\ Serving /\ Counted(c) /\ UNCHANGED <<listener, tcpRetry>>
        /\ MoveFor(c, stage, d, k, mixed)
    BY <1>5 DEF Handshake, Tables
  <2>2. stage \in Stages /\ (stage = "tcp" => TcpTarget(d, k) \notin connecting \cup tcpRetry)
    BY StagesAreFree DEF Stages
  <2> HIDE DEF stage
  <2>3. pc'[c] = stage
    BY <2>1 DEF MoveFor, WalkType
  <2>4. Moves(c, stage, d, k)
    BY <2>1, <2>2, <2>3 DEF Moves, MoveFor, Counted, Serving, books
  <2> QED
    BY <2>4 DEF stage
<1>6. ASSUME NEW c \in Clients, ClientStep(c)
      PROVE  \E stage, d, k : Moves(c, stage, d, k)
  BY <1>1, <1>2, <1>3, <1>4, <1>5, <1>6, WalkMoves DEF ClientStep
<1>7. ASSUME NEW b, BackgroundStep(b)
      PROVE  Still
  BY <1>7 DEF BackgroundStep, BackgroundReturns, BackgroundDropped, Still, routeVars, books
<1>8. CASE AcceptFails \/ Resume \/ Minute \/ Stop \/ StopSeen \/ UpstreamClosed
  BY <1>8 DEF AcceptFails, Resume, Minute, Stop, StopSeen, UpstreamClosed, Still, routeVars, books
<1>9. CASE Joined
  BY <1>9 DEF Joined, Still, routeVars, books, Tasks
<1>10. CASE Cool
  BY <1>10 DEF Cool, CoolingEnds, Still, books
<1>11. CASE UNCHANGED vars
  BY <1>11 DEF vars, Still, routeVars
<1> QED
  BY <1>6, <1>7, <1>8, <1>9, <1>10, <1>11 DEF Next

-----------------------------------------------------------------------------
(* The slots of the TCP targets, and the books of the listener.             *)

LEMMA MoveKeepsSlots ==
  ASSUME WalkType, SlotInv, NEW c \in Clients, NEW stage, NEW d, NEW k,
         Moves(c, stage, d, k)
  PROVE  WalkType' /\ SlotInv'
<1>1. /\ pc' \in [Clients -> Stages] /\ dc' \in [Clients -> DCs \cup {NoDC}]
      /\ kind' \in [Clients -> Kinds \cup {AnyKind}]
      /\ pc'[c] = stage /\ (stage \in Walking => Target(c)' = TcpTarget(d, k))
      /\ \A e \in Clients \ {c} : pc'[e] = pc[e] /\ dc'[e] = dc[e] /\ Target(e)' = Target(e)
  BY DEF WalkType, Moves, Target
<1>2. WalkType'
  BY <1>1 DEF WalkType, Moves
<1>3. "tcp" \in Walking
  BY DEF Walking
<1>4. connecting' = {Target(x)' : x \in {e \in Clients : pc'[e] = "tcp"}}
  <2>1. \A t \in connecting' : \E e \in Clients : pc'[e] = "tcp" /\ Target(e)' = t
    BY <1>1, <1>3 DEF SlotInv, Moves
  <2>2. \A e \in Clients : pc'[e] = "tcp" => Target(e)' \in connecting'
    BY <1>1, <1>3 DEF SlotInv, Moves
  <2> QED
    BY <2>1, <2>2
<1>5. \A x, e \in Clients :
        pc'[x] = "tcp" /\ pc'[e] = "tcp" /\ Target(x)' = Target(e)' => x = e
  <2>1. \A e \in Clients : pc[e] = "tcp" => Target(e) \in connecting
    BY DEF SlotInv
  <2>2. stage = "tcp" => TcpTarget(d, k) \notin connecting
    BY DEF Moves
  <2> QED
    BY <1>1, <1>3, <2>1, <2>2 DEF SlotInv
<1>6. connecting' \cap tcpRetry' = {}
  BY DEF SlotInv, Moves
<1> QED
  BY <1>2, <1>4, <1>5, <1>6 DEF SlotInv

LEMMA MoveKeepsBooks ==
  ASSUME WalkType, BooksInv, NEW c \in Clients, NEW stage, NEW d, NEW k,
         Moves(c, stage, d, k)
  PROVE  BooksInv'
<1>1. IsFiniteSet(Tasks) /\ Cardinality(Tasks) \in Nat
  <2>1. Tasks \subseteq Clients /\ IsFiniteSet(Clients)
    BY ProxyAssumption DEF Tasks
  <2> QED
    BY <2>1, FS_Subset, FS_CardinalityType
<1>2. pc'[c] = stage /\ \A e \in Clients \ {c} : pc'[e] = pc[e]
  BY DEF WalkType, Moves
<1>3. slots \in Nat /\ MaxConnections \in Nat
  BY ProxyAssumption DEF BooksInv
<1>4. CASE pc[c] = "none"
  <2>1. Tasks' = Tasks \cup {c} /\ c \notin Tasks
    BY <1>2, <1>4 DEF Tasks, Moves
  <2>2. Cardinality(Tasks') = Cardinality(Tasks) + 1
    BY <1>1, <2>1, FS_AddElement
  <2> QED
    BY <1>1, <1>3, <1>4, <2>2 DEF BooksInv, Moves
<1>5. CASE pc[c] # "none" /\ stage = "none"
  <2>1. Tasks' = Tasks \ {c} /\ c \in Tasks
    BY <1>2, <1>5 DEF Tasks
  <2>2. Cardinality(Tasks') = Cardinality(Tasks) - 1
    BY <1>1, <2>1, FS_RemoveElement
  <2> QED
    BY <1>1, <1>3, <1>5, <2>2 DEF BooksInv, Moves
<1>6. CASE pc[c] # "none" /\ stage # "none"
  <2>1. Tasks' = Tasks
    BY <1>2, <1>6 DEF Tasks
  <2> QED
    BY <1>3, <1>6, <2>1 DEF BooksInv, Moves
<1> QED
  BY <1>4, <1>5, <1>6

LEMMA StillKeepsInv ==
  ASSUME WalkType, SlotInv, BooksInv, Still
  PROVE  WalkType' /\ SlotInv' /\ BooksInv'
<1>1. WalkType' /\ SlotInv'
  BY DEF WalkType, SlotInv, Still, Target
<1>2. Tasks' = Tasks
  BY DEF Tasks, Still
<1> QED
  BY <1>1, <1>2 DEF BooksInv, Still

-----------------------------------------------------------------------------
(* The replay cache of Fake TLS.                                            *)

LEMMA HelloKeepsInv ==
  ASSUME HelloInv, NEW c \in Clients, NEW h \in Hellos, ClientHello(c, h)
  PROVE  HelloInv'
<1>1. /\ Tolerance \in Nat /\ Retention \in Nat /\ 2 * Tolerance < Retention
      /\ Hellos \subseteq Nat /\ now \in Nat /\ now' = now
  BY ProxyAssumption DEF HelloInv, ClientHello
<1>2. Remembered \subseteq seen /\ Remembered \subseteq Hellos \X Nat
  BY DEF HelloInv, Remembered
\* An entry that is dropped is of a ClientHello that is out of tolerance.
<1>3. ASSUME NEW g \in Hellos, served[g] = 1
      PROVE  \/ now - g > Tolerance
             \/ \E p \in Remembered : p[1] = g /\ p[2] \in Nat /\ g - p[2] <= Tolerance
  <2>1. CASE now - g > Tolerance
    BY <2>1
  <2>2. ASSUME NEW p \in seen, p[1] = g, p[2] \in Nat, g - p[2] <= Tolerance
        PROVE  p \in Remembered \/ now - g > Tolerance
    BY <1>1, <2>2 DEF Remembered
  <2> QED
    BY <1>3, <2>1, <2>2 DEF HelloInv
<1>4. CASE UNCHANGED served
  <2>1. seen' \in {Remembered, Remembered \cup {<<h, now>>}, seen}
    BY DEF ClientHello
  <2>2. seen' \subseteq Hellos \X Nat
    BY <1>1, <1>2, <2>1 DEF HelloInv
  <2>3. Remembered \subseteq seen'
    BY <1>2, <2>1
  <2> QED
    BY <1>1, <1>3, <1>4, <2>2, <2>3 DEF HelloInv
<1>5. CASE ~UNCHANGED served
  <2>1. /\ Timely(h) /\ ~\E p \in Remembered : p[1] = h
        /\ seen' = Remembered \cup {<<h, now>>}
        /\ served' = [served EXCEPT ![h] = @ + 1]
    BY <1>5 DEF ClientHello
  <2>2. now - h <= Tolerance /\ h - now <= Tolerance /\ h \in Nat
    BY <1>1, <2>1 DEF Timely
  <2>3. served[h] = 0
    <3>1. served[h] # 1
      BY <1>1, <1>3, <2>1, <2>2
    <3> QED
      BY <3>1 DEF HelloInv
  <2>4. /\ served' \in [Hellos -> 0..1] /\ served'[h] = 1
        /\ \A g \in Hellos \ {h} : served'[g] = served[g]
    BY <2>1, <2>3 DEF HelloInv
  <2>5. seen' \subseteq Hellos \X Nat
    BY <1>1, <1>2, <2>1
  <2>6. <<h, now>> \in seen' /\ Remembered \subseteq seen'
    BY <2>1
  <2>7. ASSUME NEW g \in Hellos, served'[g] = 1
        PROVE  \/ now - g > Tolerance
               \/ \E p \in seen' : p[1] = g /\ p[2] \in Nat /\ g - p[2] <= Tolerance
    <3>1. CASE g = h
      BY <1>1, <2>2, <2>6, <3>1
    <3>2. CASE g # h
      BY <1>3, <2>4, <2>6, <2>7, <3>2
    <3> QED
      BY <3>1, <3>2
  <2> QED
    BY <1>1, <2>4, <2>5, <2>7 DEF HelloInv
<1> QED
  BY <1>4, <1>5

LEMMA NextKeepsHello ==
  ASSUME HelloInv, [Next]_vars
  PROVE  HelloInv'
<1>1. ASSUME UNCHANGED tls
      PROVE  HelloInv'
  BY <1>1 DEF tls, HelloInv
<1>2. ASSUME NEW c \in Clients, ClientStep(c)
      PROVE  HelloInv'
  <2>1. ASSUME ~\E h \in Hellos : ClientHello(c, h)
        PROVE  UNCHANGED tls
    BY <1>2, <2>1 DEF ClientStep, Accept, PlainPrefix, Walk, ClientEnds, Dropped, Handshake
  <2> QED
    BY <1>1, <2>1, HelloKeepsInv
<1>3. CASE Minute
  BY <1>3, ProxyAssumption DEF Minute, HelloInv
<1>4. ASSUME NEW b, BackgroundStep(b)
      PROVE  HelloInv'
  BY <1>1, <1>4 DEF BackgroundStep, BackgroundReturns, BackgroundDropped
<1>5. CASE AcceptFails \/ Resume \/ Cool \/ Stop \/ StopSeen \/ Joined \/ UpstreamClosed
  BY <1>1, <1>5 DEF AcceptFails, Resume, Cool, Stop, StopSeen, Joined, UpstreamClosed
<1>6. CASE UNCHANGED vars
  BY <1>1, <1>6 DEF vars, tls
<1> QED
  BY <1>2, <1>3, <1>4, <1>5, <1>6 DEF Next

-----------------------------------------------------------------------------
LEMMA InitIInv == Init => IInv
<1> SUFFICES ASSUME Init PROVE IInv
  OBVIOUS
<1>1. WalkType /\ SlotInv
  BY DEF Init, RoutesInit, WalkType, SlotInv, Stages, Walking
<1>2. BooksInv
  <2>1. Tasks = {} /\ Cardinality({}) = 0
    BY FS_EmptySet DEF Init, RoutesInit, Tasks
  <2> QED
    BY <2>1, ProxyAssumption DEF Init, BooksInv
<1>3. HelloInv
  BY DEF Init, HelloInv
<1> QED
  BY <1>1, <1>2, <1>3 DEF IInv

LEMMA NextIInv == IInv /\ [Next]_vars => IInv'
<1> SUFFICES ASSUME IInv, [Next]_vars PROVE IInv'
  OBVIOUS
<1>1. WalkType' /\ SlotInv' /\ BooksInv'
  BY StepMoves, MoveKeepsSlots, MoveKeepsBooks, StillKeepsInv DEF IInv
<1> QED
  BY <1>1, NextKeepsHello DEF IInv

\* Walks, TCP slots, permits and the replay cache stay consistent.
THEOREM ProxyInvariance == Spec => []IInv
BY InitIInv, NextIInv, PTL DEF Spec

-----------------------------------------------------------------------------
(* What it implies.                                                         *)

\* A TCP target is dialled by exactly the client that holds its slot, and never
\* while it cools down, wherever clients are dropped.
THEOREM TcpSlotIsHeldAlways == Spec => []TcpSlotIsHeld
<1>1. ASSUME IInv
      PROVE  TcpSlotIsHeld
  <2>1. ASSUME NEW t \in DCs \X BOOLEAN
        PROVE  Cardinality({c \in Clients : pc[c] = "tcp" /\ Target(c) = t})
                 = IF t \in connecting THEN 1 ELSE 0
    <3> DEFINE dialling == {c \in Clients : pc[c] = "tcp" /\ Target(c) = t}
    <3>1. CASE t \in connecting
      <4>1. PICK c \in Clients : pc[c] = "tcp" /\ Target(c) = t
        BY <1>1, <3>1 DEF IInv, SlotInv
      <4>2. dialling = {c}
        BY <1>1, <4>1 DEF IInv, SlotInv
      <4> QED
        BY <3>1, <4>2, FS_Singleton
    <3>2. CASE t \notin connecting
      <4>1. dialling = {}
        BY <1>1, <3>2 DEF IInv, SlotInv
      <4> QED
        BY <3>2, <4>1, FS_EmptySet
    <3> QED
      BY <3>1, <3>2
  <2> QED
    BY <1>1, <2>1 DEF IInv, SlotInv, TcpSlotIsHeld
<1> QED
  BY <1>1, ProxyInvariance, PTL

\* verify_client_hello() and the replay cache answer a ClientHello once, since
\* the cache keeps it for longer than twice the tolerance.
THEOREM HelloServedOnceAlways == Spec => []HelloServedOnce
<1>1. IInv => HelloServedOnce
  BY DEF IInv, HelloInv, HelloServedOnce
<1> QED
  BY <1>1, ProxyInvariance, PTL

\* When shutdown() is through, no task, permit or dial is left.
THEOREM ShutdownCompleteness == Spec => []ShutdownIsComplete
<1>1. IInv => ShutdownIsComplete
  BY DEF IInv, BooksInv, SlotInv, Tasks, ShutdownIsComplete
<1> QED
  BY <1>1, ProxyInvariance, PTL

-----------------------------------------------------------------------------
(* The inductive invariant of a client's bridge.                            *)

\* The mutex belongs to the direction that is writing a frame or is about to,
\* and what is left of the frame is what that direction still has to write.
WriterInv ==
  /\ lock = "up" => up \in {"lock", "begin", "body", "payload"}
  /\ lock = "down" => down \in {"lock", "pong", "close"}
  /\ up \in {"begin", "payload"} => lock = "up" /\ remaining = body + 1
  /\ up = "body" => lock = "up" /\ remaining = body /\ body # 0
  /\ down \in {"pong", "close"} => lock = "down" /\ remaining = 1
  /\ remaining # 0 => \/ up \in {"begin", "body", "payload"}
                      \/ down \in {"pong", "close"}
  /\ ended # "frame"

\* The shared clock never shows more silence than either direction had.
ClockInv ==
  /\ silent <= quietUp /\ silent <= quietDown
  /\ ended = "idle" => silent = Idle

\* A chunk is awaited only while the incoming frame has one left.
ChunkInv == down = "chunk" => incoming # 0

BridgeInv == TypeOK /\ WriterInv /\ ClockInv /\ ChunkInv

LEMMA BridgeInitInv == BridgeInit => BridgeInv
BY BridgeAssumption DEF BridgeInit, BridgeInv, TypeOK, WriterInv, ClockInv, ChunkInv

-----------------------------------------------------------------------------
(* The steps of the two directions, and of the clock.                       *)

LEMMA UploadKeepsBridge ==
  ASSUME BridgeInv,
         UpReceives \/ UpHeader \/ UpBegins \/ UpWritten \/ UpBody \/ UpCopied
  PROVE  BridgeInv'
<1> USE BridgeAssumption DEF BridgeInv, TypeOK, WriterInv, ClockInv, ChunkInv, Alive,
        TouchUp, upload, download, clocks
<1>1. CASE UpReceives
  BY <1>1 DEF UpReceives
<1>2. CASE UpHeader
  BY <1>2 DEF UpHeader
<1>3. CASE UpBegins
  <2>1. remaining = 0
    BY <1>3 DEF UpBegins
  <2> QED
    BY <1>3, <2>1 DEF UpBegins, Begin
<1>4. CASE UpWritten
  BY <1>4 DEF UpWritten, UpReleases
<1>5. CASE UpBody
  BY <1>5 DEF UpBody
<1>6. CASE UpCopied
  BY <1>6 DEF UpCopied
<1> QED
  BY <1>1, <1>2, <1>3, <1>4, <1>5, <1>6

LEMMA DownloadKeepsBridge ==
  ASSUME BridgeInv,
         \/ DownFrame \/ DownReceives \/ DownDelivered \/ DownPing
         \/ DownPongs \/ DownPonged \/ DownClose \/ DownClosed
  PROVE  BridgeInv'
<1> USE BridgeAssumption DEF BridgeInv, TypeOK, WriterInv, ClockInv, ChunkInv, Alive,
        TouchDown, upload, download, clocks, End
<1>1. CASE DownFrame
  BY <1>1 DEF DownFrame
<1>2. CASE DownReceives
  BY <1>2 DEF DownReceives
<1>3. CASE DownDelivered \/ DownPing
  BY <1>3 DEF DownDelivered, DownPing
<1>4. CASE DownPongs
  <2>1. remaining = 0 /\ lock # "up"
    BY <1>4 DEF DownPongs
  <2>2. /\ lock' = "down" /\ remaining' = 1 /\ down' = "pong"
        /\ UNCHANGED <<mode, up, body, upWait, incoming, downWait, silent,
                       quietUp, quietDown, ended>>
    BY <1>4, <2>1 DEF DownPongs, Begin
  <2> QED
    BY <2>1, <2>2
<1>5. CASE DownPonged
  BY <1>5 DEF DownPonged, DownReleases
<1>6. CASE DownClose
  <2>1. lock = "none" => remaining = 0
    BY <1>6 DEF DownClose
  <2> QED
    BY <1>6, <2>1 DEF DownClose, Begin
<1>7. CASE DownClosed
  BY <1>7 DEF DownClosed
<1> QED
  BY <1>1, <1>2, <1>3, <1>4, <1>5, <1>6, <1>7

LEMMA ClockKeepsBridge ==
  ASSUME BridgeInv, PeerEnds \/ Expired \/ WriteExpired \/ Tick
  PROVE  BridgeInv'
<1> USE BridgeAssumption DEF BridgeInv, TypeOK, WriterInv, ClockInv, ChunkInv, Alive,
        upload, download, clocks
<1>1. CASE PeerEnds \/ Expired \/ WriteExpired
  BY <1>1 DEF PeerEnds, Expired, WriteExpired, End
<1>2. CASE Tick
  <2>1. \A stage : \A n \in Nat : n < Parts(stage) * Idle => n + 1 <= 3 * Idle
    <3>1. \A stage : Parts(stage) \in {1, 2, 3}
      BY DEF Parts
    <3>2. \A parts \in {1, 2, 3} : \A n \in Nat : n < parts * Idle => n + 1 <= 3 * Idle
      OBVIOUS
    <3> QED
      BY <3>1, <3>2
  <2>2. upWait' \in 0..(3 * Idle) /\ downWait' \in 0..(3 * Idle)
    BY <1>2, <2>1 DEF Tick
  <2>3. TypeOK' /\ ClockInv' /\ ChunkInv'
    BY <1>2, <2>2 DEF Tick
  <2>4. WriterInv'
    BY <1>2 DEF Tick
  <2> QED
    BY <2>3, <2>4
<1> QED
  BY <1>1, <1>2

LEMMA BridgeNextInv == BridgeInv /\ [BridgeNext]_bridgeVars => BridgeInv'
<1> SUFFICES ASSUME BridgeInv, [BridgeNext]_bridgeVars
             PROVE  BridgeInv'
  OBVIOUS
<1>1. CASE BridgeNext
  BY <1>1, UploadKeepsBridge, DownloadKeepsBridge, ClockKeepsBridge DEF BridgeNext
<1>2. CASE UNCHANGED bridgeVars
  BY <1>2 DEF bridgeVars, BridgeInv, TypeOK, WriterInv, ClockInv, ChunkInv
<1> QED
  BY <1>1, <1>2

\* The invariant holds of every reachable state of a bridge.
THEOREM BridgeInvariance == BridgeSpec => []BridgeInv
BY BridgeInitInv, BridgeNextInv, PTL DEF BridgeSpec

-----------------------------------------------------------------------------
(* What it implies for a bridge.                                            *)

\* WsWriter::begin never finds an open frame: neither direction of a bridge can
\* start a frame inside one of the other.
THEOREM WholeFrames == BridgeSpec => []FramesAreWhole
<1>1. BridgeInv => FramesAreWhole
  BY DEF BridgeInv, TypeOK, WriterInv, FramesAreWhole
<1> QED
  BY <1>1, BridgeInvariance, PTL

\* Activity.expired ends a bridge only when both directions were silent for as
\* long as the limit says.
THEOREM SilenceOnly == BridgeSpec => []IdleMeansSilent
<1>1. BridgeInv => IdleMeansSilent
  BY BridgeAssumption DEF BridgeInv, TypeOK, ClockInv, IdleMeansSilent
<1> QED
  BY <1>1, BridgeInvariance, PTL

-----------------------------------------------------------------------------
(* The inductive invariant of the pools of idle sockets.                    *)

\* The task dials only for a bucket that lacks a socket, and checkouts only
\* take more of them: the new socket never exceeds the bucket's limit.
DialFits == at = "dial" => idle[dialing] < Cap(dialing)

PoolIInv == PoolTypeOK /\ DialFits /\ RefillIsOwed

LEMMA CapType == \A k \in Keys : Cap(k) \in 1..PoolSize
BY WarmPoolAssumption DEF Cap

LEMMA InitPoolIInv == PoolInit => PoolIInv
BY WarmPoolAssumption, CapType
DEF PoolInit, PoolIInv, PoolTypeOK, DialFits, RefillIsOwed, Keys

-----------------------------------------------------------------------------
(* Checkouts of an idle socket.                                             *)

\* A refill that is asked for is owed: either a request is already on its way
\* to the task, or it is notified now.
LEMMA RequestKeepsInv ==
  ASSUME PoolIInv, present \subseteq present', present' \subseteq Keys,
         NEW k \in Keys, RequestRefill(k),
         idle' \in [Keys -> 0..PoolSize],
         \A j \in Keys : idle'[j] <= idle[j],
         \A j \in Keys \ {k} : idle'[j] = idle[j] \/ j \notin present',
         NEW c \in Users, using[c] \in {k, NoKey},
         \A j \in present' \ present : j = k,
         using' = [using EXCEPT ![c] = NoKey],
         UNCHANGED <<backoff, task, lost>>
  PROVE  PoolIInv'
<1>0. /\ PoolTypeOK /\ DialFits /\ RefillIsOwed
      /\ UNCHANGED <<backoff, at, dialing, rest, lost>>
  BY DEF PoolIInv, task
<1>1. wanted' \in {wanted, wanted \cup {k}} /\ permit' \in {permit, 1}
  BY DEF RequestRefill
<1>2. /\ wanted' \subseteq present'
      /\ k \in present' => k \in wanted'
      /\ k \in present' /\ permit' # 1 => k \in wanted /\ permit' = permit
      /\ permit' # 1 => wanted' = wanted
  BY <1>0 DEF RequestRefill, PoolTypeOK
<1>3. PoolTypeOK'
  <2>1. using' \in [Users -> Keys \cup {NoKey}]
    BY <1>0 DEF PoolTypeOK
  <2>2. \A j \in Keys : idle'[j] <= Cap(j)
    BY <1>0, CapType DEF PoolTypeOK
  <2> QED
    BY <1>0, <1>1, <1>2, <2>1, <2>2 DEF PoolTypeOK
<1>4. DialFits'
  BY <1>0, CapType, WarmPoolAssumption DEF DialFits, PoolTypeOK
<1>5. RefillIsOwed'
  <2> SUFFICES ASSUME at = "asleep", NEW j \in present' \ backoff, permit' # 1
               PROVE  /\ j \notin wanted'
                      /\ \/ idle'[j] = Cap(j) \/ j \in lost
                         \/ \E d \in Users : using'[d] = j
    BY <1>0 DEF RefillIsOwed
  <2>1. permit # 1 /\ wanted' = wanted
    BY <1>0, <1>1, <1>2 DEF PoolTypeOK
  <2>2. j # k
    BY <1>0, <1>2, <2>1 DEF RefillIsOwed, PoolTypeOK
  <2>3. j \in present /\ idle'[j] = idle[j]
    BY <2>2
  <2>4. /\ j \notin wanted
        /\ \/ idle[j] = Cap(j) \/ j \in lost
           \/ \E d \in Users : using[d] = j
    BY <1>0, <2>1, <2>3 DEF RefillIsOwed
  <2>5. ASSUME NEW d \in Users, using[d] = j
        PROVE  using'[d] = j
    BY <1>0, <2>2, <2>3, <2>5, WarmPoolAssumption DEF PoolTypeOK
  <2> QED
    BY <2>1, <2>3, <2>4, <2>5
<1> QED
  BY <1>3, <1>4, <1>5 DEF PoolIInv

\* A client takes a candidate and suspends in idle_healthy().
LEMMA TakeKeepsInv ==
  ASSUME PoolIInv, present \subseteq present', present' \subseteq Keys,
         NEW k \in Keys, NEW n \in 0..(idle[k] - 1),
         idle' = [idle EXCEPT ![k] = n],
         NEW c \in Users, using[c] \in {k, NoKey},
         \A j \in present' \ present : j = k,
         using' = [using EXCEPT ![c] = k],
         UNCHANGED <<wanted, permit, backoff, task, lost>>
  PROVE  PoolIInv'
<1>0. /\ PoolTypeOK /\ DialFits /\ RefillIsOwed
      /\ UNCHANGED <<wanted, permit, backoff, at, dialing, rest, lost>>
  BY DEF PoolIInv, task
<1>1. /\ idle' \in [Keys -> 0..PoolSize]
      /\ \A j \in Keys : idle'[j] <= idle[j]
      /\ \A j \in Keys \ {k} : idle'[j] = idle[j]
  BY <1>0, WarmPoolAssumption DEF PoolTypeOK
<1>2. PoolTypeOK'
  <2>1. using' \in [Users -> Keys \cup {NoKey}]
    BY <1>0 DEF PoolTypeOK
  <2>2. \A j \in Keys : idle'[j] <= Cap(j)
    BY <1>0, <1>1, CapType DEF PoolTypeOK
  <2> QED
    BY <1>0, <1>1, <2>1, <2>2 DEF PoolTypeOK
<1>3. DialFits'
  BY <1>0, <1>1, CapType, WarmPoolAssumption DEF DialFits, PoolTypeOK
<1>4. RefillIsOwed'
  <2> SUFFICES ASSUME at = "asleep", NEW j \in present' \ backoff, permit # 1
               PROVE  /\ j \notin wanted
                      /\ \/ idle'[j] = Cap(j) \/ j \in lost
                         \/ \E d \in Users : using'[d] = j
    BY <1>0 DEF RefillIsOwed
  <2>1. j \notin wanted
    BY <1>0 DEF RefillIsOwed, PoolTypeOK
  <2>2. CASE j = k
    BY <1>0, <2>1, <2>2 DEF PoolTypeOK
  <2>3. CASE j # k
    <3>1. \/ idle[j] = Cap(j) \/ j \in lost
          \/ \E d \in Users : using[d] = j
      BY <1>0, <2>3 DEF RefillIsOwed
    <3>2. ASSUME NEW d \in Users, using[d] = j
          PROVE  using'[d] = j
      BY <1>0, <2>3, <3>2, WarmPoolAssumption DEF PoolTypeOK
    <3>3. idle'[j] = idle[j]
      BY <1>1, <2>3
    <3> QED
      BY <2>1, <3>1, <3>2, <3>3
  <2> QED
    BY <2>2, <2>3
<1> QED
  BY <1>2, <1>3, <1>4 DEF PoolIInv

\* One turn of take_pool()'s loop.
LEMMA TakeNextKeepsInv ==
  ASSUME PoolIInv, present \subseteq present', present' \subseteq Keys,
         NEW c \in Users, NEW k \in Keys, using[c] \in {k, NoKey},
         \A j \in present' \ present : j = k,
         TakeNext(c, k), UNCHANGED <<backoff, task, lost>>
  PROVE  PoolIInv'
<1>1. CASE /\ \E n \in 0..(idle[k] - 1) : idle' = [idle EXCEPT ![k] = n]
           /\ using' = [using EXCEPT ![c] = k]
           /\ UNCHANGED <<wanted, permit>>
  BY <1>1, TakeKeepsInv
<1>2. CASE /\ idle' = [idle EXCEPT ![k] = 0]
           /\ using' = [using EXCEPT ![c] = NoKey]
           /\ RequestRefill(k)
  <2>1. /\ idle' \in [Keys -> 0..PoolSize]
        /\ \A j \in Keys : idle'[j] <= idle[j]
        /\ \A j \in Keys \ {k} : idle'[j] = idle[j]
    BY <1>2, WarmPoolAssumption DEF PoolIInv, PoolTypeOK
  <2> QED
    BY <1>2, <2>1, RequestKeepsInv
<1> QED
  BY <1>1, <1>2 DEF TakeNext

LEMMA ClientKeepsInv ==
  ASSUME PoolIInv, NEW c \in Users, UserStep(c)
  PROVE  PoolIInv'
<1>0. PoolTypeOK /\ DialFits /\ RefillIsOwed /\ present \subseteq Keys
  BY DEF PoolIInv, PoolTypeOK
<1>1. ASSUME NEW k \in Keys, CheckOut(c, k)
      PROVE  PoolIInv'
  <2>1. /\ present \subseteq present' /\ present' \subseteq Keys
        /\ \A j \in present' \ present : j = k
        /\ using[c] \in {k, NoKey} /\ TakeNext(c, k)
        /\ UNCHANGED <<backoff, task, lost>>
    BY <1>0, <1>1 DEF CheckOut
  <2> QED
    BY <2>1, TakeNextKeepsInv
<1>2. CASE Hit(c)
  <2>1. PICK k \in Keys : k = using[c]
    BY <1>0, <1>2 DEF Hit, PoolTypeOK
  <2>2. /\ idle' = idle /\ present' = present /\ RequestRefill(k)
        /\ using' = [using EXCEPT ![c] = NoKey]
        /\ UNCHANGED <<backoff, task, lost>>
    BY <1>2, <2>1 DEF Hit
  <2>3. /\ idle' \in [Keys -> 0..PoolSize]
        /\ \A j \in Keys : idle'[j] <= idle[j]
    BY <1>0, <2>2, WarmPoolAssumption DEF PoolTypeOK
  <2> QED
    BY <1>0, <2>1, <2>2, <2>3, RequestKeepsInv
<1>3. CASE Unhealthy(c)
  <2>1. PICK k \in Keys : k = using[c]
    BY <1>0, <1>3 DEF Unhealthy, PoolTypeOK
  <2>2. /\ present' = present /\ TakeNext(c, k)
        /\ UNCHANGED <<backoff, task, lost>>
    BY <1>3, <2>1 DEF Unhealthy
  <2> QED
    BY <1>0, <2>1, <2>2, TakeNextKeepsInv
<1>4. CASE Cancel(c)
  <2>1. PICK k \in Keys : k = using[c]
    BY <1>0, <1>4 DEF Cancel, PoolTypeOK
  <2>2. /\ lost' = lost \cup {k} /\ using' = [using EXCEPT ![c] = NoKey]
        /\ UNCHANGED <<present, idle, wanted, backoff, permit, at, dialing, rest>>
    BY <1>4, <2>1 DEF Cancel, task
  <2>3. PoolTypeOK' /\ DialFits'
    BY <1>0, <2>2 DEF PoolTypeOK, DialFits, Cap
  <2>4. \A d \in Users : \A j \in Keys :
          using[d] = j => using'[d] = j \/ j = k
    BY <1>0, <2>1, <2>2 DEF PoolTypeOK
  <2>5. RefillIsOwed'
    BY <1>0, <2>2, <2>4 DEF RefillIsOwed, Cap
  <2> QED
    BY <2>3, <2>5 DEF PoolIInv
<1> QED
  BY <1>1, <1>2, <1>3, <1>4 DEF UserStep

-----------------------------------------------------------------------------
(* The maintaining task.                                                    *)

\* The first of some buckets is one of them, and none comes before it.
LEMMA FirstIsLeast ==
  ASSUME NEW S, S \subseteq Nat, S # {}
  PROVE  First(S) \in S /\ \A j \in S : First(S) <= j
<1>1. PICK x \in S : \A y \in S : <<y, x>> \notin OpToRel(<, Nat)
  BY NatLessThanWellFounded, WFMin, Zenon
<1>2. \A y \in S : ~(y < x)
  BY <1>1, Zenon DEF OpToRel
<1>3. \A y \in S : x <= y
  BY <1>2
<1> QED
  BY <1>3 DEF First

\* A pass ends at a bucket it dials for, which lacks a socket, or with every
\* bucket full or backing off and no request left unheard.
LEMMA SweepKeepsInv ==
  ASSUME PoolTypeOK, UNCHANGED <<present, using>>, permit' \in {0, 1},
         NEW r, r \subseteq present, NEW n \in [Keys -> 0..PoolSize],
         \A k \in Keys : n[k] <= Cap(k),
         NEW b, b \subseteq present, backoff' = b, Sweep(r, n, b)
  PROVE  PoolIInv'
<1>0. present \subseteq Keys /\ Keys \subseteq Nat /\ NoKey \notin Keys
  BY WarmPoolAssumption DEF PoolTypeOK
<1>1. ASSUME NEW S, NEW x, Reached(S, n, x)
      PROVE  /\ idle' \in [Keys -> 0..PoolSize]
             /\ \A k \in Keys : idle'[k] <= Cap(k)
             /\ wanted' \subseteq present /\ lost' \subseteq Keys
             /\ \A k \in S \cap Keys : idle'[k] = n[k]
             /\ \A k \in S : n[k] = Cap(k) => k \notin wanted'
  BY <1>0, <1>1 DEF PoolTypeOK, Reached
<1>2. PICK pass, behind :
        /\ pass \subseteq present
        /\ \/ /\ Due(pass, n, b) = {} /\ pass = present
              /\ at' = "asleep" /\ dialing' = NoKey /\ rest' = {}
              /\ Reached(present, n, {})
           \/ LET f == First(Due(pass, n, b))
              IN /\ Due(pass, n, b) # {}
                 /\ at' = "dial" /\ dialing' = f
                 /\ rest' = {k \in pass : k > f}
                 /\ Reached(behind \cup {k \in pass : k <= f}, n, {f})
  <2>1. CASE Due(r, n, b) # {}
    BY <2>1 DEF Sweep
  <2>2. CASE Due(r, n, b) = {}
    BY <2>2 DEF Sweep
  <2> QED
    BY <2>1, <2>2
<1>3. CASE /\ Due(pass, n, b) = {} /\ pass = present
           /\ at' = "asleep" /\ dialing' = NoKey /\ rest' = {}
           /\ Reached(present, n, {})
  <2>1. PoolTypeOK'
    BY <1>0, <1>1, <1>3 DEF PoolTypeOK
  <2>2. \A k \in present \ b : n[k] = Cap(k)
    BY <1>0, <1>3, CapType, WarmPoolAssumption DEF Due
  <2>3. RefillIsOwed'
    BY <1>0, <1>1, <1>3, <2>2 DEF RefillIsOwed, Cap
  <2>4. DialFits'
    BY <1>3 DEF DialFits
  <2> QED
    BY <2>1, <2>3, <2>4 DEF PoolIInv
<1>4. CASE /\ Due(pass, n, b) # {}
           /\ at' = "dial" /\ dialing' = First(Due(pass, n, b))
           /\ rest' = {k \in pass : k > dialing'}
           /\ Reached(behind \cup {k \in pass : k <= dialing'}, n, {dialing'})
  <2>1. dialing' \in Due(pass, n, b)
    <3>1. Due(pass, n, b) \subseteq Nat
      BY <1>0, <1>2 DEF Due
    <3> QED
      BY <1>4, <3>1, FirstIsLeast
  <2>2. dialing' \in pass /\ n[dialing'] < Cap(dialing') /\ dialing' \in Keys
    BY <1>0, <1>2, <2>1 DEF Due
  <2>3. PoolTypeOK'
    BY <1>0, <1>1, <1>2, <1>4, <2>2 DEF PoolTypeOK
  <2>4. idle'[dialing'] = n[dialing']
    BY <1>0, <1>1, <1>4, <2>2
  <2>5. DialFits' /\ RefillIsOwed'
    BY <1>4, <2>2, <2>4 DEF DialFits, RefillIsOwed, Cap
  <2> QED
    BY <2>3, <2>5 DEF PoolIInv
<1> QED
  BY <1>2, <1>3, <1>4

LEMMA TaskKeepsInv ==
  ASSUME PoolIInv, StartTask \/ Wake \/ SleepEnds \/ DialOk \/ DialFails
  PROVE  PoolIInv'
<1>0. PoolTypeOK /\ DialFits
  BY DEF PoolIInv
<1>1. ASSUME NEW r, r \subseteq present, NEW have \in [Keys -> Nat],
             \A k \in Keys : have[k] <= Cap(k),
             NEW b, b \subseteq present, NEW fresh, SweepAged(r, have, b, fresh),
             UNCHANGED <<present, using>>, permit' \in {0, 1}
      PROVE  PoolIInv'
  <2>1. PICK over \in SUBSET b, n \in [Keys -> 0..PoolSize] :
          /\ \A k \in Keys : n[k] <= have[k]
          /\ backoff' = b \ over
          /\ Sweep(r, n, b \ over)
    BY <1>1 DEF SweepAged
  <2>2. \A k \in Keys : n[k] <= Cap(k)
    BY <1>1, <2>1, CapType, WarmPoolAssumption
  <2> QED
    BY <1>0, <1>1, <2>1, <2>2, SweepKeepsInv
<1>2. /\ idle \in [Keys -> Nat] /\ \A k \in Keys : idle[k] <= Cap(k)
      /\ backoff \subseteq present /\ rest \subseteq present
      /\ permit \in {0, 1}
  BY <1>0, WarmPoolAssumption DEF PoolTypeOK
<1>3. CASE StartTask \/ Wake \/ SleepEnds
  BY <1>1, <1>2, <1>3 DEF StartTask, Wake, SleepEnds
<1>4. CASE DialOk
  <2>1. dialing \in present /\ present \subseteq Keys
    BY <1>0, <1>4, WarmPoolAssumption DEF DialOk, PoolTypeOK
  <2>2. idle[dialing] + 1 <= Cap(dialing)
    BY <1>0, <1>2, <1>4, <2>1, CapType, WarmPoolAssumption DEF DialOk, DialFits
  <2>3. /\ [idle EXCEPT ![dialing] = @ + 1] \in [Keys -> Nat]
        /\ \A k \in Keys : [idle EXCEPT ![dialing] = @ + 1][k] <= Cap(k)
    BY <1>2, <2>1, <2>2
  <2>4. backoff \ {dialing} \subseteq present
    BY <1>2
  <2> QED
    BY <1>1, <1>2, <1>4, <2>3, <2>4 DEF DialOk
<1>5. CASE DialFails
  <2>1. dialing \in present
    BY <1>0, <1>5, WarmPoolAssumption DEF DialFails, PoolTypeOK
  <2>2. PICK over \in SUBSET (backoff \ {dialing}),
             n \in [Keys -> 0..PoolSize] :
          /\ \A k \in Keys : n[k] <= idle[k]
          /\ backoff' = (backoff \cup {dialing}) \ over
          /\ Sweep(rest, n, (backoff \cup {dialing}) \ over)
    BY <1>5 DEF DialFails
  <2>3. \A k \in Keys : n[k] <= Cap(k)
    BY <1>2, <2>2, CapType, WarmPoolAssumption
  <2>4. (backoff \cup {dialing}) \ over \subseteq present
    BY <1>2, <2>1
  <2> QED
    BY <1>0, <1>2, <1>5, <2>2, <2>3, <2>4, SweepKeepsInv DEF DialFails
<1> QED
  BY <1>3, <1>4, <1>5

LEMMA NextPoolIInv == PoolIInv /\ [PoolNext]_poolVars => PoolIInv'
<1> SUFFICES ASSUME PoolIInv, [PoolNext]_poolVars
             PROVE  PoolIInv'
  OBVIOUS
<1>1. CASE PoolNext
  BY <1>1, ClientKeepsInv, TaskKeepsInv DEF PoolNext
<1>2. CASE UNCHANGED poolVars
  BY <1>2 DEF poolVars, PoolIInv, PoolTypeOK, DialFits, RefillIsOwed, Cap
<1> QED
  BY <1>1, <1>2

\* The invariant holds of every reachable state of the pools.
THEOREM PoolInvariance == PoolSpec => []PoolIInv
BY InitPoolIInv, NextPoolIInv, PTL DEF PoolSpec

-----------------------------------------------------------------------------
(* What it implies of the pools.                                            *)

\* No bucket ever has more sockets than its capacity() allows, although they
\* are dialled for outside the lock that guards the buckets.
THEOREM PoolsAreBounded == PoolSpec => []PoolTypeOK
<1>1. PoolIInv => PoolTypeOK
  BY DEF PoolIInv
<1> QED
  BY <1>1, PoolInvariance, PTL

\* request_refill() may suppress a notification only while another one is on its
\* way: maintain() never sleeps over a bucket that asked for sockets.
THEOREM RefillsAreOwed == PoolSpec => []RefillIsOwed
<1>1. PoolIInv => RefillIsOwed
  BY DEF PoolIInv
<1> QED
  BY <1>1, PoolInvariance, PTL

=============================================================================

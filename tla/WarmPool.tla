------------------------------- MODULE WarmPool -------------------------------
(***************************************************************************)
(* The pools of prepared WebSockets of src/upstream.rs: clients check      *)
(* sockets out, one background task (Upstream::maintain) dials what is     *)
(* missing, one handshake at a time.  Checkouts and the task meet in the   *)
(* refill_requested flag of each bucket and in one Notify.                 *)
(*                                                                         *)
(* A bucket's idle sockets are their number: which of them have aged or    *)
(* were closed by the peer is decided when somebody looks.  The deadline   *)
(* of a back-off is read only by a pass over the buckets, so each pass     *)
(* chooses the back-offs that are over.  With pool_size = 0 there is no    *)
(* pool and no task; module Routes has that configuration.                 *)
(***************************************************************************)
EXTENDS Integers, FiniteSets

CONSTANTS
  DirectKeys,  \* PoolKey::Direct values, as their positions in the BTreeMap
  WorkerKeys,  \* PoolKey::Worker values, as their positions in the BTreeMap
  Configured,  \* the buckets Upstream::new creates
  PoolSize,    \* config.pool_size
  Users,     \* clients that look for a prepared socket
  NoKey        \* no bucket

Keys == DirectKeys \cup WorkerKeys

ASSUME WarmPoolAssumption ==
  /\ IsFiniteSet(Keys) /\ Keys \subseteq Nat
  /\ Configured \subseteq Keys
  /\ PoolSize \in Nat \ {0}
  /\ NoKey \notin Keys

VARIABLES
  present,  \* the keys of State.pools
  idle,     \* per bucket: number of idle sockets
  wanted,   \* buckets whose refill_requested is set
  backoff,  \* buckets whose retry is Some(t)
  permit,   \* 1 while pool_wakeup holds a permit
  at,       \* maintain(): "start", "dial" or "asleep"
  dialing,  \* bucket maintain() dials for
  rest,     \* keys the current pass over the buckets has not reached
  using,    \* per client: bucket of the candidate whose health it tests
  lost      \* history: buckets that lost a candidate to a cancelled client
            \* since the last pass looked at them

task == <<at, dialing, rest>>
poolVars == <<present, idle, wanted, backoff, permit, at, dialing, rest, using, lost>>

Cap(k) == IF k \in DirectKeys THEN PoolSize ELSE 1

\* The types of the buckets, of the maintaining task and of the clients.
PoolTypeOK ==
  /\ present \subseteq Keys
  /\ idle \in [Keys -> 0..PoolSize] /\ \A k \in Keys : idle[k] <= Cap(k)
  /\ wanted \subseteq present /\ backoff \subseteq present
  /\ permit \in {0, 1}
  /\ at \in {"start", "dial", "asleep"}
  /\ dialing \in present \cup {NoKey}
  /\ (at = "dial") = (dialing # NoKey)
  /\ rest \subseteq present
  /\ using \in [Users -> Keys \cup {NoKey}]
  /\ lost \subseteq Keys

PoolInit ==
  /\ present = Configured
  /\ idle = [k \in Keys |-> 0]
  /\ wanted = {} /\ backoff = {} /\ permit = 0
  /\ at = "start" /\ dialing = NoKey /\ rest = {}
  /\ using = [c \in Users |-> NoKey]
  /\ lost = {}

-----------------------------------------------------------------------------
(* Checkouts.                                                               *)

\* Faulty: the task is not notified.
RequestRefillSilently(k) ==
  /\ wanted' = IF k \in present' THEN wanted \cup {k} ELSE wanted
  /\ UNCHANGED permit

\* request_refill(): notify once per request the task has not consumed.
RequestRefill(k) ==
  IF k \in present' /\ k \notin wanted
  THEN wanted' = wanted \cup {k} /\ permit' = 1
  ELSE UNCHANGED <<wanted, permit>>

\* One turn of take_pool()'s loop: pop until a candidate is young enough and
\* suspend in idle_healthy(), or miss.
TakeNext(c, k) ==
  \/ /\ \E n \in 0..(idle[k] - 1) : idle' = [idle EXCEPT ![k] = n]
     /\ using' = [using EXCEPT ![c] = k]
     /\ UNCHANGED <<wanted, permit>>
  \/ /\ idle' = [idle EXCEPT ![k] = 0]
     /\ using' = [using EXCEPT ![c] = NoKey]
     /\ RequestRefill(k)

\* take_pool(); direct_route() creates the bucket of a target seen first.
CheckOut(c, k) ==
  /\ using[c] = NoKey
  /\ present' = present \cup (DirectKeys \cap {k})
  /\ TakeNext(c, k)
  /\ UNCHANGED <<backoff, task, lost>>

\* The candidate is healthy: the client has its socket.
Hit(c) ==
  /\ using[c] # NoKey
  /\ UNCHANGED present
  /\ RequestRefill(using[c])
  /\ using' = [using EXCEPT ![c] = NoKey]
  /\ UNCHANGED <<idle, backoff, task, lost>>

\* The peer has closed the candidate: the loop goes on.
Unhealthy(c) ==
  /\ using[c] # NoKey
  /\ UNCHANGED present
  /\ TakeNext(c, using[c])
  /\ UNCHANGED <<backoff, task, lost>>

\* The client's future is dropped in idle_healthy(), and the candidate with it;
\* nobody asks for a refill.
Cancel(c) ==
  /\ using[c] # NoKey
  /\ lost' = lost \cup {using[c]}
  /\ using' = [using EXCEPT ![c] = NoKey]
  /\ UNCHANGED <<present, idle, wanted, backoff, permit, task>>

-----------------------------------------------------------------------------
(* The maintaining task.                                                    *)

First(S) == CHOOSE k \in S : \A j \in S : k <= j
Due(S, n, b) == {k \in S : n[k] < Cap(k) /\ k \notin b}

\* Faulty: the flag is consumed only by a dial.
ReachedKeepsStaleFlag(S, n, chosen) ==
  /\ idle' = [k \in Keys |-> IF k \in S THEN n[k] ELSE idle[k]]
  /\ wanted' = wanted \ chosen
  /\ lost' = lost \ S

\* What a pass does to the buckets it has reached, with n their young sockets
\* and chosen the one it dials for.
Reached(S, n, chosen) ==
  /\ idle' = [k \in Keys |-> IF k \in S THEN n[k] ELSE idle[k]]
  /\ wanted' = wanted \ (chosen \cup {k \in S : n[k] = Cap(k)})
  /\ lost' = lost \ S

\* Faulty: after a dial the pass starts over.
SweepFromStart(r, n, b) ==
  LET due == Due(present, n, b) IN
  IF due = {}
  THEN /\ at' = "asleep" /\ dialing' = NoKey /\ rest' = {}
       /\ Reached(present, n, {})
  ELSE /\ at' = "dial" /\ dialing' = First(due) /\ rest' = {}
       /\ Reached({k \in present : k <= First(due)}, n, {First(due)})

\* The synchronous part of maintain(): on through the rest r of the pass to the
\* first bucket that needs a dial; after a pass with a dial all buckets again;
\* and to sleep when none needs one.
Sweep(r, n, b) ==
  LET onward == Due(r, n, b)
      pass == IF onward # {} THEN r ELSE present
      due == Due(pass, n, b)
      behind == IF onward # {} THEN {} ELSE r
  IN IF due = {}
     THEN /\ at' = "asleep" /\ dialing' = NoKey /\ rest' = {}
          /\ Reached(present, n, {})
     ELSE /\ at' = "dial" /\ dialing' = First(due)
          /\ rest' = {k \in pass : k > First(due)}
          /\ Reached(behind \cup {k \in pass : k <= First(due)}, n, {First(due)})

\* A sweep of what is left of the buckets when some sockets have aged and some
\* back-offs are over; fresh is the bucket just filled.
SweepAged(r, have, b, fresh) ==
  \E over \in SUBSET b :
    \E n \in [Keys -> 0..PoolSize] :
      /\ \A k \in Keys : n[k] <= have[k] /\ (k \in fresh => n[k] > 0)
      /\ backoff' = b \ over
      /\ Sweep(r, n, b \ over)

StartTask ==
  /\ at = "start"
  /\ SweepAged(present, idle, backoff, {})
  /\ UNCHANGED <<present, permit, using>>

\* pool_wakeup.notified()
Wake ==
  /\ at = "asleep" /\ permit = 1
  /\ permit' = 0
  /\ SweepAged(present, idle, backoff, {})
  /\ UNCHANGED <<present, using>>

\* The sleep is over: a retry is due, or five seconds have passed.  A permit
\* that came meanwhile stays.
SleepEnds ==
  /\ at = "asleep"
  /\ SweepAged(present, idle, backoff, {})
  /\ UNCHANGED <<present, permit, using>>

DialOk ==
  /\ at = "dial"
  /\ SweepAged(rest, [idle EXCEPT ![dialing] = @ + 1], backoff \ {dialing},
               {dialing})
  /\ UNCHANGED <<present, permit, using>>

DialFails ==
  /\ at = "dial"
  /\ \E over \in SUBSET (backoff \ {dialing}) :
       \E n \in [Keys -> 0..PoolSize] :
         /\ \A k \in Keys : n[k] <= idle[k]
         /\ backoff' = (backoff \cup {dialing}) \ over
         /\ Sweep(rest, n, backoff')
  /\ UNCHANGED <<present, permit, using>>

-----------------------------------------------------------------------------
UserStep(c) ==
  \/ \E k \in Keys : CheckOut(c, k)
  \/ Hit(c) \/ Unhealthy(c) \/ Cancel(c)

PoolNext ==
  \/ \E c \in Users : UserStep(c)
  \/ StartTask \/ Wake \/ SleepEnds \/ DialOk \/ DialFails

PoolSpec == PoolInit /\ [][PoolNext]_poolVars

(* The task sleeps five seconds at most and a dial is bounded by the connect *)
(* timeout.  Nothing is assumed of clients, nor that a dial ever succeeds.   *)
PoolFairness ==
  /\ WF_poolVars(StartTask) /\ WF_poolVars(SleepEnds)
  /\ WF_poolVars(DialOk \/ DialFails)

PoolFairSpec == PoolSpec /\ PoolFairness

-----------------------------------------------------------------------------
(* Properties.                                                              *)

\* While the task sleeps, a bucket that lacks a socket has told it so, unless it
\* backs off, the checkout is still going on, or was cancelled: the flag that
\* suppresses a second notification never outlives the one it stands for.
RefillIsOwed ==
  at = "asleep" =>
    \A k \in present \ backoff :
      \/ permit = 1
      \/ /\ k \notin wanted
         /\ \/ idle[k] = Cap(k) \/ k \in lost
            \/ \E c \in Users : using[c] = k

\* A bucket that lacks a socket and does not back off is dialled for or filled,
\* whatever the other buckets take and however often their dials fail; also
\* after a checkout that was cancelled and told nobody.
MissingIsRefilled ==
  \A k \in Keys :
    k \in present \ backoff /\ idle[k] < Cap(k)
      ~> dialing = k \/ idle[k] = Cap(k)

=============================================================================

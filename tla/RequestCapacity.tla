-------------------------- MODULE RequestCapacity --------------------------
(***************************************************************************)
(* The memory budgets of the /api requests (src/cf_h2.rs, Budget and       *)
(* RequestCapacity).  A packet may be read or sent only with a permit of   *)
(* its channel, of its lane and of the process; uploads wait for the three *)
(* one after the other and keep what they have, replays take all three or  *)
(* none.  Budgets signal a release with notify_waiters(), which leaves     *)
(* nothing behind for a waiter that registers later.                       *)
(*                                                                         *)
(* The steps are the critical sections of the budgets' mutexes and the     *)
(* signals between them, so that the module holds on a runtime of several  *)
(* threads; the program's own runtime has one.                             *)
(***************************************************************************)
EXTENDS Integers, FiniteSetsExt

CONSTANTS
  Packets,      \* packets that are uploaded or replayed
  Budgets,      \* the budgets of the channels and lanes, and the process's
  Path,         \* the budgets of a packet: <<channel, lane, process>>
  Size,         \* length of a packet
  MaxRequests,  \* Budget.max_requests
  MaxBytes      \* Budget.max_bytes

Levels == 1..3

\* A budget belongs to one level.  A packet fits each of its budgets when they
\* are empty: MAX_PADDED_PACKET is below the bytes of all three.
ASSUME CapacityAssumption ==
  /\ IsFiniteSet(Packets)
  /\ Path \in [Packets -> [Levels -> Budgets]]
  /\ \A p, q \in Packets : \A i, j \in Levels : Path[p][i] = Path[q][j] => i = j
  /\ Size \in [Packets -> Nat \ {0}]
  /\ MaxRequests \in [Budgets -> Nat \ {0}]
  /\ MaxBytes \in [Budgets -> Nat]
  /\ \A p \in Packets : \A i \in Levels : Size[p] <= MaxBytes[Path[p][i]]

VARIABLES
  count,     \* BudgetState.requests
  bytes,     \* BudgetState.bytes
  pc,        \* where a packet's owner is
  level,     \* the level it asks for
  holds,     \* levels of the permits it has
  notified,  \* packets whose Notified future is ready
  owes       \* level whose permit it has returned but not yet signalled, or 0

vars == <<count, bytes, pc, level, holds, notified, owes>>

\* The types of the budgets' books and of the packets' progress.
TypeOK ==
  /\ count \in [Budgets -> Nat] /\ bytes \in [Budgets -> Nat]
  /\ pc \in [Packets -> {"idle", "checking", "full", "asleep", "trying",
                         "holding", "leaving"}]
  /\ level \in [Packets -> Levels]
  /\ holds \in [Packets -> SUBSET Levels]
  /\ notified \subseteq Packets
  /\ owes \in [Packets -> Levels \cup {0}]

Init ==
  /\ count = [b \in Budgets |-> 0] /\ bytes = [b \in Budgets |-> 0]
  /\ pc = [p \in Packets |-> "idle"] /\ level = [p \in Packets |-> 1]
  /\ holds = [p \in Packets |-> {}]
  /\ notified = {} /\ owes = [p \in Packets |-> 0]

-----------------------------------------------------------------------------
\* The budget p asks for.
Asks(p) == Path[p][level[p]]

\* Faulty: a packet that would fill the budget is refused.
HasRoomBelow(b, n) == count[b] < MaxRequests[b] /\ bytes[b] + n < MaxBytes[b]

\* has_capacity(), and the test of try_acquire().
HasRoom(b, n) == count[b] < MaxRequests[b] /\ bytes[b] + n <= MaxBytes[b]

Fits(p) == HasRoom(Asks(p), Size[p])

\* reserve(): acquire() on the channel registers for its signals, then checks.
Reserve(p) ==
  /\ pc[p] = "idle"
  /\ pc' = [pc EXCEPT ![p] = "checking"]
  /\ UNCHANGED <<count, bytes, level, holds, notified, owes>>

\* try_replay() does not wait.
TryReplay(p) ==
  /\ pc[p] = "idle"
  /\ pc' = [pc EXCEPT ![p] = "trying"]
  /\ UNCHANGED <<count, bytes, level, holds, notified, owes>>

\* Faulty: try_acquire() counts the bytes, but not the request.
AcquireUncounted(p) ==
  /\ pc[p] \in {"checking", "trying"} /\ Fits(p)
  /\ bytes' = [bytes EXCEPT ![Asks(p)] = @ + Size[p]]
  /\ holds' = [holds EXCEPT ![p] = @ \cup {level[p]}]
  /\ IF level[p] = 3
     THEN pc' = [pc EXCEPT ![p] = "holding"] /\ UNCHANGED level
     ELSE level' = [level EXCEPT ![p] = @ + 1] /\ UNCHANGED pc
  /\ notified' = notified \ {p}
  /\ UNCHANGED <<count, owes>>

\* try_acquire(): the next budget follows at once, with a registration of its own.
Acquire(p) ==
  /\ pc[p] \in {"checking", "trying"} /\ Fits(p)
  /\ count' = [count EXCEPT ![Asks(p)] = @ + 1]
  /\ bytes' = [bytes EXCEPT ![Asks(p)] = @ + Size[p]]
  /\ holds' = [holds EXCEPT ![p] = @ \cup {level[p]}]
  /\ IF level[p] = 3
     THEN pc' = [pc EXCEPT ![p] = "holding"] /\ UNCHANGED level
     ELSE level' = [level EXCEPT ![p] = @ + 1] /\ UNCHANGED pc
  /\ notified' = notified \ {p}
  /\ UNCHANGED owes

\* The check found no room.
FindFull(p) ==
  /\ pc[p] = "checking" /\ ~Fits(p)
  /\ pc' = [pc EXCEPT ![p] = "full"]
  /\ UNCHANGED <<count, bytes, level, holds, notified, owes>>

\* Faulty: the waiter registers only now, after its check.
SleepUnregistered(p) ==
  /\ pc[p] = "full"
  /\ pc' = [pc EXCEPT ![p] = "asleep"]
  /\ notified' = notified \ {p}
  /\ UNCHANGED <<count, bytes, level, holds, owes>>

\* The deadline lies ahead: the signal registered for is awaited.
Sleep(p) ==
  /\ pc[p] = "full"
  /\ pc' = [pc EXCEPT ![p] = "asleep"]
  /\ UNCHANGED <<count, bytes, level, holds, notified, owes>>

\* The loop of acquire() begins again, with a new registration.
Wake(p) ==
  /\ pc[p] = "asleep" /\ p \in notified
  /\ pc' = [pc EXCEPT ![p] = "checking"]
  /\ notified' = notified \ {p}
  /\ UNCHANGED <<count, bytes, level, holds, owes>>

-----------------------------------------------------------------------------
(* The permits are dropped one by one: guards in the order of their fields,  *)
(* locals in the reverse, so any order is allowed.                          *)

Leave(p) ==
  /\ pc' = [pc EXCEPT ![p] = IF holds[p] = {} THEN "idle" ELSE "leaving"]
  /\ level' = [level EXCEPT ![p] = 1]
  /\ notified' = notified \ {p}
  /\ UNCHANGED <<count, bytes, holds, owes>>

\* REQUEST_TIMEOUT in acquire(), or the bridge of a waiting upload ends.
GiveUp(p) == pc[p] \in {"full", "asleep"} /\ Leave(p)

\* A replay that finds a budget exhausted leaves the ones before.
ReplayRefused(p) == pc[p] = "trying" /\ ~Fits(p) /\ Leave(p)

\* The body never arrived, launch() refused it, or its request task is over.
Finish(p) == pc[p] = "holding" /\ Leave(p)

\* Faulty: the bytes of the packet stay charged.
DropPermitLeaks(p, k) ==
  /\ pc[p] = "leaving" /\ owes[p] = 0 /\ k \in holds[p]
  /\ count' = [count EXCEPT ![Path[p][k]] = Max({@ - 1, 0})]
  /\ holds' = [holds EXCEPT ![p] = @ \ {k}]
  /\ owes' = [owes EXCEPT ![p] = k]
  /\ UNCHANGED <<bytes, pc, level, notified>>

\* The critical section of BudgetPermit's drop.
DropPermit(p, k) ==
  /\ pc[p] = "leaving" /\ owes[p] = 0 /\ k \in holds[p]
  /\ count' = [count EXCEPT ![Path[p][k]] = Max({@ - 1, 0})]
  /\ bytes' = [bytes EXCEPT ![Path[p][k]] = Max({@ - Size[p], 0})]
  /\ holds' = [holds EXCEPT ![p] = @ \ {k}]
  /\ owes' = [owes EXCEPT ![p] = k]
  /\ UNCHANGED <<pc, level, notified>>

\* Who has a registration: one that began before the check.
Registered == {q \in Packets : pc[q] \in {"checking", "full", "asleep"}}

\* Its notify_waiters(): whoever is registered with the budget is told.
Signal(p) ==
  /\ owes[p] # 0
  /\ notified' = notified \cup {q \in Registered : Asks(q) = Path[p][owes[p]]}
  /\ owes' = [owes EXCEPT ![p] = 0]
  /\ pc' = [pc EXCEPT ![p] = IF holds[p] = {} THEN "idle" ELSE "leaving"]
  /\ UNCHANGED <<count, bytes, level, holds>>

-----------------------------------------------------------------------------
Next ==
  \E p \in Packets :
    \/ Reserve(p) \/ TryReplay(p) \/ Acquire(p) \/ FindFull(p) \/ Sleep(p) \/ Wake(p)
    \/ GiveUp(p) \/ ReplayRefused(p) \/ Finish(p)
    \/ \E k \in Levels : DropPermit(p, k)
    \/ Signal(p)

Spec == Init /\ [][Next]_vars

(* A woken task runs, permits are dropped to the end, and a packet with its   *)
(* permits is read and answered or times out.  No waiter is assumed to time   *)
(* out, and none is assumed to get its turn.                                  *)
Fairness ==
  \A p \in Packets :
    /\ WF_vars(Acquire(p) \/ FindFull(p) \/ Sleep(p) \/ Wake(p) \/ ReplayRefused(p))
    /\ WF_vars(Finish(p))
    /\ WF_vars((\E k \in Levels : DropPermit(p, k)) \/ Signal(p))

FairSpec == Spec /\ Fairness

-----------------------------------------------------------------------------
(* Properties.                                                              *)

\* Who has a permit of budget b.
Holders(b) == {p \in Packets : \E k \in holds[p] : Path[p][k] = b}

\* The counts are the permits in existence, whoever waits, gives up or is
\* refused half-way; the subtractions of a drop never saturate.
CountsArePermits == \A b \in Budgets : count[b] = Cardinality(Holders(b))

\* So are the bytes, and no budget is ever overdrawn.
BytesArePermits ==
  \A b \in Budgets :
    /\ bytes[b] = SumFunctionOnSet(Size, Holders(b))
    /\ bytes[b] <= MaxBytes[b] /\ count[b] <= MaxRequests[b]

\* An upload that sleeps although its packet would fit has been told so, or is
\* about to be by a permit just returned.
SleeperIsTold ==
  \A p \in Packets :
    pc[p] = "asleep" /\ p \notin notified /\ Fits(p) =>
      \E q \in Packets : owes[q] # 0 /\ Path[q][owes[q]] = Asks(p)

\* Uploads that hold permits while they wait never wait for each other only.
SomeoneMoves ==
  (\E p \in Packets : pc[p] = "asleep") =>
    \E q \in Packets :
      \/ pc[q] \notin {"idle", "asleep"}
      \/ pc[q] = "asleep" /\ q \in notified

\* An upload waits on only as long as other packets come and take what is free:
\* left alone, it gets the permit it waits for, without its timeout.
UndisturbedUploadIsServed ==
  \A p \in Packets, k \in Levels :
    pc[p] = "asleep" /\ level[p] = k ~>
      \/ k \in holds[p] \/ pc[p] = "idle"
      \/ \E q \in Packets \ {p} : pc[q] \in {"checking", "full", "trying"}

=============================================================================

--------------------------- MODULE Budgets_proofs ---------------------------
(***************************************************************************)
(* Theorems about what requests and replies are charged in src/cf_h2.rs:   *)
(* about RequestCapacity, for every finite set of packets, of any sizes,   *)
(* and any budgets; and about H2Bridge, for every set of chunk sizes and   *)
(* every limit.                                                            *)
(***************************************************************************)
EXTENDS RequestCapacity, H2Bridge, Sums

\* Permits are taken level by level, and returned by packets that leave.
PermitsAreBelow ==
  \A p \in Packets :
    /\ pc[p] = "idle" => holds[p] = {}
    /\ pc[p] \in {"checking", "full", "asleep", "trying"} =>
         level[p] \notin holds[p] /\ \A k \in holds[p] : k < level[p]
    /\ owes[p] # 0 => pc[p] = "leaving"

\* A permit of p's budget has been returned, and the signal is still to come.
IsOwed(p) == \E q \in Packets : owes[q] # 0 /\ Path[q][owes[q]] = Asks(p)

\* SleeperIsTold, from the moment the check has failed.
FullIsTold ==
  \A p \in Packets :
    pc[p] \in {"full", "asleep"} /\ p \notin notified /\ Fits(p) => IsOwed(p)

IInv ==
  TypeOK /\ PermitsAreBelow /\ CountsArePermits /\ BytesArePermits /\ FullIsTold

-----------------------------------------------------------------------------
(* The counts.                                                              *)

LEMMA HoldersFinite ==
  ASSUME NEW b
  PROVE  IsFiniteSet(Holders(b)) /\ Cardinality(Holders(b)) \in Nat
<1>1. Holders(b) \subseteq Packets
  BY DEF Holders
<1> QED
  BY <1>1, CapacityAssumption, FS_Subset, FS_CardinalityType

\* The subtraction of a drop.
LEMMA SaturatingSub ==
  ASSUME NEW m \in Nat, NEW n \in Nat
  PROVE  /\ Max({m - n, 0}) = IF n <= m THEN m - n ELSE 0
         /\ Max({m - n, 0}) \in Nat
<1>1. CASE n <= m
  <2> DEFINE x == m - n
  <2>1. x \in {x, 0} /\ \A y \in {x, 0} : x >= y
    BY <1>1
  <2>2. \A z \in {x, 0} : (\A y \in {x, 0} : z >= y) => z = x
    BY <1>1
  <2> QED
    BY <1>1, <2>1, <2>2 DEF Max
<1>2. CASE ~(n <= m)
  <2> DEFINE x == m - n
  <2>1. 0 \in {x, 0} /\ \A y \in {x, 0} : 0 >= y
    BY <1>2
  <2>2. \A z \in {x, 0} : (\A y \in {x, 0} : z >= y) => z = 0
    BY <1>2
  <2> QED
    BY <1>2, <2>1, <2>2 DEF Max
<1> QED
  BY <1>1, <1>2

\* Whoever keeps its permits is a holder as before.
LEMMA SameHolders ==
  ASSUME holds' = holds
  PROVE  \A b \in Budgets : Holders(b)' = Holders(b)
BY DEF Holders

LEMMA SameBooks ==
  ASSUME CountsArePermits, BytesArePermits, UNCHANGED <<count, bytes, holds>>
  PROVE  CountsArePermits' /\ BytesArePermits'
BY SameHolders DEF CountsArePermits, BytesArePermits

\* A permit more: one holder more, of one budget.
LEMMA PermitTaken ==
  ASSUME TypeOK, CountsArePermits, NEW p \in Packets, NEW k \in Levels,
         k \notin holds[p],
         holds' = [holds EXCEPT ![p] = @ \cup {k}],
         count' = [count EXCEPT ![Path[p][k]] = @ + 1]
  PROVE  CountsArePermits'
<1> DEFINE c == Path[p][k]
<1>1. c \in Budgets
  BY CapacityAssumption
<1>2. /\ holds'[p] = holds[p] \cup {k}
      /\ \A q \in Packets \ {p} : holds'[q] = holds[q]
  BY DEF TypeOK
<1>3. p \notin Holders(c)
  BY CapacityAssumption DEF Holders, TypeOK
<1>4. Holders(c)' = Holders(c) \cup {p}
  BY <1>2 DEF Holders
<1>5. \A b \in Budgets \ {c} : Holders(b)' = Holders(b)
  BY <1>2 DEF Holders
<1>6. Cardinality(Holders(c)') = Cardinality(Holders(c)) + 1
  BY <1>3, <1>4, HoldersFinite, FS_AddElement
<1>7. count'[c] = count[c] + 1 /\ \A b \in Budgets \ {c} : count'[b] = count[b]
  BY <1>1 DEF TypeOK
<1>8. \A b \in Budgets \ {c} : count'[b] = Cardinality(Holders(b)')
  BY <1>5, <1>7 DEF CountsArePermits
<1>9. count'[c] = Cardinality(Holders(c)')
  BY <1>1, <1>6, <1>7 DEF CountsArePermits
<1> QED
  BY <1>8, <1>9 DEF CountsArePermits

\* A permit less: the count it finds is positive, so it does not saturate.
LEMMA PermitReturned ==
  ASSUME TypeOK, CountsArePermits, NEW p \in Packets, NEW k \in Levels,
         k \in holds[p],
         holds' = [holds EXCEPT ![p] = @ \ {k}],
         count' = [count EXCEPT ![Path[p][k]] = Max({@ - 1, 0})]
  PROVE  CountsArePermits'
<1> DEFINE c == Path[p][k]
<1>1. c \in Budgets
  BY CapacityAssumption
<1>2. /\ holds'[p] = holds[p] \ {k}
      /\ \A q \in Packets \ {p} : holds'[q] = holds[q]
  BY DEF TypeOK
<1>3. p \in Holders(c)
  BY DEF Holders
<1>4. \A j \in holds[p] \ {k} : Path[p][j] # c
  BY CapacityAssumption DEF TypeOK
<1>5. Holders(c)' = Holders(c) \ {p}
  BY <1>2, <1>4 DEF Holders
<1>6. \A b \in Budgets \ {c} : Holders(b)' = Holders(b)
  BY <1>2 DEF Holders
<1>7. Cardinality(Holders(c)') = Cardinality(Holders(c)) - 1
  BY <1>3, <1>5, HoldersFinite, FS_RemoveElement
<1>8. Cardinality(Holders(c)) # 0
  BY <1>3, HoldersFinite, FS_EmptySet
<1>9. count[c] \in Nat /\ count[c] = Cardinality(Holders(c))
  BY <1>1 DEF TypeOK, CountsArePermits
<1>10. Max({count[c] - 1, 0}) = count[c] - 1
  <2>1. count[c] \in Nat /\ 1 <= count[c]
    BY <1>8, <1>9, HoldersFinite
  <2>2. \A m \in Nat : 1 <= m => Max({m - 1, 0}) = m - 1
    BY SaturatingSub
  <2> QED
    BY <2>1, <2>2
<1>11. /\ count'[c] = Max({count[c] - 1, 0})
       /\ \A b \in Budgets \ {c} : count'[b] = count[b]
  BY <1>1 DEF TypeOK
<1>12. count'[c] = Cardinality(Holders(c)')
  BY <1>7, <1>9, <1>10, <1>11
<1>13. \A b \in Budgets \ {c} : count'[b] = Cardinality(Holders(b)')
  BY <1>6, <1>11 DEF CountsArePermits
<1> QED
  BY <1>12, <1>13 DEF CountsArePermits

\* The packets that hold a permit can be summed up.
LEMMA HoldersSummable ==
  ASSUME NEW b
  PROVE  IsFiniteSet(Holders(b)) /\ Summable(Size, Holders(b))
<1>1. Holders(b) \subseteq Packets
  BY DEF Holders
<1> QED
  BY <1>1, HoldersFinite, CapacityAssumption DEF Summable

\* The bytes of a permit more.
LEMMA BytesTaken ==
  ASSUME TypeOK, BytesArePermits, NEW p \in Packets, NEW k \in Levels,
         k \notin holds[p], HasRoom(Path[p][k], Size[p]),
         holds' = [holds EXCEPT ![p] = @ \cup {k}],
         count' = [count EXCEPT ![Path[p][k]] = @ + 1],
         bytes' = [bytes EXCEPT ![Path[p][k]] = @ + Size[p]]
  PROVE  BytesArePermits'
<1> DEFINE c == Path[p][k]
<1>1. c \in Budgets /\ Size[p] \in Nat
  BY CapacityAssumption
<1>2. /\ holds'[p] = holds[p] \cup {k}
      /\ \A q \in Packets \ {p} : holds'[q] = holds[q]
  BY DEF TypeOK
<1>3. p \notin Holders(c)
  BY CapacityAssumption DEF Holders, TypeOK
<1>4. Holders(c)' = Holders(c) \cup {p}
  BY <1>2 DEF Holders
<1>5. \A b \in Budgets \ {c} : Holders(b)' = Holders(b)
  BY <1>2 DEF Holders
<1>6. /\ count'[c] = count[c] + 1 /\ bytes'[c] = bytes[c] + Size[p]
      /\ \A b \in Budgets \ {c} : count'[b] = count[b] /\ bytes'[b] = bytes[b]
  BY <1>1 DEF TypeOK
<1>7. SumFunctionOnSet(Size, Holders(c)') = Size[p] + SumFunctionOnSet(Size, Holders(c))
  <2> DEFINE S == Holders(c) \cup {p}
  <2>1. IsFiniteSet(S) /\ Summable(Size, S) /\ p \in S
    BY <1>1, HoldersSummable, FS_AddElement DEF Summable
  <2>2. S \ {p} = Holders(c)
    BY <1>3
  <2> HIDE DEF S
  <2>3. SumFunctionOnSet(Size, S) = Size[p] + SumFunctionOnSet(Size, S \ {p})
    BY <2>1, SumAdd
  <2> QED
    BY <1>4, <2>2, <2>3 DEF S
<1>8. SumFunctionOnSet(Size, Holders(c)) \in Nat
  BY HoldersSummable, SumType
<1>9. bytes'[c] = SumFunctionOnSet(Size, Holders(c)')
  BY <1>1, <1>6, <1>7, <1>8 DEF BytesArePermits
<1>10. bytes'[c] <= MaxBytes[c] /\ count'[c] <= MaxRequests[c]
  <2>1. count[c] \in Nat /\ MaxRequests[c] \in Nat
    BY <1>1, CapacityAssumption DEF TypeOK
  <2> QED
    BY <1>6, <2>1 DEF HasRoom
<1> QED
  BY <1>5, <1>6, <1>9, <1>10 DEF BytesArePermits

\* The bytes of a permit less: neither subtraction saturates.
LEMMA BytesReturned ==
  ASSUME TypeOK, CountsArePermits, BytesArePermits,
         NEW p \in Packets, NEW k \in Levels, k \in holds[p],
         holds' = [holds EXCEPT ![p] = @ \ {k}],
         count' = [count EXCEPT ![Path[p][k]] = Max({@ - 1, 0})],
         bytes' = [bytes EXCEPT ![Path[p][k]] = Max({@ - Size[p], 0})]
  PROVE  BytesArePermits'
<1> DEFINE c == Path[p][k]
<1>1. c \in Budgets /\ Size[p] \in Nat
  BY CapacityAssumption
<1>2. /\ holds'[p] = holds[p] \ {k}
      /\ \A q \in Packets \ {p} : holds'[q] = holds[q]
  BY DEF TypeOK
<1>3. p \in Holders(c)
  BY DEF Holders
<1>4. \A j \in holds[p] \ {k} : Path[p][j] # c
  BY CapacityAssumption DEF TypeOK
<1>5. Holders(c)' = Holders(c) \ {p}
  BY <1>2, <1>4 DEF Holders
<1>6. \A b \in Budgets \ {c} : Holders(b)' = Holders(b)
  BY <1>2 DEF Holders
<1>7. /\ count'[c] = Max({count[c] - 1, 0})
      /\ bytes'[c] = Max({bytes[c] - Size[p], 0})
      /\ \A b \in Budgets \ {c} : count'[b] = count[b] /\ bytes'[b] = bytes[b]
  BY <1>1 DEF TypeOK
<1>8. SumFunctionOnSet(Size, Holders(c))
        = Size[p] + SumFunctionOnSet(Size, Holders(c) \ {p})
  BY <1>3, HoldersSummable, SumAdd
<1>9. SumFunctionOnSet(Size, Holders(c) \ {p}) \in Nat
  <2>1. IsFiniteSet(Holders(c) \ {p}) /\ Summable(Size, Holders(c) \ {p})
    BY HoldersSummable, FS_RemoveElement DEF Summable
  <2> QED
    BY <2>1, SumType
<1>10. /\ bytes[c] = SumFunctionOnSet(Size, Holders(c))
       /\ bytes[c] \in Nat /\ count[c] \in Nat
       /\ bytes[c] <= MaxBytes[c] /\ count[c] <= MaxRequests[c]
       /\ MaxBytes[c] \in Nat /\ MaxRequests[c] \in Nat
  BY <1>1, CapacityAssumption DEF TypeOK, BytesArePermits
<1>11. bytes'[c] = bytes[c] - Size[p]
  <2>1. Size[p] <= bytes[c]
    BY <1>1, <1>8, <1>9, <1>10
  <2>2. Max({bytes[c] - Size[p], 0}) = bytes[c] - Size[p]
    BY <1>1, <1>10, <2>1, SaturatingSub
  <2> QED
    BY <1>7, <2>2
<1>12. count'[c] <= count[c]
  <2>1. 1 \in Nat /\ (1 <= count[c] \/ count[c] = 0)
    BY <1>10
  <2>2. Max({count[c] - 1, 0}) = IF 1 <= count[c] THEN count[c] - 1 ELSE 0
    BY <1>10, <2>1, SaturatingSub
  <2> QED
    BY <1>7, <1>10, <2>1, <2>2
<1>13. count'[c] \in Nat
  <2>1. \A m \in Nat : Max({m - 1, 0}) \in Nat
    <3> TAKE m \in Nat
    <3>1. 1 \in Nat
      OBVIOUS
    <3> QED
      BY <3>1, SaturatingSub
  <2> QED
    BY <1>7, <1>10, <2>1
<1>14. /\ bytes'[c] = SumFunctionOnSet(Size, Holders(c)')
       /\ bytes'[c] <= MaxBytes[c] /\ count'[c] <= MaxRequests[c]
  BY <1>1, <1>5, <1>8, <1>9, <1>10, <1>11, <1>12, <1>13
<1> QED
  BY <1>6, <1>7, <1>14 DEF BytesArePermits

-----------------------------------------------------------------------------
(* The waiters.                                                             *)

\* A permit more leaves no more room than there was.
LEMMA RoomShrinks ==
  ASSUME TypeOK, NEW p \in Packets, NEW q \in Packets,
         level'[q] = level[q],
         count' = [count EXCEPT ![Asks(p)] = @ + 1],
         bytes' = [bytes EXCEPT ![Asks(p)] = @ + Size[p]]
  PROVE  Fits(q)' => Fits(q)
<1> DEFINE b == Asks(p)
           c == Asks(q)
<1>1. b \in Budgets /\ c \in Budgets /\ Asks(q)' = c
  BY CapacityAssumption DEF TypeOK, Asks
<1>2. /\ count[c] \in Nat /\ bytes[c] \in Nat
      /\ Size[p] \in Nat /\ Size[q] \in Nat
      /\ MaxRequests[c] \in Nat /\ MaxBytes[c] \in Nat
  BY <1>1, CapacityAssumption DEF TypeOK
<1>3. CASE b = c
  <2>1. count'[c] = count[c] + 1 /\ bytes'[c] = bytes[c] + Size[p]
    BY <1>1, <1>3 DEF TypeOK
  <2> QED
    BY <1>1, <1>2, <2>1 DEF Fits, HasRoom
<1>4. CASE b # c
  <2>1. count'[c] = count[c] /\ bytes'[c] = bytes[c]
    BY <1>1, <1>4 DEF TypeOK
  <2> QED
    BY <1>1, <2>1 DEF Fits, HasRoom
<1> QED
  BY <1>3, <1>4

\* Steps that free nothing and signal nothing.
LEMMA QuietKeepsFull ==
  ASSUME FullIsTold, owes' = owes,
         \A q \in Packets :
           pc'[q] \in {"full", "asleep"} /\ q \notin notified' /\ Fits(q)' =>
             /\ pc[q] \in {"full", "asleep"} /\ q \notin notified /\ Fits(q)
             /\ level'[q] = level[q]
  PROVE  FullIsTold'
<1> SUFFICES ASSUME NEW q \in Packets, pc'[q] \in {"full", "asleep"},
                    q \notin notified', Fits(q)'
             PROVE  IsOwed(q)'
  BY DEF FullIsTold
<1>1. IsOwed(q) /\ Asks(q)' = Asks(q)
  BY DEF FullIsTold, Asks
<1> QED
  BY <1>1 DEF IsOwed

-----------------------------------------------------------------------------
(* The invariant.                                                           *)

LEMMA InitIInv == Init => IInv
<1> SUFFICES ASSUME Init PROVE IInv
  OBVIOUS
<1>1. TypeOK /\ PermitsAreBelow /\ FullIsTold
  BY DEF Init, TypeOK, PermitsAreBelow, FullIsTold, Levels
<1>2. \A b \in Budgets : Holders(b) = {}
  BY DEF Init, Holders
<1>3. CountsArePermits
  BY <1>2, FS_EmptySet DEF Init, CountsArePermits
<1>4. BytesArePermits
  <2> SUFFICES ASSUME NEW b \in Budgets
               PROVE  /\ bytes[b] = SumFunctionOnSet(Size, Holders(b))
                      /\ bytes[b] <= MaxBytes[b] /\ count[b] <= MaxRequests[b]
    BY DEF BytesArePermits
  <2>1. SumFunctionOnSet(Size, Holders(b)) = 0
    BY <1>2, SumNothing
  <2>2. bytes[b] = 0 /\ count[b] = 0
    BY DEF Init
  <2>3. MaxBytes[b] \in Nat /\ MaxRequests[b] \in Nat
    BY CapacityAssumption
  <2> QED
    BY <2>1, <2>2, <2>3
<1> QED
  BY <1>1, <1>3, <1>4 DEF IInv

\* reserve() begins, a waiter is woken, or a check is followed by its await.
LEMMA MoveKeepsInv ==
  ASSUME IInv, NEW p \in Packets,
         Reserve(p) \/ TryReplay(p) \/ FindFull(p) \/ Sleep(p) \/ Wake(p)
  PROVE  IInv'
<1>0. TypeOK /\ PermitsAreBelow /\ CountsArePermits /\ BytesArePermits /\ FullIsTold
  BY DEF IInv
<1>1. /\ UNCHANGED <<count, bytes, level, holds, owes>>
      /\ \E c \in {"checking", "full", "asleep", "trying"} :
           pc' = [pc EXCEPT ![p] = c]
      /\ pc[p] \in {"idle", "checking", "full", "asleep"}
      /\ notified' \in {notified, notified \ {p}}
  BY DEF Reserve, TryReplay, FindFull, Sleep, Wake
<1>2. TypeOK'
  BY <1>0, <1>1 DEF TypeOK
<1>3. CountsArePermits' /\ BytesArePermits'
  BY <1>0, <1>1, SameBooks
<1>4. PermitsAreBelow'
  BY <1>0, <1>1 DEF PermitsAreBelow, TypeOK
<1>5. \A q \in Packets : Fits(q)' = Fits(q)
  BY <1>1 DEF Fits, HasRoom, Asks
<1>6. \A q \in Packets \ {p} : pc'[q] = pc[q] /\ (q \in notified' <=> q \in notified)
  BY <1>0, <1>1 DEF TypeOK
<1>7. pc'[p] \in {"full", "asleep"} =>
        \/ ~Fits(p)
        \/ pc[p] = "full" /\ (p \in notified' <=> p \in notified)
  BY <1>0 DEF Reserve, TryReplay, FindFull, Sleep, Wake, TypeOK
<1>8. FullIsTold'
  BY <1>0, <1>1, <1>5, <1>6, <1>7, QuietKeepsFull
<1> QED
  BY <1>2, <1>3, <1>4, <1>8 DEF IInv

\* try_acquire() succeeds.
LEMMA AcquireKeepsInv ==
  ASSUME IInv, NEW p \in Packets, Acquire(p)
  PROVE  IInv'
<1>0. TypeOK /\ PermitsAreBelow /\ CountsArePermits /\ BytesArePermits /\ FullIsTold
  BY DEF IInv
<1>1. /\ pc[p] \in {"checking", "trying"}
      /\ count' = [count EXCEPT ![Asks(p)] = @ + 1]
      /\ bytes' = [bytes EXCEPT ![Asks(p)] = @ + Size[p]]
      /\ holds' = [holds EXCEPT ![p] = @ \cup {level[p]}]
      /\ notified' = notified \ {p}
      /\ owes' = owes
  BY DEF Acquire
<1>2. \/ level[p] = 3 /\ level' = level /\ pc' = [pc EXCEPT ![p] = "holding"]
      \/ level[p] # 3 /\ level' = [level EXCEPT ![p] = @ + 1] /\ pc' = pc
  BY DEF Acquire
<1>3. level[p] \in Levels /\ Asks(p) \in Budgets /\ Size[p] \in Nat
  BY <1>0, CapacityAssumption DEF TypeOK, Asks
<1>4. TypeOK'
  <2>1. count' \in [Budgets -> Nat] /\ bytes' \in [Budgets -> Nat]
    BY <1>0, <1>1, <1>3 DEF TypeOK
  <2>2. holds' \in [Packets -> SUBSET Levels] /\ notified' \subseteq Packets
        /\ owes' \in [Packets -> Levels \cup {0}]
    BY <1>0, <1>1, <1>3 DEF TypeOK
  <2>3. /\ level' \in [Packets -> Levels]
        /\ pc' \in [Packets -> {"idle", "checking", "full", "asleep", "trying",
                                "holding", "leaving"}]
    BY <1>0, <1>2, <1>3 DEF TypeOK, Levels
  <2> QED
    BY <2>1, <2>2, <2>3 DEF TypeOK
<1>5. level[p] \notin holds[p]
  BY <1>0, <1>1 DEF PermitsAreBelow
<1>6. CountsArePermits' /\ BytesArePermits'
  <2>1. HasRoom(Asks(p), Size[p])
    BY DEF Acquire, Fits
  <2> QED
    BY <1>0, <1>1, <1>3, <1>5, <2>1, PermitTaken, BytesTaken DEF Asks
<1>7. PermitsAreBelow'
  BY <1>0, <1>1, <1>2, <1>3 DEF PermitsAreBelow, TypeOK, Levels
<1>8. \A q \in Packets \ {p} :
        level'[q] = level[q] /\ pc'[q] = pc[q] /\ (q \in notified' <=> q \in notified)
  BY <1>0, <1>1, <1>2 DEF TypeOK
<1>9. pc'[p] \notin {"full", "asleep"}
  BY <1>0, <1>1, <1>2 DEF TypeOK
<1>10. \A q \in Packets \ {p} : Fits(q)' => Fits(q)
  BY <1>0, <1>1, <1>8, RoomShrinks
<1>11. FullIsTold'
  BY <1>0, <1>1, <1>8, <1>9, <1>10, QuietKeepsFull
<1> QED
  BY <1>4, <1>6, <1>7, <1>11 DEF IInv

\* A waiter gives up, a replay is refused, a packet is done with its permits.
LEMMA LeaveKeepsInv ==
  ASSUME IInv, NEW p \in Packets, GiveUp(p) \/ ReplayRefused(p) \/ Finish(p)
  PROVE  IInv'
<1>0. TypeOK /\ PermitsAreBelow /\ CountsArePermits /\ BytesArePermits /\ FullIsTold
  BY DEF IInv
<1>1. /\ UNCHANGED <<count, bytes, holds, owes>>
      /\ level' = [level EXCEPT ![p] = 1]
      /\ notified' = notified \ {p}
      /\ pc[p] # "leaving"
  BY DEF GiveUp, ReplayRefused, Finish, Leave
<1>2. \/ holds[p] = {} /\ pc' = [pc EXCEPT ![p] = "idle"]
      \/ pc' = [pc EXCEPT ![p] = "leaving"]
  BY DEF GiveUp, ReplayRefused, Finish, Leave
<1>3. TypeOK'
  BY <1>0, <1>1, <1>2 DEF TypeOK, Levels
<1>4. CountsArePermits' /\ BytesArePermits'
  BY <1>0, <1>1, SameBooks
<1>5. PermitsAreBelow'
  BY <1>0, <1>1, <1>2 DEF PermitsAreBelow, TypeOK
<1>6. \A q \in Packets \ {p} :
        level'[q] = level[q] /\ pc'[q] = pc[q] /\ (q \in notified' <=> q \in notified)
  BY <1>0, <1>1, <1>2 DEF TypeOK
<1>7. pc'[p] \notin {"full", "asleep"}
  BY <1>0, <1>2 DEF TypeOK
<1>8. \A q \in Packets \ {p} : Fits(q)' = Fits(q)
  BY <1>1, <1>6 DEF Fits, HasRoom, Asks
<1>9. FullIsTold'
  BY <1>0, <1>1, <1>6, <1>7, <1>8, QuietKeepsFull
<1> QED
  BY <1>3, <1>4, <1>5, <1>9 DEF IInv

\* A permit is returned: the waiters it makes room for are owed its signal.
LEMMA DropKeepsInv ==
  ASSUME IInv, NEW p \in Packets, NEW k \in Levels, DropPermit(p, k)
  PROVE  IInv'
<1>0. TypeOK /\ PermitsAreBelow /\ CountsArePermits /\ BytesArePermits /\ FullIsTold
  BY DEF IInv
<1> DEFINE b == Path[p][k]
<1>1. /\ pc[p] = "leaving" /\ owes[p] = 0 /\ k \in holds[p]
      /\ count' = [count EXCEPT ![b] = Max({@ - 1, 0})]
      /\ bytes' = [bytes EXCEPT ![b] = Max({@ - Size[p], 0})]
      /\ holds' = [holds EXCEPT ![p] = @ \ {k}]
      /\ owes' = [owes EXCEPT ![p] = k]
      /\ UNCHANGED <<pc, level, notified>>
  BY DEF DropPermit
<1>2. b \in Budgets /\ Size[p] \in Nat /\ 1 \in Nat
  BY CapacityAssumption
<1>3. Max({count[b] - 1, 0}) \in Nat /\ Max({bytes[b] - Size[p], 0}) \in Nat
  <2>1. count[b] \in Nat /\ bytes[b] \in Nat
    BY <1>0, <1>2 DEF TypeOK
  <2>2. \A m \in Nat : Max({m - 1, 0}) \in Nat
    <3> TAKE m \in Nat
    <3> QED
      BY <1>2, SaturatingSub
  <2>3. Max({bytes[b] - Size[p], 0}) \in Nat
    BY <1>2, <2>1, SaturatingSub
  <2> QED
    BY <2>1, <2>2, <2>3
<1>4. TypeOK'
  <2>1. count' \in [Budgets -> Nat] /\ bytes' \in [Budgets -> Nat]
    BY <1>0, <1>1, <1>2, <1>3 DEF TypeOK
  <2>2. holds' \in [Packets -> SUBSET Levels] /\ owes' \in [Packets -> Levels \cup {0}]
    BY <1>0, <1>1 DEF TypeOK
  <2> QED
    BY <1>0, <1>1, <2>1, <2>2 DEF TypeOK
<1>5. CountsArePermits' /\ BytesArePermits'
  BY <1>0, <1>1, PermitReturned, BytesReturned
<1>6. PermitsAreBelow'
  BY <1>0, <1>1 DEF PermitsAreBelow, TypeOK
<1>7. FullIsTold'
  <2> SUFFICES ASSUME NEW q \in Packets, pc'[q] \in {"full", "asleep"},
                      q \notin notified', Fits(q)'
               PROVE  IsOwed(q)'
    BY DEF FullIsTold
  <2>1. Asks(q)' = Asks(q) /\ Asks(q) \in Budgets
    <3>1. level'[q] = level[q] /\ level[q] \in Levels
      BY <1>0, <1>1 DEF TypeOK
    <3> QED
      BY <3>1, CapacityAssumption DEF Asks
  <2>2. CASE Asks(q) = b
    <3>1. owes'[p] = k /\ k # 0
      BY <1>0, <1>1 DEF TypeOK, Levels
    <3> QED
      BY <2>1, <2>2, <3>1 DEF IsOwed
  <2>3. CASE Asks(q) # b
    <3>1. Fits(q)
      BY <1>0, <1>1, <1>2, <2>1, <2>3 DEF Fits, HasRoom, TypeOK
    <3>2. PICK r \in Packets : owes[r] # 0 /\ Path[r][owes[r]] = Asks(q)
      BY <1>0, <1>1, <3>1 DEF FullIsTold, IsOwed
    <3>3. r # p /\ owes'[r] = owes[r]
      BY <1>0, <1>1, <3>2 DEF TypeOK
    <3> QED
      BY <2>1, <3>2, <3>3 DEF IsOwed
  <2> QED
    BY <2>2, <2>3
<1> QED
  BY <1>4, <1>5, <1>6, <1>7 DEF IInv

\* The signal: nobody who waits for that budget is left untold.
LEMMA SignalKeepsInv ==
  ASSUME IInv, NEW p \in Packets, Signal(p)
  PROVE  IInv'
<1>0. TypeOK /\ PermitsAreBelow /\ CountsArePermits /\ BytesArePermits /\ FullIsTold
  BY DEF IInv
<1>1. /\ owes[p] # 0
      /\ owes' = [owes EXCEPT ![p] = 0]
      /\ UNCHANGED <<count, bytes, level, holds>>
  BY DEF Signal
<1>2. notified' =
        notified \cup {q \in Registered : Asks(q) = Path[p][owes[p]]}
  BY DEF Signal
<1>3. \/ holds[p] = {} /\ pc' = [pc EXCEPT ![p] = "idle"]
      \/ pc' = [pc EXCEPT ![p] = "leaving"]
  BY DEF Signal
<1>4. TypeOK'
  <2>1. notified' \subseteq Packets
    BY <1>0, <1>2 DEF TypeOK, Registered
  <2> QED
    BY <1>0, <1>1, <1>3, <2>1 DEF TypeOK
<1>5. CountsArePermits' /\ BytesArePermits'
  BY <1>0, <1>1, SameBooks
<1>6. PermitsAreBelow'
  BY <1>0, <1>1, <1>3 DEF PermitsAreBelow, TypeOK
<1>7. FullIsTold'
  <2> SUFFICES ASSUME NEW q \in Packets, pc'[q] \in {"full", "asleep"},
                      q \notin notified', Fits(q)'
               PROVE  IsOwed(q)'
    BY DEF FullIsTold
  <2>1. pc[q] \in {"full", "asleep"}
    BY <1>0, <1>3 DEF TypeOK
  <2>2. q \notin notified /\ ~(q \in Registered /\ Asks(q) = Path[p][owes[p]])
    BY <1>2
  <2>3. Asks(q) # Path[p][owes[p]]
    BY <2>1, <2>2 DEF Registered
  <2>4. Fits(q) /\ Asks(q)' = Asks(q)
    BY <1>1 DEF Fits, HasRoom, Asks
  <2>5. PICK r \in Packets : owes[r] # 0 /\ Path[r][owes[r]] = Asks(q)
    BY <1>0, <2>1, <2>2, <2>4 DEF FullIsTold, IsOwed
  <2>6. r # p /\ owes'[r] = owes[r]
    BY <1>0, <1>1, <2>3, <2>5 DEF TypeOK
  <2> QED
    BY <2>4, <2>5, <2>6 DEF IsOwed
<1> QED
  BY <1>4, <1>5, <1>6, <1>7 DEF IInv

LEMMA NextIInv == IInv /\ [Next]_vars => IInv'
<1> SUFFICES ASSUME IInv, [Next]_vars PROVE IInv'
  OBVIOUS
<1>1. CASE Next
  BY <1>1, MoveKeepsInv, AcquireKeepsInv, LeaveKeepsInv, DropKeepsInv,
     SignalKeepsInv DEF Next
<1>2. CASE UNCHANGED vars
  <2>1. TypeOK' /\ PermitsAreBelow'
    BY <1>2 DEF vars, IInv, TypeOK, PermitsAreBelow
  <2>2. CountsArePermits' /\ BytesArePermits'
    BY <1>2, SameBooks DEF vars, IInv
  <2>3. FullIsTold'
    BY <1>2 DEF vars, IInv, FullIsTold, IsOwed, Fits, HasRoom, Asks
  <2> QED
    BY <2>1, <2>2, <2>3 DEF IInv
<1> QED
  BY <1>1, <1>2

-----------------------------------------------------------------------------
\* The inductive invariant of the budgets.
THEOREM Invariance == Spec => []IInv
BY InitIInv, NextIInv, PTL DEF Spec

\* The budgets' books have the types TypeOK says.
THEOREM TypeCorrect == Spec => []TypeOK
<1>1. IInv => TypeOK
  BY DEF IInv
<1> QED
  BY <1>1, Invariance, PTL

\* Every budget's count is the number of its permits, through every refusal,
\* timeout and cancellation half-way.
THEOREM PermitCounting == Spec => []CountsArePermits
<1>1. IInv => CountsArePermits
  BY DEF IInv
<1> QED
  BY <1>1, Invariance, PTL

\* notify_waiters() loses no wake-up of acquire(), on any number of threads.
THEOREM NoLostWakeup == Spec => []SleeperIsTold
<1>1. IInv => SleeperIsTold
  BY DEF IInv, FullIsTold, SleeperIsTold, IsOwed
<1> QED
  BY <1>1, Invariance, PTL

\* The budgets' bytes are those of their permits, so a drop never saturates, and
\* no budget is overdrawn.
THEOREM ByteCounting == Spec => []BytesArePermits
<1>1. IInv => BytesArePermits
  BY DEF IInv
<1> QED
  BY <1>1, Invariance, PTL

\* A budget that lacks room for a packet has given out a permit: the packet
\* would fit if the budget were empty.
LEMMA FullHasHolder ==
  ASSUME IInv, NEW p \in Packets, ~Fits(p)
  PROVE  Holders(Asks(p)) # {}
<1> DEFINE b == Asks(p)
<1>1. b \in Budgets /\ Size[p] \in Nat /\ Size[p] <= MaxBytes[b]
      /\ MaxRequests[b] \in Nat /\ MaxRequests[b] # 0 /\ MaxBytes[b] \in Nat
  BY CapacityAssumption DEF IInv, TypeOK, Asks
<1>2. /\ count[b] = Cardinality(Holders(b)) /\ count[b] \in Nat
      /\ bytes[b] = SumFunctionOnSet(Size, Holders(b)) /\ bytes[b] \in Nat
  BY <1>1 DEF IInv, TypeOK, CountsArePermits, BytesArePermits
<1>3. count[b] # 0 \/ bytes[b] # 0
  BY <1>1, <1>2 DEF Fits, HasRoom
<1> SUFFICES ASSUME Holders(b) = {} PROVE FALSE
  OBVIOUS
<1>4. Cardinality(Holders(b)) = 0
  BY FS_EmptySet
<1>5. SumFunctionOnSet(Size, Holders(b)) = 0
  BY SumNothing
<1> QED
  BY <1>2, <1>3, <1>4, <1>5

\* Budgets are taken in one order, so that no circle of uploads arises in which
\* each holds what the next one waits for: whoever has the permits that the
\* sleeper of the highest level lacks is not asleep.
THEOREM NoCircularWait == Spec => []SomeoneMoves
<1>1. ASSUME IInv PROVE SomeoneMoves
  <2>0. TypeOK /\ PermitsAreBelow /\ FullIsTold
    BY <1>1 DEF IInv
  <2> SUFFICES ASSUME NEW s \in Packets, pc[s] = "asleep",
                      \A q \in Packets :
                        \/ pc[q] = "idle"
                        \/ pc[q] = "asleep" /\ q \notin notified
               PROVE  FALSE
    BY DEF SomeoneMoves
  <2>1. PICK p \in Packets :
          /\ pc[p] = "asleep"
          /\ \A q \in Packets : pc[q] = "asleep" => level[q] <= level[p]
    <3>1. \A q \in Packets : level[q] \in {1, 2, 3}
      BY <2>0 DEF TypeOK, Levels
    <3>2. CASE \E q \in Packets : pc[q] = "asleep" /\ level[q] = 3
      BY <3>1, <3>2
    <3>3. CASE ~\E q \in Packets : pc[q] = "asleep" /\ level[q] = 3
      <4>1. CASE \E q \in Packets : pc[q] = "asleep" /\ level[q] = 2
        BY <3>1, <3>3, <4>1
      <4>2. CASE ~\E q \in Packets : pc[q] = "asleep" /\ level[q] = 2
        BY <3>1, <3>3, <4>2
      <4> QED
        BY <4>1, <4>2
    <3> QED
      BY <3>2, <3>3
  <2>2. ~Fits(p)
    <3>1. ~IsOwed(p)
      BY <2>0 DEF IsOwed, PermitsAreBelow
    <3> QED
      BY <2>0, <2>1, <3>1 DEF FullIsTold
  <2>3. PICK q \in Packets, k \in Levels : k \in holds[q] /\ Path[q][k] = Asks(p)
    BY <1>1, <2>0, <2>2, FullHasHolder DEF Holders, TypeOK
  <2>4. k = level[p]
    BY <2>0, <2>3, CapacityAssumption DEF Asks, TypeOK
  <2>5. pc[q] = "asleep" /\ k < level[q]
    BY <2>0, <2>3 DEF PermitsAreBelow
  <2>6. level[q] <= level[p] /\ level[q] \in Int /\ level[p] \in Int
    BY <2>0, <2>1, <2>5 DEF TypeOK, Levels
  <2> QED
    BY <2>4, <2>5, <2>6
<1> QED
  BY <1>1, Invariance, PTL

-----------------------------------------------------------------------------
(* A bridge: its inductive invariant.                                       *)

Readings == [declared : 0..MaxPacket \cup {Unknown}, got : 0..MaxPacket]

H2Types ==
  /\ phase \in {"open", "closed"} /\ terminal \in {"none", "transport", "error"}
  /\ queue \in Seq(Lengths) /\ replyBytes \in Int
  /\ delivering \in BOOLEAN /\ waiting \in BOOLEAN
  /\ reader \in [Slots -> Readings \cup {NoReader}]
  /\ laneBytes \in Int /\ processBytes \in Int /\ replies \in Int
  /\ others \subseteq Neighbours
  /\ up \in {"header", "reserving", "body", "parked"}
  /\ down \in {"receive", "packet", "terminal"}
  /\ held \in 0..MaxPacket
  /\ ended \in {"no", "upload", "download", "idle", "dropped"}

\* A terminal value stands for a closed channel, and only an open one lets the
\* upload half end the bridge; an ended bridge has dropped what it held.
H2Flow ==
  /\ Running => (down = "packet" <=> held # 0)
  /\ ~Running => phase = "closed" /\ queue = <<>> /\ held = 0
  /\ terminal # "none" \/ down = "terminal" => phase = "closed"
  /\ ended = "upload" => terminal # "transport"

H2Inv == H2Types /\ H2Flow /\ RecoveryIsInformed /\ ReplyBytesExact

-----------------------------------------------------------------------------
(* What the readers are charged.                                            *)

Charges == SumFunction([i \in Slots |-> Charge(i)])
ChargedReplies == SumFunction([i \in Slots |-> Charged(i)])

\* Replies that are being written.
Writing == IF held = 0 THEN 0 ELSE 1

LEMMA SlotsFinite == IsFiniteSet(Slots)
<1>1. 1 \in Int /\ ChannelRequests \in Int
  BY BridgeAssumption
<1> QED
  BY <1>1, FS_Interval DEF Slots

LEMMA ChargeTypes ==
  ASSUME H2Types
  PROVE  \A i \in Slots : Charge(i) \in Nat /\ Charged(i) \in {0, 1}
BY BridgeAssumption
DEF H2Types, Charge, Charged, Readings, NoReader, Unknown, Reading

LEMMA ChargesTypes ==
  ASSUME H2Types
  PROVE  Charges \in Nat /\ ChargedReplies \in Nat
<1> DEFINE f == [i \in Slots |-> Charge(i)]
           g == [i \in Slots |-> Charged(i)]
<1>1. Summable(f, Slots) /\ Summable(g, Slots) /\ DOMAIN f = Slots /\ DOMAIN g = Slots
  BY ChargeTypes DEF Summable
<1> HIDE DEF f, g
<1>2. SumFunctionOnSet(f, Slots) \in Nat /\ SumFunctionOnSet(g, Slots) \in Nat
  BY <1>1, SlotsFinite, SumType
<1> QED
  BY <1>1, <1>2 DEF Charges, ChargedReplies, SumFunction, f, g

\* One reader goes on: the sums follow it.
LEMMA ReaderMoves ==
  ASSUME H2Types, H2Types', NEW i \in Slots,
         \A j \in Slots \ {i} : reader'[j] = reader[j]
  PROVE  /\ Charges' = Charges - Charge(i) + Charge(i)'
         /\ ChargedReplies' = ChargedReplies - Charged(i) + Charged(i)'
<1> DEFINE f == [j \in Slots |-> Charge(j)]
           g == [j \in Slots |-> Charged(j)]
           F == [j \in Slots |-> Charge(j)']
           G == [j \in Slots |-> Charged(j)']
<1>1. /\ Summable(f, Slots) /\ Summable(g, Slots)
      /\ DOMAIN f = Slots /\ DOMAIN g = Slots /\ DOMAIN F = Slots /\ DOMAIN G = Slots
      /\ f[i] = Charge(i) /\ g[i] = Charged(i)
      /\ F[i] = Charge(i)' /\ G[i] = Charged(i)'
  BY ChargeTypes DEF Summable
<1>2. Charge(i)' \in Nat /\ Charged(i)' \in Nat
  <2>1. reader'[i] \in Readings \cup {NoReader}
    BY DEF H2Types
  <2>2. MaxPacket \in Nat
    BY BridgeAssumption
  <2>3. CASE reader'[i] = NoReader
    BY <2>3 DEF Charge, Charged, NoReader, Unknown, Reading
  <2>4. CASE reader'[i] \in Readings
    <3>1. /\ reader'[i].declared \in 0..MaxPacket \cup {Unknown}
          /\ reader'[i].got \in 0..MaxPacket
      BY <2>4 DEF Readings
    <3> QED
      BY <2>2, <3>1 DEF Charge, Charged, Unknown
  <2> QED
    BY <2>1, <2>3, <2>4
<1>3. \A j \in Slots \ {i} : F[j] = f[j] /\ G[j] = g[j]
  BY DEF Charge, Charged, Reading
<1>4. /\ Charges = SumFunctionOnSet(f, Slots)
      /\ ChargedReplies = SumFunctionOnSet(g, Slots)
      /\ Charges' = SumFunctionOnSet(F, Slots)
      /\ ChargedReplies' = SumFunctionOnSet(G, Slots)
  BY <1>1 DEF Charges, ChargedReplies, SumFunction
<1> HIDE DEF f, g, F, G
<1>5. SumFunctionOnSet(F, Slots) = SumFunctionOnSet(f, Slots) - f[i] + F[i]
  BY <1>1, <1>2, <1>3, SlotsFinite, SumChange
<1>6. SumFunctionOnSet(G, Slots) = SumFunctionOnSet(g, Slots) - g[i] + G[i]
  BY <1>1, <1>2, <1>3, SlotsFinite, SumChange
<1> QED
  BY <1>1, <1>4, <1>5, <1>6

\* Nothing is charged for a reader that there is not.
LEMMA NoReaderIsFree ==
  ASSUME NEW i, reader[i] = NoReader
  PROVE  Charge(i) = 0 /\ Charged(i) = 0
BY DEF Charge, Charged, NoReader, Unknown, Reading

LEMMA QueueTypes ==
  ASSUME H2Types
  PROVE  /\ queue \in Seq(Nat) /\ Length(queue) \in Nat /\ Len(queue) \in Nat
         /\ held \in Nat /\ Writing \in {0, 1}
<1>1. queue \in Seq(Nat) /\ held \in Nat /\ Len(queue) \in Nat /\ Writing \in {0, 1}
  BY BridgeAssumption DEF H2Types, Lengths, Writing
<1> QED
  BY <1>1, SumSeqType DEF Length

\* What the books consist of are numbers.
LEMMA BooksTypes ==
  ASSUME H2Types
  PROVE  /\ Charges \in Nat /\ Length(queue) \in Nat /\ held \in Nat
         /\ ChargedReplies \in Nat /\ Len(queue) \in Nat /\ Writing \in Nat
<1>1. Writing \in {0, 1} /\ {0, 1} \subseteq Nat
  BY QueueTypes
<1> QED
  BY <1>1, QueueTypes, ChargesTypes

\* Charges and queue change by as much as lane and process are told.
LEMMA BooksMove ==
  ASSUME H2Types, H2Types', ReplyBytesExact, NEW n \in Int, NEW k \in Int,
         Charges' + Length(queue') + held' = Charges + Length(queue) + held + n,
         ChargedReplies' + Len(queue') + Writing'
           = ChargedReplies + Len(queue) + Writing + k,
         replyBytes' = Length(queue') + held',
         Account(n, k), others' = others,
         (n <= 0 /\ k <= 0) \/ CanCharge(n, k)
  PROVE  ReplyBytesExact'
<1> DEFINE l == Cardinality(others \cap {"lane"})
           m == Cardinality(others)
<1>1. /\ laneBytes = Charges + Length(queue) + held + l /\ laneBytes <= LaneLimit
      /\ processBytes = Charges + Length(queue) + held + m
      /\ processBytes <= ProcessLimit
      /\ replies = ChargedReplies + Len(queue) + Writing + m /\ replies <= ReplyLimit
  BY DEF ReplyBytesExact, Own, OwnReplies, Charges, ChargedReplies, Writing
<1>2. /\ laneBytes' = laneBytes + n /\ processBytes' = processBytes + n
      /\ replies' = replies + k
  BY DEF Account
<1>3. l \in Nat /\ m \in Nat
  <2>1. IsFiniteSet(Neighbours)
    <3>1. Neighbours = ({} \cup {"lane"}) \cup {"elsewhere"}
      BY DEF Neighbours
    <3> QED
      BY <3>1, FS_EmptySet, FS_AddElement
  <2> QED
    BY <2>1, FS_Subset, FS_CardinalityType DEF H2Types
<1>4. /\ Charges + Length(queue) + held \in Nat
      /\ ChargedReplies + Len(queue) + Writing \in Nat
  BY BooksTypes
<1>5. laneBytes \in Int /\ processBytes \in Int /\ replies \in Int
      /\ {LaneLimit, ProcessLimit, ReplyLimit} \subseteq Nat
  BY BridgeAssumption DEF H2Types
<1>6. /\ laneBytes + n <= LaneLimit /\ processBytes + n <= ProcessLimit
      /\ replies + k <= ReplyLimit
  BY <1>1, <1>5 DEF CanCharge
<1> DEFINE A == Charges + Length(queue) + held
           B == ChargedReplies + Len(queue) + Writing
           a == Charges' + Length(queue') + held'
           b == ChargedReplies' + Len(queue') + Writing'
<1>7. laneBytes' = a + l /\ processBytes' = a + m /\ replies' = b + m
  <2>1. a = A + n /\ b = B + k /\ A \in Nat /\ B \in Nat
        /\ laneBytes = A + l /\ processBytes = A + m /\ replies = B + m
    BY <1>1, <1>4
  <2> HIDE DEF A, B, a, b, l, m
  <2> QED
    BY <1>2, <1>3, <2>1
<1> QED
  BY <1>2, <1>6, <1>7
  DEF ReplyBytesExact, Own, OwnReplies, Charges, ChargedReplies, Writing, Length

\* Nothing is charged and nothing given back.
LEMMA BooksRest ==
  ASSUME ReplyBytesExact, UNCHANGED <<queue, replyBytes, buffers, held>>
  PROVE  ReplyBytesExact'
BY DEF ReplyBytesExact, Own, OwnReplies, Charge, Charged, Reading, Length, buffers

-----------------------------------------------------------------------------
(* The end of a bridge.                                                     *)

\* The halves are dropped: what the queue and the write held is given back.
LEMMA OverKeepsInv ==
  ASSUME H2Inv, NEW b \in {"upload", "download", "idle", "dropped"}, Over(b),
         phase' = "closed", terminal' \in {"none", "transport", "error"},
         waiting' \in BOOLEAN, b = "upload" => terminal' # "transport"
  PROVE  H2Inv'
<1>0. H2Types /\ H2Flow /\ RecoveryIsInformed /\ ReplyBytesExact
  BY DEF H2Inv
<1> DEFINE n == -(Length(queue) + held)
           k == -(Len(queue) + IF held = 0 THEN 0 ELSE 1)
<1>1. /\ ended' = b /\ Account(n, k)
      /\ queue' = <<>> /\ replyBytes' = 0 /\ held' = 0 /\ delivering' = FALSE
      /\ UNCHANGED <<reader, others, up, down>>
  BY DEF Over
<1>2. n \in Int /\ k \in Int /\ n <= 0 /\ k <= 0
  BY <1>0, QueueTypes
<1>3. H2Types'
  <2>1. queue' \in Seq(Lengths) /\ held' \in 0..MaxPacket /\ replyBytes' \in Int
    BY <1>1, BridgeAssumption
  <2>2. laneBytes' \in Int /\ processBytes' \in Int /\ replies' \in Int
    <3> HIDE DEF n, k
    <3> QED
      BY <1>0, <1>1, <1>2 DEF H2Types, Account
  <2> QED
    BY <1>0, <1>1, <2>1, <2>2 DEF H2Types
<1>4. H2Flow' /\ RecoveryIsInformed'
  BY <1>0, <1>1 DEF H2Flow, RecoveryIsInformed, Running
<1>5. Charges' = Charges /\ ChargedReplies' = ChargedReplies
  BY <1>1 DEF Charges, ChargedReplies, Charge, Charged, Reading
<1>6. Length(queue') = 0 /\ Len(queue') = 0 /\ Writing' = 0
  BY <1>1, SumEmptySeq DEF Length, Writing
<1>7. k = -(Len(queue) + Writing)
  BY DEF Writing
<1>8. ReplyBytesExact'
  <2>1. /\ Charges' + Length(queue') + held' = Charges + Length(queue) + held + n
        /\ ChargedReplies' + Len(queue') + Writing'
             = ChargedReplies + Len(queue) + Writing + k
    BY <1>0, <1>1, <1>5, <1>6, <1>7, QueueTypes, ChargesTypes
  <2>2. replyBytes' = Length(queue') + held'
    BY <1>1, <1>6
  <2> HIDE DEF n, k
  <2> QED
    BY <1>0, <1>1, <1>2, <1>3, <2>1, <2>2, BooksMove
<1> QED
  BY <1>3, <1>4, <1>8 DEF H2Inv

\* A branch of the select! returns; that of the uploads only on an open channel.
LEMMA EndKeepsInv ==
  ASSUME H2Inv, NEW b \in {"upload", "download", "idle", "dropped"}, End(b),
         b = "upload" => phase = "open"
  PROVE  H2Inv'
<1>0. H2Types /\ H2Flow
  BY DEF H2Inv
<1>1. Over(b) /\ phase' = "closed" /\ waiting' \in BOOLEAN
  BY <1>0 DEF End, Fail, H2Types
<1>2. /\ terminal' \in {"none", "transport", "error"}
      /\ phase = "open" => terminal' = "error"
  BY <1>0 DEF End, Fail, H2Types
<1> QED
  BY <1>1, <1>2, OverKeepsInv

\* Steps that leave the replies alone.
LEMMA RestKeepsInv ==
  ASSUME H2Inv, H2Types', UNCHANGED <<queue, replyBytes, buffers, held>>,
         H2Flow', RecoveryIsInformed'
  PROVE  H2Inv'
BY BooksRest DEF H2Inv

LEMMA UploadFailsKeepsInv ==
  ASSUME H2Inv, Running, UploadFails
  PROVE  H2Inv'
<1>0. H2Types /\ H2Flow /\ RecoveryIsInformed
  BY DEF H2Inv
<1>1. CASE phase = "closed"
  <2>1. /\ up' = "parked" /\ waiting' = FALSE
        /\ UNCHANGED <<phase, terminal, queue, replyBytes, delivering, reader,
                       laneBytes, processBytes, replies, others, down, held, ended>>
    BY <1>1 DEF UploadFails, channel, buffers
  <2>2. H2Types' /\ H2Flow' /\ RecoveryIsInformed'
    BY <1>0, <1>1, <2>1 DEF H2Types, H2Flow, RecoveryIsInformed, Running
  <2> QED
    BY <2>1, <2>2, RestKeepsInv DEF buffers
<1>2. CASE phase # "closed"
  BY <1>0, <1>2, EndKeepsInv DEF UploadFails, H2Types
<1> QED
  BY <1>1, <1>2

-----------------------------------------------------------------------------
(* Uploads, replays and the end of the channel.                             *)

LEMMA UploadKeepsInv ==
  ASSUME H2Inv,
         Header \/ Reserved \/ ReserveTimesOut \/ Launch \/ ClientFails \/ Replay
  PROVE  H2Inv'
<1>0. H2Types /\ H2Flow /\ RecoveryIsInformed
  BY DEF H2Inv
<1>1. CASE Running /\ UploadFails
  BY <1>1, UploadFailsKeepsInv
<1>2. CASE /\ Running
           /\ \/ up' = "reserving" /\ waiting' = TRUE
              \/ up' = "body" /\ waiting' = FALSE
              \/ up' = "header" /\ waiting' = waiting /\ up = "body"
              \/ up' = up /\ waiting' = waiting
           /\ UNCHANGED <<channel, delivering, buffers, down, held, ended>>
  <2>1. UNCHANGED <<phase, terminal, queue, replyBytes, delivering, reader,
                    laneBytes, processBytes, replies, others, down, held, ended>>
    BY <1>2 DEF channel, buffers
  <2>2. H2Types'
    BY <1>0, <1>2, <2>1 DEF H2Types
  <2>3. H2Flow'
    BY <1>0, <2>1 DEF H2Flow, Running
  <2>4. RecoveryIsInformed'
    BY <1>0, <1>2, <2>1 DEF RecoveryIsInformed, Running
  <2> QED
    BY <2>1, <2>2, <2>3, <2>4, RestKeepsInv DEF buffers
<1> QED
  BY <1>1, <1>2 DEF Header, Reserved, ReserveTimesOut, Launch, ClientFails, Replay

LEMMA LaneClosesKeepsInv ==
  ASSUME H2Inv, LaneCloses
  PROVE  H2Inv'
<1>0. H2Types /\ H2Flow /\ RecoveryIsInformed
  BY DEF H2Inv
<1>1. /\ phase = "open" /\ phase' = "closed" /\ terminal' = "error"
      /\ waiting' = FALSE
      /\ UNCHANGED <<queue, replyBytes, delivering, buffers, up, down, held, ended>>
  BY DEF LaneCloses, Fail
<1>2. H2Types' /\ H2Flow' /\ RecoveryIsInformed'
  BY <1>0, <1>1 DEF H2Types, H2Flow, RecoveryIsInformed, Running, buffers
<1> QED
  BY <1>1, <1>2, RestKeepsInv

-----------------------------------------------------------------------------
(* Request tasks and their readers.                                         *)

\* What a step of a request task may do to the channel.
TaskFlow ==
  /\ UNCHANGED <<delivering, up, down, held, ended>>
  /\ \/ UNCHANGED <<phase, terminal, waiting>>
     \/ /\ phase = "open" /\ phase' = "closed" /\ waiting' = FALSE
        /\ terminal' \in {"transport", "error"}

LEMMA TaskKeepsFlow ==
  ASSUME H2Inv, TaskFlow, queue' = queue \/ phase = "open"
  PROVE  H2Flow' /\ RecoveryIsInformed'
<1>0. H2Types /\ H2Flow /\ RecoveryIsInformed
  BY DEF H2Inv
<1> QED
  BY <1>0 DEF TaskFlow, H2Types, H2Flow, RecoveryIsInformed, Running

\* A task is over: what its reader was charged is given back.
LEMMA ForgetKeepsInv ==
  ASSUME H2Inv, NEW i \in Slots \cup {0}, Forget(i), TaskFlow,
         UNCHANGED <<queue, replyBytes>>
  PROVE  H2Inv'
<1>0. H2Types /\ H2Flow /\ RecoveryIsInformed /\ ReplyBytesExact
  BY DEF H2Inv
<1>1. H2Flow' /\ RecoveryIsInformed'
  BY TaskKeepsFlow
<1>2. CASE i = 0
  <2>1. UNCHANGED buffers
    BY <1>2 DEF Forget
  <2>2. H2Types'
    BY <1>0, <2>1 DEF H2Types, TaskFlow, buffers
  <2> QED
    BY <1>1, <2>1, <2>2, RestKeepsInv DEF TaskFlow
<1>3. CASE i # 0
  <2>1. /\ i \in Slots
        /\ reader' = [reader EXCEPT ![i] = NoReader]
        /\ Account(-Charge(i), -Charged(i)) /\ others' = others
    BY <1>3 DEF Forget
  <2>2. Charge(i) \in Nat /\ Charged(i) \in {0, 1}
    BY <1>0, <2>1, ChargeTypes
  <2>3. H2Types'
    <3>1. laneBytes' \in Int /\ processBytes' \in Int /\ replies' \in Int
      BY <1>0, <2>1, <2>2 DEF H2Types, Account
    <3>2. reader' \in [Slots -> Readings \cup {NoReader}]
      BY <1>0, <2>1 DEF H2Types
    <3> QED
      BY <1>0, <2>1, <3>1, <3>2 DEF H2Types, TaskFlow
  <2>4. reader'[i] = NoReader /\ \A j \in Slots \ {i} : reader'[j] = reader[j]
    BY <1>0, <2>1 DEF H2Types
  <2>5. Charge(i)' = 0 /\ Charged(i)' = 0
    BY <2>4 DEF Charge, Charged, NoReader, Unknown, Reading
  <2>6. Charges' = Charges - Charge(i) /\ ChargedReplies' = ChargedReplies - Charged(i)
    BY <1>0, <2>1, <2>2, <2>3, <2>4, <2>5, ChargesTypes, ReaderMoves
  <2>7. held' = held /\ queue' = queue /\ Writing' = Writing
    BY DEF TaskFlow, Writing
  <2>8. /\ Charges' + Length(queue') + held'
             = Charges + Length(queue) + held + -Charge(i)
        /\ ChargedReplies' + Len(queue') + Writing'
             = ChargedReplies + Len(queue) + Writing + -Charged(i)
    <3>1. /\ Charges \in Nat /\ Length(queue) \in Nat /\ held \in Nat
          /\ ChargedReplies \in Nat /\ Len(queue) \in Nat /\ Writing \in Nat
          /\ Charge(i) \in Int /\ Charged(i) \in Int
      BY <1>0, <2>2, BooksTypes
    <3>2. Charges - Charge(i) + Length(queue) + held
            = Charges + Length(queue) + held + -Charge(i)
      BY <3>1
    <3>3. ChargedReplies - Charged(i) + Len(queue) + Writing
            = ChargedReplies + Len(queue) + Writing + -Charged(i)
      BY <3>1
    <3> QED
      BY <2>6, <2>7, <3>2, <3>3
  <2>9. replyBytes' = Length(queue') + held'
    BY <1>0, <2>7 DEF ReplyBytesExact
  <2>10. ReplyBytesExact'
    <3> DEFINE n == -Charge(i)
               k == -Charged(i)
    <3>1. n \in Int /\ k \in Int /\ n <= 0 /\ k <= 0
      BY <2>2
    <3>2. Account(n, k)
      BY <2>1
    <3>3. /\ Charges' + Length(queue') + held' = Charges + Length(queue) + held + n
          /\ ChargedReplies' + Len(queue') + Writing'
               = ChargedReplies + Len(queue) + Writing + k
      BY <2>8
    <3> HIDE DEF n, k
    <3> QED
      BY <1>0, <2>1, <2>3, <2>9, <3>1, <3>2, <3>3, BooksMove
  <2> QED
    BY <1>1, <2>3, <2>10 DEF H2Inv
<1> QED
  BY <1>2, <1>3

LEMMA TaskFailsKeepsInv ==
  ASSUME H2Inv, NEW i \in Slots \cup {0}, NEW t \in {"transport", "error"},
         TaskFails(i, t)
  PROVE  H2Inv'
<1>1. TaskFlow /\ UNCHANGED <<queue, replyBytes>> /\ Forget(i)
  BY DEF TaskFails, TaskFlow, Fail
<1> QED
  BY <1>1, ForgetKeepsInv

LEMMA TaskIsDoneKeepsInv ==
  ASSUME H2Inv, NEW i \in Slots \cup {0}, TaskIsDone(i)
  PROVE  H2Inv'
<1>1. TaskFlow /\ UNCHANGED <<queue, replyBytes>> /\ Forget(i)
  BY DEF TaskIsDone, TaskFlow, channel
<1> QED
  BY <1>1, ForgetKeepsInv

\* A reader goes on by what it is charged for.
LEMMA ReadKeepsInv ==
  ASSUME H2Inv, Reads, NEW i \in Slots, NEW r \in Readings,
         reader' = [reader EXCEPT ![i] = r],
         NEW n \in Int, NEW k \in Int, Account(n, k),
         (n <= 0 /\ k <= 0) \/ CanCharge(n, k),
         Charge(i)' = Charge(i) + n, Charged(i)' = Charged(i) + k
  PROVE  H2Inv'
<1>0. H2Types /\ H2Flow /\ RecoveryIsInformed /\ ReplyBytesExact
  BY DEF H2Inv
<1>1. UNCHANGED <<phase, terminal, queue, replyBytes, waiting, others, delivering,
                  up, down, held, ended>>
  BY DEF Reads, channel
<1>2. H2Flow' /\ RecoveryIsInformed'
  BY <1>1, TaskKeepsFlow DEF TaskFlow
<1>3. H2Types'
  <2>1. laneBytes' \in Int /\ processBytes' \in Int /\ replies' \in Int
    BY <1>0 DEF H2Types, Account
  <2>2. reader' \in [Slots -> Readings \cup {NoReader}]
    BY <1>0 DEF H2Types
  <2> QED
    BY <1>0, <1>1, <2>1, <2>2 DEF H2Types
<1>4. \A j \in Slots \ {i} : reader'[j] = reader[j]
  BY <1>0 DEF H2Types
<1>5. Charge(i) \in Nat /\ Charged(i) \in {0, 1}
  BY <1>0, ChargeTypes
<1>6. Charges' = Charges + n /\ ChargedReplies' = ChargedReplies + k
  BY <1>0, <1>3, <1>4, <1>5, ChargesTypes, ReaderMoves
<1>7. /\ Charges' + Length(queue') + held' = Charges + Length(queue) + held + n
      /\ ChargedReplies' + Len(queue') + Writing'
           = ChargedReplies + Len(queue) + Writing + k
  <2>1. Writing' = Writing
    BY <1>1 DEF Writing
  <2> QED
    <3>1. /\ Charges \in Nat /\ Length(queue) \in Nat /\ held \in Nat
          /\ ChargedReplies \in Nat /\ Len(queue) \in Nat /\ Writing \in Nat
      BY <1>0, BooksTypes
    <3>2. /\ Charges + n + Length(queue) + held
               = Charges + Length(queue) + held + n
          /\ ChargedReplies + k + Len(queue) + Writing
               = ChargedReplies + Len(queue) + Writing + k
      BY <3>1
    <3> QED
      BY <1>1, <1>6, <2>1, <3>2
<1>8. replyBytes' = Length(queue') + held'
  BY <1>0, <1>1 DEF ReplyBytesExact
<1>9. ReplyBytesExact'
  BY <1>0, <1>1, <1>3, <1>7, <1>8, BooksMove
<1> QED
  BY <1>2, <1>3, <1>9 DEF H2Inv

LEMMA BeginReplyKeepsInv ==
  ASSUME H2Inv, NEW i \in Slots, NEW d \in 0..MaxPacket \cup {Unknown},
         BeginReply(i, d)
  PROVE  H2Inv'
<1> DEFINE r == [declared |-> d, got |-> 0]
<1>0. H2Types /\ Reads /\ reader' = [reader EXCEPT ![i] = r]
  BY DEF H2Inv, BeginReply
<1>1. r \in Readings /\ r # NoReader
  BY BridgeAssumption DEF Readings, NoReader, Unknown
<1>2. Charge(i) = 0 /\ Charged(i) = 0
  BY DEF BeginReply, Reading, Charge, Charged, NoReader, Unknown
<1>3. reader'[i] = r
  BY <1>0 DEF H2Types
<1>4. CASE d = Unknown
  <2>1. Charge(i)' = 0 /\ Charged(i)' = 0
    BY <1>3, <1>4 DEF Charge, Charged, Unknown
  <2>2. Account(0, 0) /\ 0 \in Int /\ 0 <= 0
    BY <1>0, <1>4 DEF BeginReply, Account, H2Types
  <2>3. Charge(i)' = Charge(i) + 0 /\ Charged(i)' = Charged(i) + 0
    BY <1>2, <2>1
  <2> HIDE DEF r
  <2> QED
    BY <1>0, <1>1, <2>2, <2>3, ReadKeepsInv
<1>5. CASE d # Unknown
  <2>1. Charge(i)' = d /\ Charged(i)' = 1 /\ d \in Int
    BY <1>1, <1>3, <1>5 DEF Charge, Charged, Reading
  <2>2. Account(d, 1) /\ CanCharge(d, 1) /\ 1 \in Int
    BY <1>5 DEF BeginReply
  <2>3. Charge(i)' = Charge(i) + d /\ Charged(i)' = Charged(i) + 1
    BY <1>2, <2>1
  <2> HIDE DEF r
  <2> QED
    BY <1>0, <1>1, <2>1, <2>2, <2>3, ReadKeepsInv
<1> QED
  BY <1>4, <1>5

\* A reader's chunk: what it has got grows.
LEMMA GotGrows ==
  ASSUME H2Types, NEW i \in Reading, NEW n \in Sizes,
         reader[i].got + n <= MaxPacket,
         reader' = [reader EXCEPT ![i].got = @ + n]
  PROVE  /\ [declared |-> reader[i].declared, got |-> reader[i].got + n] \in Readings
         /\ reader' = [reader EXCEPT ![i] =
              [declared |-> reader[i].declared, got |-> reader[i].got + n]]
         /\ reader'[i].declared = reader[i].declared
         /\ reader'[i].got = reader[i].got + n
         /\ i \in Slots /\ i \in Reading' /\ n \in Nat \ {0}
         /\ reader[i].got \in Nat
<1>1. i \in Slots /\ reader[i] \in Readings /\ n \in Nat \ {0}
  BY BridgeAssumption DEF H2Types, Reading
<1>2. /\ reader[i].got \in Nat
      /\ reader[i] = [declared |-> reader[i].declared, got |-> reader[i].got]
  BY <1>1, BridgeAssumption DEF Readings
<1> DEFINE r == [declared |-> reader[i].declared, got |-> reader[i].got + n]
<1>3. r \in Readings
  BY <1>1, <1>2, BridgeAssumption DEF Readings
<1>4. [reader[i] EXCEPT !.got = @ + n] = r
  BY <1>1 DEF Readings
<1>5. reader' = [reader EXCEPT ![i] = r] /\ reader'[i] = r
  BY <1>1, <1>4 DEF H2Types
<1>6. r # NoReader
  BY <1>2, <1>1 DEF NoReader, Unknown
<1>7. i \in Reading'
  BY <1>1, <1>5, <1>6 DEF Reading
<1>8. reader'[i].declared = reader[i].declared /\ reader'[i].got = reader[i].got + n
  BY <1>5
<1>9. reader[i].got \in Nat
  BY <1>2
<1> HIDE DEF r
<1> QED
  BY <1>1, <1>3, <1>5, <1>7, <1>8, <1>9 DEF r

LEMMA ReadChunkKeepsInv ==
  ASSUME H2Inv, NEW i \in Slots, NEW n \in Sizes, ReadChunk(i, n)
  PROVE  H2Inv'
<1> DEFINE k == 1 - Charged(i)
           r == [declared |-> reader[i].declared, got |-> reader[i].got + n]
<1>0. /\ H2Types /\ Reads /\ i \in Reading
      /\ reader[i].declared = Unknown /\ reader[i].got + n <= MaxPacket
      /\ CanCharge(n, k) /\ Account(n, k)
      /\ reader' = [reader EXCEPT ![i].got = @ + n]
  BY DEF H2Inv, ReadChunk
<1>1. /\ r \in Readings /\ reader' = [reader EXCEPT ![i] = r]
      /\ reader'[i].declared = Unknown /\ reader'[i].got = reader[i].got + n
      /\ i \in Reading' /\ n \in Nat \ {0} /\ reader[i].got \in Nat
  BY <1>0, GotGrows
<1>2. /\ Charge(i) = reader[i].got /\ Charge(i)' = reader[i].got + n
      /\ Charged(i)' = 1
  BY <1>0, <1>1 DEF Charge, Charged
<1>3. Charged(i) \in {0, 1}
  BY <1>0, ChargeTypes
<1>4. k \in Int /\ Charged(i)' = Charged(i) + k
  BY <1>2, <1>3
<1>5. n \in Int /\ Charge(i)' = Charge(i) + n
  BY <1>1, <1>2
<1> HIDE DEF r, k
<1> QED
  BY <1>0, <1>1, <1>4, <1>5, ReadKeepsInv

LEMMA FillBodyKeepsInv ==
  ASSUME H2Inv, NEW i \in Slots, NEW n \in Sizes, FillBody(i, n)
  PROVE  H2Inv'
<1> DEFINE r == [declared |-> reader[i].declared, got |-> reader[i].got + n]
<1>0. /\ H2Types /\ Reads /\ i \in Reading
      /\ reader[i].got + n <= reader[i].declared
      /\ reader' = [reader EXCEPT ![i].got = @ + n]
      /\ UNCHANGED <<laneBytes, processBytes, replies>>
  BY DEF H2Inv, FillBody
<1>1. /\ reader[i] \in Readings /\ n \in Nat \ {0}
  BY <1>0, BridgeAssumption DEF H2Types, Reading
<1>2. /\ reader[i].declared \in 0..MaxPacket /\ reader[i].declared # Unknown
      /\ reader[i].got \in Nat /\ reader[i].got + n <= MaxPacket
  BY <1>0, <1>1, BridgeAssumption DEF Readings, Unknown
<1>3. /\ r \in Readings /\ reader' = [reader EXCEPT ![i] = r]
      /\ reader'[i].declared = reader[i].declared /\ i \in Reading'
  BY <1>0, <1>2, GotGrows
<1>4. /\ Charge(i) = reader[i].declared /\ Charge(i)' = reader[i].declared
      /\ Charged(i) = 1 /\ Charged(i)' = 1
  BY <1>0, <1>2, <1>3 DEF Charge, Charged
<1>5. Account(0, 0)
  BY <1>0 DEF Account, H2Types
<1>6. /\ Charge(i)' = Charge(i) + 0 /\ Charged(i)' = Charged(i) + 0
      /\ 0 \in Int /\ 0 <= 0
  BY <1>2, <1>4
<1> HIDE DEF r
<1> QED
  BY <1>0, <1>3, <1>5, <1>6, ReadKeepsInv

\* deliver(): the reply goes from its reader to the queue with its charges.
LEMMA DeliverKeepsInv ==
  ASSUME H2Inv, NEW i \in Slots, Deliver(i)
  PROVE  H2Inv'
<1> DEFINE n == reader[i].got
<1>0. H2Types /\ H2Flow /\ RecoveryIsInformed /\ ReplyBytesExact
  BY DEF H2Inv
<1>1. /\ phase = "open" /\ i \in Reading /\ n \in Lengths
      /\ reader[i].declared \in {Unknown, n}
      /\ UNCHANGED <<delivering, up, down, held, ended>>
  BY DEF Deliver, Complete
<1>2. CASE replyBytes + n > ByteLimit \/ Len(queue) = QueueLimit
  <2>1. Fail("error") /\ Forget(i) /\ UNCHANGED <<queue, replyBytes>>
    BY <1>2 DEF Deliver
  <2>2. TaskFlow
    BY <1>1, <2>1 DEF TaskFlow, Fail
  <2> QED
    BY <2>1, <2>2, ForgetKeepsInv
<1>3. CASE ~(replyBytes + n > ByteLimit \/ Len(queue) = QueueLimit)
  <2>1. /\ replyBytes' = replyBytes + n /\ queue' = Append(queue, n)
        /\ reader' = [reader EXCEPT ![i] = NoReader]
        /\ UNCHANGED <<phase, terminal, waiting, laneBytes, processBytes, replies,
                       others>>
    BY <1>3 DEF Deliver
  <2>2. TaskFlow /\ H2Flow' /\ RecoveryIsInformed'
    <3>1. TaskFlow
      BY <1>1, <2>1 DEF TaskFlow
    <3> QED
      BY <1>1, <3>1, TaskKeepsFlow
  <2>3. n \in Nat /\ n # 0
    BY <1>1, BridgeAssumption DEF Lengths
  <2>4. H2Types'
    <3>1. queue' \in Seq(Lengths) /\ replyBytes' \in Int
      BY <1>0, <1>1, <2>1, <2>3 DEF H2Types
    <3>2. reader' \in [Slots -> Readings \cup {NoReader}]
      BY <1>0, <2>1 DEF H2Types
    <3> QED
      BY <1>0, <1>1, <2>1, <3>1, <3>2 DEF H2Types
  <2>5. Charge(i) = n /\ Charged(i) = 1
    <3>1. n > 0
      BY <2>3
    <3> QED
      BY <1>1, <3>1 DEF Charge, Charged
  <2>6. reader'[i] = NoReader /\ \A j \in Slots \ {i} : reader'[j] = reader[j]
    BY <1>0, <2>1 DEF H2Types
  <2>7. Charge(i)' = 0 /\ Charged(i)' = 0
    BY <2>6 DEF Charge, Charged, NoReader, Unknown, Reading
  <2>8. Charges' = Charges - n + 0 /\ ChargedReplies' = ChargedReplies - 1 + 0
    BY <1>0, <2>4, <2>5, <2>6, <2>7, ReaderMoves
  <2>9. Length(queue') = Length(queue) + n /\ Len(queue') = Len(queue) + 1
    <3>1. queue \in Seq(Nat)
      BY <1>0, QueueTypes
    <3> HIDE DEF n
    <3> QED
      BY <2>1, <2>3, <3>1, SumAppend DEF Length
  <2>10. held' = held /\ Writing' = Writing
    BY <1>1 DEF Writing
  <2>11. /\ Charges' + Length(queue') + held' = Charges + Length(queue) + held + 0
         /\ ChargedReplies' + Len(queue') + Writing'
              = ChargedReplies + Len(queue) + Writing + 0
    <3> HIDE DEF n
    <3>1. /\ n \in Nat
          /\ Charges \in Nat /\ Length(queue) \in Nat /\ held \in Nat
          /\ ChargedReplies \in Nat /\ Len(queue) \in Nat /\ Writing \in Nat
      BY <1>0, <2>3, BooksTypes
    <3>2. Charges - n + 0 + (Length(queue) + n) + held
            = Charges + Length(queue) + held + 0
      BY <3>1
    <3>3. ChargedReplies - 1 + 0 + (Len(queue) + 1) + Writing
            = ChargedReplies + Len(queue) + Writing + 0
      BY <3>1
    <3> QED
      BY <2>8, <2>9, <2>10, <3>2, <3>3
  <2>12. replyBytes' = Length(queue') + held'
    <3> HIDE DEF n
    <3> QED
      BY <1>0, <2>1, <2>3, <2>9, <2>10, QueueTypes DEF ReplyBytesExact
  <2>13. Account(0, 0) /\ 0 \in Int /\ 0 <= 0
    BY <1>0, <2>1 DEF Account, H2Types
  <2>14. ReplyBytesExact'
    BY <1>0, <2>1, <2>4, <2>11, <2>12, <2>13, BooksMove
  <2> QED
    BY <2>2, <2>4, <2>14 DEF H2Inv
<1> QED
  BY <1>2, <1>3

-----------------------------------------------------------------------------
(* The download half, and the neighbours.                                   *)

LEMMA ReceiveTerminalKeepsInv ==
  ASSUME H2Inv, ReceiveTerminal
  PROVE  H2Inv'
<1>0. H2Types /\ H2Flow /\ RecoveryIsInformed
  BY DEF H2Inv
<1>1. /\ Running /\ down = "receive" /\ terminal # "none" /\ terminal' = "none"
      /\ phase = "closed"
  BY <1>0 DEF ReceiveTerminal, H2Flow
<1>2. CASE terminal = "transport"
  <2>1. /\ down' = "terminal" /\ delivering' = TRUE
        /\ UNCHANGED <<phase, queue, replyBytes, waiting, buffers, up, held, ended>>
    BY <1>2 DEF ReceiveTerminal
  <2>2. H2Types' /\ H2Flow' /\ RecoveryIsInformed'
    BY <1>0, <1>1, <2>1
    DEF H2Types, H2Flow, RecoveryIsInformed, Running, buffers
  <2> QED
    BY <2>1, <2>2, RestKeepsInv
<1>3. CASE terminal # "transport"
  <2>1. Over("download") /\ UNCHANGED <<phase, waiting>>
    BY <1>3 DEF ReceiveTerminal
  <2>2. phase' = "closed" /\ waiting' \in BOOLEAN /\ terminal' = "none"
    BY <1>0, <1>1, <2>1 DEF H2Types
  <2> QED
    BY <2>1, <2>2, OverKeepsInv
<1> QED
  BY <1>2, <1>3

LEMMA ReceivePacketKeepsInv ==
  ASSUME H2Inv, ReceivePacket
  PROVE  H2Inv'
<1>0. H2Types /\ H2Flow /\ RecoveryIsInformed /\ ReplyBytesExact
  BY DEF H2Inv
<1>1. /\ Running /\ down = "receive" /\ terminal = "none" /\ queue # <<>>
      /\ down' = "packet" /\ held' = Head(queue) /\ queue' = Tail(queue)
      /\ delivering' = TRUE
      /\ UNCHANGED <<phase, terminal, replyBytes, waiting, buffers, up, ended>>
  BY DEF ReceivePacket
<1>2. held = 0
  BY <1>0, <1>1 DEF H2Flow
<1>3. /\ held' \in Lengths /\ queue' \in Seq(Lengths)
      /\ Len(queue) = Len(queue') + 1 /\ Len(queue') \in Nat
  BY <1>0, <1>1 DEF H2Types
<1>4. held' \in Nat /\ held' # 0 /\ held' \in 0..MaxPacket
  BY <1>3, BridgeAssumption DEF Lengths
<1>5. H2Types'
  BY <1>0, <1>1, <1>3, <1>4 DEF H2Types, buffers
<1>6. H2Flow' /\ RecoveryIsInformed'
  BY <1>0, <1>1, <1>4 DEF H2Flow, RecoveryIsInformed, Running
<1>7. Length(queue) = held' + Length(queue') /\ Length(queue') \in Nat
  <2>1. queue \in Seq(Nat) /\ queue' \in Seq(Nat)
    BY <1>3, <1>0, QueueTypes, BridgeAssumption DEF Lengths
  <2> QED
    BY <1>1, <2>1, SumTail, SumSeqType DEF Length
<1>8. Writing = 0 /\ Writing' = 1
  BY <1>2, <1>4 DEF Writing
<1>9. Charges' = Charges /\ ChargedReplies' = ChargedReplies
  BY <1>1 DEF Charges, ChargedReplies, Charge, Charged, Reading, buffers
<1>10. /\ Charges' + Length(queue') + held' = Charges + Length(queue) + held + 0
       /\ ChargedReplies' + Len(queue') + Writing'
            = ChargedReplies + Len(queue) + Writing + 0
  BY <1>0, <1>2, <1>3, <1>4, <1>7, <1>8, <1>9, ChargesTypes
<1>11. replyBytes' = Length(queue') + held'
  BY <1>0, <1>1, <1>2, <1>4, <1>7, QueueTypes DEF ReplyBytesExact
<1>12. Account(0, 0) /\ 0 \in Int /\ 0 <= 0 /\ others' = others
  BY <1>0, <1>1 DEF Account, H2Types, buffers
<1>13. ReplyBytesExact'
  BY <1>0, <1>5, <1>10, <1>11, <1>12, BooksMove
<1> QED
  BY <1>5, <1>6, <1>13 DEF H2Inv

LEMMA PacketWrittenKeepsInv ==
  ASSUME H2Inv, PacketWritten
  PROVE  H2Inv'
<1>0. H2Types /\ H2Flow /\ RecoveryIsInformed /\ ReplyBytesExact
  BY DEF H2Inv
<1>1. /\ Running /\ down = "packet"
      /\ down' = "receive" /\ held' = 0 /\ delivering' = FALSE
      /\ replyBytes' = replyBytes - held /\ Account(-held, -1)
      /\ UNCHANGED <<phase, terminal, queue, waiting, reader, others, up, ended>>
  BY DEF PacketWritten
<1>2. held \in Nat /\ held # 0
  BY <1>0, <1>1, QueueTypes DEF H2Flow
<1> DEFINE n == -held
<1>3. n \in Int /\ -1 \in Int /\ n <= 0 /\ -1 <= 0 /\ Account(n, -1)
  BY <1>1, <1>2
<1>4. H2Types'
  <2>1. /\ laneBytes' \in Int /\ processBytes' \in Int /\ replies' \in Int
        /\ replyBytes' \in Int /\ held' \in 0..MaxPacket
    BY <1>0, <1>1, <1>2, BridgeAssumption DEF H2Types, Account
  <2> QED
    BY <1>0, <1>1, <2>1 DEF H2Types
<1>5. H2Flow' /\ RecoveryIsInformed'
  BY <1>0, <1>1 DEF H2Flow, RecoveryIsInformed, Running
<1>6. Writing = 1 /\ Writing' = 0
  BY <1>1, <1>2 DEF Writing
<1>7. Charges' = Charges /\ ChargedReplies' = ChargedReplies
  BY <1>1 DEF Charges, ChargedReplies, Charge, Charged, Reading
<1>8. /\ Charges' + Length(queue') + held' = Charges + Length(queue) + held + n
      /\ ChargedReplies' + Len(queue') + Writing'
           = ChargedReplies + Len(queue) + Writing + -1
  BY <1>0, <1>1, <1>2, <1>6, <1>7, QueueTypes, ChargesTypes
<1>9. replyBytes' = Length(queue') + held'
  BY <1>0, <1>1, <1>2, QueueTypes DEF ReplyBytesExact
<1>10. ReplyBytesExact'
  <2> HIDE DEF n
  <2> QED
    BY <1>0, <1>1, <1>3, <1>4, <1>8, <1>9, BooksMove
<1> QED
  BY <1>4, <1>5, <1>10 DEF H2Inv

LEMMA NeighboursFinite ==
  /\ \A S : S \subseteq Neighbours => IsFiniteSet(S) /\ Cardinality(S) \in Nat
  /\ "lane" # "elsewhere"
<1>1. Neighbours = ({} \cup {"lane"}) \cup {"elsewhere"}
  BY DEF Neighbours
<1>2. IsFiniteSet(Neighbours)
  BY <1>1, FS_EmptySet, FS_AddElement
<1> QED
  BY <1>2, FS_Subset, FS_CardinalityType

\* Another bridge takes a reply or gives one back.
LEMMA NeighbourKeepsInv ==
  ASSUME H2Inv, NEW x \in Neighbours, NeighbourTakes(x) \/ NeighbourWrites(x)
  PROVE  H2Inv'
<1> DEFINE lane == IF x = "lane" THEN 1 ELSE 0
           l == Cardinality(others \cap {"lane"})
           m == Cardinality(others)
           L == Cardinality(others' \cap {"lane"})
           M == Cardinality(others')
<1>0. H2Types /\ H2Flow /\ RecoveryIsInformed /\ ReplyBytesExact
  BY DEF H2Inv
<1>1. /\ UNCHANGED <<phase, terminal, queue, replyBytes, delivering, waiting, reader,
                     up, down, held, ended>>
      /\ others \subseteq Neighbours
  BY <1>0 DEF NeighbourTakes, NeighbourWrites, channel, H2Types
<1>2. /\ IsFiniteSet(others) /\ m \in Nat
      /\ IsFiniteSet(others \cap {"lane"}) /\ l \in Nat
  <2>1. others \cap {"lane"} \subseteq Neighbours
    BY <1>1
  <2> QED
    BY <1>1, <2>1, NeighboursFinite
<1>3. H2Types'
  BY <1>0, <1>1 DEF H2Types, NeighbourTakes, NeighbourWrites
<1>4. H2Flow' /\ RecoveryIsInformed'
  BY <1>0, <1>1 DEF H2Flow, RecoveryIsInformed, Running
<1>5. /\ laneBytes = Own + l /\ processBytes = Own + m /\ replies = OwnReplies + m
      /\ laneBytes <= LaneLimit /\ processBytes <= ProcessLimit /\ replies <= ReplyLimit
      /\ replyBytes = Length(queue) + held
  BY <1>0 DEF ReplyBytesExact
<1>6. Own \in Int /\ OwnReplies \in Int
  <2>1. Own = Charges + Length(queue) + held
    BY DEF Own, Charges
  <2>2. OwnReplies = ChargedReplies + Len(queue) + Writing
    BY DEF OwnReplies, ChargedReplies, Writing
  <2> QED
    BY <1>0, <2>1, <2>2, ChargesTypes, QueueTypes
<1>7. Own' = Own /\ OwnReplies' = OwnReplies /\ Length(queue)' = Length(queue)
  BY <1>1 DEF Own, OwnReplies, Charge, Charged, Reading, Length
<1>8. {LaneLimit, ProcessLimit, ReplyLimit} \subseteq Nat
  BY BridgeAssumption
<1>9. CASE NeighbourTakes(x)
  <2>1. /\ x \notin others /\ others' = others \cup {x}
        /\ laneBytes' = laneBytes + lane /\ processBytes' = processBytes + 1
        /\ replies' = replies + 1
        /\ processBytes < ProcessLimit /\ replies < ReplyLimit
        /\ x = "lane" => laneBytes < LaneLimit
    BY <1>9 DEF NeighbourTakes
  <2>2. M = m + 1
    BY <1>2, <2>1, FS_AddElement
  <2>3. L = l + lane
    <3>1. CASE x = "lane"
      <4>1. others' \cap {"lane"} = (others \cap {"lane"}) \cup {x}
        BY <2>1, <3>1
      <4> QED
        BY <1>2, <2>1, <3>1, <4>1, FS_AddElement
    <3>2. CASE x # "lane"
      <4>1. others' \cap {"lane"} = others \cap {"lane"}
        BY <2>1, <3>2
      <4> QED
        BY <1>2, <3>2, <4>1
    <3> QED
      BY <3>1, <3>2
  <2>4. /\ laneBytes' = Own + L /\ processBytes' = Own + M /\ replies' = OwnReplies + M
        /\ laneBytes' <= LaneLimit /\ processBytes' <= ProcessLimit
        /\ replies' <= ReplyLimit
    <3> HIDE DEF l, m, L, M
    <3> QED
      BY <1>2, <1>5, <1>6, <1>8, <2>1, <2>2, <2>3
  <2>5. ReplyBytesExact'
    BY <1>1, <1>5, <1>7, <2>4 DEF ReplyBytesExact
  <2> QED
    BY <1>3, <1>4, <2>5 DEF H2Inv
<1>10. CASE NeighbourWrites(x)
  <2>1. /\ x \in others /\ others' = others \ {x}
        /\ laneBytes' = laneBytes - lane /\ processBytes' = processBytes - 1
        /\ replies' = replies - 1
    BY <1>10 DEF NeighbourWrites
  <2>2. M = m - 1
    BY <1>2, <2>1, FS_RemoveElement
  <2>3. L = l - lane
    <3>1. CASE x = "lane"
      <4>1. others' \cap {"lane"} = (others \cap {"lane"}) \ {x}
        BY <2>1, <3>1
      <4> QED
        BY <1>2, <2>1, <3>1, <4>1, FS_RemoveElement
    <3>2. CASE x # "lane"
      <4>1. others' \cap {"lane"} = others \cap {"lane"}
        BY <2>1, <3>2
      <4> QED
        BY <1>2, <3>2, <4>1
    <3> QED
      BY <3>1, <3>2
  <2>4. /\ laneBytes' = Own + L /\ processBytes' = Own + M /\ replies' = OwnReplies + M
        /\ laneBytes' <= LaneLimit /\ processBytes' <= ProcessLimit
        /\ replies' <= ReplyLimit
    <3> HIDE DEF l, m, L, M
    <3> QED
      BY <1>2, <1>5, <1>6, <1>8, <2>1, <2>2, <2>3
  <2>5. ReplyBytesExact'
    BY <1>1, <1>5, <1>7, <2>4 DEF ReplyBytesExact
  <2> QED
    BY <1>3, <1>4, <2>5 DEF H2Inv
<1> QED
  BY <1>9, <1>10

-----------------------------------------------------------------------------
(* The theorems about a bridge.                                             *)

LEMMA InitH2Inv == H2Init => H2Inv
<1> SUFFICES ASSUME H2Init PROVE H2Inv
  OBVIOUS
<1>1. H2Types
  <2>1. <<>> \in Seq(Lengths) /\ 0 \in 0..MaxPacket /\ {} \subseteq Neighbours
    BY BridgeAssumption
  <2>2. queue \in Seq(Lengths) /\ held \in 0..MaxPacket /\ others \subseteq Neighbours
    BY <2>1 DEF H2Init
  <2>3. reader \in [Slots -> Readings \cup {NoReader}]
    BY DEF H2Init
  <2>4. /\ phase = "open" /\ terminal = "none" /\ replyBytes = 0
        /\ laneBytes = 0 /\ processBytes = 0 /\ replies = 0
        /\ up = "header" /\ down = "receive" /\ ended = "no"
    BY DEF H2Init
  <2>5. delivering \in BOOLEAN /\ waiting \in BOOLEAN
    BY DEF H2Init
  <2> QED
    BY <2>2, <2>3, <2>4, <2>5 DEF H2Types
<1>2. H2Flow /\ RecoveryIsInformed
  BY DEF H2Init, H2Flow, RecoveryIsInformed, Running
<1>3. \A i \in Slots : Charge(i) = 0 /\ Charged(i) = 0
  BY DEF H2Init, Charge, Charged, NoReader, Unknown, Reading
<1>4. Length(queue) = 0 /\ Len(queue) = 0
  BY SumEmptySeq DEF H2Init, Length
<1>5. Own = 0 /\ OwnReplies = 0
  <2> DEFINE z == [i \in Slots |-> 0]
  <2>1. SumFunction(z) = 0
    <3>1. Summable(z, Slots) /\ DOMAIN z = Slots
      BY DEF Summable
    <3>2. \A i \in Slots : Bar(z, i) = {}
      BY DEF Bar
    <3>3. Cells(z, Slots) = {}
      BY <3>2 DEF Cells
    <3> HIDE DEF z
    <3>4. SumFunctionOnSet(z, Slots) = Cardinality({})
      BY <3>1, <3>3, SlotsFinite, SumIsCells
    <3> QED
      BY <3>1, <3>4, FS_EmptySet DEF SumFunction
  <2>2. [i \in Slots |-> Charge(i)] = z /\ [i \in Slots |-> Charged(i)] = z
    BY <1>3
  <2> HIDE DEF z
  <2> QED
    BY <1>4, <2>1, <2>2 DEF Own, OwnReplies, H2Init
<1>6. Cardinality(others) = 0 /\ Cardinality(others \cap {"lane"}) = 0
  <2>1. others = {} /\ others \cap {"lane"} = {}
    BY DEF H2Init
  <2> QED
    BY <2>1, FS_EmptySet
<1>7. ReplyBytesExact
  BY <1>4, <1>5, <1>6, BridgeAssumption DEF H2Init, ReplyBytesExact
<1> QED
  BY <1>1, <1>2, <1>7 DEF H2Inv

LEMMA NextH2Inv == H2Inv /\ [H2Next]_h2vars => H2Inv'
<1> SUFFICES ASSUME H2Inv, [H2Next]_h2vars PROVE H2Inv'
  OBVIOUS
<1>1. CASE Header \/ Reserved \/ ReserveTimesOut \/ Launch \/ ClientFails \/ Replay
  BY <1>1, UploadKeepsInv
<1>2. ASSUME NEW i \in Slots, Deliver(i) PROVE H2Inv'
  BY <1>2, DeliverKeepsInv
<1>3. ASSUME NEW i \in Slots, NEW d \in 0..MaxPacket \cup {Unknown}, BeginReply(i, d)
      PROVE  H2Inv'
  BY <1>3, BeginReplyKeepsInv
<1>4. ASSUME NEW i \in Slots, NEW n \in Sizes,
             ReadChunk(i, n) \/ ChunkRefused(i, n) \/ FillBody(i, n)
      PROVE  H2Inv'
  BY <1>4, ReadChunkKeepsInv, FillBodyKeepsInv, TaskFailsKeepsInv DEF ChunkRefused
<1>5. ASSUME NEW i \in Slots \cup {0},
             TaskIsDone(i) \/ \E t \in {"transport", "error"} : TaskFails(i, t)
      PROVE  H2Inv'
  BY <1>5, TaskIsDoneKeepsInv, TaskFailsKeepsInv
<1>6. ASSUME NEW d \in 0..MaxPacket, BeginRefused(d) PROVE H2Inv'
  BY <1>6, TaskFailsKeepsInv DEF BeginRefused
<1>7. ASSUME NEW x \in Neighbours, NeighbourTakes(x) \/ NeighbourWrites(x)
      PROVE  H2Inv'
  BY <1>7, NeighbourKeepsInv
<1>8. CASE LaneCloses \/ ReceiveTerminal \/ ReceivePacket \/ PacketWritten
  BY <1>8, LaneClosesKeepsInv, ReceiveTerminalKeepsInv, ReceivePacketKeepsInv,
     PacketWrittenKeepsInv
<1>9. CASE DownloadReturns \/ IdleExpires \/ BridgeIsDropped
  BY <1>9, EndKeepsInv DEF DownloadReturns, IdleExpires, BridgeIsDropped
<1>10. CASE UNCHANGED h2vars
  <2>1. /\ UNCHANGED <<queue, replyBytes, buffers, held>>
        /\ UNCHANGED <<phase, terminal, delivering, waiting, up, down, ended>>
    BY <1>10 DEF h2vars
  <2>2. H2Types' /\ H2Flow' /\ RecoveryIsInformed'
    BY <2>1 DEF H2Inv, H2Types, H2Flow, RecoveryIsInformed, Running, buffers
  <2> QED
    BY <2>1, <2>2, RestKeepsInv
<1> QED
  BY <1>1, <1>2, <1>3, <1>4, <1>5, <1>6, <1>7, <1>8, <1>9, <1>10 DEF H2Next

\* Halves, channel and books of a bridge fit together in every reachable state.
THEOREM H2Invariance == H2Spec => []H2Inv
BY InitH2Inv, NextH2Inv, PTL DEF H2Spec

\* What deliver(), charge_reply() and their guards charge is what the bridge and
\* its neighbours hold, and no limit is passed, for responses of any lengths in
\* any chunks.
THEOREM ReplyBytesAreExact == H2Spec => []ReplyBytesExact
<1>1. H2Inv => ReplyBytesExact
  BY DEF H2Inv
<1> QED
  BY <1>1, H2Invariance, PTL

\* The recovery loop's picture of the two halves, delivering and waiting_upload,
\* is what they do.
THEOREM RecoveryIsInformedAlways == H2Spec => []RecoveryIsInformed
<1>1. H2Inv => RecoveryIsInformed
  BY DEF H2Inv
<1> QED
  BY <1>1, H2Invariance, PTL

\* On a closed channel the upload half parks, fail() changes nothing, and of the
\* two halves only the download half and the idle timeout end the bridge.
TransportStep ==
  terminal = "transport" \/ (Running /\ down = "terminal") =>
    /\ ended' \in {"no", "download", "idle", "dropped"}
    /\ terminal = "transport" /\ terminal' # "transport" =>
         terminal' = "none" /\ down' = "terminal"
    /\ down' # "packet" \/ down = "packet"

LEMMA NextTransport == H2Inv /\ [H2Next]_h2vars => TransportStep
<1> SUFFICES ASSUME H2Types, H2Flow, [H2Next]_h2vars,
                    terminal = "transport" \/ (Running /\ down = "terminal")
             PROVE  /\ ended' \in {"no", "download", "idle", "dropped"}
                    /\ terminal = "transport" /\ terminal' # "transport" =>
                         terminal' = "none" /\ down' = "terminal"
                    /\ down' # "packet" \/ down = "packet"
  BY DEF H2Inv, TransportStep
<1>1. phase = "closed" /\ ended \in {"no", "download", "idle", "dropped"}
  BY DEF H2Flow, H2Types, Running
<1> DEFINE Kept ==
      /\ terminal' = terminal /\ down' \in {down, "receive"}
      /\ ended' \in {ended, "download", "idle", "dropped"}
<1>2. SUFFICES ASSUME ~Kept
               PROVE  /\ Running /\ down = "receive" /\ terminal' = "none"
                      /\ terminal = "transport"
                      /\ down' = "terminal" /\ ended' = ended
  BY <1>1
<1>3. UploadFails => Kept
  BY <1>1 DEF UploadFails, channel
<1>4. Header \/ Reserved \/ ReserveTimesOut \/ Launch \/ ClientFails \/ Replay => Kept
  BY <1>1, <1>3
  DEF Header, Reserved, ReserveTimesOut, Launch, ClientFails, Replay, channel
<1>5. \A b \in {"download", "idle", "dropped"} : End(b) => Kept
  BY <1>1 DEF End, Over, Fail
<1>6. DownloadReturns \/ IdleExpires \/ BridgeIsDropped => Kept
  BY <1>5 DEF DownloadReturns, IdleExpires, BridgeIsDropped
<1>7. ~LaneCloses /\ ~ReceivePacket /\ (PacketWritten => Kept)
  BY <1>1 DEF LaneCloses, PacketWritten, ReceivePacket, Running
<1>8. \A i, t : ~TaskFails(i, t)
  BY <1>1 DEF TaskFails
<1>9. \A i : TaskIsDone(i) => Kept
  BY DEF TaskIsDone, channel
<1>10. \A i, d : ~Deliver(i) /\ ~BeginReply(i, d) /\ ~ReadChunk(i, d)
                 /\ ~FillBody(i, d) /\ ~ChunkRefused(i, d) /\ ~BeginRefused(d)
  BY <1>1, <1>8
  DEF Deliver, BeginReply, ReadChunk, FillBody, ChunkRefused, BeginRefused, Reads
<1>11. \A x : NeighbourTakes(x) \/ NeighbourWrites(x) => Kept
  BY DEF NeighbourTakes, NeighbourWrites, channel
<1>12. UNCHANGED h2vars => Kept
  BY DEF h2vars
<1>13. ReceiveTerminal
  BY <1>2, <1>4, <1>6, <1>7, <1>8, <1>9, <1>10, <1>11, <1>12 DEF H2Next
<1>14. Running /\ down = "receive" /\ terminal = "transport"
  BY <1>13 DEF ReceiveTerminal
<1> QED
  BY <1>13, <1>14 DEF ReceiveTerminal

\* A transport error that waits for the client, or is on its way to it, is not
\* cut off by uploads that fail, by replies or by later errors.
THEOREM TransportErrorReachesClientAlways == H2Spec => TransportErrorReachesClient
<1>1. H2Inv /\ [H2Next]_h2vars => [TransportStep]_h2vars
  BY NextTransport
<1>2. H2Spec => [][TransportStep]_h2vars
  BY <1>1, H2Invariance, PTL DEF H2Spec
<1> QED
  BY <1>2 DEF TransportErrorReachesClient, TransportStep

=============================================================================

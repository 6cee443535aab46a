------------------------- MODULE MCRequestCapacity -------------------------
(* Instances of RequestCapacity for model checking.                         *)
EXTENDS RequestCapacity

CONSTANTS p1, p2, p3, c1, c2, lane, process

ThreePackets == {p1, p2, p3}
AllBudgets == {c1, c2, lane, process}

\* Two packets of one channel and one of another, on the same lane.
TwoChannels ==
  [p \in ThreePackets |-> <<IF p = p3 THEN c2 ELSE c1, lane, process>>]

Sizes == [p \in ThreePackets |-> IF p = p2 THEN 1 ELSE 2]

\* The first channel runs out of requests, the lane and the process of bytes:
\* p1 and p2 meet in the channel, p1 and p3 in the lane, p2 and p3 fit there
\* and meet in the process.
Requests == [b \in AllBudgets |-> IF b = c1 THEN 1 ELSE 3]
Bytes == [b \in AllBudgets |-> IF b = lane THEN 3 ELSE 2]

=============================================================================

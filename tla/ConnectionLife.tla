--------------------------- MODULE ConnectionLife ---------------------------
(***************************************************************************)
(* What the requests of a lane may rely on, whoever else uses the lane: one *)
(* connection at a time; once it takes no more streams it never takes one  *)
(* again; it is aborted only without streams, or after the origin's        *)
(* GOAWAY, or because the lane closes; and a closed lane connects no more. *)
(*                                                                         *)
(* LaneConnection implements this with locks, clones of the sender, counts *)
(* and marks.                                                              *)
(***************************************************************************)
EXTENDS Naturals

CONSTANTS Requests

VARIABLES
  current,    \* number of the newest connection, 0 before the first
  life,       \* of that connection
  accepting,  \* connections that take new streams: none, or the newest
  stream,     \* connection that carries each request's stream, or 0
  closed      \* "no", "yes"

vars == <<current, life, accepting, stream, closed>>

Init ==
  /\ current = 0 /\ life = "none" /\ accepting = {}
  /\ stream = [r \in Requests |-> 0] /\ closed = "no"

\* Nobody but r uses the newest connection.
OnlyFor(r) == \A q \in Requests \ {r} : stream[q] # current

Connect ==
  /\ closed = "no" /\ life \in {"none", "aborting", "ended"}
  /\ current' = current + 1 /\ life' = "live" /\ accepting' = {current'}
  /\ UNCHANGED <<stream, closed>>

Admit(r) ==
  /\ current \in accepting /\ stream[r] = 0
  /\ stream' = [stream EXCEPT ![r] = current]
  /\ UNCHANGED <<current, life, accepting, closed>>

\* A stream ends.  If it timed out, or another one of its connection had, that
\* connection takes no more streams, and is aborted if this was its last one.
End(r) ==
  /\ stream[r] # 0
  /\ stream' = [stream EXCEPT ![r] = 0]
  /\ \/ UNCHANGED <<life, accepting>>
     \/ /\ stream[r] = current /\ accepting' = {}
        /\ \/ UNCHANGED life
           \/ /\ OnlyFor(r) /\ life \in {"live", "draining"}
              /\ life' = "aborting"
  /\ UNCHANGED <<current, closed>>

GoAway ==
  /\ life = "live" /\ life' = "draining"
  /\ UNCHANGED <<current, accepting, stream, closed>>

\* A connection that is draining is given up for another.
GiveUp ==
  /\ life = "draining" /\ life' = "aborting"
  /\ accepting' = {}
  /\ UNCHANGED <<current, stream, closed>>

Ends ==
  /\ life \in {"live", "draining", "aborting"} /\ life' = "ended"
  /\ accepting' = {}
  /\ UNCHANGED <<current, stream, closed>>

Close ==
  /\ closed = "no" /\ closed' = "yes"
  /\ accepting' = {}
  /\ life' = IF life \in {"live", "draining"} THEN "aborting" ELSE life
  /\ UNCHANGED <<current, stream>>

Next ==
  \/ Connect \/ GoAway \/ GiveUp \/ Ends \/ Close
  \/ \E r \in Requests : Admit(r) \/ End(r)

Spec == Init /\ [][Next]_vars

=============================================================================

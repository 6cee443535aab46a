------------------------------ MODULE H2Replay ------------------------------
(***************************************************************************)
(* Requests and their replay history on one native channel (src/cf_h2.rs,  *)
(* ChannelInner): each packet of the client is posted as an own HTTP/2     *)
(* request; the packets sent last are remembered, and one whose answer     *)
(* stays out is posted again by the channel's recovery loop, so several    *)
(* tasks (originals and replays) may stand for one packet.                 *)
(*                                                                         *)
(* Clocks: a packet is too old (REPLAY_MAX_AGE) from some moment on, and   *)
(* older packets are so before newer ones, which `aged' records.  The      *)
(* other periods (REPLAY_REQUEST, REPLAY_IDLE, REPLAY_RETRY, REPLAY_SLOT)  *)
(* may have elapsed or not whenever they are read.  Packets have one size, *)
(* so HistoryPackets stands for both bounds of the history.                *)
(*                                                                         *)
(* The history is a deque whose sequences grow, from which entries are     *)
(* taken anywhere: here it is a function from sequences to entries, and    *)
(* its front and back are the least and the greatest sequence.             *)
(***************************************************************************)
EXTENDS Integers, FiniteSets, FiniteSetsExt, Functions

CONSTANTS
  Bodies,           \* packets of the client
  KeyOf,            \* auth_key_id of each packet, NoKey for one never replayed
  NoKey,
  Replies,          \* identities of reply packets
  NoReply,
  ChannelRequests,  \* MAX_CHANNEL_REQUESTS
  HistoryPackets,   \* REPLAY_HISTORY_PACKETS
  MaxAttempts,      \* REPLAY_MAX_ATTEMPTS
  MaxReplays,       \* MAX_CHANNEL_REPLAYS
  MaxRequest        \* bound: requests launched by the channel

ASSUME ReplayAssumption ==
  /\ NoReply \notin Replies
  /\ {ChannelRequests, HistoryPackets, MaxAttempts, MaxReplays} \subseteq Nat \ {0}
  /\ MaxRequest \in Nat

VARIABLES
  next,       \* ChannelState.next_request
  phase,      \* "open", or "closed" once the channel failed or was closed
  replayKey,  \* ChannelState.replay_key
  history,    \* ChannelState.history, a function on the sequences in it
  pending,    \* ChannelState.pending, a function on the pending requests
  aged        \* packets up to this sequence are older than REPLAY_MAX_AGE

vars == <<next, phase, replayKey, history, pending, aged>>

Ids == 1..MaxRequest
Keys == {KeyOf[b] : b \in Bodies} \cup {NoKey}

Entry ==
  [body : Bodies, attempts : 0..MaxAttempts, pending : 0..MaxRequest,
   originals : SUBSET Ids, retired : BOOLEAN, reply : Replies \cup {NoReply}]

\* stage: what the task has reported, or that it was told to stop.
Request ==
  [kind : {"original", "replay"}, entry : 0..MaxRequest,
   stage : {"new", "sent", "receiving", "aborted"}]

Requests == DOMAIN pending
Replays == {r \in Requests : pending[r].kind = "replay"}

Nothing == [s \in {} |-> 0]

\* A queue or map f with v inserted at k.
With(f, k, v) == [x \in DOMAIN f \cup {k} |-> IF x = k THEN v ELSE f[x]]

Init ==
  /\ next = 0 /\ phase = "open"
  /\ replayKey = NoKey /\ history = Nothing
  /\ pending = Nothing
  /\ aged = 0

-----------------------------------------------------------------------------
(* The history.                                                             *)

\* Faulty: an entry is dispensable as soon as no original of it is pending.
ProtectedByOriginals(h, s) == h[s].originals # {}

\* A packet still waiting for an answer, or retired and not yet replayed out.
Protected(h, s) ==
  \/ h[s].originals # {}
  \/ h[s].retired /\ h[s].attempts < MaxAttempts /\ s > aged

\* Faulty: the newest entry goes when all are protected.
DispensableNewest(h) ==
  LET free == {s \in DOMAIN h : ~Protected(h, s)}
  IN IF free = {} THEN Max(DOMAIN h) ELSE Min(free)

\* The entry a full history gives up: the oldest one that nothing protects, or
\* the oldest of all.
Dispensable(h) ==
  LET free == {s \in DOMAIN h : ~Protected(h, s)}
  IN IF free = {} THEN Min(DOMAIN h) ELSE Min(free)

Trimmed(h) ==
  IF Cardinality(DOMAIN h) > HistoryPackets
  THEN Restrict(h, DOMAIN h \ {Dispensable(h)}) ELSE h

NewEntry(b, r) ==
  [body |-> b, attempts |-> 0, pending |-> 0, originals |-> {r},
   retired |-> FALSE, reply |-> NoReply]

\* remember(): a packet is entered once, unless it is not eligible or the
\* process-wide history budget is spent.  Packets of another key are forgotten.
Remember(b, r, granted) ==
  LET h == IF replayKey # KeyOf[b] THEN Nothing ELSE history
      same == {s \in DOMAIN h : h[s].body = b}
  IN CASE KeyOf[b] = NoKey ->
            [entry |-> 0, history |-> history, key |-> replayKey]
       [] KeyOf[b] # NoKey /\ same # {} ->
            [entry |-> Min(same), key |-> KeyOf[b],
             history |-> [h EXCEPT ![Min(same)].originals = @ \cup {r}]]
       [] KeyOf[b] # NoKey /\ same = {} /\ granted ->
            [entry |-> r, key |-> KeyOf[b],
             history |-> Trimmed(With(h, r, NewEntry(b, r)))]
       [] OTHER -> [entry |-> 0, key |-> KeyOf[b], history |-> h]

\* Faulty: the entry stays occupied by a replay that has ended.
UnlinkedOriginal(r, h) ==
  [s \in DOMAIN h |->
     IF s # pending[r].entry THEN h[s]
     ELSE [h[s] EXCEPT !.originals = @ \ {r}]]

\* finish_request(): the guard of a task is dropped, however the task ended.
Unlinked(r, h) ==
  [s \in DOMAIN h |->
     IF s # pending[r].entry THEN h[s]
     ELSE IF pending[r].kind = "replay" /\ h[s].pending = r
     THEN [h[s] EXCEPT !.pending = 0]
     ELSE [h[s] EXCEPT !.originals = @ \ {r}]]

\* deliver(): another reply than before renews the attempts of the packet.
Noted(r, reply) ==
  [s \in DOMAIN history |->
     IF s = pending[r].entry /\ history[s].reply # reply
     THEN [history[s] EXCEPT !.reply = reply, !.attempts = 0]
     ELSE history[s]]

\* retire_and_abort(): the packets of originals may be replayed from now on.
Retired(rs, h) ==
  [s \in DOMAIN h |->
     IF \E r \in rs : pending[r].entry = s /\ pending[r].kind = "original"
     THEN [h[s] EXCEPT !.retired = TRUE]
     ELSE h[s]]

Without(r) == Restrict(pending, Requests \ {r})

Aborted(rs, p) ==
  [q \in DOMAIN p |-> IF q \in rs THEN [p[q] EXCEPT !.stage = "aborted"] ELSE p[q]]

NewRequest(kind, entry) == [kind |-> kind, entry |-> entry, stage |-> "new"]

-----------------------------------------------------------------------------
(* The client's packets and the tasks that post them.                       *)

\* send_reserved(): launch a task for a packet and remember the packet.
Upload(b, granted) ==
  /\ phase = "open" /\ next < MaxRequest
  /\ Cardinality(Requests) < ChannelRequests
  /\ LET r == next + 1
         m == Remember(b, r, granted)
     IN /\ next' = r
        /\ history' = m.history /\ replayKey' = m.key
        /\ pending' = With(pending, r, NewRequest("original", m.entry))
  /\ UNCHANGED <<phase, aged>>

\* mark_sent(), then mark_receiving(), as the task gets on.
Progress(r) ==
  /\ r \in Requests /\ pending[r].stage \in {"new", "sent"}
  /\ pending' = [pending EXCEPT ![r].stage =
                   IF @ = "new" THEN "sent" ELSE "receiving"]
  /\ UNCHANGED <<next, phase, replayKey, history, aged>>

\* A reply is delivered, and the task ends.
Deliver(r, reply) ==
  /\ r \in Requests /\ pending[r].stage = "receiving"
  /\ history' = Unlinked(r, Noted(r, reply))
  /\ pending' = Without(r)
  /\ UNCHANGED <<next, phase, replayKey, aged>>

\* The answer is empty, or an aborted task is dropped.
Finish(r) ==
  /\ r \in Requests /\ pending[r].stage \in {"receiving", "aborted"}
  /\ history' = Unlinked(r, history)
  /\ pending' = Without(r)
  /\ UNCHANGED <<next, phase, replayKey, aged>>

\* fail() with requests p left: the history goes and every task is aborted.
Fail(p) ==
  /\ phase' = "closed"
  /\ history' = Nothing
  /\ pending' = Aborted(DOMAIN p, p)

\* A task ends with an error or by REQUEST_TIMEOUT, and fails the channel.
RequestFails(r) ==
  /\ r \in Requests /\ pending[r].stage # "aborted"
  /\ Fail(Without(r))
  /\ UNCHANGED <<next, replayKey, aged>>

\* The bridge or the lane closes the channel, or its replies find no room.
Close ==
  /\ phase = "open"
  /\ Fail(pending)
  /\ UNCHANGED <<next, replayKey, aged>>

-----------------------------------------------------------------------------
(* recover(): one turn of the recovery loop.                                *)

\* What is left of the history when what is too old is removed.
Kept ==
  Restrict(history, {s \in DOMAIN history :
    history[s].originals # {} \/ history[s].pending # 0 \/ s > aged})

\* make_room(): a request without answer, if its packet can be sent again.
Retirable(h) ==
  {r \in Requests :
     /\ pending[r].stage \in {"sent", "aborted"}
     /\ pending[r].kind = "replay" \/ pending[r].entry \in DOMAIN h}

\* rotate_stale_replay(): a replay that has held its slot for long.
Stale == {r \in Replays : pending[r].stage \in {"sent", "aborted"}}

\* Faulty: an answer that has begun to arrive does not count.
EligibleWhileReceiving(h, s) ==
  /\ s > aged /\ h[s].pending = 0 /\ h[s].attempts < MaxAttempts
  /\ \/ h[s].originals # {} \/ h[s].retired
     \/ s = Max(DOMAIN h) /\ Requests \subseteq Replays

\* Faulty: a replay in flight for the packet does not count.
EligibleTwice(h, s) ==
  /\ s > aged /\ h[s].attempts < MaxAttempts
  /\ ~\E r \in h[s].originals \cap Requests : pending[r].stage = "receiving"
  /\ \/ h[s].retired
     \/ \E r \in h[s].originals \cap Requests : pending[r].stage \in {"sent", "aborted"}
     \/ s = Max(DOMAIN h) /\ Requests \subseteq Replays

\* replay_candidate(): the packet was retired, or an original of it is overdue,
\* or it is the newest one and the channel idle.  The clocks decide which of
\* several such packets comes first.
Eligible(h, s) ==
  /\ s > aged /\ h[s].pending = 0 /\ h[s].attempts < MaxAttempts
  /\ ~\E r \in h[s].originals \cap Requests : pending[r].stage = "receiving"
  /\ \/ h[s].retired
     \/ \E r \in h[s].originals \cap Requests : pending[r].stage \in {"sent", "aborted"}
     \/ s = Max(DOMAIN h) /\ Requests \subseteq Replays

\* try_replay(): launch a task for the packet s of h, beside the requests p.
Replay(h, p, s) ==
  /\ next < MaxRequest
  /\ Cardinality(Requests) < ChannelRequests /\ Cardinality(Replays) < MaxReplays
  /\ LET r == next + 1
     IN /\ next' = r
        /\ history' = [h EXCEPT ![s].attempts = @ + 1, ![s].pending = r]
        /\ pending' = With(p, r, NewRequest("replay", s))

\* Which requests give way, and whether a packet is replayed, depends on clocks,
\* on a waiting upload and on the budgets of the lane and the process.
Recover ==
  /\ phase = "open"
  /\ replayKey' = IF DOMAIN Kept = {} THEN NoKey ELSE replayKey
  /\ \E room \in {{}} \cup {{r} : r \in Retirable(Kept)},
        stale \in {{}} \cup {{r} : r \in Stale} :
       LET h == Retired(room, Kept)
           p == Aborted(room \cup stale, pending)
       IN \/ next' = next /\ history' = h /\ pending' = p
          \/ \E s \in DOMAIN h : Eligible(h, s) /\ Replay(h, p, s)
  /\ UNCHANGED <<phase, aged>>

\* Time passes: the next packet becomes older than REPLAY_MAX_AGE.
Age ==
  /\ aged < next
  /\ aged' = aged + 1
  /\ UNCHANGED <<next, phase, replayKey, history, pending>>

-----------------------------------------------------------------------------
Next ==
  \/ \E b \in Bodies, granted \in BOOLEAN : Upload(b, granted)
  \/ \E r \in Ids : \/ Progress(r) \/ Finish(r) \/ RequestFails(r)
                    \/ \E reply \in Replies : Deliver(r, reply)
  \/ Close \/ Recover \/ Age

Spec == Init /\ [][Next]_vars

-----------------------------------------------------------------------------
(* Properties.                                                              *)

\* The history is of one key and holds a packet once.
HistoryIsOfOneKey ==
  \A s, q \in DOMAIN history :
    /\ history[s].body = history[q].body => s = q
    /\ KeyOf[history[s].body] = replayKey

\* The history and the pending requests agree on who stands for which packet,
\* however tasks end and entries come and go: an entry is occupied exactly while
\* a replay of it is in flight, and its originals are the originals in flight.
\* A closed channel remembers nothing and lets every request go: launch() and
\* fail() cannot miss each other.
EntriesMatchRequests ==
  /\ HistoryIsOfOneKey /\ Cardinality(DOMAIN history) <= HistoryPackets
  /\ \A s \in DOMAIN history :
       LET e == history[s] IN
       /\ e.pending # 0 => e.pending \in Replays /\ pending[e.pending].entry = s
       /\ e.originals = {r \in Requests \ Replays : pending[r].entry = s}
  /\ phase = "closed" =>
       DOMAIN history = {} /\ \A r \in Requests : pending[r].stage = "aborted"

\* No packet has two replays in flight, and a channel has a few at most.
OneReplayPerPacket ==
  /\ \A r, q \in Replays : pending[r].entry = pending[q].entry => r = q
  /\ Cardinality(Replays) <= MaxReplays

\* The packet just sent is in the history that its request refers to, even when
\* the history was full of packets that must be kept.
NewestIsKept ==
  [][next' # next /\ pending'[next'].kind = "original" /\ pending'[next'].entry # 0
       => /\ pending'[next'].entry \in DOMAIN history'
          /\ next' \in history'[pending'[next'].entry].originals]_vars

\* A packet that was retired to make room is not pushed out of the history by
\* another one while an answered packet is kept in its place.
RetiredOutlivesAnswered ==
  [][\A s \in DOMAIN history \ DOMAIN history' :
       /\ history[s].retired /\ history[s].attempts < MaxAttempts /\ s > aged
       /\ phase' = "open" /\ replayKey' = replayKey
       => \A q \in DOMAIN history' :
            history'[q].originals # {} \/ history'[q].retired]_vars

\* A packet whose answer has begun to arrive is not posted again.
AnswerIsAwaited ==
  [][next' # next /\ pending'[next'].kind = "replay" =>
       ~\E r \in Requests : /\ pending[r].kind = "original"
                            /\ pending[r].entry = pending'[next'].entry
                            /\ pending[r].stage = "receiving"]_vars

=============================================================================

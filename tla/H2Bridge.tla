------------------------------ MODULE H2Bridge ------------------------------
(***************************************************************************)
(* The bridge of one native client over its H2 channel (src/cf_h2.rs,      *)
(* bridge_h2): an upload half reads packets and launches a request task    *)
(* for each, the tasks queue their replies, a download half writes them to *)
(* the client.  Whatever fails the channel leaves one terminal value, and  *)
(* a transport error in it is a reply the client has to get.               *)
(*                                                                         *)
(* The two halves are branches of one select!, polled by one task: a step  *)
(* is what one of them does between two awaits, and the first to return    *)
(* ends the bridge.  Request tasks are counted; H2Replay tells them apart. *)
(*                                                                         *)
(* A task whose answer has begun reads it into a reader.  What is buffered *)
(* is charged to the lane and to the process, where other bridges compete, *)
(* from the reader until the client has it, and to the channel from the    *)
(* queue on.  Lengths are in units of 4 bytes, the alignment of a packet.  *)
(***************************************************************************)
EXTENDS Integers, SequencesExt

CONSTANTS
  Sizes,            \* lengths of the chunks of a response
  MaxPacket,        \* longest packet
  ChannelRequests,  \* MAX_CHANNEL_REQUESTS
  QueueLimit,       \* capacity of the replies queue
  ByteLimit,        \* MAX_CHANNEL_REPLY_BYTES
  LaneLimit,        \* MAX_LANE_REPLY_BYTES
  ProcessLimit,     \* MAX_GLOBAL_REPLY_BYTES
  ReplyLimit        \* MAX_GLOBAL_REPLIES

ASSUME BridgeAssumption ==
  /\ Sizes \subseteq Nat \ {0}
  /\ {MaxPacket, ChannelRequests, QueueLimit, ByteLimit, LaneLimit, ProcessLimit,
      ReplyLimit} \subseteq Nat \ {0}

Lengths == 1..MaxPacket
Unknown == -1
Slots == 1..ChannelRequests
NoReader == [declared |-> Unknown, got |-> Unknown]

\* The lane's other bridges, and those of other lanes.
Neighbours == {"lane", "elsewhere"}

VARIABLES
  phase,      \* "open", or "closed" by fail()
  terminal,   \* ChannelState.terminal
  queue,      \* replies not yet received
  replyBytes, \* ChannelState.reply_bytes
  delivering, \* ChannelState.delivering
  waiting,    \* ChannelState.waiting_upload is set
  tasks,      \* request tasks whose guards exist
  reader,     \* those that read their answer
  laneBytes,  \* Lane.reply_bytes
  processBytes, \* the process budget of replies: its bytes ...
  replies,    \* ... and its replies
  others,     \* neighbours that hold a reply of one unit
  up,         \* where the upload half is suspended
  down,       \* where the download half is suspended
  held,       \* length of the reply being written, 0 for none
  ended       \* which branch ended the bridge

channel == <<phase, terminal, queue, replyBytes>>
buffers == <<reader, laneBytes, processBytes, replies, others>>
h2vars == <<phase, terminal, queue, replyBytes, delivering, waiting, tasks, buffers,
            up, down, held, ended>>

Running == ended = "no"

\* Permits of the channel's request budget: those of the tasks, and that of the
\* packet whose body is being read.
Permits == tasks + IF up = "body" THEN 1 ELSE 0

Reading == {i \in Slots : reader[i] # NoReader}

\* Length charged for what a reader holds, and whether there is a charge at all.
Charge(i) ==
  IF reader[i].declared # Unknown THEN reader[i].declared
  ELSE IF reader[i].got > 0 THEN reader[i].got ELSE 0
Charged(i) ==
  IF i \in Reading /\ (reader[i].declared # Unknown \/ reader[i].got > 0) THEN 1 ELSE 0

H2Init ==
  /\ phase = "open" /\ terminal = "none"
  /\ queue = <<>> /\ replyBytes = 0
  /\ delivering = FALSE /\ waiting = FALSE
  /\ reader = [i \in Slots |-> NoReader] /\ others = {}
  /\ laneBytes = 0 /\ processBytes = 0 /\ replies = 0
  /\ tasks = 0 /\ up = "header" /\ down = "receive" /\ held = 0 /\ ended = "no"

-----------------------------------------------------------------------------
(* The end of the channel and of the bridge.                                *)

\* Faulty: no terminal value is left for the download half.
FailWithoutTerminal(t) ==
  IF phase = "open"
  THEN phase' = "closed" /\ waiting' = FALSE /\ UNCHANGED terminal
  ELSE UNCHANGED <<phase, terminal, waiting>>

\* fail(t): the first failure leaves its terminal value, later ones nothing.
Fail(t) ==
  IF phase = "open"
  THEN phase' = "closed" /\ terminal' = t /\ waiting' = FALSE
  ELSE UNCHANGED <<phase, terminal, waiting>>

\* The charge of a reply grows or shrinks by n, and that of the process by k replies.
Account(n, k) ==
  /\ laneBytes' = laneBytes + n /\ processBytes' = processBytes + n
  /\ replies' = replies + k

Length(q) == SumFunction(q)

\* The select! is over: both halves are dropped, with the reply being written,
\* and the channel with its queue.
Over(branch) ==
  /\ ended' = branch
  /\ Account(-(Length(queue) + held), -(Len(queue) + IF held = 0 THEN 0 ELSE 1))
  /\ queue' = <<>> /\ replyBytes' = 0
  /\ held' = 0 /\ delivering' = FALSE
  /\ UNCHANGED <<tasks, reader, others, up, down>>

End(branch) == Over(branch) /\ Fail("error")

\* Faulty: a failed upload ends the bridge whatever the channel's state.
UploadFailsAnyway == End("upload")

\* The upload half fails.  On a closed channel it leaves the end of the bridge
\* to the download half, which may still be writing the terminal value.
UploadFails ==
  IF phase = "closed"
  THEN /\ up' = "parked" /\ waiting' = FALSE
       /\ UNCHANGED <<channel, delivering, tasks, buffers, down, held, ended>>
  ELSE End("upload")

-----------------------------------------------------------------------------
(* upload(): header, capacity, body, launch.                                *)

\* A header was read: ask for capacity, and tell the recovery loop about it.
Header ==
  /\ Running /\ up = "header"
  /\ IF phase = "closed"
     THEN UploadFails
     ELSE /\ up' = "reserving" /\ waiting' = TRUE
          /\ UNCHANGED <<channel, delivering, tasks, buffers, down, held, ended>>

\* The capacity of the channel, and that of the lane and the process.
Reserved ==
  /\ Running /\ up = "reserving" /\ Permits < ChannelRequests
  /\ up' = "body" /\ waiting' = FALSE
  /\ UNCHANGED <<channel, delivering, tasks, buffers, down, held, ended>>

\* The capacity was not free within REQUEST_TIMEOUT.
ReserveTimesOut == Running /\ up = "reserving" /\ UploadFails

\* The client's packet is complete: launch() its task.
Launch ==
  /\ Running /\ up = "body"
  /\ IF phase = "closed"
     THEN UploadFails
     ELSE /\ up' = "header" /\ tasks' = tasks + 1
          /\ UNCHANGED <<channel, delivering, waiting, buffers, down, held, ended>>

\* The client closed the stream or sent something that is no packet.
ClientFails == Running /\ up \in {"header", "body"} /\ UploadFails

\* The recovery loop posts a packet again, but not while replies are on their way
\* to the client, and never instead of an upload that has its permit.
Replay ==
  /\ Running /\ phase = "open" /\ Permits < ChannelRequests
  /\ replyBytes = 0 /\ ~delivering
  /\ tasks' = tasks + 1
  /\ UNCHANGED <<channel, delivering, waiting, buffers, up, down, held, ended>>

-----------------------------------------------------------------------------
(* The request tasks, and the response each of them reads.                  *)

\* A task is over, and what its reader still holds, if it had one, is dropped.
Forget(i) ==
  /\ tasks' = tasks - 1
  /\ IF i = 0
     THEN UNCHANGED buffers
     ELSE /\ reader' = [reader EXCEPT ![i] = NoReader]
          /\ Account(-Charge(i), -Charged(i))
          /\ UNCHANGED others

\* Tasks by their reader, 0 standing for one that has none.
Readers == Reading \cup IF tasks > Cardinality(Reading) THEN {0} ELSE {}

\* A transport error, another error or a timeout of the request.
TaskFails(i, t) ==
  /\ phase = "open" /\ i \in Readers
  /\ Fail(t) /\ Forget(i)
  /\ UNCHANGED <<queue, replyBytes, delivering, up, down, held, ended>>

\* An empty reply, or an aborted task is dropped.
TaskIsDone(i) ==
  /\ i \in Readers
  /\ Forget(i)
  /\ UNCHANGED <<channel, waiting, delivering, up, down, held, ended>>

\* charge_reply(n), or the extension of a charge: both budgets have to take it.
CanCharge(n, k) ==
  /\ laneBytes + n <= LaneLimit /\ processBytes + n <= ProcessLimit
  /\ replies + k <= ReplyLimit

Reads ==
  /\ phase = "open"
  /\ UNCHANGED <<channel, waiting, tasks, others, delivering, up, down, held, ended>>

\* The response headers.  A declared body is charged before it is read.
BeginReply(i, declared) ==
  /\ Reads /\ i \notin Reading /\ 0 \in Readers
  /\ reader' = [reader EXCEPT ![i] = [declared |-> declared, got |-> 0]]
  /\ \/ declared = Unknown /\ UNCHANGED <<laneBytes, processBytes, replies>>
     \/ declared # Unknown /\ CanCharge(declared, 1) /\ Account(declared, 1)

\* No room for a declared body.
BeginRefused(declared) ==
  /\ 0 \in Readers /\ declared # Unknown /\ ~CanCharge(declared, 1)
  /\ TaskFails(0, "error")

\* Faulty: the lane's bytes grow with each chunk, but not what is given back.
ReadChunkUncharged(i, n) ==
  LET k == 1 - Charged(i) IN
  /\ Reads /\ i \in Reading
  /\ reader[i].declared = Unknown /\ reader[i].got + n <= MaxPacket
  /\ CanCharge(n, k)
  /\ laneBytes' = laneBytes + n + IF k = 1 THEN 0 ELSE n
  /\ processBytes' = processBytes + n /\ replies' = replies + k
  /\ reader' = [reader EXCEPT ![i].got = @ + n]

\* A chunk of a response of unknown length extends its charge, which takes one
\* of the process's replies only once.
ReadChunk(i, n) ==
  LET k == 1 - Charged(i) IN
  /\ Reads /\ i \in Reading
  /\ reader[i].declared = Unknown /\ reader[i].got + n <= MaxPacket
  /\ CanCharge(n, k) /\ Account(n, k)
  /\ reader' = [reader EXCEPT ![i].got = @ + n]

\* The lane or the process refuses the chunk.
ChunkRefused(i, n) ==
  /\ i \in Reading /\ reader[i].declared = Unknown
  /\ ~CanCharge(n, 1 - Charged(i))
  /\ TaskFails(i, "error")

\* A chunk of a declared body is charged already.
FillBody(i, n) ==
  /\ Reads /\ i \in Reading
  /\ reader[i].got + n <= reader[i].declared
  /\ reader' = [reader EXCEPT ![i].got = @ + n]
  /\ UNCHANGED <<laneBytes, processBytes, replies>>

\* The response is complete: all of a declared body, and not empty.
Complete(i) ==
  /\ i \in Reading /\ reader[i].got \in Lengths
  /\ reader[i].declared \in {Unknown, reader[i].got}

\* deliver(): the reply goes to the queue with its charges.  A reply too many, in
\* bytes or in number, fails the channel, and is dropped.
Deliver(i) ==
  LET n == reader[i].got IN
  /\ phase = "open" /\ Complete(i)
  /\ IF replyBytes + n > ByteLimit \/ Len(queue) = QueueLimit
     THEN /\ Fail("error") /\ Forget(i)
          /\ UNCHANGED <<queue, replyBytes>>
     ELSE /\ replyBytes' = replyBytes + n /\ queue' = Append(queue, n)
          /\ tasks' = tasks - 1 /\ reader' = [reader EXCEPT ![i] = NoReader]
          /\ UNCHANGED <<phase, terminal, waiting, laneBytes, processBytes, replies,
                         others>>
  /\ UNCHANGED <<delivering, up, down, held, ended>>

\* Another bridge, of this lane or of another, takes a reply and writes it.
NeighbourTakes(x) ==
  /\ x \notin others /\ others' = others \cup {x}
  /\ processBytes < ProcessLimit /\ replies < ReplyLimit
  /\ x = "lane" => laneBytes < LaneLimit
  /\ laneBytes' = laneBytes + (IF x = "lane" THEN 1 ELSE 0)
  /\ processBytes' = processBytes + 1 /\ replies' = replies + 1
  /\ UNCHANGED <<channel, delivering, waiting, tasks, reader, up, down, held, ended>>

NeighbourWrites(x) ==
  /\ x \in others /\ others' = others \ {x}
  /\ laneBytes' = laneBytes - (IF x = "lane" THEN 1 ELSE 0)
  /\ processBytes' = processBytes - 1 /\ replies' = replies - 1
  /\ UNCHANGED <<channel, delivering, waiting, tasks, reader, up, down, held, ended>>

\* The lane closes: abort() fails its channels.
LaneCloses ==
  /\ phase = "open"
  /\ Fail("error")
  /\ UNCHANGED <<queue, replyBytes, delivering, tasks, buffers, up, down, held, ended>>

-----------------------------------------------------------------------------
(* download(): receive, write.                                              *)

\* receive() takes the terminal value first: an error ends the bridge, a
\* transport error is written to the client.
ReceiveTerminal ==
  /\ Running /\ down = "receive" /\ terminal # "none"
  /\ terminal' = "none"
  /\ IF terminal = "transport"
     THEN /\ down' = "terminal" /\ delivering' = TRUE
          /\ UNCHANGED <<phase, queue, replyBytes, waiting, tasks, buffers, up, held,
                         ended>>
     ELSE Over("download") /\ UNCHANGED <<phase, waiting>>

\* receive() takes the next reply, which stays charged while it is written.
ReceivePacket ==
  /\ Running /\ down = "receive" /\ terminal = "none" /\ queue # <<>>
  /\ down' = "packet" /\ held' = Head(queue) /\ queue' = Tail(queue)
  /\ delivering' = TRUE
  /\ UNCHANGED <<phase, terminal, replyBytes, waiting, tasks, buffers, up, ended>>

\* Faulty: the write is over, but the channel still counts as delivering.
PacketWrittenSilently ==
  /\ Running /\ down = "packet"
  /\ down' = "receive" /\ held' = 0
  /\ replyBytes' = replyBytes - held /\ Account(-held, -1)
  /\ UNCHANGED <<phase, terminal, queue, delivering, waiting, tasks, reader, others, up,
                 ended>>

PacketWritten ==
  /\ Running /\ down = "packet"
  /\ down' = "receive" /\ held' = 0 /\ delivering' = FALSE
  /\ replyBytes' = replyBytes - held /\ Account(-held, -1)
  /\ UNCHANGED <<phase, terminal, queue, waiting, tasks, reader, others, up, ended>>

\* The transport error is written, or a write fails.
DownloadReturns == Running /\ down \in {"packet", "terminal"} /\ End("download")

\* No byte passed for the idle timeout.
IdleExpires == Running /\ End("idle")

\* The listener shuts down and drops the client's task, and the channel with it.
BridgeIsDropped == Running /\ End("dropped")

-----------------------------------------------------------------------------
H2Next ==
  \/ Header \/ Reserved \/ ReserveTimesOut \/ Launch \/ ClientFails \/ Replay
  \/ \E i \in Slots :
       \/ Deliver(i)
       \/ \E d \in 0..MaxPacket \cup {Unknown} : BeginReply(i, d)
       \/ \E n \in Sizes : ReadChunk(i, n) \/ ChunkRefused(i, n) \/ FillBody(i, n)
  \/ \E i \in Slots \cup {0} :
       TaskIsDone(i) \/ \E t \in {"transport", "error"} : TaskFails(i, t)
  \/ \E d \in 0..MaxPacket : BeginRefused(d)
  \/ \E x \in Neighbours : NeighbourTakes(x) \/ NeighbourWrites(x)
  \/ LaneCloses
  \/ ReceiveTerminal \/ ReceivePacket \/ PacketWritten \/ DownloadReturns
  \/ IdleExpires \/ BridgeIsDropped

H2Spec == H2Init /\ [][H2Next]_h2vars

(* The download half runs when something is there to receive; a write ends   *)
(* or makes no progress until the idle timeout.  Nothing is assumed of the   *)
(* client's packets, of the request tasks or of whoever fails the channel.   *)
H2Fairness ==
  /\ WF_h2vars(ReceiveTerminal \/ ReceivePacket)
  /\ WF_h2vars(down # "receive" /\ (PacketWritten \/ DownloadReturns \/ IdleExpires))

H2FairSpec == H2Spec /\ H2Fairness

-----------------------------------------------------------------------------
(* Properties.                                                              *)

\* What this bridge has charged: what is being read, queued or written.
Own == SumFunction([i \in Slots |-> Charge(i)]) + Length(queue) + held
OwnReplies ==
  SumFunction([i \in Slots |-> Charged(i)]) + Len(queue)
    + IF held = 0 THEN 0 ELSE 1

\* Every byte charged to the channel is in its queue or being written, so the
\* recovery loop is right to read reply_bytes as "replies are on their way to the
\* client"; and the lane and the process are charged for what their bridges
\* hold, no more and no less, whether a reply is refused half-way, cut off,
\* dropped with its channel or written.
ReplyBytesExact ==
  /\ replyBytes = Length(queue) + held
  /\ laneBytes = Own + Cardinality(others \cap {"lane"}) /\ laneBytes <= LaneLimit
  /\ processBytes = Own + Cardinality(others) /\ processBytes <= ProcessLimit
  /\ replies = OwnReplies + Cardinality(others) /\ replies <= ReplyLimit

\* What the recovery loop reads about the two halves is what they do.
RecoveryIsInformed ==
  /\ Running => (delivering <=> down # "receive")
  /\ phase = "open" => (waiting <=> up = "reserving")

\* A transport error that waits for the download half or is being written is
\* never cut off by the upload half, nor overtaken by replies or later errors:
\* only the download half itself, the idle timeout and a shutdown of the listener
\* end the bridge.
TransportErrorReachesClient ==
  [][terminal = "transport" \/ (Running /\ down = "terminal") =>
       /\ ended' \in {"no", "download", "idle", "dropped"}
       /\ terminal = "transport" /\ terminal' # "transport" =>
            terminal' = "none" /\ down' = "terminal"
       /\ down' # "packet" \/ down = "packet"]_h2vars

\* A bridge whose channel has failed ends.
FailedBridgeEnds == phase = "closed" ~> ~Running

=============================================================================

------------------------------ MODULE RelayBridge ------------------------------
(***************************************************************************)
(* One client's bridge over a WebSocket or plain TCP (src/proxy.rs,        *)
(* bridge_ws, bridge_tcp and the masking relay; src/websocket.rs, WsReader *)
(* and WsWriter).  Two directions run inside one select with a shared      *)
(* inactivity clock; the first to return ends the bridge and drops the     *)
(* others.  Both may write to the WebSocket: the upload its frames, the    *)
(* download the answers to pings and to a close, one at a time under an    *)
(* asynchronous mutex that hands over in order of arrival.                 *)
(*                                                                         *)
(* A packet or frame is its number of chunks.  Refused frame headers are   *)
(* read errors; continuation frames are frames.  The keystreams and the    *)
(* masks follow the bytes and are left out.  "Received" is what the code's *)
(* clock counts: data.  A part of a packet's header, of a frame's header   *)
(* or of a control frame is none yet.                                      *)
(***************************************************************************)
EXTENDS Integers

CONSTANTS
  Modes,     \* subset of {"packets", "stream", "tcp"}
  MaxChunks, \* bound: chunks of a packet's body or of a frame
  Idle       \* idle_timeout_secs, in ticks

ASSUME BridgeAssumption ==
  /\ Modes \subseteq {"packets", "stream", "tcp"}
  /\ MaxChunks \in Nat \ {0} /\ Idle \in Nat \ {0}

VARIABLES
  mode,       \* packetized WebSocket, WebSocket, or two copying loops
  up,         \* where the upload is suspended
  body,       \* chunks of the current packet the client has yet to send
  down,       \* where the download is suspended
  incoming,   \* chunks left of the current incoming frame
  lock,       \* holder of the writer's mutex: "none", "up" or "down"
  remaining,  \* WsWriter.remaining: chunks left of the outgoing frame
  silent,     \* ticks since Activity.last
  upWait,     \* ticks the upload's current write has taken
  downWait,   \* ticks the download's current write has taken
  quietUp,    \* history: ticks since the upload received data
  quietDown,  \* history: ticks since the download received data
  ended       \* "no", or why the bridge ended

upload == <<up, body, upWait>>
download == <<down, incoming, downWait>>
clocks == <<silent, quietUp, quietDown>>
bridgeVars == <<mode, up, body, down, incoming, lock, remaining, silent, upWait,
                downWait, quietUp, quietDown, ended>>

\* The types of the two directions, of the writer and of the clocks.
TypeOK ==
  /\ mode \in Modes
  /\ up \in {"read", "rest", "lock", "begin", "body", "payload", "copy"}
  /\ down \in {"frame", "chunk", "deliver", "lock", "pong", "close"}
  /\ body \in 0..MaxChunks /\ incoming \in 0..MaxChunks
  /\ lock \in {"none", "up", "down"} /\ remaining \in 0..(MaxChunks + 1)
  /\ {silent, quietUp, quietDown} \subseteq 0..Idle
  /\ {upWait, downWait} \subseteq 0..(3 * Idle)
  /\ ended \in {"no", "idle", "write", "peer", "frame"}

BridgeInit ==
  /\ mode \in Modes
  /\ up = "read" /\ body = 0 /\ down = "frame" /\ incoming = 0
  /\ lock = "none" /\ remaining = 0
  /\ silent = 0 /\ upWait = 0 /\ downWait = 0 /\ quietUp = 0 /\ quietDown = 0
  /\ ended = "no"

Alive == ended = "no"
UpWrites == up \in {"begin", "payload", "copy"}
DownWrites == down \in {"deliver", "pong", "close"}

-----------------------------------------------------------------------------
(* The clock and the writer.                                                *)

\* Faulty: only the download keeps the bridge alive.
TouchUpSilently == quietUp' = 0 /\ UNCHANGED <<silent, quietDown>>

\* Activity::touch by either direction.
TouchUp == silent' = 0 /\ quietUp' = 0 /\ UNCHANGED quietDown
TouchDown == silent' = 0 /\ quietDown' = 0 /\ UNCHANGED quietUp

\* WsWriter::begin: an open frame must be finished first.
Begin(chunks) ==
  IF remaining # 0
  THEN ended' = "frame" /\ UNCHANGED remaining
  ELSE remaining' = chunks /\ UNCHANGED ended

\* Faulty: a released mutex is for whoever comes first.
UpReleasesToAnybody == lock' = "none"

\* The guard is dropped: the mutex goes to the direction that waits for it.
UpReleases == lock' = IF down = "lock" THEN "down" ELSE "none"
DownReleases == lock' = IF up = "lock" THEN "up" ELSE "none"

End(why) ==
  /\ ended' = why
  /\ UNCHANGED <<mode, upload, download, lock, remaining, clocks>>

-----------------------------------------------------------------------------
(* Upload: client to Telegram.                                              *)

\* The first byte of a packet, or a buffer of the stream, arrives.
UpReceives ==
  /\ Alive /\ up = "read"
  /\ TouchUp
  /\ up' = CASE mode = "packets" -> "rest"
              [] mode = "stream" -> "lock"
              [] mode = "tcp" -> "copy"
  /\ UNCHANGED <<mode, body, upWait, download, lock, remaining, ended>>

\* The last byte of the transport header tells the length of the packet; those
\* between it and the first touch no clock.
UpHeader ==
  /\ Alive /\ up = "rest"
  /\ TouchUp
  /\ up' = "lock"
  /\ \E n \in 0..MaxChunks : body' = n
  /\ UNCHANGED <<mode, upWait, download, lock, remaining, ended>>

\* The upload has the mutex and begins its frame: in packet mode the header is
\* a chunk of it.
UpBegins ==
  /\ Alive /\ up = "lock" /\ lock # "down"
  /\ lock' = "up"
  /\ Begin(body + 1)
  /\ up' = "begin"
  /\ UNCHANGED <<mode, body, upWait, download, clocks>>

\* Faulty: the mutex is given back after each chunk.
UpWrittenUnlocking ==
  /\ Alive /\ up \in {"begin", "payload"}
  /\ remaining' = remaining - 1
  /\ up' = IF remaining = 1 THEN "read" ELSE "body"
  /\ upWait' = 0
  /\ UpReleases
  /\ UNCHANGED <<mode, body, download, clocks, ended>>

\* A chunk is written; the last one is flushed and closes the frame.
UpWritten ==
  /\ Alive /\ up \in {"begin", "payload"}
  /\ remaining' = remaining - 1
  /\ up' = IF remaining = 1 THEN "read" ELSE "body"
  /\ upWait' = 0
  /\ IF remaining = 1 THEN UpReleases ELSE UNCHANGED lock
  /\ UNCHANGED <<mode, body, download, clocks, ended>>

\* The next chunk of the packet arrives while its frame is open.
UpBody ==
  /\ Alive /\ up = "body"
  /\ TouchUp
  /\ body' = body - 1 /\ up' = "payload"
  /\ UNCHANGED <<mode, upWait, download, lock, remaining, ended>>

\* copy_crypto and copy_plain: the buffer is written and flushed.
UpCopied ==
  /\ Alive /\ up = "copy"
  /\ up' = "read" /\ upWait' = 0
  /\ UNCHANGED <<mode, body, download, lock, remaining, clocks, ended>>

-----------------------------------------------------------------------------
(* Download: Telegram to client.                                            *)

\* A frame header announces data; reading it is no activity yet.
DownFrame ==
  /\ Alive /\ mode # "tcp" /\ down = "frame"
  /\ \E n \in 1..MaxChunks : incoming' = n
  /\ down' = "chunk"
  /\ UNCHANGED <<mode, upload, downWait, lock, remaining, clocks, ended>>

\* A chunk of the frame, or a buffer of the TCP stream, arrives.
DownReceives ==
  /\ Alive /\ (down = "chunk" \/ (mode = "tcp" /\ down = "frame"))
  /\ TouchDown
  /\ incoming' = IF mode = "tcp" THEN 0 ELSE incoming - 1
  /\ down' = "deliver"
  /\ UNCHANGED <<mode, upload, downWait, lock, remaining, ended>>

DownDelivered ==
  /\ Alive /\ down = "deliver"
  /\ down' = IF incoming > 0 THEN "chunk" ELSE "frame"
  /\ downWait' = 0
  /\ UNCHANGED <<mode, upload, incoming, lock, remaining, clocks, ended>>

\* A ping is answered under the mutex, which the download queues for.
DownPing ==
  /\ Alive /\ mode # "tcp" /\ down = "frame"
  /\ down' = "lock"
  /\ UNCHANGED <<mode, upload, incoming, downWait, lock, remaining, clocks, ended>>

DownPongs ==
  /\ Alive /\ down = "lock" /\ lock # "up"
  /\ lock' = "down"
  /\ Begin(1)
  /\ down' = "pong"
  /\ UNCHANGED <<mode, upload, incoming, downWait, clocks>>

DownPonged ==
  /\ Alive /\ down = "pong"
  /\ remaining' = 0
  /\ down' = "frame" /\ downWait' = 0
  /\ DownReleases
  /\ UNCHANGED <<mode, upload, incoming, clocks, ended>>

\* A close is answered only if the mutex is free; then the bridge ends.
DownClose ==
  /\ Alive /\ mode # "tcp" /\ down = "frame"
  /\ IF lock = "none" /\ up # "lock"
     THEN /\ lock' = "down" /\ Begin(1) /\ down' = "close"
          /\ UNCHANGED <<mode, upload, incoming, downWait, clocks>>
     ELSE End("peer")

DownClosed == Alive /\ down = "close" /\ End("peer")

-----------------------------------------------------------------------------
(* The end of the bridge.                                                   *)

\* A side closes or fails; a read returns nothing or is refused.
PeerEnds == Alive /\ End("peer")

\* activity.expired(idle)
Expired == Alive /\ silent = Idle /\ End("idle")

\* A write to the WebSocket is up to three, with idle for each: the header of a
\* frame, its payload and the flush at its end.  One to the TCP target or to the
\* client has idle for all of it.
Parts(stage) ==
  CASE stage \in {"copy", "deliver"} -> 1
    [] stage = "payload" -> 2
    [] OTHER -> 3

\* A part of a write has taken idle.
WriteExpired ==
  /\ Alive
  /\ (UpWrites /\ upWait >= Idle) \/ (DownWrites /\ downWait >= Idle)
  /\ End("write")

\* Deadlines are kept: time does not pass one that has come.
Tick ==
  /\ Alive /\ silent < Idle
  /\ upWait < Parts(up) * Idle /\ downWait < Parts(down) * Idle
  /\ silent' = silent + 1
  /\ quietUp' = IF quietUp < Idle THEN quietUp + 1 ELSE Idle
  /\ quietDown' = IF quietDown < Idle THEN quietDown + 1 ELSE Idle
  /\ upWait' = IF UpWrites THEN upWait + 1 ELSE 0
  /\ downWait' = IF DownWrites THEN downWait + 1 ELSE 0
  /\ UNCHANGED <<mode, up, body, down, incoming, lock, remaining, ended>>

-----------------------------------------------------------------------------
BridgeNext ==
  \/ UpReceives \/ UpHeader \/ UpBegins \/ UpWritten \/ UpBody \/ UpCopied
  \/ DownFrame \/ DownReceives \/ DownDelivered \/ DownPing \/ DownPongs
  \/ DownPonged \/ DownClose \/ DownClosed
  \/ PeerEnds \/ Expired \/ WriteExpired \/ Tick

BridgeSpec == BridgeInit /\ [][BridgeNext]_bridgeVars

(* Timers fire and a direction that has the mutex, or finds it free, runs.   *)
(* Neither side is assumed to send, to read, or to close.                    *)
BridgeFairness ==
  /\ WF_bridgeVars(Tick) /\ WF_bridgeVars(Expired) /\ WF_bridgeVars(WriteExpired)
  /\ WF_bridgeVars(UpBegins) /\ WF_bridgeVars(DownPongs)

BridgeFairSpec == BridgeSpec /\ BridgeFairness

-----------------------------------------------------------------------------
(* Properties.                                                              *)

\* No frame starts inside another: while one is open, the direction that began
\* it has the mutex, also while the upload waits for the client's next bytes.
FramesAreWhole ==
  /\ ended # "frame"
  /\ Alive /\ remaining # 0 =>
       \/ lock = "up" /\ up \in {"begin", "body", "payload"}
       \/ lock = "down" /\ down \in {"pong", "close"}

\* "a long download must keep the silent upload alive" (proxy.rs), and the other
\* way round: a bridge is idle only when neither direction received any data.
IdleMeansSilent == ended = "idle" => quietUp = Idle /\ quietDown = Idle

\* A ping that arrives while the upload holds the mutex for a client that stalls
\* is answered, or the bridge ends: the two never wait for each other for good.
PingIsAnswered == down = "lock" ~> down = "pong" \/ ~Alive

=============================================================================

---------------------------- MODULE H2Replay_proofs ----------------------------
(***************************************************************************)
(* Theorems about H2Replay, for any packets, any bounds on the history and *)
(* on replays, and any number of requests.                                 *)
(***************************************************************************)
EXTENDS H2Replay, FiniteSetTheorems, TLAPS

-----------------------------------------------------------------------------
(* The inductive invariant, in parts that speak of any history h and any     *)
(* requests p: the steps go through intermediate values of both.             *)

ReplaysOf(p) == {r \in DOMAIN p : p[r].kind = "replay"}

\* Entries are numbered up to n.
HistoryType(h, n) == h \in [DOMAIN h -> Entry] /\ DOMAIN h \subseteq 1..n

\* Requests are numbered up to n, and one refers to a packet that was there
\* before it, or to none.
PendingType(p, n) ==
  /\ p \in [DOMAIN p -> Request] /\ DOMAIN p \subseteq 1..n
  /\ \A r \in DOMAIN p : p[r].entry <= r

\* An entry knows the replay and the originals that stand for it...
EntryLinks(h, p) ==
  \A s \in DOMAIN h :
    /\ h[s].pending # 0 =>
         h[s].pending \in ReplaysOf(p) /\ p[h[s].pending].entry = s
    /\ h[s].originals = {r \in DOMAIN p \ ReplaysOf(p) : p[r].entry = s}

\* ... and a packet, remembered or not, has one replay in flight.
ReplayLinks(h, p) ==
  /\ \A r \in ReplaysOf(p) : p[r].entry \in DOMAIN h => h[p[r].entry].pending = r
  /\ \A r, q \in ReplaysOf(p) : p[r].entry = p[q].entry => r = q

Linked(h, p) == EntryLinks(h, p) /\ ReplayLinks(h, p)

OneKey(h, k) ==
  \A s, q \in DOMAIN h :
    (h[s].body = h[q].body => s = q) /\ KeyOf[h[s].body] = k

Bounded(h, p) ==
  /\ Cardinality(DOMAIN h) <= HistoryPackets
  /\ Cardinality(ReplaysOf(p)) <= MaxReplays

ClosedInv ==
  phase = "closed" =>
    DOMAIN history = {} /\ \A r \in Requests : pending[r].stage = "aborted"

IInv ==
  /\ next \in 0..MaxRequest /\ aged \in 0..next /\ phase \in {"open", "closed"}
  /\ HistoryType(history, next) /\ PendingType(pending, next)
  /\ Linked(history, pending) /\ OneKey(history, replayKey)
  /\ Bounded(history, pending) /\ ClosedInv

-----------------------------------------------------------------------------
(* Least numbers.                                                           *)

\* A set of numbers has a least one, and Min is it.
LEMMA MinIsLeast ==
  ASSUME NEW S, S \subseteq Nat, S # {}
  PROVE  Min(S) \in S /\ \A n \in S : Min(S) <= n
<1>1. PICK m \in S : \A n \in S : <<n, m>> \notin OpToRel(<, Nat)
  BY NatLessThanWellFounded, WFMin, Zenon
<1>2. \A n \in S : ~(n < m)
  BY <1>1, Zenon DEF OpToRel
<1>3. \E x \in S : \A n \in S : x <= n
  BY <1>2
<1> QED
  BY <1>3 DEF Min

-----------------------------------------------------------------------------
(* What a change of the history or of the requests does to the links.        *)

\* What is forgotten leaves the rest as it was.
LEMMA LinkedForget ==
  ASSUME NEW h, NEW p, Linked(h, p), NEW D, D \subseteq DOMAIN h
  PROVE  Linked(Restrict(h, D), p)
BY DEF Linked, EntryLinks, ReplayLinks, Restrict

LEMMA TypeForget ==
  ASSUME NEW h, NEW n, HistoryType(h, n), NEW D, D \subseteq DOMAIN h
  PROVE  HistoryType(Restrict(h, D), n)
BY DEF HistoryType, Restrict

LEMMA OneKeyForget ==
  ASSUME NEW h, NEW k, OneKey(h, k), NEW D, D \subseteq DOMAIN h
  PROVE  OneKey(Restrict(h, D), k)
BY DEF OneKey, Restrict

\* The links do not depend on the other fields of entries and requests.
LEMMA LinkedSame ==
  ASSUME NEW h, NEW p, Linked(h, p), NEW g, NEW q,
         DOMAIN g = DOMAIN h, DOMAIN q = DOMAIN p,
         \A s \in DOMAIN h : g[s].pending = h[s].pending /\ g[s].originals = h[s].originals,
         \A r \in DOMAIN p : q[r].kind = p[r].kind /\ q[r].entry = p[r].entry
  PROVE  Linked(g, q) /\ ReplaysOf(q) = ReplaysOf(p)
<1>1. ReplaysOf(q) = ReplaysOf(p)
  BY DEF ReplaysOf
<1>2. ReplaysOf(p) \subseteq DOMAIN p
  BY DEF ReplaysOf
<1>3. EntryLinks(g, q)
  BY <1>1, <1>2 DEF Linked, EntryLinks
<1>4. ReplayLinks(g, q)
  BY <1>1, <1>2 DEF Linked, ReplayLinks
<1> QED
  BY <1>1, <1>3, <1>4 DEF Linked

\* A request of a packet that is not in the history.
LEMMA LinkedStranger ==
  ASSUME NEW h, NEW p, Linked(h, p), NEW r, r \notin DOMAIN p,
         NEW e, e \notin DOMAIN h
  PROVE  /\ Linked(h, With(p, r, NewRequest("original", e)))
         /\ ReplaysOf(With(p, r, NewRequest("original", e))) = ReplaysOf(p)
<1> DEFINE q == With(p, r, NewRequest("original", e))
<1>1. /\ DOMAIN q = DOMAIN p \cup {r} /\ q[r].kind = "original" /\ q[r].entry = e
      /\ \A x \in DOMAIN p : q[x] = p[x]
  BY DEF With, NewRequest
<1> HIDE DEF q
<1>2. ReplaysOf(q) = ReplaysOf(p) /\ ReplaysOf(p) \subseteq DOMAIN p
  BY <1>1 DEF ReplaysOf
<1>3. EntryLinks(h, q)
  BY <1>1, <1>2 DEF Linked, EntryLinks
<1>4. ReplayLinks(h, q)
  BY <1>1, <1>2 DEF Linked, ReplayLinks
<1> QED
  BY <1>2, <1>3, <1>4 DEF Linked, q

\* One more original of a packet in the history.
LEMMA LinkedJoin ==
  ASSUME NEW h, NEW p, NEW n, HistoryType(h, n), Linked(h, p),
         NEW r, r \notin DOMAIN p, NEW s \in DOMAIN h
  PROVE  /\ Linked([h EXCEPT ![s].originals = @ \cup {r}],
                   With(p, r, NewRequest("original", s)))
         /\ ReplaysOf(With(p, r, NewRequest("original", s))) = ReplaysOf(p)
<1> DEFINE q == With(p, r, NewRequest("original", s))
           g == [h EXCEPT ![s].originals = @ \cup {r}]
<1>1. /\ DOMAIN q = DOMAIN p \cup {r} /\ q[r].kind = "original" /\ q[r].entry = s
      /\ \A x \in DOMAIN p : q[x] = p[x]
  BY DEF With, NewRequest
<1>2. /\ DOMAIN g = DOMAIN h
      /\ \A x \in DOMAIN h : g[x].pending = h[x].pending
      /\ g[s].originals = h[s].originals \cup {r}
      /\ \A x \in DOMAIN h \ {s} : g[x].originals = h[x].originals
  BY DEF HistoryType, Entry
<1> HIDE DEF q, g
<1>3. ReplaysOf(q) = ReplaysOf(p) /\ ReplaysOf(p) \subseteq DOMAIN p
  BY <1>1 DEF ReplaysOf
<1>4. EntryLinks(g, q)
  BY <1>1, <1>2, <1>3 DEF Linked, EntryLinks
<1>5. ReplayLinks(g, q)
  BY <1>1, <1>2, <1>3 DEF Linked, ReplayLinks
<1> QED
  BY <1>3, <1>4, <1>5 DEF Linked, q, g

\* A new packet and its first original.
LEMMA LinkedEnter ==
  ASSUME NEW h, NEW p, Linked(h, p), NEW r, r \notin DOMAIN p, NEW b,
         r \notin DOMAIN h, \A x \in DOMAIN p : p[x].entry # r
  PROVE  /\ Linked(With(h, r, NewEntry(b, r)), With(p, r, NewRequest("original", r)))
         /\ ReplaysOf(With(p, r, NewRequest("original", r))) = ReplaysOf(p)
<1> DEFINE q == With(p, r, NewRequest("original", r))
           g == With(h, r, NewEntry(b, r))
<1>1. /\ DOMAIN q = DOMAIN p \cup {r} /\ q[r].kind = "original" /\ q[r].entry = r
      /\ \A x \in DOMAIN p : q[x] = p[x]
  BY DEF With, NewRequest
<1>2. /\ DOMAIN g = DOMAIN h \cup {r} /\ \A x \in DOMAIN h : g[x] = h[x]
      /\ g[r].pending = 0 /\ g[r].originals = {r}
  BY DEF With, NewEntry
<1> HIDE DEF q, g
<1>3. ReplaysOf(q) = ReplaysOf(p) /\ ReplaysOf(p) \subseteq DOMAIN p
  BY <1>1 DEF ReplaysOf
<1>4. EntryLinks(g, q)
  BY <1>1, <1>2, <1>3 DEF Linked, EntryLinks
<1>5. ReplayLinks(g, q)
  BY <1>1, <1>2, <1>3 DEF Linked, ReplayLinks
<1> QED
  BY <1>3, <1>4, <1>5 DEF Linked, q, g

\* A replay of a packet that has none.
LEMMA LinkedReplay ==
  ASSUME NEW h, NEW p, NEW n, HistoryType(h, n), Linked(h, p),
         NEW r, r \notin DOMAIN p, 0 \notin DOMAIN p,
         NEW s \in DOMAIN h, h[s].pending = 0
  PROVE  /\ Linked([h EXCEPT ![s].attempts = @ + 1, ![s].pending = r],
                   With(p, r, NewRequest("replay", s)))
         /\ ReplaysOf(With(p, r, NewRequest("replay", s))) = ReplaysOf(p) \cup {r}
<1> DEFINE q == With(p, r, NewRequest("replay", s))
           g == [h EXCEPT ![s].attempts = @ + 1, ![s].pending = r]
<1>1. /\ DOMAIN q = DOMAIN p \cup {r} /\ q[r].kind = "replay" /\ q[r].entry = s
      /\ \A x \in DOMAIN p : q[x] = p[x]
  BY DEF With, NewRequest
<1>2. /\ DOMAIN g = DOMAIN h /\ g[s].pending = r
      /\ \A x \in DOMAIN h : g[x].originals = h[x].originals
      /\ \A x \in DOMAIN h \ {s} : g[x].pending = h[x].pending
  BY DEF HistoryType, Entry
<1> HIDE DEF q, g
<1>3. ReplaysOf(q) = ReplaysOf(p) \cup {r} /\ ReplaysOf(p) \subseteq DOMAIN p
  BY <1>1 DEF ReplaysOf
<1>4. \A x \in ReplaysOf(p) : p[x].entry # s
  BY <1>3 DEF Linked, ReplayLinks
<1>5. EntryLinks(g, q)
  BY <1>1, <1>2, <1>3 DEF Linked, EntryLinks
<1>6. ReplayLinks(g, q)
  BY <1>1, <1>2, <1>3, <1>4 DEF Linked, ReplayLinks
<1> QED
  BY <1>3, <1>5, <1>6 DEF Linked, q, g

\* finish_request(): whoever stood for the packet does not any more.
LEMMA LinkedFinish ==
  ASSUME NEW h, NEW n, HistoryType(h, n), Linked(h, pending), NEW r \in Requests
  PROVE  /\ Linked(Unlinked(r, h), Without(r))
         /\ ReplaysOf(Without(r)) = Replays \ {r}
<1> DEFINE g == Unlinked(r, h)
           q == Without(r)
<1>1. DOMAIN q = Requests \ {r} /\ \A x \in DOMAIN q : q[x] = pending[x]
  BY DEF Without, Restrict, Requests
<1>2. /\ DOMAIN g = DOMAIN h
      /\ \A x \in DOMAIN h \ {pending[r].entry} : g[x] = h[x]
      /\ \A x \in DOMAIN h : x = pending[r].entry =>
           IF pending[r].kind = "replay" /\ h[x].pending = r
           THEN g[x].pending = 0 /\ g[x].originals = h[x].originals
           ELSE g[x].pending = h[x].pending /\ g[x].originals = h[x].originals \ {r}
  BY DEF Unlinked, HistoryType, Entry
<1> HIDE DEF q, g
<1>3. /\ ReplaysOf(q) = ReplaysOf(pending) \ {r} /\ ReplaysOf(pending) = Replays
      /\ Replays \subseteq Requests
  BY <1>1 DEF ReplaysOf, Replays, Requests
<1>4. EntryLinks(g, q)
  <2> SUFFICES ASSUME NEW s \in DOMAIN h
               PROVE  /\ g[s].pending # 0 =>
                           g[s].pending \in ReplaysOf(q) /\ q[g[s].pending].entry = s
                      /\ g[s].originals = {x \in DOMAIN q \ ReplaysOf(q) : q[x].entry = s}
    BY <1>2 DEF EntryLinks
  <2>1. /\ h[s].pending # 0 =>
             h[s].pending \in Replays /\ pending[h[s].pending].entry = s
        /\ h[s].originals = {x \in Requests \ Replays : pending[x].entry = s}
    BY <1>3 DEF Linked, EntryLinks, Requests
  <2>2. r \in Replays /\ pending[r].entry = s => h[s].pending = r
    BY <1>3 DEF Linked, ReplayLinks
  <2>3. r \in Replays <=> pending[r].kind = "replay"
    BY DEF Replays
  <2> QED
    BY <1>1, <1>2, <1>3, <2>1, <2>2, <2>3
<1>5. ReplayLinks(g, q)
  BY <1>1, <1>2, <1>3 DEF Linked, ReplayLinks, Requests
<1> QED
  BY <1>3, <1>4, <1>5 DEF Linked, q, g

-----------------------------------------------------------------------------
(* remember() and the packets of the client.                                *)

\* A history with an entry too many gives up one: not the newest as long as an
\* original of that is in flight, and a protected one only if all of them are.
LEMMA TrimmedFits ==
  ASSUME NEW h, NEW n \in Nat, HistoryType(h, n),
         Cardinality(DOMAIN h) <= HistoryPackets + 1
  PROVE  \E D \in SUBSET DOMAIN h :
           /\ Trimmed(h) = Restrict(h, D)
           /\ Cardinality(D) <= HistoryPackets
           /\ \A s \in DOMAIN h :
                (\A q \in DOMAIN h : q <= s) /\ h[s].originals # {} => s \in D
           /\ \A s \in DOMAIN h \ D :
                Protected(h, s) => \A q \in DOMAIN h : Protected(h, q)
<1>1. /\ IsFiniteSet(DOMAIN h) /\ Cardinality(DOMAIN h) \in Nat
      /\ DOMAIN h \subseteq Nat
  BY FS_Interval, FS_Subset, FS_CardinalityType DEF HistoryType
<1>2. HistoryPackets \in Nat \ {0}
  BY ReplayAssumption
<1>3. CASE Cardinality(DOMAIN h) > HistoryPackets
  <2> DEFINE d == Dispensable(h)
             free == {s \in DOMAIN h : ~Protected(h, s)}
  <2>1. DOMAIN h # {}
    BY <1>2, <1>3, FS_EmptySet
  <2>2. /\ d \in DOMAIN h
        /\ \A s \in free : d \in free
        /\ free = {} => \A s \in DOMAIN h : d <= s
    <3>1. CASE free = {}
      BY <1>1, <2>1, <3>1, MinIsLeast DEF Dispensable
    <3>2. CASE free # {}
      <4>1. free \subseteq Nat
        BY <1>1
      <4>2. d = Min(free)
        BY <3>2 DEF Dispensable
      <4>3. Min(free) \in free
        BY <3>2, <4>1, MinIsLeast
      <4> QED
        BY <3>2, <4>2, <4>3
    <3> QED
      BY <3>1, <3>2
  <2>3. Trimmed(h) = Restrict(h, DOMAIN h \ {d})
    BY <1>3 DEF Trimmed
  <2>4. Cardinality(DOMAIN h \ {d}) = Cardinality(DOMAIN h) - 1
    BY <1>1, <2>2, FS_RemoveElement
  <2>5. ASSUME NEW s \in DOMAIN h, \A q \in DOMAIN h : q <= s, h[s].originals # {}
        PROVE  s # d
    <3>1. s \notin free
      BY <2>5 DEF Protected
    <3>2. CASE free = {} /\ s = d
      <4>1. \A q \in DOMAIN h : q = s
        BY <1>1, <2>2, <2>5, <3>2
      <4>2. DOMAIN h = {s}
        BY <4>1
      <4> QED
        BY <1>2, <1>3, <4>2, FS_Singleton
    <3> QED
      BY <2>2, <3>1, <3>2
  <2>6. Cardinality(DOMAIN h \ {d}) <= HistoryPackets
    BY <1>1, <1>2, <2>4
  <2>7. Protected(h, d) => \A q \in DOMAIN h : Protected(h, q)
    BY <2>2
  <2> HIDE DEF d
  <2> QED
    BY <2>3, <2>5, <2>6, <2>7
<1>4. CASE ~(Cardinality(DOMAIN h) > HistoryPackets)
  <2>1. Trimmed(h) = h /\ h = Restrict(h, DOMAIN h)
    BY <1>4 DEF Trimmed, HistoryType, Restrict
  <2> QED
    BY <1>1, <1>2, <1>4, <2>1
<1> QED
  BY <1>3, <1>4

\* A packet that is new to the history.
LEMMA EntryFits ==
  ASSUME NEW h, NEW r \in Ids, HistoryType(h, r), r \notin DOMAIN h,
         NEW b \in Bodies, OneKey(h, KeyOf[b]), \A s \in DOMAIN h : h[s].body # b,
         Cardinality(DOMAIN h) <= HistoryPackets
  PROVE  /\ HistoryType(With(h, r, NewEntry(b, r)), r)
         /\ OneKey(With(h, r, NewEntry(b, r)), KeyOf[b])
         /\ Cardinality(DOMAIN With(h, r, NewEntry(b, r))) <= HistoryPackets + 1
<1> DEFINE g == With(h, r, NewEntry(b, r))
<1>1. r \in Nat /\ r \in 1..r /\ MaxRequest \in Nat /\ HistoryPackets \in Nat
  BY ReplayAssumption DEF Ids
<1>2. NewEntry(b, r) \in Entry
  BY <1>1, ReplayAssumption DEF NewEntry, Entry
<1>3. /\ g = [x \in DOMAIN g |-> g[x]]
      /\ DOMAIN g = DOMAIN h \cup {r} /\ \A s \in DOMAIN h : g[s] = h[s]
      /\ g[r] = NewEntry(b, r)
  BY DEF With
<1> HIDE DEF g
<1>4. HistoryType(g, r)
  <2>1. \A s \in DOMAIN g : g[s] \in Entry
    BY <1>2, <1>3 DEF HistoryType
  <2>2. DOMAIN g \subseteq 1..r
    BY <1>1, <1>3 DEF HistoryType
  <2> QED
    BY <1>3, <2>1, <2>2 DEF HistoryType
<1>5. OneKey(g, KeyOf[b])
  <2>1. g[r].body = b
    BY <1>3 DEF NewEntry
  <2> QED
    BY <1>3, <2>1 DEF OneKey
<1>6. Cardinality(DOMAIN g) <= HistoryPackets + 1
  <2>1. IsFiniteSet(DOMAIN h) /\ Cardinality(DOMAIN h) \in Nat
    <3>1. IsFiniteSet(1..r) /\ DOMAIN h \subseteq 1..r
      BY <1>1, FS_Interval DEF HistoryType
    <3> QED
      BY <3>1, FS_Subset, FS_CardinalityType
  <2>2. Cardinality(DOMAIN g) = Cardinality(DOMAIN h) + 1
    BY <1>3, <2>1, FS_AddElement
  <2> QED
    BY <1>1, <2>1, <2>2
<1> QED
  BY <1>4, <1>5, <1>6 DEF g

\* The number of a request that is launched.
LEMMA FreshNumber ==
  ASSUME IInv, next < MaxRequest
  PROVE  /\ next \in Nat /\ next + 1 \in Ids /\ next + 1 \notin Requests /\ next + 1 \in 0..MaxRequest
         /\ next + 1 \notin DOMAIN history
         /\ \A n \in 1..next : n \in 1..(next + 1) /\ n < next + 1
         /\ \A r \in Requests : pending[r].entry # next + 1
         /\ 0 \notin DOMAIN history /\ 0 \notin Requests
         /\ aged \in 0..(next + 1)
<1>1. next \in Nat /\ MaxRequest \in Nat
  BY ReplayAssumption DEF IInv
<1>2. \A r \in Requests : r \in 1..next /\ pending[r].entry \in 0..MaxRequest
  BY DEF IInv, PendingType, Request, Requests
<1>3. \A r \in Requests : pending[r].entry <= r
  BY DEF IInv, PendingType, Requests
<1> QED
  BY <1>1, <1>2, <1>3 DEF IInv, HistoryType, Ids

\* The packet just sent is in the history if its request refers to it, and a
\* protected one leaves a history of the same key only if all were.
UploadRemembers ==
  /\ next' \in Requests' /\ pending'[next'].kind = "original"
  /\ pending'[next'].entry # 0 => pending'[next'].entry \in DOMAIN history'
  /\ \A s \in DOMAIN history \ DOMAIN history' :
       replayKey' = replayKey /\ Protected(history, s)
         => \A q \in DOMAIN history' : history'[q].originals # {} \/ history'[q].retired

LEMMA UploadKeepsInv ==
  ASSUME IInv, NEW b \in Bodies, NEW granted \in BOOLEAN, Upload(b, granted)
  PROVE  IInv' /\ UploadRemembers
<1> DEFINE r == next + 1
           m == Remember(b, r, granted)
           h == IF replayKey # KeyOf[b] THEN Nothing ELSE history
           same == {s \in DOMAIN h : h[s].body = b}
<1>1. /\ phase = "open" /\ next < MaxRequest /\ next' = r
      /\ history' = m.history /\ replayKey' = m.key
      /\ pending' = With(pending, r, NewRequest("original", m.entry))
      /\ UNCHANGED <<phase, aged>>
  BY DEF Upload
<1>2. /\ r \in Nat /\ r \in Ids /\ r \in 0..MaxRequest /\ r \notin Requests /\ r \notin DOMAIN history
      /\ \A x \in Requests : pending[x].entry # r
      /\ 0 \notin DOMAIN history /\ aged \in 0..r
      /\ \A x \in 1..next : x \in 1..r /\ x < r
  BY <1>1, FreshNumber
<1> HIDE DEF r
<1>3. /\ HistoryType(h, r) /\ Linked(h, pending) /\ OneKey(h, KeyOf[b])
      /\ Cardinality(DOMAIN h) <= HistoryPackets /\ DOMAIN h \subseteq DOMAIN history
  <2>1. CASE replayKey # KeyOf[b]
    <3>1. h = Nothing
      BY <2>1
    <3> HIDE DEF h
    <3>2. /\ DOMAIN h = {} /\ h = Restrict(history, {})
          /\ HistoryType(h, r) /\ OneKey(h, KeyOf[b])
      BY <3>1 DEF Nothing, Restrict, HistoryType, OneKey
    <3> QED
      BY <3>2, LinkedForget, FS_EmptySet, ReplayAssumption DEF IInv
  <2>2. CASE replayKey = KeyOf[b]
    BY <1>2, <2>2 DEF IInv, HistoryType, Bounded
  <2> QED
    BY <2>1, <2>2
<1>4. \A s \in same : same = {s} /\ Min(same) = s
  <2>1. \A s, q \in same : s = q
    BY <1>3 DEF OneKey
  <2>2. ASSUME NEW s \in same
        PROVE  Min(same) = s
    <3>1. same \subseteq Nat
      BY <1>3 DEF HistoryType
    <3> QED
      BY <2>1, <3>1, MinIsLeast
  <2> QED
    BY <2>1, <2>2
<1>5. /\ m.entry \in 0..MaxRequest /\ m.entry <= r
      /\ HistoryType(m.history, r) /\ OneKey(m.history, m.key)
      /\ Cardinality(DOMAIN m.history) <= HistoryPackets
      /\ Linked(m.history, With(pending, r, NewRequest("original", m.entry)))
      /\ ReplaysOf(With(pending, r, NewRequest("original", m.entry))) = ReplaysOf(pending)
      /\ m.entry # 0 => m.entry \in DOMAIN m.history
      /\ \A s \in DOMAIN history \ DOMAIN m.history :
           m.key = replayKey /\ Protected(history, s)
             => \A q \in DOMAIN m.history : Protected(m.history, q)
  <2>1. CASE KeyOf[b] = NoKey
    <3>1. m = [entry |-> 0, history |-> history, key |-> replayKey]
      BY <2>1 DEF Remember
    <3>2. HistoryType(history, r) /\ Linked(history, pending) /\ OneKey(history, replayKey)
          /\ Cardinality(DOMAIN history) <= HistoryPackets
      BY <1>2 DEF IInv, HistoryType, Bounded
    <3> HIDE DEF m
    <3> QED
      BY <1>2, <3>1, <3>2, LinkedStranger, ReplayAssumption DEF Requests
  <2>2. CASE KeyOf[b] # NoKey /\ same # {}
    <3>1. PICK s \in same : Min(same) = s
      BY <1>4, <2>2
    <3>2. /\ m.entry = s /\ m.key = KeyOf[b]
          /\ m.history = [h EXCEPT ![s].originals = @ \cup {r}]
      BY <2>2, <3>1 DEF Remember
    <3>0. s \in DOMAIN h
      BY <3>1
    <3> HIDE DEF m, h
    <3>3. HistoryType([h EXCEPT ![s].originals = @ \cup {r}], r)
      BY <1>2, <1>3, <3>0 DEF HistoryType, Entry
    <3>4. OneKey([h EXCEPT ![s].originals = @ \cup {r}], KeyOf[b])
      BY <1>3, <3>0 DEF OneKey, HistoryType, Entry
    <3>5. s \in 0..MaxRequest /\ s <= r
      BY <1>2, <1>3, <3>0, ReplayAssumption DEF HistoryType
    <3>6. /\ Linked([h EXCEPT ![s].originals = @ \cup {r}],
                    With(pending, r, NewRequest("original", s)))
          /\ ReplaysOf(With(pending, r, NewRequest("original", s))) = ReplaysOf(pending)
      BY <1>2, <1>3, <3>0, LinkedJoin DEF Requests
    <3>7. /\ DOMAIN m.history = DOMAIN h
          /\ m.key = replayKey => DOMAIN history = DOMAIN h
      BY <3>2 DEF h
    <3> QED
      BY <1>3, <3>0, <3>2, <3>3, <3>4, <3>5, <3>6, <3>7
  <2>3. CASE KeyOf[b] # NoKey /\ same = {} /\ granted
    <3> DEFINE g == With(h, r, NewEntry(b, r))
    <3>1. m = [entry |-> r, key |-> KeyOf[b], history |-> Trimmed(g)]
      BY <2>3 DEF Remember
    <3>0. \A s \in DOMAIN h : h[s].body # b
      BY <2>3
    <3> HIDE DEF h
    <3>2. /\ DOMAIN g = DOMAIN h \cup {r} /\ \A s \in DOMAIN h : g[s] = h[s]
          /\ g[r] = NewEntry(b, r) /\ r \notin DOMAIN h
      BY <1>2, <1>3 DEF With
    <3>3. /\ HistoryType(g, r) /\ OneKey(g, KeyOf[b])
          /\ Cardinality(DOMAIN g) <= HistoryPackets + 1
      BY <1>2, <1>3, <3>0, <3>2, EntryFits
    <3>6. /\ Linked(g, With(pending, r, NewRequest("original", r)))
          /\ ReplaysOf(With(pending, r, NewRequest("original", r))) = ReplaysOf(pending)
      BY <1>2, <1>3, <3>2, LinkedEnter DEF Requests
    <3> HIDE DEF g, m
    <3>7. PICK D \in SUBSET DOMAIN g :
            /\ Trimmed(g) = Restrict(g, D) /\ Cardinality(D) <= HistoryPackets
            /\ (\A q \in DOMAIN g : q <= r) /\ g[r].originals # {} => r \in D
            /\ \A s \in DOMAIN g \ D :
                 Protected(g, s) => \A q \in DOMAIN g : Protected(g, q)
      BY <1>2, <3>2, <3>3, TrimmedFits
    <3>8. /\ DOMAIN Restrict(g, D) = D
          /\ \A q \in D : Restrict(g, D)[q] = g[q]
      BY DEF Restrict
    <3>9. r \in D
      <4>1. g[r].originals = {r}
        BY <3>2 DEF NewEntry
      <4>2. \A q \in DOMAIN g : q <= r
        BY <3>3 DEF HistoryType
      <4> QED
        BY <3>7, <4>1, <4>2
    <3>10. ASSUME NEW s \in DOMAIN history \ D, m.key = replayKey, Protected(history, s),
                  NEW q \in D
           PROVE  Protected(Restrict(g, D), q)
      <4>1. h = history
        BY <3>1, <3>10 DEF h
      <4>2. s \in DOMAIN g /\ g[s] = history[s]
        BY <3>2, <4>1
      <4>3. Protected(g, s)
        BY <3>10, <4>2 DEF Protected
      <4>4. Protected(g, q)
        BY <3>7, <4>2, <4>3
      <4> QED
        BY <3>8, <4>4 DEF Protected
    <3> QED
      BY <1>2, <3>1, <3>3, <3>6, <3>7, <3>8, <3>9, <3>10, LinkedForget, TypeForget, OneKeyForget
  <2>4. CASE KeyOf[b] # NoKey /\ same = {} /\ ~granted
    <3>1. m = [entry |-> 0, key |-> KeyOf[b], history |-> h]
      BY <2>4 DEF Remember
    <3>2. 0 \notin DOMAIN h /\ (m.key = replayKey => DOMAIN history = DOMAIN h)
      BY <1>2, <1>3, <3>1
    <3> HIDE DEF m, h
    <3> QED
      BY <1>2, <1>3, <3>1, <3>2, LinkedStranger, ReplayAssumption DEF Requests
  <2> QED
    BY <2>1, <2>2, <2>3, <2>4
<1>6. PendingType(pending', r)
  <2>1. NewRequest("original", m.entry) \in Request
    BY <1>5 DEF NewRequest, Request
  <2>2. /\ DOMAIN pending' = Requests \cup {r}
        /\ pending'[r] = NewRequest("original", m.entry)
        /\ \A x \in Requests : pending'[x] = pending[x]
        /\ pending' = [x \in Requests \cup {r} |-> pending'[x]]
    BY <1>1, <1>2 DEF With, Requests
  <2>3. \A x \in Requests : pending[x] \in Request /\ pending[x].entry <= x /\ x \in 1..r
    BY <1>2 DEF IInv, PendingType, Requests
  <2>4. pending'[r].entry <= r /\ r \in 1..r
    BY <1>2, <1>5, <2>2 DEF NewRequest, Ids
  <2> HIDE DEF m
  <2> QED
    BY <2>1, <2>2, <2>3, <2>4 DEF PendingType
<1> HIDE DEF m, h
<1>7. Bounded(history', pending')
  BY <1>1, <1>5 DEF IInv, Bounded
<1>8. ClosedInv'
  BY <1>1 DEF ClosedInv
<1>9. UploadRemembers
  <2>1. next' \in Requests' /\ pending'[next'] = NewRequest("original", m.entry)
    BY <1>1 DEF With, Requests
  <2>2. \A q \in DOMAIN m.history :
          Protected(m.history, q) => m.history[q].originals # {} \/ m.history[q].retired
    BY DEF Protected
  <2> QED
    BY <1>1, <1>5, <2>1, <2>2 DEF UploadRemembers, NewRequest
<1> QED
  BY <1>1, <1>2, <1>5, <1>6, <1>7, <1>8, <1>9 DEF IInv

-----------------------------------------------------------------------------
(* The tasks and their ends.                                                *)

\* Requests that leave, and others that are told to stop.
LEMMA PendingShrinks ==
  ASSUME NEW p, NEW n \in Nat, PendingType(p, n), NEW q, q = [r \in DOMAIN q |-> q[r]],
         DOMAIN q \subseteq DOMAIN p,
         \A r \in DOMAIN q :
           q[r] \in Request /\ q[r].kind = p[r].kind /\ q[r].entry = p[r].entry
  PROVE  /\ PendingType(q, n) /\ ReplaysOf(q) \subseteq ReplaysOf(p)
         /\ Cardinality(ReplaysOf(p)) <= MaxReplays =>
              Cardinality(ReplaysOf(q)) <= MaxReplays
<1>1. PendingType(q, n)
  BY DEF PendingType
<1>2. ReplaysOf(q) \subseteq ReplaysOf(p) /\ ReplaysOf(p) \subseteq 1..n
  BY DEF ReplaysOf, PendingType
<1>3. IsFiniteSet(1..n)
  BY FS_Interval
<1>4. IsFiniteSet(ReplaysOf(p))
  BY <1>2, <1>3, FS_Subset
<1>5. /\ Cardinality(ReplaysOf(q)) <= Cardinality(ReplaysOf(p))
      /\ Cardinality(ReplaysOf(q)) \in Nat /\ Cardinality(ReplaysOf(p)) \in Nat
  BY <1>2, <1>4, FS_Subset, FS_CardinalityType
<1> QED
  BY <1>1, <1>2, <1>5, ReplayAssumption

\* The channel has forgotten its packets, and its requests are told to stop.
LEMMA FailKeepsParts ==
  ASSUME IInv, NEW p, DOMAIN p \subseteq Requests, \A r \in DOMAIN p : p[r] = pending[r],
         Fail(p), UNCHANGED <<next, replayKey, aged>>
  PROVE  IInv'
<1>1. /\ phase' = "closed" /\ history' = Nothing /\ DOMAIN history' = {}
      /\ pending' = [q \in DOMAIN p |-> [p[q] EXCEPT !.stage = "aborted"]]
  BY DEF Fail, Aborted, Nothing
<1>2. /\ DOMAIN pending' \subseteq DOMAIN pending
      /\ pending' = [q \in DOMAIN pending' |-> pending'[q]]
      /\ \A r \in DOMAIN pending' :
           /\ pending'[r] \in Request /\ pending'[r].stage = "aborted"
           /\ pending'[r].kind = pending[r].kind /\ pending'[r].entry = pending[r].entry
  <2>1. \A r \in DOMAIN p : p[r] \in Request /\ r \in DOMAIN pending
    BY DEF IInv, PendingType, Requests
  <2> QED
    BY <1>1, <2>1 DEF Request
<1>3. next \in Nat
  BY ReplayAssumption DEF IInv
<1>4. /\ PendingType(pending', next) /\ ReplaysOf(pending') \subseteq ReplaysOf(pending)
      /\ Cardinality(ReplaysOf(pending')) <= MaxReplays
  BY <1>2, <1>3, PendingShrinks DEF IInv, Bounded
<1>5. Linked(history', pending')
  <2>1. EntryLinks(history', pending')
    BY <1>1 DEF EntryLinks
  <2>2. \A r \in ReplaysOf(pending') : r \in DOMAIN pending'
    BY DEF ReplaysOf
  <2>3. ReplayLinks(history', pending')
    BY <1>1, <1>2, <1>4, <2>2 DEF IInv, Linked, ReplayLinks
  <2> QED
    BY <2>1, <2>3 DEF Linked
<1>6. HistoryType(history', next) /\ OneKey(history', replayKey)
  BY <1>1 DEF HistoryType, OneKey, Nothing
<1>7. Cardinality(DOMAIN history') <= HistoryPackets
  BY <1>1, FS_EmptySet, ReplayAssumption
<1> QED
  BY <1>1, <1>2, <1>4, <1>5, <1>6, <1>7 DEF IInv, Bounded, ClosedInv, Requests

\* The end of request r, after its reply was noted in h.
LEMMA EndKeepsInv ==
  ASSUME IInv, NEW r \in Requests, NEW h,
         HistoryType(h, next), Linked(h, pending), DOMAIN h = DOMAIN history,
         \A s \in DOMAIN h : h[s].body = history[s].body,
         history' = Unlinked(r, h), pending' = Without(r),
         UNCHANGED <<next, phase, replayKey, aged>>
  PROVE  IInv'
<1>1. DOMAIN pending' = Requests \ {r} /\ pending' = [q \in DOMAIN pending' |-> pending[q]]
  BY DEF Without, Restrict, Requests
<1>2. next \in Nat
  BY ReplayAssumption DEF IInv
<1>3. \A q \in DOMAIN pending' : q \in DOMAIN pending /\ pending'[q] = pending[q]
  BY <1>1 DEF Requests
<1>4. \A q \in DOMAIN pending' : pending'[q] \in Request
  BY <1>3 DEF IInv, PendingType
<1>5. PendingType(pending', next) /\ Cardinality(ReplaysOf(pending')) <= MaxReplays
  BY <1>1, <1>2, <1>3, <1>4, PendingShrinks DEF IInv, Bounded
<1>6. Linked(history', pending')
  BY LinkedFinish
<1>7. /\ history' = [s \in DOMAIN history |-> history'[s]]
      /\ \A s \in DOMAIN history : history'[s] \in Entry /\ history'[s].body = history[s].body
  <2>1. /\ history' = [s \in DOMAIN history |-> history'[s]]
        /\ \A s \in DOMAIN history :
             \/ history'[s] = h[s]
             \/ history'[s] = [h[s] EXCEPT !.pending = 0]
             \/ history'[s] = [h[s] EXCEPT !.originals = @ \ {r}]
    BY DEF Unlinked
  <2>2. \A s \in DOMAIN history : h[s] \in Entry
    BY DEF HistoryType
  <2>3. 0 \in 0..MaxRequest
    BY ReplayAssumption
  <2>4. ASSUME NEW s \in DOMAIN history
        PROVE  history'[s] \in Entry /\ history'[s].body = h[s].body
    <3>1. h[s] \in Entry
      BY <2>2
    <3>2. CASE history'[s] = h[s]
      BY <3>1, <3>2
    <3>3. CASE history'[s] = [h[s] EXCEPT !.pending = 0]
      BY <2>3, <3>1, <3>3 DEF Entry
    <3>4. CASE history'[s] = [h[s] EXCEPT !.originals = @ \ {r}]
      BY <3>1, <3>4 DEF Entry
    <3> QED
      BY <2>1, <3>2, <3>3, <3>4
  <2> QED
    BY <2>1, <2>4
<1>8. HistoryType(history', next) /\ OneKey(history', replayKey)
  BY <1>7 DEF IInv, HistoryType, OneKey
<1>9. ClosedInv'
  BY <1>3, <1>7 DEF IInv, ClosedInv, Requests
<1> QED
  BY <1>5, <1>6, <1>7, <1>8, <1>9 DEF IInv, Bounded

LEMMA ProgressKeepsInv ==
  ASSUME IInv, NEW r \in Ids, Progress(r)
  PROVE  IInv'
<1>1. /\ r \in DOMAIN pending /\ pending[r].stage \in {"new", "sent"}
      /\ pending' = [pending EXCEPT ![r].stage = IF @ = "new" THEN "sent" ELSE "receiving"]
      /\ UNCHANGED <<next, phase, replayKey, history, aged>>
  BY DEF Progress, Requests
<1>2. /\ DOMAIN pending' = DOMAIN pending
      /\ pending' = [q \in DOMAIN pending' |-> pending'[q]]
      /\ \A q \in DOMAIN pending' : /\ pending'[q] \in Request
                                    /\ pending'[q].kind = pending[q].kind
                                    /\ pending'[q].entry = pending[q].entry
  <2>1. \A q \in DOMAIN pending : pending[q] \in Request
    BY DEF IInv, PendingType
  <2> QED
    BY <1>1, <2>1 DEF Request
<1>3. next \in Nat
  BY ReplayAssumption DEF IInv
<1>4. PendingType(pending', next) /\ Cardinality(ReplaysOf(pending')) <= MaxReplays
  BY <1>2, <1>3, PendingShrinks DEF IInv, Bounded
<1>5. Linked(history', pending')
  BY <1>1, <1>2, LinkedSame DEF IInv
<1>6. ClosedInv'
  <2>1. phase # "closed"
    BY <1>1 DEF IInv, ClosedInv, Requests
  <2> QED
    BY <1>1, <2>1 DEF ClosedInv
<1> QED
  BY <1>1, <1>4, <1>5, <1>6 DEF IInv, Bounded

LEMMA DeliverKeepsInv ==
  ASSUME IInv, NEW r \in Ids, NEW reply \in Replies, Deliver(r, reply)
  PROVE  IInv'
<1> DEFINE h == Noted(r, reply)
<1>1. /\ h = [s \in DOMAIN history |-> h[s]] /\ DOMAIN h = DOMAIN history
      /\ \A s \in DOMAIN history :
           h[s] = history[s] \/ h[s] = [history[s] EXCEPT !.reply = reply, !.attempts = 0]
  BY DEF Noted
<1> HIDE DEF h
<1>2. \A s \in DOMAIN history : /\ h[s] \in Entry /\ h[s].body = history[s].body
                                /\ h[s].pending = history[s].pending
                                /\ h[s].originals = history[s].originals
  <2>1. \A s \in DOMAIN history : history[s] \in Entry
    BY DEF IInv, HistoryType
  <2>2. 0 \in 0..MaxAttempts
    BY ReplayAssumption
  <2>3. \A e \in Entry :
          LET f == [e EXCEPT !.reply = reply, !.attempts = 0] IN
          /\ f \in Entry /\ f.body = e.body /\ f.pending = e.pending
          /\ f.originals = e.originals
    BY <2>2 DEF Entry
  <2> QED
    BY <1>1, <2>1, <2>3
<1>3. HistoryType(h, next)
  BY <1>1, <1>2 DEF IInv, HistoryType
<1>4. Linked(h, pending)
  <2>1. Linked(history, pending)
    BY DEF IInv
  <2>2. \A q \in DOMAIN pending :
          pending[q].kind = pending[q].kind /\ pending[q].entry = pending[q].entry
    OBVIOUS
  <2>3. /\ DOMAIN h = DOMAIN history /\ DOMAIN pending = DOMAIN pending
        /\ \A s \in DOMAIN history : /\ h[s].pending = history[s].pending
                                     /\ h[s].originals = history[s].originals
    BY <1>1, <1>2
  <2> QED
    BY <2>1, <2>2, <2>3, LinkedSame
<1> QED
  BY <1>1, <1>2, <1>3, <1>4, EndKeepsInv DEF Deliver, h

LEMMA FinishKeepsInv ==
  ASSUME IInv, NEW r \in Ids, Finish(r)
  PROVE  IInv'
BY EndKeepsInv DEF Finish, IInv

LEMMA FailuresKeepInv ==
  ASSUME IInv, Close \/ \E r \in Ids : RequestFails(r)
  PROVE  IInv'
<1>1. CASE Close
  BY <1>1, FailKeepsParts DEF Close, Requests
<1>2. ASSUME NEW r \in Ids, RequestFails(r)
      PROVE  IInv'
  <2>1. /\ DOMAIN Without(r) \subseteq Requests
        /\ \A q \in DOMAIN Without(r) : Without(r)[q] = pending[q]
    BY DEF Without, Restrict
  <2> QED
    BY <1>2, <2>1, FailKeepsParts DEF RequestFails
<1> QED
  BY <1>1, <1>2

-----------------------------------------------------------------------------
(* A turn of the recovery loop.                                             *)

\* What prune, make_room() and rotate_stale_replay() leave behind.
LEMMA RecoveryPrepares ==
  ASSUME IInv, NEW rs, NEW room, NEW h, h = Retired(room, Kept),
         NEW p, p = Aborted(rs, pending)
  PROVE  /\ HistoryType(h, next) /\ PendingType(p, next)
         /\ DOMAIN h = DOMAIN Kept /\ DOMAIN h \subseteq DOMAIN history
         /\ DOMAIN p = Requests /\ ReplaysOf(p) = Replays
         /\ Linked(h, p) /\ OneKey(h, IF DOMAIN Kept = {} THEN NoKey ELSE replayKey)
         /\ Bounded(h, p)
<1> DEFINE k == Kept
<1>1. /\ DOMAIN k \subseteq DOMAIN history /\ k = Restrict(history, DOMAIN k)
  BY DEF Kept, Restrict
<1> HIDE DEF k
<1>2. HistoryType(k, next) /\ Linked(k, pending) /\ OneKey(k, replayKey)
  BY <1>1, LinkedForget, TypeForget, OneKeyForget DEF IInv
<1>3. /\ h = [s \in DOMAIN k |-> h[s]] /\ DOMAIN h = DOMAIN k
      /\ \A s \in DOMAIN k : h[s] = k[s] \/ h[s] = [k[s] EXCEPT !.retired = TRUE]
  BY DEF Retired, k
<1>4. \A s \in DOMAIN k : /\ h[s] \in Entry /\ h[s].body = k[s].body
                          /\ h[s].pending = k[s].pending
                          /\ h[s].originals = k[s].originals
  <2>1. \A s \in DOMAIN k : k[s] \in Entry
    BY <1>2 DEF HistoryType
  <2>2. \A e \in Entry : LET f == [e EXCEPT !.retired = TRUE]
                         IN /\ f \in Entry /\ f.body = e.body
                            /\ f.pending = e.pending /\ f.originals = e.originals
    BY DEF Entry
  <2> QED
    BY <1>3, <2>1, <2>2
<1>5. /\ p = [r \in DOMAIN p |-> p[r]] /\ DOMAIN p = DOMAIN pending
      /\ \A r \in DOMAIN pending :
           p[r] \in Request /\ p[r].kind = pending[r].kind /\ p[r].entry = pending[r].entry
  <2>1. \A r \in DOMAIN pending : pending[r] \in Request
    BY DEF IInv, PendingType
  <2>2. /\ p = [r \in DOMAIN pending |-> p[r]]
        /\ \A r \in DOMAIN pending :
             p[r] = pending[r] \/ p[r] = [pending[r] EXCEPT !.stage = "aborted"]
    BY DEF Aborted
  <2> QED
    BY <2>1, <2>2 DEF Request
<1>6. HistoryType(h, next) /\ OneKey(h, IF DOMAIN k = {} THEN NoKey ELSE replayKey)
  BY <1>2, <1>3, <1>4 DEF HistoryType, OneKey
<1>7. Linked(h, p) /\ ReplaysOf(p) = ReplaysOf(pending) /\ ReplaysOf(pending) = Replays
  <2>1. /\ \A s \in DOMAIN k : h[s].pending = k[s].pending /\ h[s].originals = k[s].originals
        /\ \A r \in DOMAIN pending : p[r].kind = pending[r].kind /\ p[r].entry = pending[r].entry
    BY <1>4, <1>5
  <2>2. Linked(k, pending) /\ DOMAIN h = DOMAIN k /\ DOMAIN p = DOMAIN pending
    BY <1>2, <1>3, <1>5
  <2>3. Linked(h, p) /\ ReplaysOf(p) = ReplaysOf(pending)
    BY <2>1, <2>2, LinkedSame
  <2> QED
    BY <2>3 DEF ReplaysOf, Replays, Requests
<1>8. PendingType(p, next)
  BY <1>5 DEF IInv, PendingType
<1>9. Bounded(h, p)
  <2>1. IsFiniteSet(1..next) /\ DOMAIN history \subseteq 1..next
    <3>1. next \in Int /\ DOMAIN history \subseteq 1..next
      BY ReplayAssumption DEF IInv, HistoryType
    <3> QED
      BY <3>1, FS_Interval
  <2>2. IsFiniteSet(DOMAIN history)
    BY <2>1, FS_Subset
  <2>3. /\ Cardinality(DOMAIN h) <= Cardinality(DOMAIN history)
        /\ Cardinality(DOMAIN h) \in Nat /\ Cardinality(DOMAIN history) \in Nat
    BY <1>1, <1>3, <2>2, FS_Subset, FS_CardinalityType
  <2> QED
    BY <1>7, <2>3, ReplayAssumption DEF IInv, Bounded
<1> QED
  BY <1>1, <1>3, <1>5, <1>6, <1>7, <1>8, <1>9 DEF k, Requests

\* try_replay() for a packet without a replay in flight.
LEMMA ReplayKeepsParts ==
  ASSUME IInv, NEW h, HistoryType(h, next), DOMAIN h \subseteq DOMAIN history,
         NEW p, PendingType(p, next), DOMAIN p = Requests, ReplaysOf(p) = Replays,
         Linked(h, p), NEW k, OneKey(h, k), Bounded(h, p),
         NEW s \in DOMAIN h, Eligible(h, s), Replay(h, p, s)
  PROVE  /\ next' \in 0..MaxRequest /\ aged \in 0..next'
         /\ HistoryType(history', next') /\ PendingType(pending', next')
         /\ Linked(history', pending') /\ OneKey(history', k) /\ Bounded(history', pending')
<1> DEFINE r == next + 1
<1>1. /\ next < MaxRequest /\ Cardinality(Replays) < MaxReplays /\ next' = r
      /\ history' = [h EXCEPT ![s].attempts = @ + 1, ![s].pending = r]
      /\ pending' = With(p, r, NewRequest("replay", s))
  BY DEF Replay
<1>2. /\ r \in Nat /\ r \in Ids /\ r \in 0..MaxRequest /\ r \notin Requests
      /\ 0 \notin DOMAIN h /\ 0 \notin Requests /\ aged \in 0..r
      /\ \A x \in 1..next : x \in 1..r /\ x < r
  BY <1>1, FreshNumber
<1> HIDE DEF r
<1>3. h[s] \in Entry /\ h[s].pending = 0 /\ h[s].attempts + 1 \in 0..MaxAttempts
  <2>1. h[s] \in Entry /\ h[s].pending = 0 /\ h[s].attempts < MaxAttempts
    BY DEF HistoryType, Eligible
  <2>2. h[s].attempts \in 0..MaxAttempts /\ MaxAttempts \in Nat
    BY <2>1, ReplayAssumption DEF Entry
  <2> QED
    BY <2>1, <2>2
<1>4. /\ DOMAIN history' = DOMAIN h
      /\ history' = [x \in DOMAIN h |-> history'[x]]
      /\ \A x \in DOMAIN h : history'[x] \in Entry /\ history'[x].body = h[x].body
  BY <1>1, <1>2, <1>3 DEF HistoryType, Entry
<1>5. HistoryType(history', r) /\ OneKey(history', k)
  BY <1>2, <1>4 DEF HistoryType, OneKey
<1>6. Linked(history', pending') /\ ReplaysOf(pending') = Replays \cup {r}
  BY <1>1, <1>2, <1>3, LinkedReplay
<1>7. PendingType(pending', r)
  <2>1. NewRequest("replay", s) \in Request /\ s <= r /\ r \in 1..r
    <3>1. s \in 1..next
      BY DEF HistoryType
    <3>2. next \in Nat /\ MaxRequest \in Nat /\ next < MaxRequest
      BY <1>1, ReplayAssumption DEF IInv
    <3>3. s \in 0..MaxRequest /\ s <= r
      BY <1>2, <3>1, <3>2
    <3> QED
      BY <1>2, <3>3 DEF NewRequest, Request, Ids
  <2>2. /\ DOMAIN pending' = Requests \cup {r}
        /\ pending'[r] = NewRequest("replay", s)
        /\ \A x \in Requests : pending'[x] = p[x]
        /\ pending' = [x \in Requests \cup {r} |-> pending'[x]]
    BY <1>1, <1>2 DEF With
  <2>3. \A x \in Requests : p[x] \in Request /\ p[x].entry <= x /\ x \in 1..r
    BY <1>2 DEF PendingType
  <2>4. NewRequest("replay", s).entry = s
    BY DEF NewRequest
  <2> QED
    BY <2>1, <2>2, <2>3, <2>4 DEF PendingType
<1>8. Cardinality(ReplaysOf(pending')) <= MaxReplays
  <2>1. IsFiniteSet(1..next) /\ Replays \subseteq 1..next
    <3>1. next \in Int /\ Replays \subseteq 1..next
      BY ReplayAssumption DEF IInv, PendingType, Replays, Requests
    <3>2. IsFiniteSet(1..next)
      BY <3>1, FS_Interval
    <3> QED
      BY <3>1, <3>2
  <2>2. IsFiniteSet(Replays) /\ Cardinality(Replays) \in Nat /\ r \notin Replays
    BY <1>2, <2>1, FS_Subset, FS_CardinalityType DEF Replays
  <2>3. Cardinality(Replays \cup {r}) = Cardinality(Replays) + 1
    BY <2>2, FS_AddElement
  <2> QED
    BY <1>1, <1>6, <2>2, <2>3, ReplayAssumption
<1> QED
  BY <1>1, <1>2, <1>4, <1>5, <1>6, <1>7, <1>8 DEF Bounded

\* A turn of the loop forgets what was too old, and launches no request but for
\* a packet that it kept and whose answer has not begun to arrive.
RecoverReplays ==
  /\ \A s \in DOMAIN history \ DOMAIN history' : ~(s > aged)
  /\ next' # next =>
       LET s == pending'[next'].entry
       IN /\ pending'[next'].kind = "replay"
          /\ ~\E r \in Requests : /\ pending[r].kind = "original" /\ pending[r].entry = s
                                  /\ pending[r].stage = "receiving"

LEMMA RecoverKeepsInv ==
  ASSUME IInv, Recover
  PROVE  IInv' /\ RecoverReplays
<1> DEFINE k == IF DOMAIN Kept = {} THEN NoKey ELSE replayKey
<1>1. phase = "open" /\ replayKey' = k /\ UNCHANGED <<phase, aged>>
  BY DEF Recover
<1>2. PICK room \in {{}} \cup {{r} : r \in Retirable(Kept)},
           stale \in {{}} \cup {{r} : r \in Stale} :
         LET h == Retired(room, Kept)
             p == Aborted(room \cup stale, pending)
         IN \/ next' = next /\ history' = h /\ pending' = p
            \/ \E s \in DOMAIN h : Eligible(h, s) /\ Replay(h, p, s)
  BY Zenon DEF Recover
<1> DEFINE h == Retired(room, Kept)
           p == Aborted(room \cup stale, pending)
<1>3. \/ next' = next /\ history' = h /\ pending' = p
      \/ \E s \in DOMAIN h : Eligible(h, s) /\ Replay(h, p, s)
  BY <1>2
<1>4. /\ HistoryType(h, next) /\ PendingType(p, next)
      /\ DOMAIN h \subseteq DOMAIN history /\ DOMAIN p = Requests /\ ReplaysOf(p) = Replays
      /\ Linked(h, p) /\ OneKey(h, k) /\ Bounded(h, p) /\ DOMAIN h = DOMAIN Kept
  BY RecoveryPrepares
<1> HIDE DEF h, p, k
<1>5. /\ next' \in 0..MaxRequest /\ aged \in 0..next'
      /\ HistoryType(history', next') /\ PendingType(pending', next')
      /\ Linked(history', pending') /\ OneKey(history', k) /\ Bounded(history', pending')
  <2>1. CASE next' = next /\ history' = h /\ pending' = p
    BY <1>4, <2>1 DEF IInv
  <2>2. ASSUME NEW s \in DOMAIN h, Eligible(h, s), Replay(h, p, s)
        PROVE  /\ next' \in 0..MaxRequest /\ aged \in 0..next'
               /\ HistoryType(history', next') /\ PendingType(pending', next')
               /\ Linked(history', pending') /\ OneKey(history', k)
               /\ Bounded(history', pending')
    BY <1>4, <2>2, ReplayKeepsParts
  <2> QED
    BY <1>3, <2>1, <2>2
<1>6. DOMAIN history' = DOMAIN Kept
  BY <1>3, <1>4 DEF Replay, HistoryType
<1>7. \A s \in DOMAIN history \ DOMAIN Kept : ~(s > aged)
  BY DEF Kept, Restrict
<1>8. ASSUME NEW s \in DOMAIN h, Eligible(h, s), Replay(h, p, s)
      PROVE  /\ pending'[next'].kind = "replay" /\ pending'[next'].entry = s
             /\ ~\E r \in Requests : /\ pending[r].kind = "original"
                                     /\ pending[r].entry = s
                                     /\ pending[r].stage = "receiving"
  <2>1. pending'[next'] = NewRequest("replay", s)
    BY <1>8 DEF Replay, With
  <2>2. ASSUME NEW r \in Requests, pending[r].kind = "original", pending[r].entry = s
        PROVE  r \in h[s].originals
    <3>1. s \in DOMAIN history /\ r \notin ReplaysOf(p) /\ ReplaysOf(p) = Replays
      BY <1>4, <2>2 DEF Replays
    <3>2. p[r].entry = s
      BY <2>2 DEF p, Aborted, Requests
    <3> QED
      BY <1>4, <2>2, <3>1, <3>2 DEF Linked, EntryLinks
  <2> QED
    BY <1>8, <2>1, <2>2 DEF NewRequest, Eligible
<1>9. next' # next => \E s \in DOMAIN h : Eligible(h, s) /\ Replay(h, p, s)
  BY <1>3
<1>10. RecoverReplays
  BY <1>6, <1>7, <1>8, <1>9 DEF RecoverReplays
<1> QED
  BY <1>1, <1>5, <1>10 DEF IInv, ClosedInv

-----------------------------------------------------------------------------
LEMMA InitIInv == Init => IInv
<1> SUFFICES ASSUME Init PROVE IInv
  OBVIOUS
<1>1. /\ next = 0 /\ phase = "open" /\ history = Nothing /\ pending = Nothing /\ aged = 0
      /\ DOMAIN Nothing = {} /\ Nothing = [s \in {} |-> 0]
  BY DEF Init, Nothing
<1>2. HistoryType(history, next) /\ PendingType(pending, next) /\ OneKey(history, replayKey)
  BY <1>1 DEF HistoryType, PendingType, OneKey
<1>3. ReplaysOf(pending) = {} /\ Linked(history, pending)
  BY <1>1 DEF Linked, EntryLinks, ReplayLinks, ReplaysOf
<1>4. Bounded(history, pending)
  <2>1. Cardinality({}) = 0 /\ DOMAIN history = {}
    BY <1>1, FS_EmptySet
  <2> QED
    BY <1>3, <2>1, ReplayAssumption DEF Bounded
<1> QED
  BY <1>1, <1>2, <1>3, <1>4, ReplayAssumption DEF IInv, ClosedInv

LEMMA NextIInv == IInv /\ [Next]_vars => IInv'
<1> SUFFICES ASSUME IInv, [Next]_vars PROVE IInv'
  OBVIOUS
<1>1. ASSUME NEW b \in Bodies, NEW granted \in BOOLEAN, Upload(b, granted)
      PROVE  IInv'
  BY <1>1, UploadKeepsInv
<1>2. ASSUME NEW r \in Ids, Progress(r)
      PROVE  IInv'
  BY <1>2, ProgressKeepsInv
<1>3. ASSUME NEW r \in Ids, Finish(r)
      PROVE  IInv'
  BY <1>3, FinishKeepsInv
<1>4. ASSUME NEW r \in Ids, NEW reply \in Replies, Deliver(r, reply)
      PROVE  IInv'
  BY <1>4, DeliverKeepsInv
<1>5. CASE Close \/ \E r \in Ids : RequestFails(r)
  BY <1>5, FailuresKeepInv
<1>6. CASE Recover
  BY <1>6, RecoverKeepsInv
<1>7. CASE Age
  BY <1>7 DEF Age, IInv, ClosedInv, Requests
<1>8. CASE UNCHANGED vars
  BY <1>8 DEF vars, IInv, ClosedInv, Requests
<1> QED
  BY <1>1, <1>2, <1>3, <1>4, <1>5, <1>6, <1>7, <1>8 DEF Next

\* History and requests are of their types, agree on who stands for which packet
\* and keep to their bounds, and a closed channel has let everything go.
THEOREM Invariance == Spec => []IInv
BY InitIInv, NextIInv, PTL DEF Spec

-----------------------------------------------------------------------------
(* What follows for the properties that TLC checks.                         *)

\* An entry is occupied exactly while a replay of it is in flight, its originals
\* are the originals in flight, and a closed channel remembers nothing.
THEOREM EntriesMatchRequestsAlways == Spec => []EntriesMatchRequests
<1>1. IInv => EntriesMatchRequests
  BY DEF IInv, Linked, EntryLinks, ReplaysOf, Replays, Requests, OneKey, Bounded, ClosedInv,
         EntriesMatchRequests, HistoryIsOfOneKey
<1> QED
  BY <1>1, Invariance, PTL

\* A packet has one replay in flight at most, and a channel MaxReplays.
THEOREM OneReplayPerPacketAlways == Spec => []OneReplayPerPacket
<1>1. IInv => OneReplayPerPacket
  BY DEF IInv, Linked, ReplayLinks, ReplaysOf, Replays, Requests, Bounded, OneReplayPerPacket
<1> QED
  BY <1>1, Invariance, PTL

\* What each step does to the requests launched and to the packets remembered.
LEMMA StepCases ==
  ASSUME IInv, [Next]_vars
  PROVE  \/ UploadRemembers
         \/ RecoverReplays
         \/ /\ next' = next
            /\ DOMAIN history' = DOMAIN history \/ phase' = "closed"
<1>1. ASSUME NEW b \in Bodies, NEW granted \in BOOLEAN, Upload(b, granted)
      PROVE  UploadRemembers
  BY <1>1, UploadKeepsInv
<1>2. CASE Recover
  BY <1>2, RecoverKeepsInv
<1>3. ASSUME NEW r \in Ids, Progress(r) \/ Finish(r) \/ RequestFails(r)
      PROVE  next' = next /\ (DOMAIN history' = DOMAIN history \/ phase' = "closed")
  BY <1>3 DEF Progress, Finish, RequestFails, Fail, Unlinked
<1>4. ASSUME NEW r \in Ids, NEW reply \in Replies, Deliver(r, reply)
      PROVE  next' = next /\ DOMAIN history' = DOMAIN history
  BY <1>4 DEF Deliver, Unlinked, Noted
<1>5. CASE Close \/ Age \/ UNCHANGED vars
  BY <1>5 DEF Close, Fail, Age, vars
<1> QED
  BY <1>1, <1>2, <1>3, <1>4, <1>5 DEF Next

\* remember() never gives up the packet that it was called for.
THEOREM NewestIsKeptAlways == Spec => NewestIsKept
<1>1. IInv /\ IInv' /\ [Next]_vars =>
        (next' # next /\ pending'[next'].kind = "original" /\ pending'[next'].entry # 0
          => /\ pending'[next'].entry \in DOMAIN history'
             /\ next' \in history'[pending'[next'].entry].originals)
  <2> SUFFICES ASSUME IInv, IInv', [Next]_vars, next' # next,
                      pending'[next'].kind = "original", pending'[next'].entry # 0
               PROVE  /\ pending'[next'].entry \in DOMAIN history'
                      /\ next' \in history'[pending'[next'].entry].originals
    OBVIOUS
  <2>1. pending'[next'].entry \in DOMAIN history'
    BY StepCases DEF UploadRemembers, RecoverReplays
  <2>2. next' \in Requests'
    BY StepCases DEF UploadRemembers, RecoverReplays
  <2>3. EntryLinks(history', pending')
    BY DEF IInv, Linked
  <2> QED
    BY <2>1, <2>2, <2>3 DEF EntryLinks, ReplaysOf, Requests
<1> QED
  BY <1>1, Invariance, PTL DEF Spec, NewestIsKept

\* A retired packet that can still be replayed outlives every answered one.
THEOREM RetiredOutlivesAnsweredAlways == Spec => RetiredOutlivesAnswered
<1>1. IInv /\ [Next]_vars =>
        \A s \in DOMAIN history \ DOMAIN history' :
          /\ history[s].retired /\ history[s].attempts < MaxAttempts /\ s > aged
          /\ phase' = "open" /\ replayKey' = replayKey
          => \A q \in DOMAIN history' :
               history'[q].originals # {} \/ history'[q].retired
  BY StepCases DEF UploadRemembers, RecoverReplays, Protected
<1> QED
  BY <1>1, Invariance, PTL DEF Spec, RetiredOutlivesAnswered

\* The recovery loop posts no packet again whose answer has begun to arrive.
THEOREM AnswerIsAwaitedAlways == Spec => AnswerIsAwaited
<1>1. IInv /\ [Next]_vars =>
        (next' # next /\ pending'[next'].kind = "replay" =>
          ~\E r \in Requests : /\ pending[r].kind = "original"
                               /\ pending[r].entry = pending'[next'].entry
                               /\ pending[r].stage = "receiving")
  BY StepCases DEF UploadRemembers, RecoverReplays
<1> QED
  BY <1>1, Invariance, PTL DEF Spec, AnswerIsAwaited

=============================================================================

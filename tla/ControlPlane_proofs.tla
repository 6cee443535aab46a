-------------------------- MODULE ControlPlane_proofs --------------------------
(***************************************************************************)
(* Theorems about ControlPlane, for any number of POSTs, crashes and       *)
(* failed steps, and any fields.                                           *)
(***************************************************************************)
EXTENDS ControlPlane, SequenceTheorems, TLAPS

-----------------------------------------------------------------------------
(* The inductive invariant.                                                 *)

Answers == {"none", "ok", "error"}
Places == {"reading", "locking", "waiting", "answering", "done"}

\* What the variables look like between two steps of the main loop, and within.
Shape ==
  /\ file \in Configs /\ shared \in Configs /\ current = Effective(shared)
  /\ queue \in Seq(Changes(Posts))
  /\ step \in {"select", "check", "save", "stop", "start", "restore", "revive"}
  /\ IF step = "select" THEN change = NoChange ELSE change \in Changes(Writers)
  /\ pc \in [Posts -> Places] /\ answer \in [Posts -> Answers]

\* The file is c, but for the operator's edit.
FileIs(c) ==
  \A f \in Fields :
    file[f] = c[f] \/ (f = FieldOf[Operator] /\ file[f] = Operator)

FileInOrder == "file" \in broken \/ FileIs(shared)

\* Where the file and the listeners are at each step of apply().
Service ==
  /\ step \in {"select", "check", "save", "stop"} =>
       running = IF "listener" \in broken THEN Down ELSE Effective(shared)
  /\ step \in {"start", "restore", "revive"} => running = Down
  /\ step \notin {"save", "stop"} => spare = Down
  /\ step # "select" => spare \in {Down, New}
  /\ step \in {"select", "check", "save", "revive"} => FileInOrder
  /\ step # "select" /\ ~Persist => FileInOrder
  /\ step \in {"stop", "start", "restore"} => FileIs(change.config)
  /\ step \in {"check", "save"} /\ ~Persist => FileIs(change.config)

Pending(h) == h = change.owner \/ \E i \in DOMAIN queue : queue[i].owner = h

\* A POST has one change in all; while its handler waits, with the lock, it is
\* the last one, and afterwards it is a late one.
Turns ==
  /\ \A i, j \in DOMAIN queue : queue[i].owner = queue[j].owner => i = j
  /\ \A i \in DOMAIN queue : queue[i].owner # change.owner
  /\ \A h \in Posts :
       /\ Pending(h) => pc[h] = "waiting" \/ h \in late
       /\ h \in late => pc[h] = "done"
       /\ pc[h] = "waiting" =>
            /\ mutation = h
            /\ h = change.owner => queue = <<>>
            /\ \A i \in DOMAIN queue : queue[i].owner = h => i = Len(queue)

\* A change sets its own field, and is behind the panel's configuration in
\* those it cannot know.
Snapshot(c) ==
  /\ c.config[FieldOf[c.owner]] = c.owner
  /\ \A f \in Fields :
       c.config[f] # shared[f] => f \in c.unknown \cup {FieldOf[c.owner]}

Snapshots ==
  /\ \A i \in DOMAIN queue : Snapshot(queue[i])
  /\ step # "select" /\ Persist => Snapshot(change)

\* The field of h was last written by h, or another of its writers.
Keeps(h, c) == c[FieldOf[h]] \in {w \in Writers : FieldOf[w] = FieldOf[h]}

Acknowledged ==
  \A h \in Posts : answer[h] = "ok" =>
    /\ pc[h] \in {"answering", "done"}
    /\ Keeps(h, file) /\ Keeps(h, shared)
    /\ step # "select" => Keeps(h, change.config)
    /\ \A i \in DOMAIN queue : Keeps(h, queue[i].config)

IInv == Shape /\ Service /\ Turns /\ Snapshots /\ Acknowledged

LEMMA InitIInv == Init => IInv
<1> SUFFICES ASSUME Init
             PROVE  IInv
  OBVIOUS
<1>1. queue = <<>> /\ DOMAIN queue = {} /\ queue \in Seq(Changes(Posts))
  BY EmptySeq DEF Init
<1>2. \A h \in Posts : h # Factory
  BY ControlAssumption DEF Writers
<1>3. Shape
  BY <1>1 DEF Init, Shape, Configs, Places, Answers
<1>4. Service
  BY DEF Init, Service, FileInOrder, FileIs
<1>5. Turns
  BY <1>1, <1>2 DEF Init, Turns, Pending, NoChange, Nobody
<1>6. Snapshots /\ Acknowledged
  BY <1>1 DEF Init, Snapshots, Acknowledged
<1> QED
  BY <1>3, <1>4, <1>5, <1>6 DEF IInv

-----------------------------------------------------------------------------
(* Facts about configurations and writers.                                  *)

LEMMA EffectiveIsUp ==
  ASSUME NEW c \in Configs
  PROVE  Effective(c) # Down
<1>1. DOMAIN Effective(c) = Fields /\ DOMAIN Down = {}
  BY DEF Effective, Configs, Down
<1> QED
  BY <1>1, ControlAssumption

LEMMA WritersDiffer ==
  /\ Posts \subseteq Writers /\ Operator \in Writers /\ Operator \notin Posts
  /\ Factory \notin Writers
  /\ \A w \in Writers : FieldOf[w] \in Fields
BY ControlAssumption DEF Writers

LEMMA QueueOfChanges ==
  ASSUME Shape
  PROVE  /\ Len(queue) \in Nat /\ DOMAIN queue = 1..Len(queue)
         /\ \A i \in DOMAIN queue :
              /\ queue[i] \in Changes(Posts)
              /\ queue[i].owner \in Posts /\ queue[i].config \in Configs
<1>1. queue \in Seq(Changes(Posts))
  BY DEF Shape
<1>2. /\ Len(queue) \in Nat /\ DOMAIN queue = 1..Len(queue)
      /\ \A i \in DOMAIN queue : queue[i] \in Changes(Posts)
  BY <1>1, LenProperties, ElementOfSeq
<1> QED
  BY <1>2 DEF Changes

-----------------------------------------------------------------------------
(* The handlers.                                                            *)

\* A handler goes on without a change of its own.
LEMMA HandlerMoves ==
  ASSUME IInv, UNCHANGED <<serveVars, queue, hangup, broken>>,
         NEW h \in Posts, NEW p \in Places, NEW a \in Answers,
         pc' = [pc EXCEPT ![h] = p], answer' \in {answer, [answer EXCEPT ![h] = a]},
         a # "ok", p # "waiting", pc[h] = "waiting" => p = "done",
         p \in {"reading", "locking"} => pc[h] \in {"reading", "locking"},
         pc[h] \in {"answering", "done"} => p \in {"answering", "done"},
         mutation' = mutation \/ mutation \in {h, Nobody},
         late' = IF pc[h] = "waiting" THEN late \cup {h} ELSE late,
         h \in late => p = "done"
  PROVE  IInv'
<1>0. Shape /\ Service /\ Turns /\ Snapshots /\ Acknowledged
  BY DEF IInv
<1>1. /\ pc' \in [Posts -> Places] /\ answer' \in [Posts -> Answers]
      /\ pc'[h] = p /\ \A g \in Posts \ {h} : pc'[g] = pc[g]
      /\ \A g \in Posts : answer'[g] = "ok" => answer[g] = "ok"
  BY <1>0 DEF Shape
<1>2. Shape'
  BY <1>0, <1>1 DEF Shape, serveVars
<1>3. Service'
  BY <1>0 DEF Service, FileInOrder, FileIs, Persist, New, serveVars
<1>4. Turns'
  <2>1. \A g \in Posts : Pending(g)' <=> Pending(g)
    BY DEF Pending, serveVars
  <2>2. \A g \in Posts : g # Nobody
    BY WritersDiffer DEF Nobody
  <2>3. change' = change /\ queue' = queue
    BY DEF serveVars
  <2>4. ASSUME NEW g \in Posts, g # h
        PROVE  /\ Pending(g)' => pc'[g] = "waiting" \/ g \in late'
               /\ g \in late' => pc'[g] = "done"
               /\ pc'[g] = "waiting" =>
                    /\ mutation' = g
                    /\ g = change'.owner => queue' = <<>>
                    /\ \A i \in DOMAIN queue' :
                         queue'[i].owner = g => i = Len(queue')
    BY <1>0, <1>1, <2>1, <2>2, <2>3, <2>4 DEF Turns
  <2>5. /\ Pending(h)' => h \in late'
        /\ h \in late' => pc'[h] = "done"
    BY <1>0, <1>1, <2>1 DEF Turns
  <2> QED
    BY <1>0, <1>1, <2>3, <2>4, <2>5 DEF Turns
<1>5. Snapshots'
  BY <1>0 DEF Snapshots, Snapshot, Persist, serveVars
<1>6. Acknowledged'
  <2> SUFFICES ASSUME NEW g \in Posts, answer'[g] = "ok"
               PROVE  /\ pc'[g] \in {"answering", "done"}
                      /\ Keeps(g, file)' /\ Keeps(g, shared)'
                      /\ step' # "select" => Keeps(g, change.config)'
                      /\ \A i \in DOMAIN queue' : Keeps(g, queue'[i].config)
    BY DEF Acknowledged, Keeps
  <2>1. answer[g] = "ok"
    BY <1>1
  <2>2. pc'[g] \in {"answering", "done"}
    BY <1>0, <1>1, <2>1 DEF Acknowledged
  <2> QED
    BY <1>0, <2>1, <2>2 DEF Acknowledged, Keeps, serveVars
<1> QED
  BY <1>2, <1>3, <1>4, <1>5, <1>6 DEF IInv

LEMMA SubmitKeepsInv ==
  ASSUME IInv, NEW h \in Posts, Submit(h)
  PROVE  IInv'
<1>0. Shape /\ Service /\ Turns /\ Snapshots /\ Acknowledged
  BY DEF IInv
<1> DEFINE c == [config |-> [shared EXCEPT ![FieldOf[h]] = h], owner |-> h,
                 unknown |-> {}]
<1>1. CASE Len(queue) < QueueCap
  <2>1. /\ pc[h] = "locking" /\ mutation = Nobody /\ mutation' = h
        /\ queue' = Append(queue, c) /\ pc' = [pc EXCEPT ![h] = "waiting"]
        /\ UNCHANGED <<serveVars, answer, broken, late>>
    BY <1>1 DEF Submit, history
  <2>2. c \in Changes(Posts)
    BY <1>0, WritersDiffer DEF Shape, Configs, Changes
  <2>3. /\ queue' \in Seq(Changes(Posts)) /\ Len(queue) \in Nat
        /\ DOMAIN queue = 1..Len(queue) /\ Len(queue') = Len(queue) + 1
        /\ DOMAIN queue' = 1..(Len(queue) + 1)
        /\ \A i \in DOMAIN queue : queue'[i] = queue[i]
        /\ queue'[Len(queue) + 1] = c
    BY <1>0, <2>1, <2>2 DEF Shape
  <2>4. /\ pc' \in [Posts -> Places] /\ pc'[h] = "waiting"
        /\ \A g \in Posts \ {h} : pc'[g] = pc[g]
    BY <1>0, <2>1 DEF Shape, Places
  <2>5. /\ UNCHANGED <<file, shared, current, running, spare, step, change>>
        /\ \A i \in DOMAIN queue' : i \in DOMAIN queue \/ i = Len(queue) + 1
    BY <2>1, <2>3 DEF serveVars
  <2>6. Shape'
    BY <1>0, <2>1, <2>3, <2>4, <2>5 DEF Shape
  <2>7. Service'
    BY <1>0, <2>1, <2>5 DEF Service, FileInOrder, FileIs, Persist, New
  <2>8. ~Pending(h) /\ h \notin late
    BY <1>0, <2>1 DEF Turns
  <2>9. \A g \in Posts \ {h} : Pending(g)' <=> Pending(g)
    BY <2>3, <2>5 DEF Pending
  <2>10. \A g \in Posts : pc[g] # "waiting"
    BY <1>0, <2>1, WritersDiffer DEF Turns, Nobody
  <2>11. Turns'
    <3>1. \A i, j \in DOMAIN queue' :
            queue'[i].owner = queue'[j].owner => i = j
      BY <1>0, <2>3, <2>5, <2>8 DEF Turns, Pending
    <3>2. \A i \in DOMAIN queue' : queue'[i].owner # change'.owner
      BY <1>0, <2>3, <2>5, <2>8 DEF Turns, Pending
    <3>3. ASSUME NEW g \in Posts
          PROVE  /\ Pending(g)' => pc'[g] = "waiting" \/ g \in late'
                 /\ g \in late' => pc'[g] = "done"
      BY <1>0, <2>1, <2>4, <2>8, <2>9, <2>10 DEF Turns
    <3>4. ASSUME NEW g \in Posts, pc'[g] = "waiting"
          PROVE  /\ mutation' = g
                 /\ g = change'.owner => queue' = <<>>
                 /\ \A i \in DOMAIN queue' :
                      queue'[i].owner = g => i = Len(queue')
      <4>1. g = h
        BY <2>4, <2>10, <3>4
      <4>2. h # change'.owner /\ \A i \in DOMAIN queue : queue[i].owner # h
        BY <2>5, <2>8 DEF Pending
      <4> QED
        BY <2>1, <2>3, <2>5, <4>1, <4>2
    <3> QED
      BY <3>1, <3>2, <3>3, <3>4 DEF Turns
  <2>12. Snapshots'
    <3>1. c.config[FieldOf[c.owner]] = c.owner
          /\ \A f \in Fields : c.config[f] # shared[f] => f = FieldOf[c.owner]
      BY <1>0, WritersDiffer DEF Shape, Configs
    <3>2. Snapshot(c)
      BY <3>1 DEF Snapshot
    <3>3. \A i \in DOMAIN queue' : Snapshot(queue'[i])
      BY <1>0, <2>3, <2>5, <3>2 DEF Snapshots
    <3> QED
      BY <1>0, <2>5, <3>3 DEF Snapshots, Snapshot, Persist
  <2>13. Acknowledged'
    <3> SUFFICES ASSUME NEW g \in Posts, answer'[g] = "ok"
                 PROVE  /\ pc'[g] \in {"answering", "done"}
                        /\ Keeps(g, file)' /\ Keeps(g, shared)'
                        /\ step' # "select" => Keeps(g, change.config)'
                        /\ \A i \in DOMAIN queue' : Keeps(g, queue'[i].config)
      BY DEF Acknowledged, Keeps
    <3>1. answer[g] = "ok" /\ g # h
      BY <1>0, <2>1 DEF Acknowledged
    <3>2. Keeps(g, c.config)
      BY <1>0, <3>1, WritersDiffer DEF Acknowledged, Keeps, Shape, Configs
    <3>3. pc'[g] \in {"answering", "done"}
      BY <1>0, <2>4, <3>1 DEF Acknowledged
    <3> QED
      BY <1>0, <2>3, <2>5, <3>1, <3>2, <3>3 DEF Acknowledged, Keeps
  <2> QED
    BY <2>6, <2>7, <2>11, <2>12, <2>13 DEF IInv
<1>2. CASE ~(Len(queue) < QueueCap)
  <2>1. /\ pc[h] = "locking" /\ mutation = Nobody
        /\ queue' = queue /\ pc' = [pc EXCEPT ![h] = "answering"]
        /\ answer' = [answer EXCEPT ![h] = "error"]
        /\ UNCHANGED <<serveVars, hangup, broken, late>>
    BY <1>2 DEF Submit, history
  <2>2. h \notin late
    BY <1>0, <2>1 DEF Turns
  <2> QED
    BY <2>1, <2>2, HandlerMoves DEF Places, Answers
<1> QED
  BY <1>1, <1>2

LEMMA HandlersKeepInv ==
  ASSUME IInv, NEW h \in Posts,
         ReadRequest(h) \/ Reject(h) \/ Submit(h) \/ Respond(h) \/ TimeOut(h)
  PROVE  IInv'
<1>0. Turns /\ Shape
  BY DEF IInv
<1>1. CASE ReadRequest(h) \/ Reject(h)
  <2>1. h \notin late
    BY <1>0, <1>1 DEF Turns, ReadRequest, Reject
  <2> QED
    BY <1>1, <2>1, HandlerMoves
    DEF ReadRequest, Reject, history, Places, Answers
<1>2. CASE Respond(h)
  <2>1. h \notin late
    BY <1>0, <1>2 DEF Turns, Respond
  <2> QED
    BY <1>2, <2>1, HandlerMoves DEF Respond, Leave, Places, Answers
<1>3. CASE TimeOut(h)
  BY <1>3, HandlerMoves DEF TimeOut, Leave, Places, Answers
<1> QED
  BY <1>1, <1>2, <1>3, SubmitKeepsInv

-----------------------------------------------------------------------------
(* The steps of apply(), all that they leave to the handlers and the queue.  *)

\* A step that neither begins nor ends a change.
LEMMA MeanwhileKeeps ==
  ASSUME IInv, Meanwhile, step # "select",
         step' \in {"save", "stop", "start", "restore", "revive"},
         file' \in {file, shared, change.config}
  PROVE  Shape' /\ Turns' /\ Snapshots' /\ Acknowledged'
<1>0. Shape /\ Turns /\ Snapshots /\ Acknowledged
  BY DEF IInv
<1>1. UNCHANGED <<shared, current, change, queue, mutation, pc, answer, late>>
  BY DEF Meanwhile, webVars
<1>2. change.config \in Configs
  BY <1>0 DEF Shape, Changes
<1>3. Shape'
  BY <1>0, <1>1, <1>2 DEF Shape
<1>4. Turns'
  BY <1>0, <1>1 DEF Turns, Pending
<1>5. Snapshots'
  BY <1>0, <1>1 DEF Snapshots, Snapshot, Persist
<1>6. Acknowledged'
  BY <1>0, <1>1 DEF Acknowledged, Keeps
<1> QED
  BY <1>3, <1>4, <1>5, <1>6

\* The reply reaches the one handler that may wait for it.
LEMMA Replied ==
  ASSUME IInv, step # "select", NEW r \in {"ok", "error"}, Reply(r)
  PROVE  /\ pc' \in [Posts -> Places] /\ answer' \in [Posts -> Answers]
         /\ \A h \in Posts :
              /\ pc'[h] = pc[h] \/ (pc[h] = "waiting" /\ pc'[h] = "answering")
              /\ pc'[h] = "waiting" => h # change.owner
              /\ answer'[h] = "ok" =>
                   answer[h] = "ok" \/
                   (r = "ok" /\ h = change.owner /\ pc[h] = "waiting"
                    /\ pc'[h] = "answering")
<1>0. pc \in [Posts -> Places] /\ answer \in [Posts -> Answers]
  BY DEF IInv, Shape
<1>1. CASE change.owner \in Posts /\ pc[change.owner] = "waiting"
  <2>1. /\ pc' = [pc EXCEPT ![change.owner] = "answering"]
        /\ answer' = [answer EXCEPT ![change.owner] = r]
    BY <1>1 DEF Reply
  <2> QED
    BY <1>0, <1>1, <2>1 DEF Places, Answers
<1>2. CASE ~(change.owner \in Posts /\ pc[change.owner] = "waiting")
  <2>1. UNCHANGED <<pc, answer>>
    BY <1>2 DEF Reply
  <2> QED
    BY <1>0, <1>2, <2>1
<1> QED
  BY <1>1, <1>2

\* apply() returned an error.
LEMMA RefusedKeeps ==
  ASSUME IInv, Refused, step # "select", file' = file
  PROVE  Shape' /\ Turns' /\ Snapshots' /\ Acknowledged'
<1>0. Shape /\ Turns /\ Snapshots /\ Acknowledged
  BY DEF IInv
<1>1. /\ UNCHANGED <<shared, current, queue, mutation>> /\ step' = "select"
      /\ change' = NoChange /\ late' = late \ {change.owner} /\ Reply("error")
  BY DEF Refused
<1>2. /\ pc' \in [Posts -> Places] /\ answer' \in [Posts -> Answers]
      /\ \A h \in Posts :
           /\ pc'[h] = pc[h] \/ (pc[h] = "waiting" /\ pc'[h] = "answering")
           /\ pc'[h] = "waiting" => h # change.owner
           /\ answer'[h] = "ok" => answer[h] = "ok"
  BY <1>1, Replied
<1>3. Shape'
  BY <1>0, <1>1, <1>2 DEF Shape
<1>4. Turns'
  <2>1. \A i \in DOMAIN queue : queue[i].owner \in Posts
    BY <1>0, QueueOfChanges
  <2>2. \A h \in Posts : h # NoChange.owner
    BY WritersDiffer DEF NoChange, Nobody
  <2>3. \A h \in Posts : Pending(h)' => Pending(h) /\ h # change.owner
    BY <1>0, <1>1, <2>2 DEF Pending, Turns
  <2>4. ASSUME NEW h \in Posts
        PROVE  /\ Pending(h)' => pc'[h] = "waiting" \/ h \in late'
               /\ h \in late' => pc'[h] = "done"
    <3>1. CASE h = change.owner
      BY <1>0, <1>1, <1>2, <2>3, <3>1 DEF Turns
    <3>2. CASE h # change.owner
      <4>1. pc'[h] = pc[h]
        BY <1>0, <1>1, <3>2 DEF Reply, Shape
      <4> QED
        BY <1>0, <1>1, <2>3, <3>2, <4>1 DEF Turns
    <3> QED
      BY <3>1, <3>2
  <2>5. ASSUME NEW h \in Posts, pc'[h] = "waiting"
        PROVE  /\ mutation' = h /\ h # change'.owner
               /\ \A i \in DOMAIN queue' :
                    queue'[i].owner = h => i = Len(queue')
    BY <1>0, <1>1, <1>2, <2>2, <2>5 DEF Turns
  <2> QED
    BY <1>0, <1>1, <2>1, <2>2, <2>4, <2>5 DEF Turns
<1>5. Snapshots'
  BY <1>0, <1>1 DEF Snapshots, Snapshot
<1>6. Acknowledged'
  BY <1>0, <1>1, <1>2 DEF Acknowledged, Keeps
<1> QED
  BY <1>3, <1>4, <1>5, <1>6

\* What is queued learns what a late change or a reload brought.
LEMMA Remembered ==
  ASSUME Shape, Remember
  PROVE  /\ queue' \in Seq(Changes(Posts)) /\ Len(queue') = Len(queue)
         /\ DOMAIN queue' = DOMAIN queue
         /\ \A i \in DOMAIN queue :
              /\ queue'[i].owner = queue[i].owner
              /\ queue'[i].config = queue[i].config
              /\ queue[i].unknown \subseteq queue'[i].unknown
              /\ change.owner \in late \cup {Operator} =>
                   \A f \in Fields :
                     change.config[f] # shared[f] => f \in queue'[i].unknown
<1>0. /\ Len(queue) \in Nat /\ DOMAIN queue = 1..Len(queue)
      /\ \A i \in DOMAIN queue : queue[i] \in Changes(Posts)
      /\ queue \in Seq(Changes(Posts))
  BY QueueOfChanges DEF Shape
<1> DEFINE news == {f \in Fields : change.config[f] # shared[f]}
<1>1. CASE change.owner \in late \cup {Operator}
  <2>1. queue' = [i \in 1..Len(queue) |->
                    [queue[i] EXCEPT !.unknown = queue[i].unknown \cup news]]
    BY <1>0, <1>1 DEF Remember
  <2>2. \A i \in 1..Len(queue) :
          /\ queue'[i] = [config |-> queue[i].config, owner |-> queue[i].owner,
                          unknown |-> queue[i].unknown \cup news]
          /\ queue'[i] \in Changes(Posts)
    BY <1>0, <2>1 DEF Changes
  <2>3. queue' \in [1..Len(queue) -> Changes(Posts)]
    BY <2>1, <2>2
  <2>4. queue' \in Seq(Changes(Posts)) /\ Len(queue') = Len(queue)
    BY <1>0, <2>3
  <2>5. \A f \in Fields : change.config[f] # shared[f] => f \in news
    OBVIOUS
  <2>6. \A i \in 1..Len(queue) :
          /\ queue'[i].owner = queue[i].owner
          /\ queue'[i].config = queue[i].config
          /\ queue[i].unknown \subseteq queue'[i].unknown
          /\ news \subseteq queue'[i].unknown
    <3> SUFFICES ASSUME NEW i \in 1..Len(queue)
                 PROVE  /\ queue'[i].owner = queue[i].owner
                        /\ queue'[i].config = queue[i].config
                        /\ queue'[i].unknown = queue[i].unknown \cup news
      OBVIOUS
    <3> DEFINE u == queue[i].unknown \cup news
    <3>1. queue'[i] = [config |-> queue[i].config, owner |-> queue[i].owner,
                       unknown |-> u]
      BY <2>2
    <3> HIDE DEF u, news
    <3>2. queue'[i].owner = queue[i].owner
      BY <3>1
    <3>3. queue'[i].config = queue[i].config
      BY <3>1
    <3>4. queue'[i].unknown = u
      BY <3>1
    <3> QED
      BY <3>2, <3>3, <3>4 DEF u
  <2> HIDE DEF news
  <2> QED
    BY <1>0, <2>3, <2>4, <2>5, <2>6
<1>2. CASE ~(change.owner \in late \cup {Operator})
  BY <1>0, <1>2 DEF Remember
<1> QED
  BY <1>1, <1>2

\* apply() returned Ok, with the change in the file.
LEMMA AppliedKeeps ==
  ASSUME IInv, Applied, step # "select", FileIs(change.config), file' = file
  PROVE  Shape' /\ Turns' /\ Snapshots' /\ Acknowledged'
<1>0. Shape /\ Turns /\ Snapshots /\ Acknowledged
  BY DEF IInv
<1>1. /\ current' = New /\ shared' = change.config /\ mutation' = mutation
      /\ step' = "select" /\ change' = NoChange
      /\ Remember /\ late' = late \ {change.owner} /\ Reply("ok")
  BY DEF Applied, Remember
<1>2. /\ pc' \in [Posts -> Places] /\ answer' \in [Posts -> Answers]
      /\ \A h \in Posts :
           /\ pc'[h] = pc[h] \/ (pc[h] = "waiting" /\ pc'[h] = "answering")
           /\ pc'[h] = "waiting" => h # change.owner
           /\ answer'[h] = "ok" =>
                answer[h] = "ok" \/
                (h = change.owner /\ pc[h] = "waiting" /\ pc'[h] = "answering")
  BY <1>1, Replied
<1>3. /\ queue' \in Seq(Changes(Posts)) /\ Len(queue') = Len(queue)
      /\ DOMAIN queue' = DOMAIN queue
      /\ \A i \in DOMAIN queue :
           /\ queue'[i].owner = queue[i].owner
           /\ queue'[i].config = queue[i].config
           /\ queue[i].unknown \subseteq queue'[i].unknown
           /\ change.owner \in late \cup {Operator} =>
                \A f \in Fields :
                  change.config[f] # shared[f] => f \in queue'[i].unknown
  BY <1>0, <1>1, Remembered
<1>4. change.config \in Configs /\ change.owner \in Writers
  BY <1>0 DEF Shape, Changes
<1>5. \A i \in DOMAIN queue : queue[i].owner \in Posts
  BY <1>0, QueueOfChanges
<1>6. Shape'
  BY <1>0, <1>1, <1>2, <1>3, <1>4 DEF Shape, New
<1>7. Turns'
  <2>2. \A h \in Posts : h # NoChange.owner
    BY WritersDiffer DEF NoChange, Nobody
  <2>3. \A h \in Posts : Pending(h)' => Pending(h) /\ h # change.owner
    BY <1>0, <1>1, <1>3, <2>2 DEF Pending, Turns
  <2>4. ASSUME NEW h \in Posts
        PROVE  /\ Pending(h)' => pc'[h] = "waiting" \/ h \in late'
               /\ h \in late' => pc'[h] = "done"
    <3>1. CASE h = change.owner
      BY <1>0, <1>1, <1>2, <2>3, <3>1 DEF Turns
    <3>2. CASE h # change.owner
      <4>1. pc'[h] = pc[h]
        BY <1>0, <1>1, <3>2 DEF Reply, Shape
      <4> QED
        BY <1>0, <1>1, <2>3, <3>2, <4>1 DEF Turns
    <3> QED
      BY <3>1, <3>2
  <2>5. ASSUME NEW h \in Posts, pc'[h] = "waiting"
        PROVE  /\ mutation' = h /\ h # change'.owner
               /\ \A i \in DOMAIN queue' :
                    queue'[i].owner = h => i = Len(queue')
    BY <1>0, <1>1, <1>2, <1>3, <2>2, <2>5 DEF Turns
  <2> QED
    BY <1>0, <1>1, <1>3, <1>5, <2>2, <2>4, <2>5 DEF Turns
<1>8. Snapshots'
  <2> SUFFICES ASSUME NEW i \in DOMAIN queue
               PROVE  /\ queue'[i].config[FieldOf[queue'[i].owner]] =
                            queue'[i].owner
                      /\ \A f \in Fields :
                           queue'[i].config[f] # shared'[f] =>
                             f \in queue'[i].unknown
                                    \cup {FieldOf[queue'[i].owner]}
    BY <1>1, <1>3 DEF Snapshots, Snapshot
  <2>1. change.owner \in late \cup {Operator}
    BY <1>0, <1>4 DEF Turns, Pending, Writers
  <2>2. Snapshot(queue[i])
    BY <1>0 DEF Snapshots
  <2> QED
    BY <1>1, <1>3, <2>1, <2>2 DEF Snapshot
<1>9. Acknowledged'
  <2> SUFFICES ASSUME NEW h \in Posts, answer'[h] = "ok"
               PROVE  /\ pc'[h] \in {"answering", "done"}
                      /\ Keeps(h, file) /\ Keeps(h, change.config)
                      /\ \A i \in DOMAIN queue : Keeps(h, queue[i].config)
    BY <1>1, <1>3 DEF Acknowledged, Keeps
  <2>1. CASE answer[h] = "ok"
    BY <1>0, <1>2, <2>1 DEF Acknowledged
  <2>2. CASE h = change.owner /\ pc[h] = "waiting" /\ pc'[h] = "answering"
    <3>1. queue = <<>> /\ DOMAIN queue = {}
      BY <1>0, <2>2, QueueOfChanges DEF Turns
    <3>2. change.config[FieldOf[h]] = h
      BY <1>0, <2>2, WritersDiffer DEF Snapshots, Snapshot, Persist
    <3>3. FieldOf[h] \in Fields /\ h \in Writers /\ Operator \in Writers
      BY WritersDiffer
    <3> QED
      BY <2>2, <3>1, <3>2, <3>3 DEF Keeps, FileIs
  <2> QED
    BY <1>2, <2>1, <2>2
<1> QED
  BY <1>6, <1>7, <1>8, <1>9

-----------------------------------------------------------------------------
(* The main loop takes the next change.                                     *)

LEMMA TakePostKeepsInv ==
  ASSUME IInv, TakePost
  PROVE  IInv'
<1>0. Shape /\ Service /\ Turns /\ Snapshots /\ Acknowledged
  BY DEF IInv
<1>1. /\ step = "select" /\ queue # <<>> /\ change' = Head(queue)
      /\ queue' = Tail(queue) /\ step' = "check"
      /\ UNCHANGED <<file, shared, current, running, spare, mutation, pc,
                     answer, broken, late>>
  BY DEF TakePost, webVars, history
<1>2. /\ Len(queue) \in Nat \ {0} /\ DOMAIN queue = 1..Len(queue)
      /\ queue' \in Seq(Changes(Posts)) /\ Len(queue') = Len(queue) - 1
      /\ DOMAIN queue' = 1..(Len(queue) - 1)
      /\ \A i \in DOMAIN queue' :
           i + 1 \in DOMAIN queue /\ queue'[i] = queue[i + 1]
      /\ 1 \in DOMAIN queue /\ change' = queue[1]
  <2>1. queue \in Seq(Changes(Posts))
    BY <1>0 DEF Shape
  <2>2. /\ queue' \in Seq(Changes(Posts)) /\ Len(queue') = Len(queue) - 1
        /\ \A i \in 1..Len(queue') : queue'[i] = queue[i + 1]
    BY <1>1, <2>1, HeadTailProperties
  <2>3. Len(queue) \in Nat \ {0} /\ DOMAIN queue = 1..Len(queue)
    BY <1>1, <2>1, EmptySeq, LenProperties
  <2>4. DOMAIN queue' = 1..Len(queue')
    BY <2>2, LenProperties
  <2>5. change' = queue[1]
    BY <1>1, <2>1
  <2> QED
    BY <2>2, <2>3, <2>4, <2>5
<1>3. /\ change' \in Changes(Posts) /\ change'.owner \in Posts
      /\ change'.config \in Configs
  BY <1>0, <1>2, QueueOfChanges
<1>4. Shape'
  BY <1>0, <1>1, <1>2, <1>3, WritersDiffer DEF Shape, Changes
<1>5. Service'
  BY <1>0, <1>1, <1>3, WritersDiffer
  DEF Service, FileInOrder, FileIs, Persist
<1>6. Turns'
  <2>1. \A h \in Posts : Pending(h)' => Pending(h)
    BY <1>2 DEF Pending
  <2>2. /\ \A i, j \in DOMAIN queue' : queue'[i].owner = queue'[j].owner => i = j
        /\ \A i \in DOMAIN queue' : queue'[i].owner # change'.owner
    BY <1>0, <1>2 DEF Turns
  <2>3. ASSUME NEW h \in Posts, pc'[h] = "waiting"
        PROVE  /\ mutation' = h /\ h = change'.owner => queue' = <<>>
               /\ \A i \in DOMAIN queue' :
                    queue'[i].owner = h => i = Len(queue')
    <3>1. \A i \in DOMAIN queue : queue[i].owner = h => i = Len(queue)
      BY <1>0, <1>1, <2>3 DEF Turns
    <3>2. h = change'.owner => Len(queue') = 0
      BY <1>2, <3>1
    <3>3. h = change'.owner => queue' = <<>>
      BY <1>2, <3>2, EmptySeq
    <3> QED
      BY <1>0, <1>1, <1>2, <2>3, <3>1, <3>3 DEF Turns
  <2> QED
    BY <1>0, <1>1, <2>1, <2>2, <2>3 DEF Turns
<1>7. Snapshots'
  <2>1. \A i \in DOMAIN queue' : Snapshot(queue'[i])
    BY <1>0, <1>2 DEF Snapshots
  <2>2. Snapshot(change')
    BY <1>0, <1>2 DEF Snapshots
  <2> QED
    BY <1>1, <2>1, <2>2 DEF Snapshots, Snapshot
<1>8. Acknowledged'
  BY <1>0, <1>1, <1>2 DEF Acknowledged, Keeps
<1> QED
  BY <1>4, <1>5, <1>6, <1>7, <1>8 DEF IInv

LEMMA TakeReloadKeepsInv ==
  ASSUME IInv, TakeReload
  PROVE  IInv'
<1>0. Shape /\ Service /\ Turns /\ Snapshots /\ Acknowledged
  BY DEF IInv
<1>1. /\ step = "select" /\ step' = "check"
      /\ change' = [config |-> file, owner |-> Operator, unknown |-> {}]
      /\ UNCHANGED <<file, shared, current, running, spare, queue, mutation,
                     pc, answer, broken, late>>
  BY DEF TakeReload, webVars, history
<1>2. /\ change' \in Changes(Writers) /\ change'.owner = Operator
      /\ change'.config = file
  BY <1>0, <1>1, WritersDiffer DEF Shape, Changes
<1>3. Shape'
  BY <1>0, <1>1, <1>2 DEF Shape
<1>4. Service'
  BY <1>0, <1>1, <1>2 DEF Service, FileInOrder, FileIs
<1>5. Turns'
  <2>1. \A h \in Posts : h # change'.owner
    BY <1>2, WritersDiffer
  <2>2. \A i \in DOMAIN queue : queue[i].owner \in Posts
    BY <1>0, QueueOfChanges
  <2>3. \A h \in Posts : Pending(h)' => Pending(h)
    BY <1>1, <2>1 DEF Pending
  <2> QED
    BY <1>0, <1>1, <2>1, <2>2, <2>3 DEF Turns
<1>6. Snapshots'
  BY <1>0, <1>1, <1>2 DEF Snapshots, Snapshot, Persist
<1>7. Acknowledged'
  BY <1>0, <1>1, <1>2 DEF Acknowledged, Keeps
<1> QED
  BY <1>3, <1>4, <1>5, <1>6, <1>7 DEF IInv

-----------------------------------------------------------------------------
(* The steps of apply(), the file and the listeners.                        *)

LEMMA ApplyKeepsInv ==
  ASSUME IInv,
         \/ RefuseInvalid \/ Check \/ BindFails \/ Save \/ SaveFails \/ Stop
         \/ Start \/ StartFails \/ Restore \/ RestoreFails \/ Revive \/ ReviveFails
  PROVE  IInv'
<1>0. Shape /\ Service /\ Turns /\ Snapshots /\ Acknowledged
  BY DEF IInv
<1>a. ASSUME Shape' /\ Turns' /\ Snapshots' /\ Acknowledged', Service'
      PROVE  IInv'
  BY <1>a DEF IInv
<1>1. CASE RefuseInvalid \/ BindFails
  <2>1. /\ step = "check" /\ Refused
        /\ UNCHANGED <<file, running, spare, broken, shared>> /\ step' = "select"
    BY <1>1 DEF RefuseInvalid, BindFails, Refused
  <2>2. Service'
    BY <1>0, <2>1 DEF Service, FileInOrder, FileIs
  <2> QED
    BY <1>a, <2>1, <2>2, RefusedKeeps
<1>2. CASE Check
  <2>1. /\ step = "check" /\ step' = "save" /\ Meanwhile
        /\ UNCHANGED <<file, running, broken, shared, change>>
        /\ spare' \in {New, Down}
    BY <1>2 DEF Check, Meanwhile
  <2>2. Service'
    BY <1>0, <2>1 DEF Service, FileInOrder, FileIs, Persist, New
  <2> QED
    BY <1>a, <2>1, <2>2, MeanwhileKeeps
<1>3. CASE Save
  <2>1. /\ step = "save" /\ step' = "stop" /\ Meanwhile
        /\ UNCHANGED <<running, spare, broken, shared, change>>
        /\ file' = IF Persist THEN change.config ELSE file
    BY <1>3 DEF Save, Meanwhile
  <2>2. Service'
    BY <1>0, <2>1 DEF Service, FileInOrder, FileIs, Persist, New
  <2> QED
    BY <1>a, <2>1, <2>2, MeanwhileKeeps
<1>4. CASE SaveFails
  <2>1. /\ step = "save" /\ Refused /\ spare' = Down
        /\ UNCHANGED <<file, running, broken, shared>> /\ step' = "select"
    BY <1>4 DEF SaveFails, Refused
  <2>2. Service'
    BY <1>0, <2>1 DEF Service, FileInOrder, FileIs
  <2> QED
    BY <1>a, <2>1, <2>2, RefusedKeeps
<1>5. CASE Stop /\ spare # Down
  <2>1. /\ step = "stop" /\ Applied /\ running' = spare /\ spare' = Down
        /\ UNCHANGED file /\ step' = "select" /\ shared' = change.config
        /\ broken' = {}
    BY <1>5 DEF Stop, Applied, Remember
  <2>2. FileIs(change.config) /\ spare = New
    BY <1>0, <1>5, <2>1 DEF Service
  <2>3. Service'
    BY <2>1, <2>2 DEF Service, FileInOrder, FileIs, New
  <2> QED
    BY <1>a, <2>1, <2>2, <2>3, AppliedKeeps
<1>6. CASE Stop /\ spare = Down
  <2>1. /\ step = "stop" /\ step' = "start" /\ Meanwhile /\ running' = Down
        /\ UNCHANGED <<file, spare, broken, shared, change>>
    BY <1>6 DEF Stop, Meanwhile
  <2>2. Service'
    BY <1>0, <1>6, <2>1 DEF Service, FileInOrder, FileIs, Persist
  <2> QED
    BY <1>a, <2>1, <2>2, MeanwhileKeeps
<1>7. CASE Start
  <2>1. /\ step = "start" /\ Applied /\ running' = New
        /\ UNCHANGED <<file, spare>> /\ step' = "select"
        /\ shared' = change.config /\ broken' = {}
    BY <1>7 DEF Start, Applied, Remember
  <2>2. FileIs(change.config) /\ spare = Down
    BY <1>0, <2>1 DEF Service
  <2>3. Service'
    BY <2>1, <2>2 DEF Service, FileInOrder, FileIs, New
  <2> QED
    BY <1>a, <2>1, <2>2, <2>3, AppliedKeeps
<1>8. CASE StartFails
  <2>1. /\ step = "start" /\ step' = "restore" /\ Meanwhile
        /\ UNCHANGED <<file, running, spare, broken, shared, change>>
    BY <1>8 DEF StartFails, Meanwhile
  <2>2. Service'
    BY <1>0, <2>1 DEF Service, FileInOrder, FileIs, Persist
  <2> QED
    BY <1>a, <2>1, <2>2, MeanwhileKeeps
<1>9. CASE Restore
  <2>1. /\ step = "restore" /\ step' = "revive" /\ Meanwhile
        /\ UNCHANGED <<running, spare, shared, change>>
        /\ file' = IF Persist THEN shared ELSE file
        /\ broken' = IF Persist THEN broken \ {"file"} ELSE broken
    BY <1>9 DEF Restore, Meanwhile
  <2>2. Service'
    BY <1>0, <2>1 DEF Service, FileInOrder, FileIs, Persist
  <2> QED
    BY <1>a, <2>1, <2>2, MeanwhileKeeps
<1>10. CASE RestoreFails
  <2>1. /\ step = "restore" /\ step' = "revive" /\ Meanwhile
        /\ UNCHANGED <<file, running, spare, shared, change>>
        /\ broken' = broken \cup {"file"}
    BY <1>10 DEF RestoreFails, Meanwhile
  <2>2. Service'
    BY <1>0, <2>1 DEF Service, FileInOrder, FileIs, Persist
  <2> QED
    BY <1>a, <2>1, <2>2, MeanwhileKeeps
<1>11. CASE Revive
  <2>1. /\ step = "revive" /\ Refused /\ running' = current
        /\ UNCHANGED <<file, spare, shared>> /\ step' = "select"
        /\ broken' = broken \ {"listener"}
    BY <1>11 DEF Revive, Refused
  <2>2. current = Effective(shared)
    BY <1>0 DEF Shape
  <2>3. Service'
    BY <1>0, <2>1, <2>2 DEF Service, FileInOrder, FileIs
  <2> QED
    BY <1>a, <2>1, <2>3, RefusedKeeps
<1>12. CASE ReviveFails
  <2>1. /\ step = "revive" /\ Refused
        /\ UNCHANGED <<file, running, spare, shared>> /\ step' = "select"
        /\ broken' = broken \cup {"listener"}
    BY <1>12 DEF ReviveFails, Refused
  <2>2. Service'
    BY <1>0, <2>1 DEF Service, FileInOrder, FileIs
  <2> QED
    BY <1>a, <2>1, <2>2, RefusedKeeps
<1> QED
  BY <1>1, <1>2, <1>3, <1>4, <1>5, <1>6, <1>7, <1>8, <1>9, <1>10, <1>11, <1>12

-----------------------------------------------------------------------------
(* The surroundings.                                                        *)

LEMMA EditKeepsInv ==
  ASSUME IInv, EditFile
  PROVE  IInv'
<1>0. Shape /\ Service /\ Turns /\ Snapshots /\ Acknowledged
  BY DEF IInv
<1>1. /\ file' = [file EXCEPT ![FieldOf[Operator]] = Operator]
      /\ UNCHANGED <<shared, current, running, spare, step, change, queue,
                     mutation, pc, answer, broken, late>>
  BY DEF EditFile, webVars, history
<1>2. /\ file' \in Configs /\ file'[FieldOf[Operator]] = Operator
      /\ \A f \in Fields \ {FieldOf[Operator]} : file'[f] = file[f]
  BY <1>0, <1>1, WritersDiffer DEF Shape, Configs
<1>3. Shape'
  BY <1>0, <1>1, <1>2 DEF Shape
<1>4. \A c : FileIs(c) => FileIs(c)'
  BY <1>2, Zenon DEF FileIs
<1>5. Service'
  BY <1>0, <1>1, <1>2 DEF Service, FileInOrder, FileIs, Persist, New
<1>6. Turns' /\ Snapshots'
  BY <1>0, <1>1 DEF Turns, Pending, Snapshots, Snapshot, Persist
<1>7. Acknowledged'
  <2>1. \A h \in Posts : Keeps(h, file) => Keeps(h, file')
    BY <1>2, WritersDiffer DEF Keeps
  <2> QED
    BY <1>0, <1>1, <2>1 DEF Acknowledged, Keeps
<1> QED
  BY <1>3, <1>5, <1>6, <1>7 DEF IInv

LEMMA CrashKeepsInv ==
  ASSUME IInv, Crash
  PROVE  IInv'
<1>0. Shape /\ Acknowledged
  BY DEF IInv
<1>1. /\ UNCHANGED <<file, answer>> /\ broken' = {} /\ late' = {}
      /\ shared' = file /\ current' = Effective(file)
      /\ running' = Effective(file) /\ spare' = Down /\ queue' = <<>>
      /\ step' = "select" /\ change' = NoChange
      /\ pc' = [h \in Posts |-> IF pc[h] = "reading" THEN "reading" ELSE "done"]
  BY DEF Crash
<1>2. DOMAIN queue' = {} /\ queue' \in Seq(Changes(Posts))
  BY <1>1, EmptySeq
<1>3. Shape'
  BY <1>0, <1>1, <1>2 DEF Shape, Places
<1>4. Service'
  BY <1>1 DEF Service, FileInOrder, FileIs
<1>5. \A h \in Posts : ~Pending(h)'
  BY <1>1, <1>2, WritersDiffer DEF Pending, NoChange, Nobody
<1>6. Turns' /\ Snapshots'
  BY <1>1, <1>2, <1>5 DEF Turns, Snapshots
<1>7. Acknowledged'
  BY <1>0, <1>1, <1>2 DEF Acknowledged, Keeps
<1> QED
  BY <1>3, <1>4, <1>6, <1>7 DEF IInv

-----------------------------------------------------------------------------
LEMMA NextIInv ==
  ASSUME IInv, [Next]_vars
  PROVE  IInv'
<1>1. CASE UNCHANGED vars
  BY <1>1 DEF vars, serveVars, webVars, history, IInv, Shape, Service,
              FileInOrder, FileIs, Turns, Pending, Snapshots, Snapshot,
              Acknowledged, Keeps, Persist, New
<1> QED
  BY <1>1, HandlersKeepInv, TakePostKeepsInv, TakeReloadKeepsInv,
     ApplyKeepsInv, EditKeepsInv, CrashKeepsInv DEF Next, Serve

\* Where the file, the listeners and the queue are at each step of a change
\* (main.rs, serve and apply; web.rs, handle).
THEOREM Invariance == Spec => []IInv
BY InitIInv, NextIInv, PTL DEF Spec

\* Between changes the listener runs what the panel shows, and the file has it
\* but for the operator's edit, after any accepted, refused or half undone ones
\* (main.rs, apply).
THEOREM ServiceFollowsFile == Spec => []ServiceMatchesFile
<1>1. IInv => ServiceMatchesFile
  <2> SUFFICES ASSUME IInv
               PROVE  ServiceMatchesFile
    OBVIOUS
  <2>1. \A f \in Fields : file[f] # Cli
    BY ControlAssumption DEF IInv, Shape, Configs
  <2> QED
    BY <2>1 DEF IInv, Service, FileInOrder, FileIs, ServiceMatchesFile
<1> QED
  BY <1>1, Invariance, PTL

\* What the panel was told to be done stays in the file and in effect until
\* another writer of that field replaces it (web.rs, handle; main.rs, serve).
THEOREM NothingAcknowledgedIsLost == Spec => []AcknowledgedIsKept
<1>1. IInv => AcknowledgedIsKept
  BY DEF IInv, Acknowledged, Keeps, AcknowledgedIsKept
<1> QED
  BY <1>1, Invariance, PTL

Counted == crashes \in Nat

LEMMA CrashesAreCounted == Spec => []Counted
<1>1. Init => Counted
  BY DEF Init, Counted
<1>2. Counted /\ [Next]_vars => Counted'
  <2> SUFFICES ASSUME Counted, [Next]_vars
               PROVE  UNCHANGED crashes \/ crashes' = crashes + 1
    BY DEF Counted
  <2>1. CASE \E h \in Posts :
          ReadRequest(h) \/ Reject(h) \/ Submit(h) \/ Respond(h) \/ TimeOut(h)
    BY <2>1 DEF ReadRequest, Reject, Submit, Respond, TimeOut, Leave
  <2>2. CASE Serve
    BY <2>2 DEF Serve, TakePost, TakeReload, RefuseInvalid, Check, BindFails,
       Save, SaveFails, Stop, Start, StartFails, Restore, RestoreFails, Revive,
       ReviveFails, Applied, Refused, Meanwhile
  <2>3. CASE EditFile \/ Crash
    BY <2>3 DEF EditFile, Crash
  <2>4. CASE UNCHANGED vars
    BY <2>4 DEF vars
  <2> QED
    BY <2>1, <2>2, <2>3, <2>4 DEF Next
<1> QED
  BY <1>1, <1>2, PTL DEF Spec

\* A POST undoes nothing but what came from a late handler or a reload since
\* its snapshot (web.rs, handle).
THEOREM SnapshotsAreFresh == Spec => PostUndoesOnlyLate
<1> DEFINE UndoesOnlyLate ==
      \A f \in Fields :
        shared'[f] # shared[f] /\ crashes' = crashes /\ Persist =>
          f \in change.unknown \cup {FieldOf[change.owner]}
<1>1. IInv /\ Counted /\ Next => UndoesOnlyLate \/ UNCHANGED shared
  <2> SUFFICES ASSUME IInv, Counted, Next, shared' # shared, crashes' = crashes, Persist
               PROVE  \A f \in Fields : shared'[f] # shared[f] =>
                        f \in change.unknown \cup {FieldOf[change.owner]}
    OBVIOUS
  <2>1. ~Crash
    BY DEF Crash, Counted
  <2>2. Stop \/ Start
    BY <2>1 DEF Next, Serve, ReadRequest, Reject, Submit, Respond, TimeOut,
       Leave, EditFile, TakePost, TakeReload, RefuseInvalid, Check, BindFails,
       Save, SaveFails, StartFails, Restore, RestoreFails, Revive, ReviveFails,
       Refused, Meanwhile, serveVars
  <2>3. shared' = change.config /\ step # "select"
    BY <2>2 DEF Stop, Start, Applied, Meanwhile
  <2>4. Snapshot(change)
    BY <2>3 DEF IInv, Snapshots
  <2> QED
    BY <2>3, <2>4 DEF Snapshot
<1>2. UNCHANGED shared => UndoesOnlyLate
  OBVIOUS
<1>3. IInv /\ Counted /\ [Next]_vars => [UndoesOnlyLate]_vars
  BY <1>1, <1>2
<1> QED
  BY <1>3, Invariance, CrashesAreCounted, PTL DEF Spec, PostUndoesOnlyLate

=============================================================================

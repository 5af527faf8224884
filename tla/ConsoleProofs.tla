--------------------------- MODULE ConsoleProofs ---------------------------
(***************************************************************************)
(* The Monitor's hand-over to its event streams, proved for every set of   *)
(* streams, every content of the snapshots and any number of refreshes.    *)
(***************************************************************************)
EXTENDS Console, TLAPS

\* The shapes the argument needs; what a snapshot contains is left open.
Shapes ==
    /\ stream \in [Clients -> {"off", "on", "closing"}]
    /\ buf = [c \in Clients |-> buf[c]]
    /\ last = [c \in Clients |-> last[c]]
    /\ sequence \in Nat
    /\ ready \in BOOLEAN
    /\ pass.at \in {"idle", "resolve", "publish"}
    /\ pass = [at |-> pass.at, inst |-> pass.inst, deps |-> pass.deps, jobs |-> pass.jobs,
               todo |-> pass.todo, roots |-> pass.roots, truncated |-> pass.truncated]
    /\ pub = [todo |-> pub.todo, drain |-> pub.drain, send |-> pub.send]
    /\ \/ current = None
       \/ /\ current = [content |-> current.content, stale |-> current.stale]
          /\ current.stale \in BOOLEAN

\* publishLocked has somebody to serve while it runs, and serves subscribers
\* only; it leaves nothing behind.
Lock ==
    IF Locked
    THEN /\ current # None
         /\ pub.todo # {} /\ pub.todo \subseteq Subscribers
         /\ pub.drain \subseteq pub.todo /\ pub.send \subseteq pub.todo
         /\ pub.drain = {} \/ pub.send = {}
    ELSE pub = Serving({})

\* The channel of c: empty or one update, newer than the last event written
\* and, while c waits to be served, older than the one on its way.
Channel(c) ==
    /\ stream[c] = "off" => buf[c] = <<>> /\ last[c] = None
    /\ current = None => buf[c] = <<>>
    /\ last[c] # None =>
          /\ last[c].id \in Nat /\ last[c].id <= sequence
          /\ c \in pub.todo => last[c].id < sequence
    /\ buf[c] # <<>> =>
          /\ buf[c] = <<Head(buf[c])>>
          /\ Head(buf[c]).id \in Nat /\ Head(buf[c]).id <= sequence
          /\ c \in pub.todo => Head(buf[c]).id < sequence
          /\ last[c] # None => last[c].id < Head(buf[c]).id

\* LatestHeld for one stream, also while the lock is held, once it is served.
Held(c) ==
    stream[c] = "on" /\ c \notin pub.todo =>
        IF buf[c] # <<>> THEN buf[c] = <<RuntimeUpdate>>
        ELSE IF current = None THEN last[c] = None ELSE last[c] = RuntimeUpdate

\* The inductive invariant.
HandOver ==
    /\ Shapes /\ Lock /\ NeverBlocks
    /\ ready <=> (current # None /\ ~current.stale)
    /\ \A c \in Clients : Channel(c) /\ Held(c)

-----------------------------------------------------------------------------
\* A snapshot is not the absent one.
LEMMA SnapshotNotNone ==
    ASSUME NEW a, NEW b
    PROVE  [content |-> a, stale |-> b] # None
<1>1. DOMAIN [content |-> a, stale |-> b] = {"content", "stale"}
  BY Zenon
<1>2. DOMAIN None = {"none"}
  BY Zenon DEF None
<1>3. "content" # "none"
  BY Zenon
<1> QED
  BY <1>1, <1>2, <1>3, Zenon

\* A RuntimeUpdate is not the absent event.
LEMMA UpdateNotNone ==
    ASSUME NEW a, NEW b
    PROVE  [id |-> a, snapshot |-> b] # None
<1>1. DOMAIN [id |-> a, snapshot |-> b] = {"id", "snapshot"}
  BY Zenon
<1>2. DOMAIN None = {"none"}
  BY Zenon DEF None
<1>3. "id" # "none"
  BY Zenon
<1> QED
  BY <1>1, <1>2, <1>3, Zenon

\* A channel of capacity one: sending to the empty one, receiving from a full one.
LEMMA OneElement ==
    ASSUME NEW x
    PROVE  /\ Append(<<>>, x) = <<x>> /\ <<x>> # <<>>
           /\ Head(<<x>>) = x /\ Tail(<<x>>) = <<>>
<1> x \in {x} /\ <<>> \in Seq({x}) /\ <<x>> \in Seq({x})
  OBVIOUS
<1> QED
  OBVIOUS

\* The Monitor and its streams start out consistent.
LEMMA HandOverInit == Init => HandOver
<1> SUFFICES ASSUME Init PROVE HandOver
  BY Zenon
<1> USE DEF Init, Idle, Serving
<1>1. Shapes
  BY Zenon DEF Shapes
<1>2. Lock
  BY Zenon DEF Lock, Locked
<1>3. NeverBlocks
  BY Zenon DEF NeverBlocks
<1>4. \A c \in Clients : Channel(c) /\ Held(c)
  BY Zenon DEF Channel, Held
<1> QED
  BY <1>1, <1>2, <1>3, <1>4, Zenon DEF HandOver

\* Steps that leave the Monitor, its pass and the streams alone: the cluster,
\* the informers, the ageing of validated runs.
LEMMA ElsewhereKeepsHandOver ==
    ASSUME HandOver, UNCHANGED <<pass, monitor, streams>>
    PROVE  HandOver'
  BY Zenon DEF HandOver, Shapes, Lock, Locked, Subscribers, Serving, NeverBlocks, Channel, Held,
         RuntimeUpdate, monitor, streams

\* Steps of a refresh that do not touch the Monitor yet.
LEMMA ReadingKeepsHandOver ==
    ASSUME HandOver, ~Locked, ~Locked', pass'.at \in {"idle", "resolve", "publish"},
           pass' = [at |-> pass'.at, inst |-> pass'.inst, deps |-> pass'.deps,
                    jobs |-> pass'.jobs, todo |-> pass'.todo, roots |-> pass'.roots,
                    truncated |-> pass'.truncated],
           UNCHANGED <<monitor, streams>>
    PROVE  HandOver'
  BY Zenon DEF HandOver, Shapes, Lock, Locked, Subscribers, Serving, NeverBlocks, Channel, Held,
         RuntimeUpdate, monitor, streams

\* A new current snapshot is numbered and its delivery to all begins.
LEMMA PublishKeepsHandOver ==
    ASSUME HandOver, ~Locked, publishLocked, UNCHANGED streams,
           current' = [content |-> current'.content, stale |-> current'.stale],
           current'.stale \in BOOLEAN, ready' \in BOOLEAN, ready' <=> ~current'.stale
    PROVE  HandOver'
<1>0. current' # None
  BY SnapshotNotNone, Zenon
<1>1. pub = Serving({}) /\ pub' = Serving(Subscribers)
  BY Zenon DEF HandOver, Lock, publishLocked
<1>2. /\ pub'.todo = Subscribers /\ pub'.drain = {} /\ pub'.send = {}
      /\ pub' = [todo |-> pub'.todo, drain |-> pub'.drain, send |-> pub'.send]
  BY <1>1, Zenon DEF Serving
<1>3. Shapes'
  <2>1. PICK a \in {"idle", "publish"} :
            pass' = [at |-> a, inst |-> 0, deps |-> {}, jobs |-> <<>>, todo |-> {},
                     roots |-> {}, truncated |-> FALSE]
    BY Zenon DEF publishLocked, Idle
  <2>2. /\ pass'.at \in {"idle", "resolve", "publish"}
        /\ pass' = [at |-> pass'.at, inst |-> pass'.inst, deps |-> pass'.deps,
                    jobs |-> pass'.jobs, todo |-> pass'.todo, roots |-> pass'.roots,
                    truncated |-> pass'.truncated]
    BY <2>1, Zenon
  <2>3. sequence' \in Nat /\ UNCHANGED <<stream, buf, last>>
    BY DEF HandOver, Shapes, publishLocked, streams
  <2> QED
    BY <1>2, <2>2, <2>3, Zenon DEF HandOver, Shapes
<1>4. Subscribers' = Subscribers
  BY Zenon DEF Subscribers, streams
<1>5. Lock'
  <2>1. CASE Subscribers = {}
    <3>1. ~Locked'
      BY <2>1, Zenon DEF publishLocked, Idle, Locked
    <3> QED
      BY <2>1, <3>1, <1>1, Zenon DEF Lock, Serving
  <2>2. CASE Subscribers # {}
    <3>1. Locked'
      BY <2>2, Zenon DEF publishLocked, Idle, Locked
    <3> QED
      BY <2>2, <3>1, <1>0, <1>2, <1>4, Zenon DEF Lock
  <2> QED
    BY <2>1, <2>2, Zenon
<1>6. NeverBlocks'
  BY <1>2, Zenon DEF NeverBlocks
<1>7. ASSUME NEW c \in Clients PROVE Channel(c)' /\ Held(c)'
  <2>1. sequence \in Nat /\ sequence' = sequence + 1
    BY Zenon DEF HandOver, Shapes, publishLocked
  <2>2. Channel(c)
    BY Zenon DEF HandOver
  <2>3. Channel(c)'
    BY <2>1, <2>2, <1>0 DEF Channel, streams
  <2>4. Held(c)'
    BY <1>2, Zenon DEF Held, Subscribers, streams
  <2> QED
    BY <2>3, <2>4, Zenon
<1> QED
  BY <1>0, <1>3, <1>5, <1>6, <1>7, Zenon DEF HandOver

\* An update that is not published leaves the number and the state served.
LEMMA UnpublishedKeepsHandOver ==
    ASSUME HandOver, ~Locked, Unpublished, UNCHANGED <<streams, current>>,
           ready' \in BOOLEAN, ready' <=> (current # None /\ ~current.stale)
    PROVE  HandOver'
  BY Zenon DEF HandOver, Shapes, Lock, Locked, Subscribers, Serving, NeverBlocks, Channel, Held,
         RuntimeUpdate, streams, Unpublished, Idle

\* Monitor.Refresh.
LEMMA RefreshKeepsHandOver == HandOver /\ Refresh => HandOver'
<1> SUFFICES ASSUME HandOver, Refresh PROVE HandOver'
  BY Zenon
<1>1. ~Locked /\ UNCHANGED streams /\ ready' = TRUE
  BY Zenon DEF Refresh, Locked
<1>2. current' = [content |-> Projected, stale |-> FALSE]
  BY Zenon DEF Refresh
<1>3. CASE Changed(Projected)
  <2>1. publishLocked
    BY <1>3, Zenon DEF Refresh
  <2> QED
    BY <1>1, <1>2, <2>1, PublishKeepsHandOver, Zenon
<1>4. CASE ~Changed(Projected)
  <2>1. Unpublished
    BY <1>4, Zenon DEF Refresh
  <2>2. current # None /\ current.content = Projected /\ ~current.stale
    BY <1>4, Zenon DEF Changed
  <2>3. current' = current
    BY <1>2, <2>2, Zenon DEF HandOver, Shapes
  <2> QED
    BY <1>1, <2>1, <2>2, <2>3, UnpublishedKeepsHandOver, Zenon
<1> QED
  BY <1>3, <1>4, Zenon

\* Monitor.markStale, called with the lock free.
LEMMA MarkStaleKeepsHandOver == HandOver /\ ~Locked /\ markStale => HandOver'
<1> SUFFICES ASSUME HandOver, ~Locked, markStale PROVE HandOver'
  BY Zenon
<1>1. UNCHANGED streams /\ ready' = FALSE
  BY Zenon DEF markStale
<1>2. CASE current # None /\ ~current.stale
  <2>1. publishLocked /\ current' = [current EXCEPT !.stale = TRUE]
    BY <1>2, Zenon DEF markStale
  <2>2. current' = [content |-> current.content, stale |-> TRUE]
    BY <1>2, <2>1, Zenon DEF HandOver, Shapes
  <2> QED
    BY <1>1, <2>1, <2>2, PublishKeepsHandOver, Zenon
<1>3. CASE ~(current # None /\ ~current.stale)
  <2>1. Unpublished /\ current' = current
    BY <1>3, Zenon DEF markStale
  <2> QED
    BY <1>1, <1>3, <2>1, UnpublishedKeepsHandOver, Zenon
<1> QED
  BY <1>2, <1>3, Zenon

\* An update placed in the empty channel of a stream that waits for it.
LEMMA DeliveredKeepsHandOver ==
    ASSUME HandOver, Locked, NEW c \in pub.todo, buf[c] = <<>>, Delivered(c)
    PROVE  HandOver'
<1>1. /\ Shapes /\ Lock /\ c \in Clients /\ \A d \in Clients : Channel(d) /\ Held(d)
      /\ ready <=> (current # None /\ ~current.stale)
  BY Zenon DEF HandOver, Lock, Subscribers
<1>2. /\ current # None /\ pub.todo \subseteq Subscribers
      /\ pub' = Serving(pub.todo \ {c})
      /\ UNCHANGED <<current, ready, sequence, stream, last>>
  BY <1>1, Zenon DEF Lock, Delivered
<1>3. /\ pub'.todo = pub.todo \ {c} /\ pub'.drain = {} /\ pub'.send = {}
      /\ pub' = [todo |-> pub'.todo, drain |-> pub'.drain, send |-> pub'.send]
  BY <1>2, Zenon DEF Serving
<1>4. buf' = [buf EXCEPT ![c] = <<RuntimeUpdate>>]
  BY OneElement, Zenon DEF Delivered
<1>5. buf'[c] = <<RuntimeUpdate>> /\ \A d \in Clients \ {c} : buf'[d] = buf[d]
  BY <1>1, <1>4, Zenon DEF Shapes
<1>6. pass' = IF pub.todo = {c} THEN Idle ELSE pass
  BY Zenon DEF Delivered
<1>7. Shapes'
  <2>1. buf' = [d \in Clients |-> buf'[d]]
    BY <1>1, <1>4, Zenon DEF Shapes
  <2>2. /\ pass'.at \in {"idle", "resolve", "publish"}
        /\ pass' = [at |-> pass'.at, inst |-> pass'.inst, deps |-> pass'.deps,
                    jobs |-> pass'.jobs, todo |-> pass'.todo, roots |-> pass'.roots,
                    truncated |-> pass'.truncated]
    BY <1>1, <1>6, Zenon DEF Shapes, Idle
  <2> QED
    BY <1>1, <1>2, <1>3, <2>1, <2>2, Zenon DEF Shapes
<1>8. Lock'
  <2>1. CASE pub.todo = {c}
    BY <2>1, <1>2, <1>6, Zenon DEF Lock, Locked, Idle, Serving
  <2>2. CASE pub.todo # {c}
    <3>1. Locked'
      BY <2>2, <1>6, Zenon DEF Locked
    <3>2. pub'.todo # {} /\ pub'.todo \subseteq Subscribers'
      BY <2>2, <1>2, <1>3, Zenon DEF Subscribers
    <3> QED
      BY <3>1, <3>2, <1>2, <1>3, Zenon DEF Lock
  <2> QED
    BY <2>1, <2>2, Zenon
<1>9. NeverBlocks'
  BY <1>3, Zenon DEF NeverBlocks
<1>10. ASSUME NEW d \in Clients PROVE Channel(d)' /\ Held(d)'
  <2>1. CASE d = c
    <3>1. Head(buf'[c]) = RuntimeUpdate /\ buf'[c] # <<>> /\ RuntimeUpdate.id = sequence
      BY <1>5, OneElement, Zenon DEF RuntimeUpdate
    <3>2. stream[c] # "off"
      BY <1>2, Zenon DEF Subscribers
    <3>3. Channel(c) /\ sequence \in Nat
      BY <1>1, Zenon DEF Shapes
    <3>4. Channel(c)'
      <4>1. last'[c] = last[c] /\ c \notin pub'.todo /\ sequence' = sequence
        BY <1>2, <1>3, Zenon
      <4>2. last[c] # None => last[c].id \in Nat /\ last[c].id < sequence
        BY <3>3, Zenon DEF Channel
      <4>3. stream'[c] # "off" /\ current' # None
        BY <1>2, <3>2, Zenon
      <4>4. Head(buf'[c]).id = sequence /\ buf'[c] = <<Head(buf'[c])>>
        BY <3>1, <1>5, Zenon
      <4> QED
        BY <4>1, <4>2, <4>3, <4>4, <3>3 DEF Channel
    <3>5. RuntimeUpdate' = RuntimeUpdate
      BY <1>2, Zenon DEF RuntimeUpdate
    <3>6. Held(c)'
      BY <3>1, <3>5, <1>5, Zenon DEF Held
    <3> QED
      BY <2>1, <3>4, <3>6, Zenon
  <2>2. CASE d # c
    <3>1. buf'[d] = buf[d]
      BY <2>2, <1>5, Zenon
    <3> QED
      BY <2>2, <3>1, <1>1, <1>2, <1>3, Zenon DEF Channel, Held, RuntimeUpdate
  <2> QED
    BY <2>1, <2>2, Zenon
<1> QED
  BY <1>1, <1>2, <1>7, <1>8, <1>9, <1>10, Zenon DEF HandOver

\* A full channel: the publisher turns to emptying it.
LEMMA RefusedKeepsHandOver ==
    ASSUME HandOver, NEW c \in Clients, SendRefused(c)
    PROVE  HandOver'
<1>1. /\ Locked /\ c \in pub.todo /\ pub.send = {}
      /\ pub' = [pub EXCEPT !.drain = {c}]
      /\ UNCHANGED <<pass, current, ready, sequence, stream, buf, last>>
  BY Zenon DEF SendRefused, Trying, serveFrame
<1>2. pub' = [todo |-> pub.todo, drain |-> {c}, send |-> {}]
  BY <1>1, Zenon DEF HandOver, Shapes
<1>3. Shapes'
  BY <1>1, <1>2, Zenon DEF HandOver, Shapes
<1>4. Lock' /\ NeverBlocks'
  BY <1>1, <1>2, Zenon DEF HandOver, Lock, Locked, Subscribers, NeverBlocks
<1> QED
  BY <1>1, <1>2, <1>3, <1>4, Zenon DEF HandOver, Channel, Held, RuntimeUpdate

\* The channel is emptied before the second send.
LEMMA DrainKeepsHandOver ==
    ASSUME HandOver, NEW c \in Clients, Drain(c)
    PROVE  HandOver'
<1>1. /\ c \in pub.drain
      /\ pub' = [pub EXCEPT !.drain = {}, !.send = {c}]
      /\ buf' = [buf EXCEPT ![c] = <<>>]
      /\ UNCHANGED <<pass, current, ready, sequence, stream, last>>
  BY Zenon DEF Drain, serveFrame
<1>2. Locked /\ c \in pub.todo
  BY <1>1 DEF HandOver, Lock, Serving
<1>3. pub' = [todo |-> pub.todo, drain |-> {}, send |-> {c}]
  BY <1>1, Zenon DEF HandOver, Shapes
<1>4. /\ buf' = [d \in Clients |-> buf'[d]] /\ buf'[c] = <<>>
      /\ \A d \in Clients \ {c} : buf'[d] = buf[d]
  BY <1>1, Zenon DEF HandOver, Shapes
<1>5. Shapes' /\ Lock' /\ NeverBlocks'
  <2>1. Shapes'
    BY <1>1, <1>3, <1>4, Zenon DEF HandOver, Shapes
  <2>2. Lock' /\ NeverBlocks'
    BY <1>1, <1>2, <1>3, <1>4 DEF HandOver, Lock, Locked, Subscribers, NeverBlocks
  <2> QED
    BY <2>1, <2>2, Zenon
<1>6. ASSUME NEW d \in Clients PROVE Channel(d)' /\ Held(d)'
  BY <1>1, <1>2, <1>3, <1>4, Zenon DEF HandOver, Channel, Held, RuntimeUpdate
<1> QED
  BY <1>1, <1>5, <1>6, Zenon DEF HandOver

\* A handler subscribes: its channel holds the current snapshot, if any.
LEMMA SubscribeKeepsHandOver ==
    ASSUME HandOver, NEW c \in Clients, Subscribe(c)
    PROVE  HandOver'
<1>1. /\ stream[c] = "off" /\ ~Locked
      /\ stream' = [stream EXCEPT ![c] = "on"]
      /\ buf' = [buf EXCEPT ![c] = IF current = None THEN <<>> ELSE <<RuntimeUpdate>>]
      /\ UNCHANGED <<pass, current, ready, sequence, pub, last>>
  BY Zenon DEF Subscribe, streamFrame, monitor
<1>2. pub = Serving({}) /\ pub.todo = {} /\ pub.send = {}
  BY <1>1 DEF HandOver, Lock, Serving
<1>3. /\ buf' = [d \in Clients |-> buf'[d]]
      /\ buf'[c] = IF current = None THEN <<>> ELSE <<RuntimeUpdate>>
      /\ stream'[c] = "on"
      /\ \A d \in Clients \ {c} : buf'[d] = buf[d] /\ stream'[d] = stream[d]
  BY <1>1, Zenon DEF HandOver, Shapes
<1>4. Shapes' /\ Lock' /\ NeverBlocks'
  <2>1. Shapes'
    BY <1>1, <1>3, Zenon DEF HandOver, Shapes
  <2>2. Lock' /\ NeverBlocks'
    BY <1>1, <1>2, Zenon DEF Lock, Locked, Serving, NeverBlocks
  <2> QED
    BY <2>1, <2>2, Zenon
<1>5. ASSUME NEW d \in Clients PROVE Channel(d)' /\ Held(d)'
  <2>0. Channel(d) /\ Held(d) /\ sequence \in Nat /\ RuntimeUpdate' = RuntimeUpdate
    BY <1>1, Zenon DEF HandOver, Shapes, RuntimeUpdate
  <2>1. CASE d = c
    <3>1. last[c] = None
      BY <1>1, <2>0, <2>1, Zenon DEF Channel
    <3>2. CASE current = None
      BY <1>1, <1>3, <2>1, <3>1, <3>2, Zenon DEF Channel, Held
    <3>3. CASE current # None
      <4>1. /\ buf'[c] = <<RuntimeUpdate>> /\ buf'[c] # <<>>
            /\ Head(buf'[c]) = RuntimeUpdate /\ RuntimeUpdate.id = sequence
        BY <1>3, <3>3, OneElement, Zenon DEF RuntimeUpdate
      <4> QED
        BY <1>1, <1>2, <1>3, <2>0, <2>1, <3>1, <3>3, <4>1 DEF Channel, Held
    <3> QED
      BY <3>2, <3>3, Zenon
  <2>2. CASE d # c
    BY <1>1, <1>3, <2>0, <2>2, Zenon DEF Channel, Held
  <2> QED
    BY <2>1, <2>2, Zenon
<1> QED
  BY <1>1, <1>4, <1>5, Zenon DEF HandOver

\* An event is written: it is newer than the last one, and the latest unless
\* the stream is about to be served.
LEMMA WriteKeepsHandOver ==
    ASSUME HandOver, NEW c \in Clients, WriteRuntimeEvent(c)
    PROVE  HandOver'
<1>1. /\ stream[c] = "on" /\ buf[c] # <<>>
      /\ last' = [last EXCEPT ![c] = Head(buf[c])]
      /\ buf' = [buf EXCEPT ![c] = Tail(buf[c])]
      /\ UNCHANGED <<pass, current, ready, sequence, pub, stream>>
  BY Zenon DEF WriteRuntimeEvent, streamFrame, monitor
<1>2. Channel(c) /\ Held(c) /\ sequence \in Nat /\ RuntimeUpdate' = RuntimeUpdate
  BY <1>1, Zenon DEF HandOver, Shapes, RuntimeUpdate
<1>3. buf[c] = <<Head(buf[c])>> /\ current # None
  BY <1>1, <1>2, Zenon DEF Channel
<1>4. Tail(buf[c]) = <<>>
  BY <1>3, OneElement, Zenon
<1>5. /\ buf' = [d \in Clients |-> buf'[d]] /\ last' = [d \in Clients |-> last'[d]]
      /\ buf'[c] = <<>> /\ last'[c] = Head(buf[c])
      /\ \A d \in Clients \ {c} : buf'[d] = buf[d] /\ last'[d] = last[d]
  BY <1>1, <1>4, Zenon DEF HandOver, Shapes
<1>6. Shapes' /\ Lock' /\ NeverBlocks'
  <2>1. Shapes'
    BY <1>1, <1>5, Zenon DEF HandOver, Shapes
  <2>2. Lock'
    BY <1>1, Zenon DEF HandOver, Lock, Locked, Subscribers, Serving
  <2>3. \A d \in pub.send : d \in Clients
    BY DEF HandOver, Lock, Subscribers, Serving
  <2>4. NeverBlocks'
    BY <1>1, <1>5, <2>3, Zenon DEF HandOver, NeverBlocks
  <2> QED
    BY <2>1, <2>2, <2>4, Zenon
<1>7. ASSUME NEW d \in Clients PROVE Channel(d)' /\ Held(d)'
  <2>1. CASE d = c
    <3>1. c \notin pub.todo => last'[c] = RuntimeUpdate
      BY <1>1, <1>2, <1>5, OneElement, Zenon DEF Held
    <3> QED
      BY <1>1, <1>2, <1>3, <1>5, <2>1, <3>1, Zenon DEF Channel, Held
  <2>2. CASE d # c
    BY <1>1, <1>2, <1>5, <2>2, Zenon DEF HandOver, Channel, Held
  <2> QED
    BY <2>1, <2>2, Zenon
<1> QED
  BY <1>1, <1>6, <1>7, Zenon DEF HandOver

\* A stream ends, with the waiting update possibly taken and lost.
LEMMA EndKeepsHandOver ==
    ASSUME HandOver, NEW c \in Clients, EndStream(c)
    PROVE  HandOver'
<1>1. /\ stream[c] = "on" /\ stream' = [stream EXCEPT ![c] = "closing"]
      /\ buf' \in {buf, [buf EXCEPT ![c] = <<>>]}
      /\ UNCHANGED <<pass, current, ready, sequence, pub, last>>
  BY Zenon DEF EndStream, streamFrame, monitor
<1>2. /\ buf' = [d \in Clients |-> buf'[d]] /\ buf'[c] \in {buf[c], <<>>}
      /\ stream'[c] = "closing"
      /\ \A d \in Clients \ {c} : buf'[d] = buf[d] /\ stream'[d] = stream[d]
  BY <1>1, Zenon DEF HandOver, Shapes
<1>3. Shapes'
  BY <1>1, <1>2, Zenon DEF HandOver, Shapes
<1>4. Subscribers' = Subscribers
  BY <1>1, <1>2, Zenon DEF Subscribers
<1>5. Lock'
  BY <1>1, <1>4, Zenon DEF HandOver, Lock, Locked, Serving
<1>6. \A d \in pub.send : d \in Clients
  BY DEF HandOver, Lock, Subscribers, Serving
<1>7. NeverBlocks'
  BY <1>1, <1>2, <1>6, Zenon DEF HandOver, NeverBlocks
<1>8. ASSUME NEW d \in Clients PROVE Channel(d)' /\ Held(d)'
  <2>0. Channel(d) /\ Held(d) /\ RuntimeUpdate' = RuntimeUpdate
    BY <1>1, Zenon DEF HandOver, RuntimeUpdate
  <2>1. CASE d = c
    BY <1>1, <1>2, <2>0, <2>1, Zenon DEF Channel, Held
  <2>2. CASE d # c
    BY <1>1, <1>2, <2>0, <2>2, Zenon DEF Channel, Held
  <2> QED
    BY <2>1, <2>2, Zenon
<1> QED
  BY <1>1, <1>3, <1>5, <1>7, <1>8, Zenon DEF HandOver

\* The cancel function removes the subscriber, with the lock free.
LEMMA CancelKeepsHandOver ==
    ASSUME HandOver, NEW c \in Clients, Cancel(c)
    PROVE  HandOver'
<1>1. /\ ~Locked /\ stream' = [stream EXCEPT ![c] = "off"]
      /\ buf' = [buf EXCEPT ![c] = <<>>] /\ last' = [last EXCEPT ![c] = None]
      /\ UNCHANGED <<pass, current, ready, sequence, pub>>
  BY Zenon DEF Cancel, streamFrame, monitor
<1>2. pub = Serving({}) /\ pub.todo = {} /\ pub.send = {}
  BY <1>1 DEF HandOver, Lock, Serving
<1>3. /\ buf' = [d \in Clients |-> buf'[d]] /\ last' = [d \in Clients |-> last'[d]]
      /\ buf'[c] = <<>> /\ last'[c] = None /\ stream'[c] = "off"
      /\ \A d \in Clients \ {c} :
            buf'[d] = buf[d] /\ last'[d] = last[d] /\ stream'[d] = stream[d]
  BY <1>1, Zenon DEF HandOver, Shapes
<1>4. Shapes'
  BY <1>1, <1>3, Zenon DEF HandOver, Shapes
<1>5. Lock' /\ NeverBlocks'
  BY <1>1, <1>2, Zenon DEF Lock, Locked, Serving, NeverBlocks
<1>6. ASSUME NEW d \in Clients PROVE Channel(d)' /\ Held(d)'
  <2>0. Channel(d) /\ Held(d) /\ RuntimeUpdate' = RuntimeUpdate
    BY <1>1, Zenon DEF HandOver, RuntimeUpdate
  <2>1. CASE d = c
    BY <1>3, <2>1, Zenon DEF Channel, Held
  <2>2. CASE d # c
    BY <1>1, <1>3, <2>0, <2>2, Zenon DEF Channel, Held
  <2> QED
    BY <2>1, <2>2, Zenon
<1> QED
  BY <1>1, <1>4, <1>5, <1>6, Zenon DEF HandOver

\* A new process starts like the first one.
LEMMA RestartKeepsHandOver == Restart => HandOver'
<1> SUFFICES ASSUME Restart PROVE HandOver'
  BY Zenon
<1>1. Shapes'
  BY Zenon DEF Shapes, Restart, Idle, Serving
<1>2. Lock' /\ NeverBlocks'
  BY Zenon DEF Lock, Locked, NeverBlocks, Restart, Idle, Serving
<1>3. ASSUME NEW c \in Clients PROVE Channel(c)' /\ Held(c)'
  BY Zenon DEF Channel, Held, Restart
<1> QED
  BY <1>1, <1>2, <1>3, Zenon DEF HandOver, Restart

\* Every step keeps the hand-over intact.
LEMMA HandOverStep == HandOver /\ [Next]_vars => HandOver'
<1> SUFFICES ASSUME HandOver, [Next]_vars PROVE HandOver'
  BY Zenon
<1>1. CASE World \/ Sync \/ \E r \in cache : Expire(r)
  <2>1. UNCHANGED <<pass, monitor, streams>>
    <3>1. CASE World
      BY <3>1, Zenon DEF World, DeleteInstance, CreateInstance, Deploy, CollectDeployment,
                  CreateRun, DeleteRun, StartJob, FinishJob, CollectJob, Changes
    <3>2. CASE Sync
      BY <3>2, Zenon DEF Sync
    <3>3. CASE \E r \in cache : Expire(r)
      BY <3>3, Zenon DEF Expire
    <3> QED
      BY <1>1, <3>1, <3>2, <3>3, Zenon
  <2> QED
    BY <2>1, ElsewhereKeepsHandOver, Zenon
<1>2. CASE Snapshot
  <2>1. /\ ~Locked /\ UNCHANGED <<monitor, streams>>
        /\ pass' = [at |-> "resolve", inst |-> pass'.inst, deps |-> pass'.deps,
                    jobs |-> pass'.jobs, todo |-> pass'.todo, roots |-> pass'.roots,
                    truncated |-> pass'.truncated]
    BY <1>2, Zenon DEF Snapshot, Locked
  <2>2. pass'.at = "resolve"
    BY <2>1
  <2> QED
    BY <2>1, <2>2, ReadingKeepsHandOver, Zenon DEF Locked
<1>3. CASE \E n \in Names : resolveReferencedIngestRuns(n)
  <2>1. /\ pass.at = "resolve" /\ UNCHANGED <<monitor, streams>>
        /\ \E n \in Names : \E roots :
              \/ pass' = [pass EXCEPT !.todo = @ \ {n}, !.roots = roots]
              \/ pass' = [pass EXCEPT !.todo = @ \ {n}]
    BY <1>3, Zenon DEF resolveReferencedIngestRuns
  <2>2. pass'.at = "resolve"
        /\ pass' = [at |-> pass'.at, inst |-> pass'.inst, deps |-> pass'.deps,
                    jobs |-> pass'.jobs, todo |-> pass'.todo, roots |-> pass'.roots,
                    truncated |-> pass'.truncated]
    BY <2>1, Zenon DEF HandOver, Shapes
  <2> QED
    BY <2>1, <2>2, ReadingKeepsHandOver, Zenon DEF Locked
<1>4. CASE Refresh
  BY <1>4, RefreshKeepsHandOver, Zenon
<1>5. CASE InstanceNotFound \/ ReadFails
  BY <1>5, MarkStaleKeepsHandOver, Zenon DEF InstanceNotFound, ReadFails, Locked
<1>6. CASE Publishing
  <2>1. PICK c \in Clients : TrySend(c) \/ SendRefused(c) \/ Drain(c) \/ Send(c)
    BY <1>6, Zenon DEF Publishing
  <2>2. CASE TrySend(c)
    BY <2>2, DeliveredKeepsHandOver, Zenon DEF TrySend, Trying
  <2>3. CASE SendRefused(c)
    BY <2>3, RefusedKeepsHandOver, Zenon
  <2>4. CASE Drain(c)
    BY <2>4, DrainKeepsHandOver, Zenon
  <2>5. CASE Send(c)
    <3>1. Locked /\ c \in pub.todo
      BY <2>5 DEF Send, HandOver, Lock, Serving
    <3> QED
      BY <2>5, <3>1, DeliveredKeepsHandOver, Zenon DEF Send
  <2> QED
    BY <2>1, <2>2, <2>3, <2>4, <2>5, Zenon
<1>7. CASE \E c \in Clients : Streaming(c)
  BY <1>7, SubscribeKeepsHandOver, WriteKeepsHandOver, EndKeepsHandOver,
     CancelKeepsHandOver, Zenon DEF Streaming
<1>8. CASE Restart
  BY <1>8, RestartKeepsHandOver, Zenon
<1>9. CASE UNCHANGED vars
  <2>1. UNCHANGED <<pass, monitor, streams>>
    BY <1>9, Zenon DEF vars
  <2> QED
    BY <2>1, ElsewhereKeepsHandOver, Zenon
<1> QED
  BY <1>1, <1>2, <1>3, <1>4, <1>5, <1>6, <1>7, <1>8, <1>9, Zenon DEF Next, Ticks

\* The hand-over invariant holds throughout.
THEOREM HandOverInvariant == Spec => []HandOver
  BY HandOverInit, HandOverStep, PTL DEF Spec

\* publishLocked never waits for a stream while it holds the Monitor's lock.
THEOREM NeverBlocksTheorem == Spec => []NeverBlocks
<1>1. HandOver => NeverBlocks
  BY Zenon DEF HandOver
<1> QED
  BY <1>1, HandOverInvariant, PTL

\* Every open stream holds or has written the current snapshot whenever the
\* Monitor's lock is free: slow streams lose intermediate updates only.
THEOREM LatestHeldTheorem == Spec => []LatestHeld
<1>1. HandOver => LatestHeld
  BY DEF HandOver, Lock, Serving, Held, LatestHeld
<1> QED
  BY <1>1, HandOverInvariant, PTL

\* The readiness endpoint answers ready exactly while the snapshot served is
\* not flagged stale.
THEOREM ReadyIsFreshTheorem == Spec => []ReadyIsFresh
<1>1. HandOver => ReadyIsFresh
  BY Zenon DEF HandOver, ReadyIsFresh, readiness
<1> QED
  BY <1>1, HandOverInvariant, PTL

\* The numbers of the events one stream writes strictly increase.
THEOREM IdsIncreaseTheorem == Spec => IdsIncrease
<1> DEFINE Increase == \A c \in Clients :
              stream[c] = "on" /\ last'[c] # last[c] /\ last'[c] # None
                  => last[c] = None \/ last'[c].id > last[c].id
<1>1. ASSUME HandOver, [Next]_vars PROVE [Increase]_vars
  <2>1. CASE \E c \in Clients : WriteRuntimeEvent(c)
    <3>1. PICK c \in Clients : WriteRuntimeEvent(c)
      BY <2>1, Zenon
    <3>2. /\ last'[c] = Head(buf[c]) /\ buf[c] # <<>>
          /\ \A d \in Clients \ {c} : last'[d] = last[d]
      BY <1>1, <3>1, Zenon DEF WriteRuntimeEvent, HandOver, Shapes
    <3>3. last[c] # None => last[c].id \in Nat /\ Head(buf[c]).id \in Nat
                                /\ last[c].id < Head(buf[c]).id
      BY <1>1, <3>2, Zenon DEF HandOver, Channel
    <3> QED
      BY <3>2, <3>3, Zenon
  <2>2. CASE \E c \in Clients : Cancel(c)
    BY <1>1, <2>2, Zenon DEF Cancel, HandOver, Shapes
  <2>3. CASE Restart
    BY <2>3, Zenon DEF Restart
  <2>4. CASE UNCHANGED last
    BY <2>4, Zenon
  <2>5. ASSUME Next PROVE \/ \E c \in Clients : WriteRuntimeEvent(c)
                          \/ \E c \in Clients : Cancel(c)
                          \/ Restart
                          \/ UNCHANGED last
    BY <2>5, Zenon DEF Next, World, DeleteInstance, CreateInstance, Deploy, CollectDeployment,
                CreateRun, DeleteRun, StartJob, FinishJob, CollectJob, Changes, Sync, Expire,
                Ticks, Snapshot, InstanceNotFound, Refresh, resolveReferencedIngestRuns,
                ReadFails, markStale, Publishing, TrySend, SendRefused, Drain, Send, Delivered,
                serveFrame, Streaming, Subscribe, EndStream, streams
  <2> QED
    BY <1>1, <2>1, <2>2, <2>3, <2>4, <2>5, Zenon
<1> QED
  BY <1>1, HandOverInvariant, PTL DEF Spec, IdsIncrease
=============================================================================

----------------------------- MODULE IngestorProofs -----------------------------
(***************************************************************************)
(* The frame queue, for any number of connections and frames and any       *)
(* capacity: the end of the source is never lost, and what goes through    *)
(* the queue goes through the channel FrameChannel promises.               *)
(***************************************************************************)
EXTENDS Ingestor, DataLemmas

-------------------------------------------------------------------------------
(***************************************************************************)
(* What the variables range over                                           *)
(***************************************************************************)
Items == Frames \cup {End}

Puts == [by : Conns \cup {Stopper}, item : {End}]

ConnStates == {"open", "failing", "closing", "closed", "stuck"}

IngestorTypes ==
  /\ kind \in Kinds
  /\ queue \in Seq(Items) /\ Len(queue) <= QueueMax
  /\ putters \in Seq(Puts) /\ woken \in Seq(Puts)
  /\ closed \in BOOLEAN /\ pstop \in BOOLEAN
  /\ conn \in [Conns -> ConnStates]
  /\ sent \in [Conns -> 0..MaxFrames] /\ decoding \in [Conns -> SUBSET (1..MaxFrames)]
  /\ stopper \in {"idle", "closing", "cancelling", "done"}
  /\ consumer \in {"get", "busy", "reaping", "done"}
  /\ out \in Seq(Frames)

\* What is in decoding was sent; except on KCP it is the connection's last frame.
NumberInv ==
  \A c \in Conns :
    decoding[c] \subseteq 1..sent[c] /\ (kind # "kcp" => decoding[c] \subseteq {sent[c]})

EndLast(q) == q # <<>> /\ q[Len(q)] = End

\* r is q with as many as two ends added.
EndsAdded(q, r) == r = q \/ r = Append(q, End) \/ r = Append(Append(q, End), End)

LEMMA EndsAddedIs ==
  ASSUME NEW q \in Seq(Items), NEW r, EndsAdded(q, r)
  PROVE  /\ r \in Seq(Items) /\ ToSet(r) \subseteq ToSet(q) \cup {End}
         /\ Only(r, Frames) = Only(q, Frames)
         /\ r # q => EndLast(r)
<1>1. End \in Items /\ End \notin Frames
  BY EndAssumption DEF Items
<1> DEFINE a == Append(q, End)
           b == Append(a, End)
<1>2. /\ a \in Seq(Items) /\ ToSet(a) = ToSet(q) \cup {End} /\ Only(a, Frames) = Only(q, Frames)
      /\ EndLast(a)
  <2>1. ToSet(a) = ToSet(q) \cup {End}
    BY <1>1, AppendNew
  <2>2. Only(a, Frames) = Only(q, Frames)
    BY <1>1, OnlyOfAppend
  <2>3. EndLast(a)
    BY <1>1 DEF EndLast
  <2> QED BY <1>1, <2>1, <2>2, <2>3
<1> HIDE DEF a
<1>3. /\ b \in Seq(Items) /\ ToSet(b) = ToSet(a) \cup {End} /\ Only(b, Frames) = Only(a, Frames)
      /\ EndLast(b)
  <2>1. ToSet(b) = ToSet(a) \cup {End}
    BY <1>1, <1>2, AppendNew
  <2>2. Only(b, Frames) = Only(a, Frames)
    BY <1>1, <1>2, OnlyOfAppend
  <2>3. EndLast(b)
    BY <1>1, <1>2 DEF EndLast
  <2> QED BY <1>1, <1>2, <2>1, <2>2, <2>3
<1>4. r = q \/ r = a \/ r = b
  BY DEF EndsAdded, a
<1> QED BY <1>2, <1>3, <1>4

LEMMA RepeatedEnds ==
  ASSUME NEW q \in Seq(Items), NEW n \in 0..2
  PROVE  /\ EndsAdded(q, q \o [i \in 1..n |-> End])
         /\ Len(q \o [i \in 1..n |-> End]) = Len(q) + n
<1> DEFINE r == q \o [i \in 1..n |-> End]
<1>1. End \in Items /\ n \in Nat
  BY DEF Items
<1>2. [i \in 1..n |-> End] \in Seq(Items) /\ Len([i \in 1..n |-> End]) = n
  BY <1>1
<1>3. Len(r) = Len(q) + n
  BY <1>2
<1>4. CASE n = 0
  BY <1>2, <1>4 DEF EndsAdded
<1>5. CASE n = 1
  <2>1. r = Append(q, End)
    BY <1>1, <1>2, <1>5
  <2> QED BY <2>1 DEF EndsAdded
<1>6. CASE n = 2
  <2>1. r = Append(Append(q, End), End)
    BY <1>1, <1>2, <1>6
  <2> QED BY <2>1 DEF EndsAdded
<1> QED BY <1>3, <1>4, <1>5, <1>6

LEMMA PutEndDoes ==
  ASSUME IngestorTypes, NEW p \in Conns \cup {Stopper}, PutEnd(p)
  PROVE  /\ EndsAdded(queue, queue') /\ queue' \in Seq(Items) /\ Len(queue') <= QueueMax
         /\ putters' \in Seq(Puts)
         /\ putters' # <<>> \/ EndLast(queue')
<1>1. queue \in Seq(Items) /\ Len(queue) <= QueueMax /\ putters \in Seq(Puts) /\ End \in Items
  BY DEF IngestorTypes, Items
<1>2. [by |-> p, item |-> End] \in Puts
  BY DEF Puts
<1>3. CASE Full(queue)
  <2>1. putters' = Append(putters, [by |-> p, item |-> End]) /\ queue' = queue
    BY <1>3 DEF PutEnd
  <2>2. putters' \in Seq(Puts) /\ putters' # <<>>
    BY <1>1, <1>2, <2>1
  <2> QED BY <1>1, <2>1, <2>2 DEF EndsAdded
<1>4. CASE ~ Full(queue)
  <2>1. queue' = Append(queue, End) /\ putters' = putters
    BY <1>4 DEF PutEnd
  <2>2. queue' \in Seq(Items) /\ Len(queue') = Len(queue) + 1 /\ queue'[Len(queue')] = End
        /\ queue' # <<>>
    BY <1>1, <2>1
  <2>3. Len(queue) < QueueMax
    BY <1>1, <1>4, IngestorAssumption DEF Full
  <2> QED BY <1>1, <2>1, <2>2, <2>3, IngestorAssumption DEF EndsAdded, EndLast
<1> QED BY <1>3, <1>4

LEMMA WakePutterDoes ==
  ASSUME IngestorTypes, WakePutter
  PROVE  /\ putters' \in Seq(Puts) /\ woken' \in Seq(Puts)
         /\ putters # <<>> \/ woken # <<>> => putters' # <<>> \/ woken' # <<>>
<1>1. putters \in Seq(Puts) /\ woken \in Seq(Puts)
  BY DEF IngestorTypes
<1>2. CASE putters = <<>>
  BY <1>1, <1>2 DEF WakePutter
<1>3. CASE putters # <<>>
  <2>1. putters' = Tail(putters) /\ woken' = Append(woken, Head(putters))
    BY <1>3 DEF WakePutter
  <2>2. Tail(putters) \in Seq(Puts) /\ Head(putters) \in Puts
    BY <1>1, <1>3
  <2>3. woken' \in Seq(Puts) /\ woken' # <<>>
    BY <1>1, <2>1, <2>2
  <2> QED BY <2>1, <2>2, <2>3
<1> QED BY <1>2, <1>3

\* A step that ends in a sentinel at the end of the queue, or in a task that is
\* blocked putting one.
Signals ==
  /\ EndsAdded(queue, queue') /\ queue' \in Seq(Items) /\ Len(queue') <= QueueMax
  /\ putters' \in Seq(Puts) /\ woken' \in Seq(Puts)
  /\ putters' # <<>> \/ EndLast(queue')

LEMMA PutEndSignals ==
  ASSUME IngestorTypes, NEW p \in Conns \cup {Stopper}, PutEnd(p), woken' = woken
  PROVE  Signals
<1>1. woken' \in Seq(Puts)
  BY DEF IngestorTypes
<1> QED BY <1>1, PutEndDoes DEF Signals

LEMMA PutterResumesSignals ==
  ASSUME IngestorTypes, PutterResumes
  PROVE  /\ Signals
         /\ conn' \in [Conns -> ConnStates]
         /\ \A c \in Conns : conn'[c] = conn[c] \/ conn'[c] \in {"closing", "closed"}
         /\ stopper' \in {stopper, "cancelling"}
<1> DEFINE w == Head(woken)
           room == QueueMax - Len(queue)
           wants == IF w.by \in Conns /\ conn[w.by] = "failing" THEN 2 ELSE 1
<1>1. /\ queue \in Seq(Items) /\ Len(queue) \in Nat /\ Len(queue) <= QueueMax /\ QueueMax \in Nat
      /\ putters \in Seq(Puts) /\ woken \in Seq(Puts) /\ woken # <<>>
  BY IngestorAssumption DEF IngestorTypes, PutterResumes
<1>2. w \in Puts /\ Tail(woken) \in Seq(Puts)
  BY <1>1
<1>3. w.item = End
  BY <1>2 DEF Puts
<1>4. /\ woken' = Tail(woken)
      /\ queue' = IF room >= wants THEN queue \o [i \in 1..wants |-> End]
                  ELSE IF room = 1 THEN Append(queue, End) ELSE queue
      /\ putters' = IF room >= wants THEN putters ELSE Append(putters, w)
  BY <1>3 DEF PutterResumes
<1>5. wants \in 1..2 /\ room \in Nat
  BY <1>1
<1>6. /\ conn' = [c \in Conns |-> IF c # w.by \/ room = 0 THEN conn[c]
                                  ELSE IF room >= wants THEN "closed" ELSE "closing"]
      /\ stopper' \in {stopper, "cancelling"}
  BY DEF PutterResumes
<1> HIDE DEF w, wants
<1>7. Signals
  <2>1. CASE room >= wants
    <3>1. queue' = queue \o [i \in 1..wants |-> End] /\ putters' = putters
      BY <1>4, <2>1
    <3>2. EndsAdded(queue, queue') /\ Len(queue') = Len(queue) + wants
      <4>1. wants \in 0..2
        BY <1>5
      <4> QED BY <1>1, <3>1, <4>1, RepeatedEnds
    <3>3. queue' \in Seq(Items) /\ EndLast(queue')
      <4>1. queue' # queue
        BY <1>1, <1>5, <3>2
      <4> QED BY <1>1, <3>2, <4>1, EndsAddedIs
    <3> QED BY <1>1, <1>2, <1>4, <1>5, <2>1, <3>1, <3>2, <3>3 DEF Signals
  <2>2. CASE ~ (room >= wants)
    <3>1. putters' = Append(putters, w)
      BY <1>4, <2>2
    <3>2. putters' \in Seq(Puts) /\ putters' # <<>>
      BY <1>1, <1>2, <3>1
    <3>3. EndsAdded(queue, queue') /\ queue' \in Seq(Items) /\ Len(queue') <= QueueMax
      <4>1. CASE room = 1
        <5>1. queue' = Append(queue, End) /\ End \in Items
          BY <1>4, <2>2, <4>1 DEF Items
        <5> QED BY <1>1, <4>1, <5>1 DEF EndsAdded
      <4>2. CASE room # 1
        <5>1. queue' = queue
          BY <1>4, <2>2, <4>2
        <5> QED BY <1>1, <5>1 DEF EndsAdded
      <4> QED BY <4>1, <4>2
    <3> QED BY <1>2, <1>4, <3>2, <3>3 DEF Signals
  <2> QED BY <2>1, <2>2
<1>8. \A c \in Conns : conn'[c] = conn[c] \/ conn'[c] \in {"closing", "closed"}
  BY <1>6
<1>9. conn' \in [Conns -> ConnStates]
  BY <1>6 DEF IngestorTypes, ConnStates
<1> QED BY <1>6, <1>7, <1>8, <1>9

LEMMA SourceFailsSignals ==
  ASSUME IngestorTypes, NEW c \in Conns, SourceFails(c)
  PROVE  /\ Signals /\ sent' = sent /\ decoding' = [decoding EXCEPT ![c] = {}]
         /\ \E s \in {"failing", "closing", "closed"} : conn' = [conn EXCEPT ![c] = s]
<1> DEFINE room == QueueMax - Len(queue)
           n == IF room < 2 THEN room ELSE 2
           next == CASE room = 0 -> "failing" [] room = 1 -> "closing" [] OTHER -> "closed"
<1>0. next \in {"failing", "closing", "closed"} /\ conn' = [conn EXCEPT ![c] = next] /\ sent' = sent
      /\ decoding' = [decoding EXCEPT ![c] = {}]
  <2>1. next \in {"failing", "closing", "closed"}
    OBVIOUS
  <2> QED BY <2>1 DEF SourceFails
<1>1. /\ queue \in Seq(Items) /\ Len(queue) \in Nat /\ Len(queue) <= QueueMax /\ QueueMax \in Nat
      /\ putters \in Seq(Puts) /\ woken \in Seq(Puts)
  BY IngestorAssumption DEF IngestorTypes
<1>2. /\ queue' = queue \o [i \in 1..n |-> End] /\ woken' = woken
      /\ putters' = IF room < 2 THEN Append(putters, [by |-> c, item |-> End]) ELSE putters
  BY DEF SourceFails
<1>3. n \in 0..2 /\ n <= room
  BY <1>1
<1>4. [by |-> c, item |-> End] \in Puts
  BY DEF Puts
<1>5. EndsAdded(queue, queue') /\ Len(queue') = Len(queue) + n
  <2> HIDE DEF n
  <2> QED BY <1>1, <1>2, <1>3, RepeatedEnds
<1>6. queue' \in Seq(Items) /\ (n > 0 => EndLast(queue'))
  <2>1. n > 0 => queue' # queue
    BY <1>1, <1>5
  <2> HIDE DEF n
  <2> QED BY <1>1, <1>5, <2>1, EndsAddedIs
<1> HIDE DEF next
<1>7. CASE room < 2
  <2>1. putters' \in Seq(Puts) /\ putters' # <<>>
    BY <1>1, <1>2, <1>4, <1>7
  <2>2. Len(queue') <= QueueMax
    BY <1>1, <1>3, <1>5
  <2>3. Signals
    BY <1>1, <1>2, <1>5, <1>6, <2>1, <2>2 DEF Signals
  <2> QED BY <1>0, <2>3
<1>8. CASE ~ (room < 2)
  <2>1. putters' = putters /\ n > 0
    BY <1>2, <1>8
  <2>2. Len(queue') <= QueueMax
    BY <1>1, <1>3, <1>5
  <2>3. Signals
    BY <1>1, <1>2, <1>5, <1>6, <2>1, <2>2 DEF Signals
  <2> QED BY <1>0, <2>3
<1> QED BY <1>7, <1>8

LEMMA NotByType ==
  ASSUME NEW s \in Seq(Puts), NEW c
  PROVE  NotBy(c, s) \in Seq(Puts)
BY OnlyWithin DEF NotBy

LEMMA ProducerCancelledDoes ==
  ASSUME IngestorTypes, NEW c \in Conns, ProducerCancelled(c)
  PROVE  /\ EndsAdded(queue, queue') /\ queue' \in Seq(Items) /\ Len(queue') <= QueueMax
         /\ putters' \in Seq(Puts) /\ woken' \in Seq(Puts)
         /\ \E s \in {"closed", "stuck"} : conn' = [conn EXCEPT ![c] = s]
<1>1. /\ queue \in Seq(Items) /\ Len(queue) \in Nat /\ Len(queue) <= QueueMax /\ QueueMax \in Nat
      /\ putters \in Seq(Puts) /\ woken \in Seq(Puts) /\ End \in Items
  BY IngestorAssumption DEF IngestorTypes, Items
<1>2. NotBy(c, putters) \in Seq(Puts) /\ NotBy(c, woken) \in Seq(Puts)
  BY <1>1, NotByType
<1>3. [by |-> c, item |-> End] \in Puts
  BY DEF Puts
<1>4. woken' \in Seq(Puts) /\ \E s \in {"closed", "stuck"} : conn' = [conn EXCEPT ![c] = s]
  BY <1>2 DEF ProducerCancelled
<1>5. putters' \in Seq(Puts)
  <2>1. \/ putters' = NotBy(c, putters)
        \/ putters' = Append(NotBy(c, putters), [by |-> c, item |-> End])
    BY DEF ProducerCancelled
  <2> QED BY <1>2, <1>3, <2>1
<1>6. queue' = queue \/ (queue' = Append(queue, End) /\ ~ Full(queue))
  BY DEF ProducerCancelled
<1>7. EndsAdded(queue, queue') /\ queue' \in Seq(Items) /\ Len(queue') <= QueueMax
  <2>1. CASE queue' = queue
    BY <1>1, <2>1 DEF EndsAdded
  <2>2. CASE queue' = Append(queue, End) /\ ~ Full(queue)
    <3>1. Len(queue') = Len(queue) + 1 /\ queue' \in Seq(Items)
      BY <1>1, <2>2
    <3>2. Len(queue) < QueueMax
      BY <1>1, <2>2 DEF Full
    <3> QED BY <1>1, <2>2, <3>1, <3>2 DEF EndsAdded
  <2> QED BY <1>6, <2>1, <2>2
<1> QED BY <1>4, <1>5, <1>7

LEMMA EnqueueDoes ==
  ASSUME IngestorTypes, NEW f \in Frames, Enqueue(f)
  PROVE  /\ queue' \in Seq(Items) /\ Len(queue') <= QueueMax
         /\ ToSet(queue') \subseteq ToSet(queue) \cup {f}
         /\ putters' \in Seq(Puts) /\ woken' \in Seq(Puts)
         /\ putters # <<>> \/ woken # <<>> => putters' # <<>> \/ woken' # <<>>
<1>1. /\ queue \in Seq(Items) /\ Len(queue) \in Nat /\ Len(queue) <= QueueMax
      /\ QueueMax \in Nat \ {0} /\ f \in Items /\ putters \in Seq(Puts) /\ woken \in Seq(Puts)
  BY IngestorAssumption DEF IngestorTypes, Items
<1>2. CASE Full(queue)
  <2>1. queue' = Append(Tail(queue), f) /\ WakePutter
    BY <1>2 DEF Enqueue
  <2>2. queue # <<>> /\ Len(queue) = QueueMax
    BY <1>1, <1>2 DEF Full
  <2>3. Tail(queue) \in Seq(Items) /\ ToSet(Tail(queue)) \subseteq ToSet(queue)
    BY <1>1, <2>2, TakeHead
  <2>4. ToSet(queue') = ToSet(Tail(queue)) \cup {f} /\ queue' \in Seq(Items)
    <3> DEFINE t == Tail(queue)
    <3>1. t \in Seq(Items) /\ queue' = Append(t, f)
      BY <2>1, <2>3
    <3> HIDE DEF t
    <3>2. ToSet(queue') = ToSet(t) \cup {f} /\ queue' \in Seq(Items)
      BY <1>1, <3>1, AppendNew
    <3> QED BY <3>2 DEF t
  <2>5. Len(queue') = QueueMax
    BY <1>1, <2>1, <2>2, <2>3
  <2> QED BY <1>1, <2>1, <2>3, <2>4, <2>5, WakePutterDoes
<1>3. CASE ~ Full(queue)
  <2>1. queue' = Append(queue, f) /\ putters' = putters /\ woken' = woken
    BY <1>3 DEF Enqueue
  <2>2. ToSet(queue') = ToSet(queue) \cup {f} /\ queue' \in Seq(Items)
    BY <1>1, <2>1, AppendNew
  <2>3. Len(queue') <= QueueMax
    BY <1>1, <1>3, <2>1 DEF Full
  <2> QED BY <1>1, <2>1, <2>2, <2>3
<1> QED BY <1>2, <1>3

LEMMA HandlerClosesSignals ==
  ASSUME IngestorTypes, NEW c \in Conns, HandlerCloses(c)
  PROVE  /\ Signals
         /\ \E s \in {"closing", "closed"} : conn' = [conn EXCEPT ![c] = s]
         /\ closed' = TRUE /\ UNCHANGED <<kind, woken, pstop, sent, stopper, consumer, out>>
<1>1. Signals
  BY PutEndSignals DEF HandlerCloses
<1> QED BY <1>1 DEF HandlerCloses

\* A task's step, a client's or the producer's.
ConnStep(c) ==
  \/ Receive(c) \/ DecodingIsOver(c) \/ Disconnect(c)
  \/ SourceEnds(c) \/ SourceFails(c) \/ ProducerCancelled(c)

\* Frame n of c is decoded and enters the queue.
Feeds(c, n) ==
  /\ DecodingEnds(c, n) /\ ~ (kind = "kcp" /\ closed)
  /\ [conn |-> c, n |-> n] \in Frames /\ Enqueue([conn |-> c, n |-> n])
  /\ UNCHANGED <<closed, conn, sent>>

\* Nothing enters the queue: a frame comes, or one is lost.
FeedsNothing(c) ==
  /\ UNCHANGED <<queue, putters, woken, closed, conn>>
  /\ Receive(c) \/ (sent' = sent /\ \E n \in decoding[c] : DecodingEnds(c, n))

\* At most one frame of c leaves its decoding.
DecodesLess(c) ==
  /\ sent' = sent
  /\ \/ decoding' = decoding
     \/ \E n \in decoding[c] : DecodingEnds(c, n)
     \/ kind # "kcp" /\ decoding' = [decoding EXCEPT ![c] = {}]

\* What a step at c does to the handler of c and the frames in decoding.
LEMMA ConnMoves ==
  ASSUME IngestorTypes, NEW c \in Conns, ConnStep(c)
  PROVE  /\ conn' \in [Conns -> ConnStates]
         /\ kind' = kind /\ closed' \in BOOLEAN
         /\ UNCHANGED <<pstop, stopper, consumer, out>>
         /\ Receive(c) \/ DecodesLess(c)
<1>1. closed \in BOOLEAN /\ conn \in [Conns -> ConnStates]
  BY DEF IngestorTypes
<1>2. CASE Receive(c)
  BY <1>1, <1>2 DEF Receive
<1>3. ASSUME NEW n \in 1..MaxFrames, Decoded(c, n)
      PROVE  conn' = conn /\ kind' = kind /\ closed' = closed /\ DecodesLess(c)
             /\ UNCHANGED <<pstop, stopper, consumer, out>>
  BY <1>3 DEF Decoded, DecodingEnds, DecodesLess
<1>4. ASSUME HandlerCloses(c)
      PROVE  conn' \in [Conns -> ConnStates]
  BY <1>1, <1>4, HandlerClosesSignals DEF ConnStates
<1>5. ASSUME NEW n \in 1..MaxFrames, DecodeFails(c, n)
      PROVE  /\ conn' \in [Conns -> ConnStates] /\ kind' = kind /\ closed' \in BOOLEAN
             /\ DecodesLess(c) /\ UNCHANGED <<pstop, stopper, consumer, out>>
  <2>1. sent' = sent
    BY <1>5 DEF DecodeFails, HandlerCloses
  <2>2. DecodesLess(c)
    BY <1>5, <2>1 DEF DecodeFails, DecodingEnds, DecodesLess
  <2>3. CASE HandlerCloses(c)
    BY <1>4, <2>2, <2>3 DEF HandlerCloses
  <2>4. CASE ~ HandlerCloses(c)
    BY <1>1, <1>5, <2>2, <2>4 DEF DecodeFails
  <2> QED BY <2>3, <2>4
<1>6. CASE Disconnect(c)
  BY <1>4, <1>6 DEF Disconnect, HandlerCloses, DecodesLess
<1>7. CASE SourceEnds(c)
  BY <1>1, <1>7 DEF SourceEnds, ConnStates, DecodesLess
<1>8. CASE SourceFails(c)
  BY <1>1, <1>8, SourceFailsSignals DEF SourceFails, ConnStates, DecodesLess
<1>9. CASE ProducerCancelled(c)
  BY <1>1, <1>9, ProducerCancelledDoes DEF ProducerCancelled, ConnStates, DecodesLess
<1> QED BY <1>1, <1>2, <1>3, <1>5, <1>6, <1>7, <1>8, <1>9 DEF ConnStep, DecodingIsOver

\* What a step at c does to the queue: a frame enters it, sentinels do, or nothing.
LEMMA ConnQueues ==
  ASSUME IngestorTypes, NEW c \in Conns, ConnStep(c)
  PROVE  \/ \E n \in decoding[c] : Feeds(c, n)
         \/ ProducerCancelled(c)
         \/ Signals
         \/ FeedsNothing(c)
<1>1. CASE Receive(c)
  BY <1>1 DEF Receive, FeedsNothing
<1>2. ASSUME NEW n \in 1..MaxFrames, Decoded(c, n)
      PROVE  n \in decoding[c] /\ (Feeds(c, n) \/ FeedsNothing(c))
  <2>1. n \in decoding[c] /\ [conn |-> c, n |-> n] \in Frames
    BY <1>2 DEF Decoded, DecodingEnds, Frames
  <2>2. CASE kind = "kcp" /\ closed
    BY <1>2, <2>1, <2>2 DEF Decoded, FeedsNothing
  <2>3. CASE ~ (kind = "kcp" /\ closed)
    BY <1>2, <2>1, <2>3 DEF Decoded, Feeds
  <2> QED BY <2>1, <2>2, <2>3
<1>3. ASSUME NEW n \in 1..MaxFrames, DecodeFails(c, n)
      PROVE  Signals \/ FeedsNothing(c)
  <2>1. CASE HandlerCloses(c)
    BY <2>1, HandlerClosesSignals
  <2>2. CASE ~ HandlerCloses(c)
    BY <1>3, <2>2 DEF DecodeFails, DecodingEnds, FeedsNothing
  <2> QED BY <2>1, <2>2
<1>4. CASE Disconnect(c)
  BY <1>4, HandlerClosesSignals DEF Disconnect
<1>5. CASE SourceEnds(c)
  BY <1>5, PutEndSignals DEF SourceEnds
<1>6. CASE SourceFails(c)
  BY <1>6, SourceFailsSignals
<1> QED BY <1>1, <1>2, <1>3, <1>4, <1>5, <1>6 DEF ConnStep, DecodingIsOver

LEMMA StopDoes ==
  ASSUME IngestorTypes, Stop
  PROVE  /\ Signals \/ (kind = "pull" /\ UNCHANGED <<queue, putters>>)
         /\ stopper' \in {"closing", "cancelling"}
         /\ closed' = TRUE /\ pstop' = TRUE
         /\ UNCHANGED <<kind, woken, conn, sent, decoding, consumer, out>>
<1>1. CASE PutEnd(Stopper)
  <2>1. Signals
    BY <1>1, PutEndSignals DEF Stop
  <2> QED BY <2>1 DEF Stop
<1>2. CASE ~ PutEnd(Stopper)
  BY <1>2 DEF Stop
<1> QED BY <1>1, <1>2

LEMMA ConsumeDoes ==
  ASSUME IngestorTypes, Consume
  PROVE  /\ queue # <<>> /\ queue' = Tail(queue) /\ queue' \in Seq(Items) /\ Len(queue') <= QueueMax
         /\ ToSet(queue) = {Head(queue)} \cup ToSet(queue') /\ Head(queue) \in Items
         /\ WakePutter /\ consumer = "get"
         /\ UNCHANGED <<kind, closed, pstop, conn, sent, decoding, stopper>>
         /\ \/ consumer' \in {"reaping", "done"} /\ out' = out /\ (Head(queue) = End \/ pstop)
            \/ /\ consumer' \in {"get", "busy"} /\ Head(queue) # End
               /\ out' = Append(out, Head(queue))
<1>1. queue # <<>> /\ queue' = Tail(queue) /\ queue \in Seq(Items) /\ Len(queue) <= QueueMax
  BY DEF Consume, IngestorTypes
<1>2. ToSet(queue) = {Head(queue)} \cup ToSet(Tail(queue)) /\ Head(queue) \in Items
      /\ Tail(queue) \in Seq(Items)
  BY <1>1, TakeHead
<1>3. Len(queue') <= QueueMax
  BY <1>1, IngestorAssumption
<1>4. \/ consumer' \in {"reaping", "done"} /\ out' = out /\ (Head(queue) = End \/ pstop)
      \/ /\ consumer' \in {"get", "busy"} /\ Head(queue) # End
         /\ out' = Append(out, Head(queue))
  BY DEF Consume
<1> QED BY <1>1, <1>2, <1>3, <1>4 DEF Consume

\* The consumer or stop() goes on; nothing else moves.
LEMMA ConsumerSteps ==
  ASSUME ConsumerReaped \/ FrameProcessed \/ ConsumerCancelled \/ StopReturns
  PROVE  /\ UNCHANGED <<kind, queue, putters, woken, closed, pstop, conn, sent, decoding, out>>
         /\ stopper' \in {stopper, "done"}
         /\ \/ consumer' \in {"reaping", "done"}
            \/ consumer = "busy" /\ consumer' = "get"
         /\ consumer' \in {"get", "busy"} => consumer \in {"get", "busy"}
BY DEF ConsumerReaped, FrameProcessed, ConsumerCancelled, StopReturns

LEMMA StepsAre ==
  ASSUME Next
  PROVE  \/ \E c \in Conns : ConnStep(c)
         \/ PutterResumes \/ Consume \/ Stop
         \/ ConsumerReaped \/ FrameProcessed \/ ConsumerCancelled \/ StopReturns
BY DEF Next, ConnStep, DecodingIsOver

LEMMA DecodingKept ==
  ASSUME IngestorTypes, NumberInv, NEW c \in Conns, Receive(c) \/ DecodesLess(c), kind' = kind
  PROVE  /\ sent' \in [Conns -> 0..MaxFrames] /\ decoding' \in [Conns -> SUBSET (1..MaxFrames)]
         /\ NumberInv'
<1>1. /\ MaxFrames \in Nat /\ sent \in [Conns -> 0..MaxFrames]
      /\ decoding \in [Conns -> SUBSET (1..MaxFrames)]
  BY IngestorAssumption DEF IngestorTypes
<1>2. CASE Receive(c)
  <2> DEFINE m == sent[c] + 1
  <2>1. /\ sent[c] < MaxFrames /\ (kind = "kcp" \/ decoding[c] = {})
        /\ sent' = [sent EXCEPT ![c] = m]
        /\ decoding' = [decoding EXCEPT ![c] = @ \cup {m}]
    BY <1>2 DEF Receive
  <2>2. sent[c] \in Nat /\ m \in 1..MaxFrames /\ 1..sent[c] \subseteq 1..m /\ m \in 1..m
    BY <1>1, <2>1
  <2> HIDE DEF m
  <2>3. sent' \in [Conns -> 0..MaxFrames] /\ decoding' \in [Conns -> SUBSET (1..MaxFrames)]
    BY <1>1, <2>1, <2>2
  <2>4. /\ sent'[c] = m /\ decoding'[c] = decoding[c] \cup {m}
        /\ \A d \in Conns \ {c} : sent'[d] = sent[d] /\ decoding'[d] = decoding[d]
    BY <1>1, <2>1
  <2>5. decoding'[c] \subseteq 1..sent'[c] /\ (kind # "kcp" => decoding'[c] \subseteq {sent'[c]})
    BY <2>1, <2>2, <2>4 DEF NumberInv
  <2> QED BY <2>3, <2>4, <2>5 DEF NumberInv
<1>3. CASE DecodesLess(c)
  <2>1. \A d \in Conns : decoding'[d] \subseteq decoding[d]
    BY <1>1, <1>3 DEF DecodesLess, DecodingEnds
  <2>2. sent' = sent /\ decoding' \in [Conns -> SUBSET (1..MaxFrames)]
    BY <1>1, <1>3 DEF DecodesLess, DecodingEnds
  <2> QED BY <1>1, <2>1, <2>2 DEF NumberInv
<1> QED BY <1>2, <1>3

LEMMA IngestorTypesKept ==
  ASSUME IngestorTypes, NumberInv, [Next]_vars
  PROVE  IngestorTypes'
<1>2. ASSUME NEW c \in Conns, ConnStep(c)
      PROVE  IngestorTypes'
  <2>1. conn' \in [Conns -> ConnStates] /\ kind' = kind /\ closed' \in BOOLEAN
        /\ UNCHANGED <<pstop, stopper, consumer, out>>
    BY <1>2, ConnMoves
  <2>2. queue' \in Seq(Items) /\ Len(queue') <= QueueMax /\ putters' \in Seq(Puts) /\ woken' \in Seq(Puts)
    <3>1. CASE Signals
      BY <3>1 DEF Signals
    <3>2. CASE ProducerCancelled(c)
      BY <3>2, ProducerCancelledDoes
    <3>3. CASE FeedsNothing(c)
      BY <3>3 DEF IngestorTypes, FeedsNothing
    <3>4. ASSUME NEW n \in decoding[c], Feeds(c, n)
          PROVE  queue' \in Seq(Items) /\ Len(queue') <= QueueMax /\ putters' \in Seq(Puts)
                 /\ woken' \in Seq(Puts)
      BY <3>4, EnqueueDoes DEF Feeds
    <3> QED BY <1>2, <3>1, <3>2, <3>3, <3>4, ConnQueues
  <2>3. sent' \in [Conns -> 0..MaxFrames] /\ decoding' \in [Conns -> SUBSET (1..MaxFrames)]
    BY <1>2, <2>1, ConnMoves, DecodingKept
  <2> QED BY <2>1, <2>2, <2>3 DEF IngestorTypes
<1>3. CASE PutterResumes
  <2>1. UNCHANGED <<kind, closed, pstop, sent, decoding, consumer, out>>
    BY <1>3 DEF PutterResumes
  <2> QED BY <1>3, <2>1, PutterResumesSignals DEF Signals, IngestorTypes
<1>4. CASE Consume
  <2>1. out' \in Seq(Frames)
    <3>1. out \in Seq(Frames) /\ (Head(queue) # End => Head(queue) \in Frames)
      BY <1>4, ConsumeDoes DEF Items, IngestorTypes
    <3>2. out' = out \/ (Head(queue) # End /\ out' = Append(out, Head(queue)))
      BY <1>4, ConsumeDoes
    <3> DEFINE h == Head(queue)
    <3> HIDE DEF h
    <3>3. out \in Seq(Frames) /\ (h # End => h \in Frames) /\ (out' = out \/ (h # End /\ out' = Append(out, h)))
      BY <3>1, <3>2 DEF h
    <3> QED BY <3>3
  <2> QED BY <1>4, <2>1, ConsumeDoes, WakePutterDoes DEF IngestorTypes
<1>5. CASE Stop
  BY <1>5, StopDoes DEF Signals, IngestorTypes
<1>6. CASE ConsumerReaped \/ FrameProcessed \/ ConsumerCancelled \/ StopReturns
  BY <1>6, ConsumerSteps DEF IngestorTypes
<1>7. CASE UNCHANGED vars
  BY <1>7 DEF vars, IngestorTypes
<1> QED BY <1>2, <1>3, <1>4, <1>5, <1>6, <1>7, StepsAre

LEMMA NumberKept ==
  ASSUME IngestorTypes, NumberInv, [Next]_vars
  PROVE  NumberInv'
<1>1. ASSUME NEW c \in Conns, ConnStep(c)
      PROVE  NumberInv'
  BY <1>1, ConnMoves, DecodingKept
<1>2. ASSUME UNCHANGED <<kind, sent, decoding>>
      PROVE  NumberInv'
  BY <1>2 DEF NumberInv
<1>3. CASE PutterResumes \/ Consume \/ Stop
  BY <1>2, <1>3, ConsumeDoes, StopDoes DEF PutterResumes
<1>4. CASE ConsumerReaped \/ FrameProcessed \/ ConsumerCancelled \/ StopReturns
  BY <1>2, <1>4, ConsumerSteps
<1>5. CASE UNCHANGED vars
  BY <1>2, <1>5 DEF vars
<1> QED BY <1>1, <1>3, <1>4, <1>5, StepsAre

-------------------------------------------------------------------------------
(***************************************************************************)
(* The end of the source is not lost                                       *)
(***************************************************************************)
\* A sentinel of q is so far from its head that the tasks in P cannot push it out, each
\* with one frame.
EndAt(q, P) ==
  \E i \in DOMAIN q : q[i] = End /\ Len(q) - i + Cardinality(P) < QueueMax

\* The handlers that may still put a frame into the queue of a source that has ended.
Pushing == IF kind = "kcp" THEN {} ELSE {c \in Conns : decoding[c] # {}}

EndInv ==
  Cardinality(Conns) < QueueMax /\ Ended /\ consumer \in {"get", "busy"} =>
    putters # <<>> \/ woken # <<>> \/ EndAt(queue, Pushing)

LEMMA SomeConns ==
  ASSUME NEW P, P \subseteq Conns
  PROVE  /\ IsFiniteSet(P) /\ Cardinality(P) \in Nat /\ Cardinality(Conns) \in Nat
         /\ Cardinality(P) <= Cardinality(Conns)
BY IngestorAssumption, FS_Subset, FS_CardinalityType

LEMMA EndLastIsFar ==
  ASSUME NEW q \in Seq(Items), EndLast(q), NEW P, P \subseteq Conns,
         Cardinality(Conns) < QueueMax
  PROVE  EndAt(q, P)
<1>1. Len(q) \in DOMAIN q /\ Len(q) \in Nat /\ q[Len(q)] = End
  BY DEF EndLast
<1>2. Len(q) - Len(q) + Cardinality(P) < QueueMax
  BY <1>1, SomeConns, IngestorAssumption
<1> QED BY <1>1, <1>2 DEF EndAt

LEMMA FewerPush ==
  ASSUME NEW q \in Seq(Items), NEW P, P \subseteq Conns, NEW R, R \subseteq P, EndAt(q, P)
  PROVE  EndAt(q, R)
<1>1. PICK i \in DOMAIN q : q[i] = End /\ Len(q) - i + Cardinality(P) < QueueMax
  BY DEF EndAt
<1>2. Cardinality(R) <= Cardinality(P) /\ Cardinality(R) \in Nat /\ Cardinality(P) \in Nat
  BY SomeConns, FS_Subset
<1>3. i \in Nat /\ Len(q) \in Nat
  OBVIOUS
<1>4. Len(q) - i + Cardinality(R) < QueueMax
  BY <1>1, <1>2, <1>3, IngestorAssumption
<1> QED BY <1>1, <1>4 DEF EndAt

LEMMA TakenNotEnd ==
  ASSUME NEW q \in Seq(Items), q # <<>>, Head(q) # End, NEW P, P \subseteq Conns, EndAt(q, P)
  PROVE  EndAt(Tail(q), P)
<1>1. PICK i \in DOMAIN q : q[i] = End /\ Len(q) - i + Cardinality(P) < QueueMax
  BY DEF EndAt
<1> DEFINE t == Tail(q)
<1>2. Len(t) = Len(q) - 1 /\ Len(q) \in Nat /\ i \in 2..Len(q)
  BY <1>1
<1>3. i - 1 \in DOMAIN t /\ t[i - 1] = End
  BY <1>1, <1>2
<1>4. Len(t) - (i - 1) + Cardinality(P) < QueueMax
  BY <1>1, <1>2, SomeConns, IngestorAssumption
<1> HIDE DEF t
<1>5. EndAt(t, P)
  BY <1>3, <1>4 DEF EndAt
<1> QED BY <1>5 DEF t

\* A frame of c enters, and perhaps pushes the oldest item out; c is not among those
\* that push any more.
LEMMA PushedNotOut ==
  ASSUME NEW q \in Seq(Items), Len(q) <= QueueMax, NEW f \in Items, NEW P, P \subseteq Conns,
         NEW c \in P, EndAt(q, P),
         NEW r, r = IF Len(q) >= QueueMax THEN Append(Tail(q), f) ELSE Append(q, f)
  PROVE  EndAt(r, P \ {c})
<1>1. PICK i \in DOMAIN q : q[i] = End /\ Len(q) - i + Cardinality(P) < QueueMax
  BY DEF EndAt
<1>2. /\ Cardinality(P) \in Nat /\ IsFiniteSet(P) /\ Cardinality(P \ {c}) = Cardinality(P) - 1
      /\ Cardinality(P \ {c}) \in Nat /\ QueueMax \in Nat
  <2>1. IsFiniteSet(P) /\ Cardinality(P) \in Nat
    BY SomeConns
  <2>2. Cardinality(P \ {c}) = Cardinality(P) - 1
    BY <2>1, FS_RemoveElement
  <2>3. Cardinality(P \ {c}) \in Nat
    BY SomeConns
  <2> QED BY <2>1, <2>2, <2>3, IngestorAssumption
<1> DEFINE D == Cardinality(P)
           E == Cardinality(P \ {c})
<1> HIDE DEF D, E
<1>3. D \in Nat /\ E = D - 1 /\ E \in Nat /\ QueueMax \in Nat /\ Len(q) - i + D < QueueMax
  BY <1>1, <1>2 DEF D, E
<1>4. i \in 1..Len(q) /\ Len(q) \in Nat /\ q[i] = End
  BY <1>1
<1>5. CASE Len(q) >= QueueMax
  <2>1. r = Append(Tail(q), f) /\ Len(q) = QueueMax
    BY <1>3, <1>4, <1>5
  <2>2. i \in 2..Len(q)
    BY <1>3, <1>4, <2>1
  <2>3. Len(r) = Len(q) /\ i - 1 \in DOMAIN r /\ r[i - 1] = End
    BY <1>4, <2>1, <2>2
  <2>4. Len(r) - (i - 1) + E < QueueMax
    BY <1>3, <1>4, <2>2, <2>3
  <2> QED BY <2>3, <2>4 DEF EndAt, E
<1>6. CASE ~ (Len(q) >= QueueMax)
  <2>1. r = Append(q, f)
    BY <1>6
  <2>2. Len(r) = Len(q) + 1 /\ i \in DOMAIN r /\ r[i] = End
    BY <1>4, <2>1
  <2>3. Len(r) - i + E < QueueMax
    BY <1>3, <1>4, <2>2
  <2> QED BY <2>2, <2>3 DEF EndAt, E
<1> QED BY <1>5, <1>6

\* Nothing but sentinels entered, and no more handlers push than before.
LEMMA EndStaysPut ==
  ASSUME IngestorTypes, EndInv, Ended, consumer \in {"get", "busy"}, UNCHANGED <<queue, putters, woken>>,
         Pushing' \subseteq Pushing
  PROVE  EndInv'
<1>1. queue \in Seq(Items) /\ Pushing \subseteq Conns
  BY DEF IngestorTypes, Pushing
<1>2. SUFFICES ASSUME Cardinality(Conns) < QueueMax
               PROVE  putters # <<>> \/ woken # <<>> \/ EndAt(queue', Pushing')
  BY DEF EndInv
<1>3. CASE EndAt(queue, Pushing)
  BY <1>1, <1>3, FewerPush
<1> QED BY <1>2, <1>3 DEF EndInv

LEMMA SignalsKeepEnd ==
  ASSUME Signals
  PROVE  EndInv'
<1>1. SUFFICES ASSUME Cardinality(Conns) < QueueMax, putters' = <<>>
               PROVE  EndAt(queue', Pushing')
  BY DEF EndInv
<1>2. queue' \in Seq(Items) /\ EndLast(queue')
  BY <1>1 DEF Signals
<1>3. Pushing' \subseteq Conns
  BY DEF Pushing
<1> QED BY <1>1, <1>2, <1>3, EndLastIsFar

LEMMA ConnStepKeepsEnd ==
  ASSUME IngestorTypes, NumberInv, EndInv, NEW c \in Conns, ConnStep(c)
  PROVE  EndInv'
<1>1. SUFFICES ASSUME Cardinality(Conns) < QueueMax, Ended', consumer' \in {"get", "busy"}
               PROVE  EndInv'
  BY DEF EndInv
<1>2. /\ kind' = kind /\ consumer \in {"get", "busy"}
      /\ decoding \in [Conns -> SUBSET (1..MaxFrames)] /\ queue \in Seq(Items) /\ Len(queue) <= QueueMax
      /\ Pushing \subseteq Conns
  BY <1>1, ConnMoves DEF IngestorTypes, Pushing
<1>3. CASE FeedsNothing(c)
  <2>1. Ended
    BY <1>1, <1>2, <1>3 DEF Ended, FeedsNothing
  <2>2. Receive(c) => kind = "kcp"
    BY <2>1 DEF Ended, Receive
  <2>3. Pushing' \subseteq Pushing
    BY <1>2, <1>3, <2>2 DEF Pushing, FeedsNothing, DecodingEnds
  <2> QED BY <1>2, <1>3, <2>1, <2>3, EndStaysPut DEF FeedsNothing
<1>4. ASSUME NEW n \in decoding[c], Feeds(c, n)
      PROVE  EndInv'
  <2> DEFINE g == [conn |-> c, n |-> n]
  <2>1. Ended /\ kind # "kcp"
    BY <1>1, <1>2, <1>4 DEF Ended, Feeds
  <2>2. decoding[c] \subseteq {sent[c]} /\ decoding' = [decoding EXCEPT ![c] = @ \ {n}]
    BY <1>4, <2>1 DEF NumberInv, Feeds, DecodingEnds
  <2>3. decoding'[c] = {} /\ \A d \in Conns \ {c} : decoding'[d] = decoding[d]
    BY <1>2, <1>4, <2>2
  <2>4. c \in Pushing /\ Pushing' = Pushing \ {c}
    BY <1>2, <1>4, <2>1, <2>3 DEF Pushing
  <2>5. g \in Frames /\ Enqueue(g)
    BY <1>4 DEF Feeds
  <2> HIDE DEF g
  <2>6. putters # <<>> \/ woken # <<>> => putters' # <<>> \/ woken' # <<>>
    BY <2>5, EnqueueDoes
  <2>7. CASE EndAt(queue, Pushing)
    <3>1. queue' = IF Len(queue) >= QueueMax THEN Append(Tail(queue), g) ELSE Append(queue, g)
      BY <2>5 DEF Enqueue, Full
    <3>2. g \in Items
      BY <2>5 DEF Items
    <3>3. EndAt(queue', Pushing \ {c})
      BY <1>2, <2>4, <2>7, <3>1, <3>2, PushedNotOut
    <3> QED BY <2>4, <3>3 DEF EndInv
  <2> QED BY <1>1, <1>2, <2>1, <2>6, <2>7 DEF EndInv
<1>5. CASE ProducerCancelled(c)
  BY <1>1, <1>5 DEF ProducerCancelled
<1>6. CASE Signals
  BY <1>6, SignalsKeepEnd
<1> QED BY <1>3, <1>4, <1>5, <1>6, ConnQueues

LEMMA EndKept ==
  ASSUME IngestorTypes, NumberInv, EndInv, [Next]_vars
  PROVE  EndInv'
<1>1. ASSUME NEW c \in Conns, ConnStep(c)
      PROVE  EndInv'
  BY <1>1, ConnStepKeepsEnd
<1>2. CASE PutterResumes
  BY <1>2, PutterResumesSignals, SignalsKeepEnd
<1>3. CASE Consume
  <2>1. /\ queue # <<>> /\ queue' = Tail(queue) /\ WakePutter /\ consumer = "get"
        /\ UNCHANGED <<kind, closed, conn, decoding>> /\ (consumer' \in {"reaping", "done"} \/ Head(queue) # End)
    BY <1>3, ConsumeDoes
  <2>2. Pushing' = Pushing /\ Pushing \subseteq Conns /\ Ended' = Ended /\ queue \in Seq(Items)
    BY <2>1 DEF Pushing, Ended, IngestorTypes
  <2>3. SUFFICES ASSUME Cardinality(Conns) < QueueMax, Ended, Head(queue) # End
                 PROVE  putters' # <<>> \/ woken' # <<>> \/ EndAt(queue', Pushing')
    BY <2>1, <2>2 DEF EndInv
  <2>4. CASE EndAt(queue, Pushing)
    BY <2>1, <2>2, <2>3, <2>4, TakenNotEnd
  <2>5. CASE putters # <<>> \/ woken # <<>>
    BY <2>1, <2>5, WakePutterDoes
  <2> QED BY <2>1, <2>3, <2>4, <2>5 DEF EndInv
<1>4. CASE Stop
  <2>1. CASE Signals
    BY <2>1, SignalsKeepEnd
  <2>2. CASE kind = "pull" /\ UNCHANGED <<queue, putters>>
    <3>1. UNCHANGED <<kind, queue, putters, woken, conn, decoding, consumer>>
      BY <1>4, <2>2, StopDoes
    <3>2. Ended' = Ended /\ Pushing' = Pushing
      BY <2>2, <3>1 DEF Ended, Pushing
    <3> QED BY <3>1, <3>2 DEF EndInv
  <2> QED BY <1>4, <2>1, <2>2, StopDoes
<1>5. CASE ConsumerReaped \/ FrameProcessed \/ ConsumerCancelled \/ StopReturns
  <2>1. /\ UNCHANGED <<kind, queue, putters, woken, closed, conn, decoding>>
        /\ consumer' \in {"get", "busy"} => consumer \in {"get", "busy"}
    BY <1>5, ConsumerSteps
  <2>2. Ended' = Ended /\ Pushing' = Pushing
    BY <2>1 DEF Ended, Pushing
  <2> QED BY <2>1, <2>2 DEF EndInv
<1>6. CASE UNCHANGED vars
  <2>1. Ended' = Ended /\ Pushing' = Pushing
    BY <1>6 DEF Ended, Pushing, vars
  <2> QED BY <1>6, <2>1 DEF EndInv, vars
<1> QED BY <1>1, <1>2, <1>3, <1>4, <1>5, <1>6, StepsAre

IngestorInv == IngestorTypes /\ NumberInv /\ EndInv

LEMMA IngestorInitial == Init => IngestorInv
<1> SUFFICES ASSUME Init PROVE IngestorInv
  OBVIOUS
<1>1. /\ queue = <<>> /\ putters = <<>> /\ woken = <<>> /\ out = <<>> /\ closed = FALSE
      /\ pstop = FALSE /\ stopper = "idle" /\ consumer = "get" /\ kind \in Kinds
      /\ sent = [c \in Conns |-> 0] /\ decoding = [c \in Conns |-> {}]
  BY DEF Init
<1>2. conn \in [Conns -> {"open", "closed"}] /\ (kind = "pull" => \E c \in Conns : conn[c] = "open")
  BY DEF Init
<1>3. IngestorTypes
  <2>1. 0 \in 0..MaxFrames /\ QueueMax \in Nat
    BY IngestorAssumption
  <2>2. sent \in [Conns -> 0..MaxFrames] /\ decoding \in [Conns -> SUBSET (1..MaxFrames)]
    BY <1>1, <2>1
  <2>3. <<>> \in Seq(Items) /\ <<>> \in Seq(Puts) /\ <<>> \in Seq(Frames) /\ Len(<<>>) <= QueueMax
    BY <2>1
  <2> QED BY <1>1, <1>2, <2>2, <2>3 DEF IngestorTypes, ConnStates
<1>4. NumberInv
  BY <1>1 DEF NumberInv
<1>5. EndInv
  BY <1>1, <1>2 DEF EndInv, Ended
<1> QED BY <1>3, <1>4, <1>5 DEF IngestorInv

\* IngestorInv holds in every reachable state, on all four channels.
THEOREM IngestorInvariant == Spec => []IngestorInv
<1>1. IngestorInv /\ [Next]_vars => IngestorInv'
  BY IngestorTypesKept, NumberKept, EndKept DEF IngestorInv
<1> QED BY <1>1, IngestorInitial, PTL DEF Spec

\* The queue's, the putters', the handlers' and the consumer's state has its type.
THEOREM IngestorTypeCorrect == Spec => []IngestorTypes
<1>1. IngestorInv => IngestorTypes
  BY DEF IngestorInv
<1> QED BY <1>1, IngestorInvariant, PTL

\* Whatever drops the oldest item, a source that has ended still tells its consumer.
THEOREM EndIsNotLost == Spec => []EndNotLost
<1>1. IngestorInv => EndNotLost
  <2> SUFFICES ASSUME IngestorInv, Cardinality(Conns) < QueueMax, Ended,
                      consumer \in {"get", "busy"}, putters = <<>>, woken = <<>>
               PROVE  End \in ToSet(queue)
    BY DEF EndNotLost
  <2>1. EndAt(queue, Pushing)
    BY DEF IngestorInv, EndInv
  <2> QED BY <2>1 DEF EndAt, ToSet
<1> QED BY <1>1, IngestorInvariant, PTL

-------------------------------------------------------------------------------
(***************************************************************************)
(* The queue without its sentinels is a channel                            *)
(***************************************************************************)
held == Only(queue, Frames)

over == consumer \in {"reaping", "done"}

LEMMA HeldIs ==
  ASSUME IngestorTypes
  PROVE  /\ held \in Seq(Items) /\ Len(held) <= Len(queue) /\ Len(held) \in Nat
         /\ ToSet(held) \subseteq Frames
<1>1. queue \in Seq(Items)
  BY DEF IngestorTypes
<1>2. held \in Seq(Items) /\ Len(held) <= Len(queue) /\ ToSet(held) \subseteq ToSet(queue) \cap Frames
  BY <1>1, OnlyWithin DEF held
<1> QED BY <1>2

\* Sentinels are not frames of the channel.
LEMMA EndsUnseen ==
  ASSUME IngestorTypes, EndsAdded(queue, queue')
  PROVE  held' = held
BY EndsAddedIs DEF IngestorTypes, held

\* A frame whose decoding ends has not come to the channel before.
LEMMA FrameComes ==
  ASSUME IngestorTypes, NumberInv, NEW c \in Conns, NEW n, DecodingEnds(c, n), UNCHANGED <<kind, sent>>
  PROVE  [conn |-> c, n |-> n] \in Frames /\ Channel!Comes([conn |-> c, n |-> n])
<1> DEFINE f == [conn |-> c, n |-> n]
<1>1. /\ sent \in [Conns -> 0..MaxFrames] /\ MaxFrames \in Nat
      /\ decoding \in [Conns -> SUBSET (1..MaxFrames)]
  BY IngestorAssumption DEF IngestorTypes
<1>2. n \in decoding[c] /\ decoding' = [decoding EXCEPT ![c] = @ \ {n}]
  BY DEF DecodingEnds
<1>3. n \in 1..MaxFrames /\ n <= sent[c] /\ (kind # "kcp" => n = sent[c])
  BY <1>1, <1>2 DEF NumberInv
<1>4. f \in Frames /\ f.conn = c /\ f.n = n
  BY <1>3 DEF Frames
<1>5. ASSUME NEW g \in Frames
      PROVE  g.conn \in Conns /\ g.n \in Nat /\ sent[g.conn] \in Nat
             /\ (g.conn = c /\ g.n = n => g = f)
  BY <1>1 DEF Frames
<1>6. f \notin NotDecoding
  BY <1>2, <1>4 DEF NotDecoding
<1>7. kind # "kcp" => \A g \in NotDecoding : g.conn = f.conn => g.n < f.n
  <2> SUFFICES ASSUME kind # "kcp", NEW g \in NotDecoding, g.conn = c
               PROVE  g.n < n
    BY <1>4
  <2>1. g \in Frames /\ g.n <= sent[c] /\ g.n \notin decoding[c]
    BY DEF NotDecoding
  <2> QED BY <1>2, <1>3, <1>5, <2>1
<1>8. NotDecoding' = NotDecoding \cup {f}
  <2>1. ASSUME NEW g \in Frames
        PROVE  g \in NotDecoding' <=> g \in NotDecoding \/ g = f
    <3>1. CASE g.conn = c
      <4>1. decoding'[c] = decoding[c] \ {n} /\ sent'[c] = sent[c]
        BY <1>1, <1>2
      <4>2. g \in NotDecoding' <=> g.n <= sent[c] /\ (g.n \notin decoding[c] \/ g.n = n)
        BY <3>1, <4>1 DEF NotDecoding
      <4>3. g.n = n <=> g = f
        BY <1>4, <1>5, <3>1
      <4> HIDE DEF f
      <4> QED BY <1>3, <3>1, <4>2, <4>3 DEF NotDecoding
    <3>2. CASE g.conn # c
      <4>1. decoding'[g.conn] = decoding[g.conn] /\ sent'[g.conn] = sent[g.conn]
        BY <1>1, <1>2, <1>5, <3>2
      <4> QED BY <1>4, <3>2, <4>1 DEF NotDecoding
    <3> QED BY <3>1, <3>2
  <2>2. NotDecoding' \subseteq Frames /\ NotDecoding \subseteq Frames
    BY DEF NotDecoding
  <2> HIDE DEF f
  <2> QED BY <1>4, <2>1, <2>2
<1> HIDE DEF f
<1>9. Channel!Comes(f)
  BY <1>6, <1>7, <1>8 DEF Channel!Comes
<1> QED BY <1>4, <1>9 DEF f

LEMMA LessComes ==
  ASSUME IngestorTypes, NumberInv, NEW c \in Conns, DecodesLess(c), kind' = kind
  PROVE  \/ NotDecoding' = NotDecoding
         \/ \E f \in Frames : Channel!Comes(f)
<1>1. sent' = sent /\ decoding \in [Conns -> SUBSET (1..MaxFrames)]
  BY DEF DecodesLess, IngestorTypes
<1>2. CASE decoding' = decoding
  BY <1>1, <1>2 DEF NotDecoding
<1>3. ASSUME NEW n, DecodingEnds(c, n)
      PROVE  \E f \in Frames : Channel!Comes(f)
  BY <1>1, <1>3, FrameComes
<1>4. CASE kind # "kcp" /\ decoding' = [decoding EXCEPT ![c] = {}]
  <2>1. CASE decoding[c] = {}
    <3>1. decoding' = decoding
      BY <1>1, <1>4, <2>1
    <3> QED BY <1>2, <3>1
  <2>2. CASE decoding[c] # {}
    <3>1. decoding[c] = {sent[c]}
      BY <1>4, <2>2 DEF NumberInv
    <3>2. DecodingEnds(c, sent[c])
      BY <1>1, <1>4, <3>1 DEF DecodingEnds
    <3> QED BY <1>3, <3>2
  <2> QED BY <2>1, <2>2
<1> QED BY <1>2, <1>3, <1>4 DEF DecodesLess

LEMMA ReceiveComesLater ==
  ASSUME IngestorTypes, NEW c \in Conns, Receive(c)
  PROVE  NotDecoding' = NotDecoding
<1>1. /\ sent \in [Conns -> 0..MaxFrames] /\ MaxFrames \in Nat
      /\ decoding \in [Conns -> SUBSET (1..MaxFrames)]
      /\ sent' = [sent EXCEPT ![c] = @ + 1] /\ decoding' = [decoding EXCEPT ![c] = @ \cup {sent[c] + 1}]
  BY IngestorAssumption DEF IngestorTypes, Receive
<1>2. ASSUME NEW g \in Frames
      PROVE  g \in NotDecoding' <=> g \in NotDecoding
  <2>1. g.conn \in Conns /\ g.n \in Nat /\ sent[g.conn] \in Nat
    BY <1>1 DEF Frames
  <2>2. CASE g.conn = c
    <3>1. sent'[c] = sent[c] + 1 /\ decoding'[c] = decoding[c] \cup {sent[c] + 1}
      BY <1>1
    <3>2. g.n <= sent[c] + 1 /\ g.n # sent[c] + 1 <=> g.n <= sent[c]
      BY <2>1, <2>2
    <3> QED BY <2>2, <3>1, <3>2 DEF NotDecoding
  <2>3. CASE g.conn # c
    <3>1. sent'[g.conn] = sent[g.conn] /\ decoding'[g.conn] = decoding[g.conn]
      BY <1>1, <2>1, <2>3
    <3> QED BY <3>1 DEF NotDecoding
  <2> QED BY <2>2, <2>3
<1> QED BY <1>2 DEF NotDecoding

LEMMA EnqueueAccepts ==
  ASSUME IngestorTypes, NEW f \in Frames, Enqueue(f), Channel!Comes(f),
         out' = out, consumer' = consumer
  PROVE  Channel!Accept(f)
<1>1. queue \in Seq(Items) /\ Len(queue) \in Nat /\ Len(queue) <= QueueMax /\ QueueMax \in Nat \ {0}
      /\ f \in Frames /\ f \in Items
  BY IngestorAssumption DEF IngestorTypes, Items
<1>2. held \in Seq(Items) /\ Len(held) <= Len(queue) /\ Len(held) \in Nat
  BY HeldIs
<1>4. queue' = IF Len(queue) >= QueueMax THEN Append(Tail(queue), f) ELSE Append(queue, f)
  BY DEF Enqueue, Full
<1>5. \/ Len(held) < QueueMax /\ held' = Append(held, f)
      \/ held # <<>> /\ held' = Append(Tail(held), f)
  <2>1. CASE ~ (Len(queue) >= QueueMax)
    <3>1. held' = Append(held, f)
      BY <1>1, <1>4, <2>1, OnlyOfAppend DEF held
    <3> QED BY <1>1, <1>2, <2>1, <3>1
  <2>2. CASE Len(queue) >= QueueMax
    <3> DEFINE t == Tail(queue)
    <3>1. queue # <<>> /\ t \in Seq(Items) /\ Len(t) = Len(queue) - 1 /\ queue' = Append(t, f)
      BY <1>1, <1>4, <2>2
    <3> HIDE DEF t
    <3>2. held' = Append(Only(t, Frames), f) /\ Len(Only(t, Frames)) <= Len(t)
          /\ Len(Only(t, Frames)) \in Nat
      <4>1. Only(Append(t, f), Frames) = Append(Only(t, Frames), f)
        BY <1>1, <3>1, OnlyOfAppend
      <4>2. Only(t, Frames) \in Seq(Items) /\ Len(Only(t, Frames)) <= Len(t)
        BY <3>1, OnlyWithin
      <4> QED BY <3>1, <4>1, <4>2 DEF held
    <3>3. CASE Head(queue) \in Frames
      <4>1. held # <<>> /\ Tail(held) = Only(t, Frames)
        BY <1>1, <3>1, <3>3, OnlyOfTail DEF held, t
      <4> QED BY <3>2, <4>1
    <3>4. CASE Head(queue) \notin Frames
      <4>1. held = Only(t, Frames)
        BY <1>1, <3>1, <3>4, OnlyOfTail DEF held, t
      <4>2. Len(held) < QueueMax
        BY <1>1, <3>1, <3>2, <4>1
      <4> QED BY <3>2, <4>1, <4>2
    <3> QED BY <3>3, <3>4
  <2> QED BY <2>1, <2>2
<1> QED BY <1>5 DEF Channel!Accept, held

LEMMA ConsumeDelivers ==
  ASSUME IngestorTypes, Consume
  PROVE  Channel!Deliver \/ Channel!Finish
<1>0. kind' = kind /\ NotDecoding' = NotDecoding
  BY ConsumeDoes DEF NotDecoding
<1>1. /\ queue # <<>> /\ queue' = Tail(queue) /\ queue \in Seq(Items) /\ Head(queue) \in Items
      /\ consumer = "get"
      /\ \/ consumer' \in {"reaping", "done"} /\ out' = out /\ (Head(queue) = End \/ pstop)
         \/ /\ consumer' \in {"get", "busy"} /\ Head(queue) # End
            /\ out' = Append(out, Head(queue))
  BY ConsumeDoes DEF IngestorTypes
<1>2. CASE Head(queue) = End
  <2>1. held' = held
    BY <1>1, <1>2, OnlyOfTail, EndAssumption DEF held
  <2>2. consumer' \in {"reaping", "done"} /\ out' = out
    BY <1>1, <1>2
  <2> QED BY <1>0, <1>1, <2>1, <2>2 DEF Channel!Finish, held
<1>3. CASE Head(queue) # End
  <2>1. held # <<>> /\ Head(held) = Head(queue) /\ held' = Tail(held)
    BY <1>1, <1>3, OnlyOfTail DEF held, Items
  <2>2. CASE consumer' \in {"reaping", "done"}
    BY <1>0, <1>1, <2>1, <2>2 DEF Channel!Deliver, held
  <2>3. CASE consumer' \in {"get", "busy"}
    BY <1>0, <1>1, <2>1, <2>3 DEF Channel!Deliver, held
  <2> QED BY <1>1, <2>2, <2>3
<1> QED BY <1>2, <1>3

LEMMA ChannelStep ==
  ASSUME IngestorTypes, NumberInv, [Next]_vars
  PROVE  Channel!ChannelNext \/ UNCHANGED Channel!channelVars
<1>1. ASSUME held' = held, out' = out, over' = over, kind' = kind, NotDecoding' = NotDecoding
      PROVE  UNCHANGED Channel!channelVars
  BY <1>1 DEF Channel!channelVars, held, over
<1>2. ASSUME NEW c \in Conns, ConnStep(c)
      PROVE  Channel!ChannelNext \/ UNCHANGED Channel!channelVars
  <2>1. out' = out /\ consumer' = consumer /\ over' = over /\ kind' = kind
    BY <1>2, ConnMoves DEF over
  <2>2. ASSUME NEW n \in decoding[c], Feeds(c, n)
        PROVE  Channel!ChannelNext
    <3> DEFINE f == [conn |-> c, n |-> n]
    <3>1. f \in Frames /\ Enqueue(f) /\ DecodingEnds(c, n) /\ sent' = sent
      BY <2>2 DEF Feeds
    <3>2. Channel!Comes(f)
      BY <2>1, <3>1, FrameComes
    <3> HIDE DEF f
    <3>3. Channel!Accept(f)
      BY <2>1, <3>1, <3>2, EnqueueAccepts
    <3> QED BY <3>1, <3>3 DEF Channel!ChannelNext
  <2>3. ASSUME held' = held
        PROVE  Channel!ChannelNext \/ UNCHANGED Channel!channelVars
    <3>1. CASE NotDecoding' = NotDecoding
      BY <1>1, <2>1, <2>3, <3>1
    <3>2. ASSUME NEW f \in Frames, Channel!Comes(f)
          PROVE  Channel!ChannelNext
      <4>1. Channel!Refuse(f)
        BY <2>1, <2>3, <3>2 DEF Channel!Refuse, held
      <4> QED BY <4>1 DEF Channel!ChannelNext
    <3>3. Receive(c) \/ DecodesLess(c)
      BY <1>2, ConnMoves
    <3> QED BY <2>1, <3>1, <3>2, <3>3, ReceiveComesLater, LessComes
  <2>4. CASE Signals \/ ProducerCancelled(c)
    <3>1. EndsAdded(queue, queue')
      BY <2>4, ProducerCancelledDoes DEF Signals
    <3> QED BY <2>3, <3>1, EndsUnseen
  <2>5. CASE FeedsNothing(c)
    BY <2>3, <2>5 DEF held, FeedsNothing
  <2> QED BY <1>2, <2>2, <2>4, <2>5, ConnQueues
<1>3. ASSUME UNCHANGED <<sent, decoding>>
      PROVE  NotDecoding' = NotDecoding
  BY <1>3 DEF NotDecoding
<1>4. CASE PutterResumes
  <2>1. EndsAdded(queue, queue') /\ out' = out /\ consumer' = consumer /\ UNCHANGED <<kind, sent, decoding>>
    BY <1>4, PutterResumesSignals DEF Signals, PutterResumes
  <2> QED BY <1>1, <1>3, <2>1, EndsUnseen DEF over
<1>5. CASE Consume
  BY <1>5, ConsumeDelivers DEF Channel!ChannelNext
<1>6. CASE Stop
  <2>1. EndsAdded(queue, queue') /\ out' = out /\ consumer' = consumer /\ UNCHANGED <<kind, sent, decoding>>
    BY <1>6, StopDoes DEF Signals, EndsAdded
  <2> QED BY <1>1, <1>3, <2>1, EndsUnseen DEF over
<1>7. CASE ConsumerReaped \/ FrameProcessed \/ StopReturns
  <2>1. queue' = queue /\ out' = out /\ over' = over /\ UNCHANGED <<kind, sent, decoding>>
    BY <1>7 DEF ConsumerReaped, FrameProcessed, StopReturns, over
  <2> QED BY <1>1, <1>3, <2>1 DEF held
<1>8. CASE ConsumerCancelled
  <2>1. queue' = queue /\ out' = out /\ ~ over /\ over' /\ UNCHANGED <<kind, sent, decoding>>
    BY <1>8 DEF ConsumerCancelled, over
  <2> QED BY <1>3, <2>1 DEF Channel!ChannelNext, Channel!Finish, held, over
<1>9. CASE UNCHANGED vars
  BY <1>1, <1>3, <1>9 DEF vars, held, over
<1> QED BY <1>2, <1>4, <1>5, <1>6, <1>7, <1>8, <1>9, StepsAre

\* The ingestor implements the channel: a frame enters it once, on all channels but KCP
\* after its connection's older frames, what enters comes out in that order, the oldest
\* is what a full queue loses, and nothing comes out after the end.
THEOREM IngestorImplementsChannel == Spec => ImplementsChannel
<1>1. Init => Channel!ChannelInit
  <2> SUFFICES ASSUME Init PROVE Channel!ChannelInit
    OBVIOUS
  <2>1. queue = <<>> /\ out = <<>> /\ consumer = "get" /\ sent = [c \in Conns |-> 0]
    BY DEF Init
  <2>2. <<>> \in Seq(Items)
    OBVIOUS
  <2>3. Only(queue, Frames) \in Seq(Items) /\ Len(Only(queue, Frames)) <= Len(queue)
    BY <2>1, <2>2, OnlyWithin
  <2>4. Only(queue, Frames) = <<>>
    BY <2>1, <2>3
  <2>5. NotDecoding = {}
    BY <2>1 DEF NotDecoding, Frames
  <2> QED BY <2>1, <2>4, <2>5 DEF Channel!ChannelInit
<1>2. IngestorInv /\ [Next]_vars => [Channel!ChannelNext]_(Channel!channelVars)
  BY ChannelStep DEF IngestorInv
<1> QED BY <1>1, <1>2, IngestorInvariant, PTL DEF Spec, ImplementsChannel, Channel!ChannelSpec

-------------------------------------------------------------------------------
(***************************************************************************)
(* What a channel promises of the frames received: once, and in order      *)
(***************************************************************************)
\* f and g are two frames, and g may come after f on a channel that keeps order if o.
Before(o, f, g) == f # g /\ (o /\ f.conn = g.conn => f.n < g.n)

InOrder(o, s) == \A i, j \in DOMAIN s : i < j => Before(o, s[i], s[j])

\* The channel keeps the order of a connection's frames.
keeps == kind # "kcp"

\* The frames received and the ones held have come, once and in order.
OrderInv ==
  /\ ToSet(held) \subseteq NotDecoding /\ ToSet(out) \subseteq NotDecoding
  /\ InOrder(keeps, held) /\ InOrder(keeps, out)
  /\ \A f \in ToSet(out), g \in ToSet(held) : Before(keeps, f, g)

LEMMA AppendInOrder ==
  ASSUME NEW o, NEW s \in Seq(Items), NEW f \in Items, InOrder(o, s),
         \A g \in ToSet(s) : Before(o, g, f)
  PROVE  InOrder(o, Append(s, f))
<1> DEFINE t == Append(s, f)
<1>1. /\ Len(s) \in Nat /\ Len(t) = Len(s) + 1 /\ DOMAIN t = 1..(Len(s) + 1) /\ DOMAIN s = 1..Len(s)
      /\ t[Len(s) + 1] = f /\ \A i \in 1..Len(s) : t[i] = s[i]
  OBVIOUS
<1> HIDE DEF t
<1>2. ASSUME NEW i \in DOMAIN t, NEW j \in DOMAIN t, i < j
      PROVE  Before(o, t[i], t[j])
  <2>1. i \in 1..Len(s) /\ t[i] = s[i] /\ s[i] \in ToSet(s)
    <3>1. i \in 1..Len(s)
      BY <1>1, <1>2
    <3> QED BY <1>1, <3>1 DEF ToSet
  <2>2. CASE j \in 1..Len(s)
    BY <1>1, <1>2, <2>1, <2>2 DEF InOrder
  <2>3. CASE j \notin 1..Len(s)
    <3>1. t[j] = f
      BY <1>1, <2>3
    <3> QED BY <2>1, <3>1
  <2> QED BY <2>2, <2>3
<1>3. InOrder(o, t)
  BY <1>2 DEF InOrder
<1> QED BY <1>3 DEF t

LEMMA TailInOrder ==
  ASSUME NEW o, NEW s \in Seq(Items), s # <<>>, InOrder(o, s)
  PROVE  InOrder(o, Tail(s)) /\ \A g \in ToSet(Tail(s)) : Before(o, Head(s), g)
<1> DEFINE t == Tail(s)
           h == Head(s)
<1>1. /\ Len(s) \in Nat /\ DOMAIN s = 1..Len(s) /\ 1 \in DOMAIN s /\ h = s[1]
      /\ Len(t) \in Nat /\ DOMAIN t = 1..Len(t)
      /\ \A i \in DOMAIN t : i \in Nat /\ i + 1 \in DOMAIN s /\ 1 < i + 1 /\ t[i] = s[i + 1]
  OBVIOUS
<1> HIDE DEF t, h
<1>2. \A i, j \in DOMAIN t : i < j => i + 1 < j + 1
  BY <1>1
<1>3. InOrder(o, t)
  BY <1>1, <1>2 DEF InOrder
<1>4. \A i \in DOMAIN t : Before(o, h, t[i])
  BY <1>1 DEF InOrder
<1>5. \A g \in ToSet(t) : Before(o, h, g)
  BY <1>4 DEF ToSet
<1> QED BY <1>3, <1>5 DEF t, h

\* A step of the channel keeps the order.
LEMMA OrderKept ==
  ASSUME IngestorTypes, OrderInv, Channel!ChannelNext \/ UNCHANGED Channel!channelVars
  PROVE  OrderInv'
<1>1. held \in Seq(Items) /\ out \in Seq(Items) /\ ToSet(held) \subseteq Frames /\ Frames \subseteq Items
  BY HeldIs DEF IngestorTypes, Items
<1>2. /\ ToSet(held) \subseteq NotDecoding /\ ToSet(out) \subseteq NotDecoding
      /\ InOrder(keeps, held) /\ InOrder(keeps, out)
      /\ \A f \in ToSet(out), g \in ToSet(held) : Before(keeps, f, g)
  BY DEF OrderInv
<1>3. ASSUME keeps' = keeps,
             ToSet(held') \subseteq NotDecoding', ToSet(out') \subseteq NotDecoding',
             InOrder(keeps, held'), InOrder(keeps, out'),
             \A f \in ToSet(out'), g \in ToSet(held') : Before(keeps, f, g)
      PROVE  OrderInv'
  BY <1>3 DEF OrderInv
<1>4. ASSUME held # <<>>
      PROVE  /\ Tail(held) \in Seq(Items) /\ Head(held) \in Items
             /\ ToSet(held) = {Head(held)} \cup ToSet(Tail(held))
             /\ InOrder(keeps, Tail(held)) /\ \A g \in ToSet(Tail(held)) : Before(keeps, Head(held), g)
  BY <1>1, <1>2, <1>4, TakeHead, TailInOrder
<1>5. ASSUME NEW f \in Frames, Channel!Comes(f)
      PROVE  /\ NotDecoding' = NotDecoding \cup {f} /\ keeps' = keeps
             /\ \A g \in NotDecoding : Before(keeps, g, f)
  BY <1>5 DEF Channel!Comes, Before, keeps
<1>6. ASSUME NEW f \in Frames, Channel!Accept(f)
      PROVE  OrderInv'
  <2>1. /\ NotDecoding' = NotDecoding \cup {f} /\ keeps' = keeps /\ out' = out
        /\ \A g \in NotDecoding : Before(keeps, g, f)
    BY <1>5, <1>6 DEF Channel!Accept
  <2>2. ASSUME NEW h \in Seq(Items), ToSet(h) \subseteq ToSet(held), InOrder(keeps, h),
               held' = Append(h, f)
        PROVE  OrderInv'
    <3>1. ToSet(held') = ToSet(h) \cup {f}
      BY <1>1, <2>2, AppendNew
    <3>2. InOrder(keeps, held')
      BY <1>1, <1>2, <2>1, <2>2, AppendInOrder
    <3>3. \A x \in ToSet(out'), g \in ToSet(held') : Before(keeps, x, g)
      BY <1>2, <2>1, <2>2, <3>1
    <3> QED BY <1>2, <1>3, <2>1, <2>2, <3>1, <3>2, <3>3
  <2>3. held' = Append(held, f) \/ (held # <<>> /\ held' = Append(Tail(held), f))
    BY <1>6 DEF Channel!Accept, held
  <2> QED BY <1>1, <1>2, <1>4, <2>2, <2>3
<1>7. ASSUME NEW f \in Frames, Channel!Refuse(f)
      PROVE  OrderInv'
  <2>1. NotDecoding' = NotDecoding \cup {f} /\ keeps' = keeps /\ out' = out /\ held' = held
    BY <1>5, <1>7 DEF Channel!Refuse, held
  <2> QED BY <1>2, <1>3, <2>1
<1>8. CASE Channel!Deliver
  <2>1. /\ NotDecoding' = NotDecoding /\ keeps' = keeps /\ held # <<>> /\ held' = Tail(held)
        /\ out' = out \/ out' = Append(out, Head(held))
    BY <1>8 DEF Channel!Deliver, held, keeps
  <2>2. CASE out' = out
    BY <1>2, <1>3, <1>4, <2>1, <2>2
  <2>3. CASE out' = Append(out, Head(held))
    <3> DEFINE h == Head(held)
               t == Tail(held)
    <3>1. /\ h \in Items /\ h \in ToSet(held) /\ ToSet(t) \subseteq ToSet(held) /\ InOrder(keeps, t)
          /\ \A g \in ToSet(t) : Before(keeps, h, g)
      BY <1>4, <2>1
    <3>2. out' = Append(out, h) /\ held' = t
      BY <2>1, <2>3
    <3> HIDE DEF h, t
    <3>3. ToSet(out') = ToSet(out) \cup {h}
      BY <1>1, <3>1, <3>2, AppendNew
    <3>4. InOrder(keeps, out')
      BY <1>1, <1>2, <3>1, <3>2, AppendInOrder
    <3> QED BY <1>2, <1>3, <2>1, <3>1, <3>2, <3>3, <3>4
  <2> QED BY <2>1, <2>2, <2>3
<1>9. CASE Channel!Finish \/ UNCHANGED Channel!channelVars
  <2>1. NotDecoding' = NotDecoding /\ keeps' = keeps /\ held' = held /\ out' = out
    BY <1>9 DEF Channel!Finish, Channel!channelVars, held, keeps
  <2> QED BY <1>2, <1>3, <2>1
<1> QED BY <1>6, <1>7, <1>8, <1>9 DEF Channel!ChannelNext

LEMMA OrderInitial == Init => OrderInv
<1> SUFFICES ASSUME Init PROVE OrderInv
  OBVIOUS
<1>1. queue = <<>> /\ out = <<>> /\ queue \in Seq(Items)
  BY DEF Init
<1>2. held = <<>>
  <2>1. held \in Seq(Items) /\ Len(held) <= Len(queue)
    BY <1>1, OnlyWithin DEF held
  <2> QED BY <1>1, <2>1
<1>3. ToSet(held) = {} /\ ToSet(out) = {} /\ DOMAIN held = {} /\ DOMAIN out = {}
  BY <1>1, <1>2 DEF ToSet
<1> QED BY <1>3 DEF OrderInv, InOrder

\* Whatever interleaves and is dropped, the pipeline receives no frame twice and, except
\* on KCP, never an older frame of a connection after a newer one.
THEOREM FramesOnceInOrder == Spec => []ReceivedOnceInOrder
<1>1. OrderInv => ReceivedOnceInOrder
  BY DEF OrderInv, InOrder, Before, keeps, ReceivedOnceInOrder
<1>2. IngestorInv /\ OrderInv /\ [Next]_vars => OrderInv'
  BY ChannelStep, OrderKept DEF IngestorInv
<1> QED BY <1>1, <1>2, OrderInitial, IngestorInvariant, PTL DEF Spec
===============================================================================

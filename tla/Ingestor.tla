------------------------------- MODULE Ingestor -------------------------------
(***************************************************************************)
(* The frame queue between a session's source and its pipeline: the push   *)
(* channels (ingest_ws.py, ingest_http.py, ingest_kcp.py and the handlers  *)
(* that drive them) and the pull source (source.py, frame_source.py);      *)
(* feed() from each connection, close(), the consumer's frames(), and      *)
(* Pipeline.stop(), which closes the source and then cancels the consumer. *)
(*                                                                         *)
(* The push channels differ in when feed() looks at _stop (the KCP server  *)
(* decodes before feed(), the others inside it, after the check), in what  *)
(* a frame that does not decode costs, and in that only a WebSocket        *)
(* handler closes the ingestor when its connection ends.  A WebSocket      *)
(* handler decodes one frame at a time; the KCP server starts a task for   *)
(* every packet, so the frames of one KCP connection may be decoded        *)
(* together and fed in any order.  For HTTP a connection is a client that  *)
(* awaits the answer to a POST before the next: POSTs that overlap count   *)
(* as several connections.  A pull source has one producer task instead    *)
(* of connections: its frames() waits for that task, its aclose() puts no  *)
(* sentinel, and an end it could not put keeps the producer alive.         *)
(***************************************************************************)
EXTENDS Integers, FiniteSets, SequencesExt, Selection

CONSTANTS Conns,      \* connections (for http: clients posting one by one)
          Stopper,    \* the task in SessionManager.stop
          End,        \* the sentinel
          Kinds,      \* of "ws", "http", "kcp" and "pull", the channels to look at
          QueueMax,   \* max_queue (32 in the code)
          MaxFrames   \* bound: frames each connection sends

ASSUME IngestorAssumption ==
  /\ IsFiniteSet(Conns) /\ Stopper \notin Conns
  /\ Kinds \subseteq {"ws", "http", "kcp", "pull"}
  /\ QueueMax \in Nat \ {0} /\ MaxFrames \in Nat

Frames == [conn : Conns, n : 1..MaxFrames]

ASSUME EndAssumption == End \notin Frames

VARIABLES kind,       \* the session's channel; it never changes
          queue,      \* asyncio.Queue: frames and sentinels, oldest first
          putters,    \* tasks blocked in put(), with their item, oldest first
          woken,      \* of those, the ones woken and not resumed yet
          closed,     \* the ingestor's _stop
          pstop,      \* Pipeline._stop
          conn,       \* where each connection's handler, or the producer, is:
                      \* "open", "failing", "closing", "closed", "stuck"
          sent,       \* frames each connection has sent, or the producer decoded
          decoding,   \* of those, the numbers of the ones in decoding
          stopper,    \* where stop() is: "idle", "closing", "cancelling", "done"
          consumer,   \* the pipeline's _consume loop: "get", "busy", "reaping", "done"
          out         \* frames the consumer has received, in order

vars == <<kind, queue, putters, woken, closed, pstop, conn, sent, decoding, stopper, consumer, out>>

Init ==
  /\ kind \in Kinds
  /\ queue = <<>> /\ putters = <<>> /\ woken = <<>>
  /\ closed = FALSE /\ pstop = FALSE
  /\ \/ kind # "pull" /\ conn = [c \in Conns |-> "open"]
     \/ kind = "pull" /\ \E p \in Conns :
          conn = [c \in Conns |-> IF c = p THEN "open" ELSE "closed"]
  /\ sent = [c \in Conns |-> 0]
  /\ decoding = [c \in Conns |-> {}]
  /\ stopper = "idle"
  /\ consumer = "get"
  /\ out = <<>>

Full(q) == Len(q) >= QueueMax

\* get_nowait() takes the oldest item and wakes the first blocked putter.
WakePutter ==
  IF putters = <<>>
  THEN UNCHANGED <<putters, woken>>
  ELSE putters' = Tail(putters) /\ woken' = Append(woken, Head(putters))

-------------------------------------------------------------------------------
(***************************************************************************)
(* feed                                                                    *)
(***************************************************************************)

\* Mutation: the handler does not await the decoding before its next frame.
ReceiveAnytime(c) ==
  /\ conn[c] = "open"
  /\ sent[c] < MaxFrames
  /\ kind \in {"kcp", "pull"} \/ ~ closed
  /\ sent' = [sent EXCEPT ![c] = @ + 1]
  /\ decoding' = [decoding EXCEPT ![c] = @ \cup {sent[c] + 1}]
  /\ UNCHANGED <<kind, queue, putters, woken, closed, pstop, conn, stopper, consumer, out>>

\* A frame arrives and its decoding starts in a thread.  WSIngestor.feed and
\* HttpPostIngestor.feed return at once after close(); KCP decodes regardless, and
\* beside the frames it has in decoding.  The producer paces a frame with sleeps and
\* looks at stop once per packet.
Receive(c) ==
  /\ conn[c] = "open"
  /\ sent[c] < MaxFrames
  /\ kind = "kcp" \/ decoding[c] = {}
  /\ kind \in {"kcp", "pull"} \/ ~ closed
  /\ sent' = [sent EXCEPT ![c] = @ + 1]
  /\ decoding' = [decoding EXCEPT ![c] = @ \cup {sent[c] + 1}]
  /\ UNCHANGED <<kind, queue, putters, woken, closed, pstop, conn, stopper, consumer, out>>

\* The thread that decodes frame n of c has ended.
DecodingEnds(c, n) ==
  /\ n \in decoding[c]
  /\ decoding' = [decoding EXCEPT ![c] = @ \ {n}]

\* Mutation: a full queue drops its newest item.
EnqueueDropsNewest(frame) ==
  LET room == IF Full(queue) THEN Front(queue) ELSE queue
  IN  /\ IF Full(queue) THEN WakePutter ELSE UNCHANGED <<putters, woken>>
      /\ queue' = Append(room, frame)

\* put_nowait(), or, on a full queue, get_nowait() of the oldest item and then
\* await put(), which does not suspend because the slot it made is still there.
Enqueue(frame) ==
  LET room == IF Full(queue) THEN Tail(queue) ELSE queue
  IN  /\ IF Full(queue) THEN WakePutter ELSE UNCHANGED <<putters, woken>>
      /\ queue' = Append(room, frame)

\* Mutation: the KCP path does not look at _stop either.
DecodedAlways(c, n) ==
  /\ DecodingEnds(c, n)
  /\ Enqueue([conn |-> c, n |-> n])
  /\ UNCHANGED <<kind, closed, pstop, conn, sent, stopper, consumer, out>>

\* Frame n of c is decoded and fed.  Only the KCP path looks at _stop here.
Decoded(c, n) ==
  /\ DecodingEnds(c, n)
  /\ IF kind = "kcp" /\ closed THEN UNCHANGED <<queue, putters, woken>>
     ELSE Enqueue([conn |-> c, n |-> n])
  /\ UNCHANGED <<kind, closed, pstop, conn, sent, stopper, consumer, out>>

-------------------------------------------------------------------------------
(***************************************************************************)
(* close                                                                   *)
(***************************************************************************)

\* Mutation: close() gives up when the queue is full.
PutEndNoWait(p) ==
  /\ queue' = IF Full(queue) THEN queue ELSE Append(queue, End)
  /\ UNCHANGED putters

\* The put of close(), by task p: it blocks while the queue is full.
PutEnd(p) ==
  IF Full(queue)
  THEN putters' = Append(putters, [by |-> p, item |-> End]) /\ UNCHANGED queue
  ELSE queue' = Append(queue, End) /\ UNCHANGED putters

\* Mutation: close() only sets _stop.
HandlerClosesSilently(c) ==
  /\ closed' = TRUE
  /\ conn' = [conn EXCEPT ![c] = "closed"]
  /\ UNCHANGED <<kind, queue, putters, woken, pstop, sent, stopper, consumer, out>>

HandlerCloses(c) ==
  /\ closed' = TRUE
  /\ PutEnd(c)
  /\ conn' = [conn EXCEPT ![c] = IF Full(queue) THEN "closing" ELSE "closed"]
  /\ UNCHANGED <<kind, woken, pstop, sent, stopper, consumer, out>>

\* A frame does not decode: the exception leaves the WebSocket handler through
\* the finally clause that closes the ingestor; the other channels lose a frame.
DecodeFails(c, n) ==
  /\ DecodingEnds(c, n)
  /\ \/ /\ kind = "ws"
        /\ HandlerCloses(c)
     \/ /\ kind \in {"http", "kcp"}
        /\ UNCHANGED <<kind, queue, putters, woken, closed, pstop, conn, sent, stopper, consumer, out>>

\* The WebSocket client disconnects or asks to close.
Disconnect(c) ==
  /\ kind = "ws"
  /\ conn[c] = "open" /\ decoding[c] = {}
  /\ HandlerCloses(c)
  /\ UNCHANGED decoding

\* A woken putter looks again: if a feed has taken the slot it blocks again,
\* behind the putters that came later.  A producer that failed puts twice.
PutterResumes ==
  /\ woken # <<>>
  /\ LET w == Head(woken)
         room == QueueMax - Len(queue)
         wants == IF w.by \in Conns /\ conn[w.by] = "failing" THEN 2 ELSE 1
     IN  /\ woken' = Tail(woken)
         /\ queue' = IF room >= wants THEN queue \o [i \in 1..wants |-> w.item]
                     ELSE IF room = 1 THEN Append(queue, w.item) ELSE queue
         /\ putters' = IF room >= wants THEN putters ELSE Append(putters, w)
         /\ conn' = [c \in Conns |->
                       IF c # w.by \/ room = 0 THEN conn[c]
                       ELSE IF room >= wants THEN "closed" ELSE "closing"]
         /\ stopper' = IF w.by = Stopper /\ room > 0 THEN "cancelling" ELSE stopper
  /\ UNCHANGED <<kind, closed, pstop, sent, decoding, consumer, out>>

-------------------------------------------------------------------------------
(***************************************************************************)
(* The producer of a pull source                                           *)
(***************************************************************************)

\* The container ends, or stop is seen: the finally clause puts the end marker.
SourceEnds(c) ==
  /\ kind = "pull"
  /\ conn[c] = "open" /\ decoding[c] = {}
  /\ PutEnd(c)
  /\ conn' = [conn EXCEPT ![c] = IF Full(queue) THEN "closing" ELSE "closed"]
  /\ UNCHANGED <<kind, woken, closed, pstop, sent, decoding, stopper, consumer, out>>

\* Opening or decoding raises: the except clause puts an end marker and the
\* finally clause another.
SourceFails(c) ==
  LET room == QueueMax - Len(queue)
  IN  /\ kind = "pull"
      /\ conn[c] = "open"
      /\ decoding' = [decoding EXCEPT ![c] = {}]
      /\ queue' = queue \o [i \in 1..(IF room < 2 THEN room ELSE 2) |-> End]
      /\ putters' = IF room < 2 THEN Append(putters, [by |-> c, item |-> End]) ELSE putters
      /\ conn' = [conn EXCEPT ![c] = CASE room = 0 -> "failing" [] room = 1 -> "closing"
                                       [] OTHER -> "closed"]
      /\ UNCHANGED <<kind, woken, closed, pstop, sent, stopper, consumer, out>>

NotBy(c, s) == Only(s, {b \in ToSet(s) : b.by # c})

\* frames() is over: its finally clause sets stop and cancels the producer, which
\* still puts its end marker, unless that is what it was doing.
ProducerCancelled(c) ==
  /\ kind = "pull"
  /\ consumer \in {"reaping", "done"}
  /\ closed' = TRUE
  /\ decoding' = [decoding EXCEPT ![c] = {}]
  /\ woken' = NotBy(c, woken)
  /\ \/ /\ conn[c] = "closing"
        /\ conn' = [conn EXCEPT ![c] = "closed"]
        /\ putters' = NotBy(c, putters)
        /\ UNCHANGED queue
     \/ /\ conn[c] \in {"open", "failing"}
        /\ conn' = [conn EXCEPT ![c] = IF Full(queue) THEN "stuck" ELSE "closed"]
        /\ queue' = IF Full(queue) THEN queue ELSE Append(queue, End)
        /\ putters' = IF Full(queue) THEN Append(NotBy(c, putters), [by |-> c, item |-> End])
                      ELSE NotBy(c, putters)
  /\ UNCHANGED <<kind, pstop, sent, stopper, consumer, out>>

-------------------------------------------------------------------------------
(***************************************************************************)
(* The consumer: frames() inside Pipeline._consume                         *)
(***************************************************************************)

\* q.get() returns an item: the sentinel ends the loop, after which a pull source
\* waits for its producer; _stop breaks it; a frame is processed, which may await
\* the observers.
Consume ==
  /\ consumer = "get"
  /\ queue # <<>>
  /\ queue' = Tail(queue)
  /\ WakePutter
  /\ \/ /\ Head(queue) = End \/ pstop
        /\ consumer' = IF kind = "pull" /\ Head(queue) = End THEN "reaping" ELSE "done"
        /\ UNCHANGED out
     \/ /\ Head(queue) # End /\ ~ pstop
        /\ out' = Append(out, Head(queue))
        /\ consumer' \in {"get", "busy"}
  /\ UNCHANGED <<kind, closed, pstop, conn, sent, decoding, stopper>>

\* The producer has ended: so has frames().
ConsumerReaped ==
  /\ consumer = "reaping"
  /\ \A c \in Conns : conn[c] = "closed"
  /\ consumer' = "done"
  /\ UNCHANGED <<kind, queue, putters, woken, closed, pstop, conn, sent, decoding, stopper, out>>

FrameProcessed ==
  /\ consumer = "busy"
  /\ consumer' = "get"
  /\ UNCHANGED <<kind, queue, putters, woken, closed, pstop, conn, sent, decoding, stopper, out>>

-------------------------------------------------------------------------------
(***************************************************************************)
(* Pipeline.stop, as SessionManager.stop awaits it                         *)
(***************************************************************************)
Stop ==
  /\ stopper = "idle"
  /\ pstop' = TRUE
  /\ closed' = TRUE
  /\ \/ /\ kind # "pull"
        /\ PutEnd(Stopper)
        /\ stopper' = IF Full(queue) THEN "closing" ELSE "cancelling"
     \/ /\ kind = "pull"
        /\ UNCHANGED <<queue, putters>>
        /\ stopper' = "cancelling"
  /\ UNCHANGED <<kind, woken, conn, sent, decoding, consumer, out>>

\* aclose() has returned, so the consumer is cancelled if it is still there.  In
\* q.get() a pull source's frames() first waits for its producer.
ConsumerCancelled ==
  /\ stopper = "cancelling"
  /\ consumer \in {"get", "busy"}
  /\ consumer' = IF kind = "pull" /\ consumer = "get" THEN "reaping" ELSE "done"
  /\ UNCHANGED <<kind, queue, putters, woken, closed, pstop, conn, sent, decoding, stopper, out>>

StopReturns ==
  /\ stopper = "cancelling"
  /\ consumer = "done"
  /\ stopper' = "done"
  /\ UNCHANGED <<kind, queue, putters, woken, closed, pstop, conn, sent, decoding, consumer, out>>

-------------------------------------------------------------------------------
Next ==
  \/ \E c \in Conns : Receive(c) \/ Disconnect(c)
  \/ \E c \in Conns, n \in 1..MaxFrames : Decoded(c, n) \/ DecodeFails(c, n)
  \/ \E c \in Conns : SourceEnds(c) \/ SourceFails(c) \/ ProducerCancelled(c)
  \/ PutterResumes
  \/ Consume \/ ConsumerReaped \/ FrameProcessed
  \/ Stop \/ ConsumerCancelled \/ StopReturns

Spec == Init /\ [][Next]_vars

DecodingIsOver(c) == \E n \in 1..MaxFrames : Decoded(c, n) \/ DecodeFails(c, n)

(***************************************************************************)
(* The loop resumes ready tasks, decoding ends, and the observers a frame  *)
(* waits for answer.  Clients need not send, disconnect or call stop, and  *)
(* a pull source need not end.                                             *)
(***************************************************************************)
Fairness ==
  /\ \A c \in Conns : WF_vars(DecodingIsOver(c)) /\ WF_vars(ProducerCancelled(c))
  /\ WF_vars(PutterResumes)
  /\ WF_vars(Consume) /\ WF_vars(ConsumerReaped) /\ WF_vars(FrameProcessed)
  /\ WF_vars(ConsumerCancelled) /\ WF_vars(StopReturns)

FairSpec == Spec /\ Fairness

-------------------------------------------------------------------------------
(***************************************************************************)
(* Properties                                                              *)
(***************************************************************************)

\* The source has ended, or been closed.
Ended ==
  IF kind = "pull" THEN \A c \in Conns : conn[c] \in {"failing", "closing", "closed"}
  ELSE closed

\* Dropping the oldest item never costs the session its end: once close() has
\* been called, or the producer is over, a sentinel is queued, or a task is still
\* blocked putting one, until the consumer is done.  It needs fewer frames in
\* decoding at close() than the queue has places, since each can push the
\* sentinel one place on (on KCP none can: feed() looks at _stop).
EndNotLost ==
  Cardinality(Conns) < QueueMax /\ Ended /\ consumer \in {"get", "busy"} =>
    End \in ToSet(queue) \/ putters # <<>> \/ woken # <<>>

\* The frames that were fed, did not decode, or came too late.
NotDecoding == {f \in Frames : f.n <= sent[f.conn] /\ f.n \notin decoding[f.conn]}

\* The queue with its sentinels left out, and what the consumer has seen, are a
\* FrameChannel; it keeps the order of a connection's frames except on KCP.
Channel ==
  INSTANCE FrameChannel WITH
    Capacity  <- QueueMax,
    ordered   <- kind # "kcp",
    used      <- NotDecoding,
    buffer    <- Only(queue, Frames),
    delivered <- out,
    finished  <- consumer \in {"reaping", "done"}

ImplementsChannel == Channel!ChannelSpec

\* The pipeline receives no frame twice and, from a WebSocket connection, an HTTP
\* client or a pull source, never an older frame after a newer one.
ReceivedOnceInOrder ==
  \A i, j \in DOMAIN out : i < j =>
    /\ out[i] # out[j]
    /\ kind # "kcp" /\ out[i].conn = out[j].conn => out[i].n < out[j].n

\* Once the source has ended or been closed, by its connection or by stop(), the
\* consumer ends.  (A pull source's consumer that stop() cancels while the queue
\* is full may wait for ever, for a producer that cannot put its end marker.)
CloseEndsConsumer == Ended ~> consumer = "done" \/ (kind = "pull" /\ pstop)

\* aclose() "signals stop and releases resources": stop() returns.
StopCompletes == pstop ~> stopper = "done"

\* On the KCP channel it does, because feed() looks at _stop after the decode.
KcpStopCompletes == kind = "kcp" /\ pstop ~> stopper = "done"
===============================================================================

-------------------------------- MODULE Fanout --------------------------------
(***************************************************************************)
(* One session's messages (pipeline.py, _emit; sessions.py, emit): they are *)
(* numbered, kept in the replay buffer, sent to the observers one by one,  *)
(* and pushed to the KCP peer bound when the last observer is through.     *)
(* Several tasks emit at once: the consumer, the windows, the escalations, *)
(* the stats loop.  The observers come and go meanwhile (api_v1.py and     *)
(* server.py, observe_ws).                                                 *)
(***************************************************************************)
EXTENDS KcpServer, FiniteSets

CONSTANTS Emitters,    \* tasks that emit
          Observers,   \* WebSocket handlers
          MaxSeq,      \* bound: messages
          ReplayMax    \* maxlen of replay_buf (200 in the code)

ASSUME FanoutAssumption ==
  ReplayMax \in Nat \ {0} /\ MaxSeq \in Nat /\ IsFiniteSet(Observers)

VARIABLES emitSeq,    \* Pipeline._emit_seq
          replay,     \* replay_buf: message numbers
          observers,  \* SessionRecord.observers
          emitting,   \* each task's emission: message, observers to go, dead ones
          handler,    \* where each observer's handler is: "none", "accepting",
                      \* "replaying", "reading", "left"
          backlog,    \* the replayed messages it has still to send
          broken,     \* sockets that fail
          got,        \* messages each observer has been sent, in order
          pushed,     \* messages each connection's peer has been sent, in order
          cut,        \* messages whose emission was cancelled
          joinedAt,   \* the oldest message an observer is owed
          boundAt     \* the first message a KCP peer is owed

emitVars == <<emitSeq, replay, observers, emitting, pushed, cut>>
handlerVars == <<handler, backlog, broken, joinedAt>>
fanoutVars == <<emitVars, handlerVars, got>>
deliveryVars == <<peerVars, lifeVars, bound, fanoutVars, boundAt>>

NotEmitting == [msg |-> 0, todo |-> <<>>, dead |-> {}]

FanoutInit ==
  /\ KcpInit
  /\ emitSeq = 0 /\ replay = <<>> /\ observers = {}
  /\ emitting = [e \in Emitters |-> NotEmitting]
  /\ handler = [o \in Observers |-> "none"]
  /\ backlog = [o \in Observers |-> <<>>]
  /\ broken = {}
  /\ got = [o \in Observers |-> <<>>]
  /\ pushed = [c \in Links |-> <<>>]
  /\ cut = {}
  /\ joinedAt = [o \in Observers |-> 0] /\ boundAt = 0

-------------------------------------------------------------------------------
(***************************************************************************)
(* Emission                                                                *)
(***************************************************************************)

\* Mutation: send_event sits in the loop over the observers.
FinishPerObserver(e, m, dead) ==
  /\ emitting' = [emitting EXCEPT ![e] = NotEmitting]
  /\ observers' = observers \ dead
  /\ pushed' = IF bound = NoPeer \/ observers = {} THEN pushed
               ELSE [pushed EXCEPT ![bound.link] = Append(@, m)]

\* After the last observer: the dead ones are discarded and the bound peer gets
\* the message, whether or not the server still knows that peer.
Finish(e, m, dead) ==
  /\ emitting' = [emitting EXCEPT ![e] = NotEmitting]
  /\ observers' = observers \ dead
  /\ pushed' = IF bound = NoPeer THEN pushed
               ELSE [pushed EXCEPT ![bound.link] = Append(@, m)]

\* replay_buf.append on a deque with a maxlen.
Remember(m) ==
  replay' = Append(IF Len(replay) < ReplayMax THEN replay ELSE Tail(replay), m)

\* _emit and emit() up to the first send: the message is numbered, remembered,
\* and the observers are listed, in the order the set happens to have.  Windows that
\* are drained after the source was closed emit like the others.
Emit(e) ==
  /\ emitting[e] = NotEmitting
  /\ emitSeq < MaxSeq
  /\ emitSeq' = emitSeq + 1
  /\ Remember(emitSeq + 1)
  /\ IF observers = {}
     THEN Finish(e, emitSeq + 1, {})
     ELSE /\ \E order \in SetToSeqs(observers) :
               emitting' = [emitting EXCEPT ![e] =
                              [msg |-> emitSeq + 1, todo |-> order, dead |-> {}]]
          /\ UNCHANGED <<observers, pushed>>
  /\ UNCHANGED <<peerVars, lifeVars, bound, handlerVars, got, cut, boundAt>>

\* Mutation: a failed send ends the loop.
LeftIfAlive(e) == IF Head(emitting[e].todo) \in broken THEN <<>> ELSE Tail(emitting[e].todo)

LeftToSend(e) == Tail(emitting[e].todo)

\* send_text to the next observer returns or raises.
Sent(e) ==
  LET em == emitting[e]
      o == Head(em.todo)
      dead == IF o \in broken THEN em.dead \cup {o} ELSE em.dead
  IN  /\ em # NotEmitting
      /\ got' = IF o \in broken THEN got ELSE [got EXCEPT ![o] = Append(@, em.msg)]
      /\ IF LeftToSend(e) = <<>>
         THEN Finish(e, em.msg, dead)
         ELSE /\ emitting' = [emitting EXCEPT ![e].todo = LeftToSend(e), ![e].dead = dead]
              /\ UNCHANGED <<observers, pushed>>
      /\ UNCHANGED <<peerVars, lifeVars, bound, handlerVars, emitSeq, replay, cut, boundAt>>

\* The session is stopping and the emitting task is cancelled: nothing catches a
\* CancelledError, so the observers to go and the peer miss the message.
EmissionCut(e) ==
  /\ closed
  /\ emitting[e] # NotEmitting
  /\ emitting' = [emitting EXCEPT ![e] = NotEmitting]
  /\ cut' = cut \cup {emitting[e].msg}
  /\ UNCHANGED <<peerVars, lifeVars, bound, handlerVars, emitSeq, replay, observers,
                 got, pushed, boundAt>>

-------------------------------------------------------------------------------
(***************************************************************************)
(* observe_ws                                                              *)
(***************************************************************************)

\* The token and the session's owner are checked, then the socket is accepted.
Connect(o) ==
  /\ handler[o] = "none"
  /\ handler' = [handler EXCEPT ![o] = IF registered THEN "accepting" ELSE "left"]
  /\ UNCHANGED <<peerVars, lifeVars, bound, emitVars, got, backlog, broken, joinedAt, boundAt>>

\* It is added to the observers and copies the buffer in one step: the record's
\* lock is never held across an await.
Join(o) ==
  /\ handler[o] = "accepting"
  /\ handler' = [handler EXCEPT ![o] = "replaying"]
  /\ observers' = observers \cup {o}
  /\ backlog' = [backlog EXCEPT ![o] = replay]
  /\ joinedAt' = [joinedAt EXCEPT ![o] = IF replay = <<>> THEN emitSeq + 1 ELSE Head(replay)]
  /\ UNCHANGED <<peerVars, lifeVars, bound, emitSeq, replay, emitting, pushed, cut, got,
                 broken, boundAt>>

\* A replayed message is sent; a failure ends the replay.
Replay(o) ==
  /\ handler[o] = "replaying"
  /\ IF backlog[o] = <<>> \/ o \in broken
     THEN /\ handler' = [handler EXCEPT ![o] = "reading"]
          /\ UNCHANGED <<backlog, got>>
     ELSE /\ got' = [got EXCEPT ![o] = Append(@, Head(backlog[o]))]
          /\ backlog' = [backlog EXCEPT ![o] = Tail(@)]
          /\ UNCHANGED handler
  /\ UNCHANGED <<peerVars, lifeVars, bound, emitVars, broken, joinedAt, boundAt>>

\* The client goes away.
Breaks(o) ==
  /\ handler[o] \in {"replaying", "reading"}
  /\ o \notin broken
  /\ broken' = broken \cup {o}
  /\ UNCHANGED <<peerVars, lifeVars, bound, emitVars, got, handler, backlog, joinedAt, boundAt>>

\* receive_text raises and the finally clause forgets the observer.
Leave(o) ==
  /\ handler[o] = "reading"
  /\ o \in broken
  /\ handler' = [handler EXCEPT ![o] = "left"]
  /\ observers' = observers \ {o}
  /\ UNCHANGED <<peerVars, lifeVars, bound, emitSeq, replay, emitting, pushed, cut, got,
                 backlog, broken, joinedAt, boundAt>>

-------------------------------------------------------------------------------
(***************************************************************************)
(* The session's end, as far as it matters here, and the KCP side          *)
(***************************************************************************)

\* stop() closes the source, and later takes the session off the manager's table.
IngestorCloses ==
  /\ ~ closed
  /\ closed' = TRUE
  /\ UNCHANGED <<peerVars, registered, bound, fanoutVars, boundAt>>

SessionLeaves ==
  /\ closed /\ registered
  /\ registered' = FALSE
  /\ UNCHANGED <<peerVars, closed, bound, fanoutVars, boundAt>>

PeerStep ==
  /\ KcpStep
  /\ boundAt' = IF bound = NoPeer /\ bound' # NoPeer THEN emitSeq + 1 ELSE boundAt
  /\ UNCHANGED fanoutVars

FanoutNext ==
  \/ \E e \in Emitters : Emit(e) \/ Sent(e) \/ EmissionCut(e)
  \/ \E o \in Observers : Connect(o) \/ Join(o) \/ Replay(o) \/ Breaks(o) \/ Leave(o)
  \/ IngestorCloses \/ SessionLeaves
  \/ PeerStep

FanoutSpec == FanoutInit /\ [][FanoutNext]_deliveryVars

-------------------------------------------------------------------------------
(***************************************************************************)
(* Properties                                                              *)
(***************************************************************************)
Live(o) == handler[o] \in {"replaying", "reading"} /\ o \notin broken

\* Messages on their way to o, in an emission under way.
Coming(o) == {emitting[e].msg : e \in {x \in Emitters : o \in ToSet(emitting[x].todo)}}

\* "On connect, the server replays the last 200 buffered events": an observer
\* gets every message from the oldest replayed one on exactly once, replayed or
\* live, whatever is emitted while it joins.  Only a cancelled emission is lost.
ObserverMissesNothing ==
  \A o \in Observers : Live(o) =>
    LET seen == ToSet(got[o])
        left == ToSet(backlog[o])
    IN  /\ Len(got[o]) = Cardinality(seen)
        /\ seen \cap left = {} /\ seen \cap Coming(o) = {} /\ left \cap Coming(o) = {}
        /\ (joinedAt[o]..emitSeq) \ cut \subseteq seen \cup left \cup Coming(o)

\* Messages whose fan-out has ended in full.
Done == {m \in 1..emitSeq : m \notin cut /\ \A e \in Emitters : emitting[e].msg # m}

\* From the first hello on every message goes to one peer, once, however the
\* binding moves from one connection to another while messages are on their way.
HandoverLosesNothing ==
  /\ \A c \in Links : IsInjective(pushed[c])
  /\ boundAt # 0 =>
       \A m \in Done : m >= boundAt =>
         \E c \in Links : {d \in Links : m \in ToSet(pushed[d])} = {c}
===============================================================================

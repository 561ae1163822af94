------------------------------- MODULE KcpServer -------------------------------
(***************************************************************************)
(* The KCP server's peers (kcp_server.py, KcpPeer and KcpServer) and the   *)
(* peer a KCP session's events go to (ingest_kcp.py, bind_peer and         *)
(* send_event), for one session.                                           *)
(*                                                                         *)
(* A connection's messages reach handle_data() in batches, the messages    *)
(* one packet completes.  Only the decoding of a frame suspends it, and    *)
(* the library may deliver the next packet meanwhile.  A KcpPeer object is *)
(* known by its connection and its number: one that was dropped from       *)
(* _peers lives on in the calls that run on it, and as the session's peer. *)
(***************************************************************************)
EXTENDS Integers, SequencesExt

CONSTANTS Links,        \* connections, one (host, port) each
          Packets,      \* batches of messages a packet may complete
          MaxPackets    \* bound: packets delivered

Kinds == {"hello", "badhello", "frame", "ping", "close"}

ASSUME KcpAssumption == Packets \subseteq Seq(Kinds)

NoPeer == [link |-> "none", obj |-> 0]

VARIABLES peers,      \* KcpServer._peers: the object of each connection, or 0
          made,       \* objects made so far for each connection
          packets,    \* packets delivered so far
          helloed,    \* the objects with _hello_done
          calls,      \* handle_data calls suspended in a decode, oldest first
          bound,      \* KcpIngestor._peer
          fed,        \* frames each connection has put in the ingestor
          registered, \* manager.get finds the session
          closed      \* the ingestor's _stop

peerVars == <<peers, made, packets, helloed, calls, fed>>
lifeVars == <<registered, closed>>

\* _on_hello: the token, the session, its owner and its channel are checked, in
\* one step; the peer that says hello last gets the events.
Greeted(ms) == registered /\ "hello" \in ToSet(ms)

\* A hello that is refused and a close end in KcpPeer.close: the key is popped,
\* whichever object holds it now.
Parted(ms) == \E m \in ToSet(ms) : m \in {"close", "badhello"} \/ (m = "hello" /\ ~ registered)

\* _on_frame: a frame before the hello, or without a session, is ignored.
Suspends(p, ms, i) ==
  /\ ms[i] = "frame"
  /\ registered
  /\ p \in helloed \/ Greeted(SubSeq(ms, 1, i - 1))

\* The messages handled in one step, those before the first that suspends.
Prompt(p, ms) ==
  SubSeq(ms, 1, Cardinality({i \in DOMAIN ms : \A j \in 1..i : ~ Suspends(p, ms, j)}))

\* handle_data goes on with messages ms on object p, until a decode or the end.
\* Their order only matters for where it suspends: nothing undoes a binding, and
\* a key that is popped stays popped.  A ping is answered and changes nothing.
Continue(known, p, ms, others) ==
  LET now == Prompt(p, ms)
      rest == SubSeq(ms, Len(now) + 1, Len(ms))
  IN  /\ peers' = IF Parted(now) THEN [known EXCEPT ![p.link] = 0] ELSE known
      /\ helloed' = IF Greeted(now) THEN helloed \cup {p} ELSE helloed
      /\ bound' = IF Greeted(now) THEN p ELSE bound
      /\ calls' = IF rest = <<>> THEN others
                  ELSE Append(others, [peer |-> p, todo |-> rest])

-------------------------------------------------------------------------------
\* _on_data: an object is made for a connection that has none.
OnData(c) ==
  /\ packets < MaxPackets
  /\ packets' = packets + 1
  /\ \E ms \in Packets :
       IF peers[c] # 0
       THEN /\ Continue(peers, [link |-> c, obj |-> peers[c]], ms, calls)
            /\ UNCHANGED made
       ELSE /\ made' = [made EXCEPT ![c] = @ + 1]
            /\ Continue([peers EXCEPT ![c] = made[c] + 1],
                        [link |-> c, obj |-> made[c] + 1], ms, calls)
  /\ UNCHANGED <<fed, lifeVars>>

\* Mutation: the ingestor does not look at _stop.
TakenWhenClosed(c) == fed' = [fed EXCEPT ![c] = @ + 1]

\* KcpIngestor.feed looks at _stop: the record was looked up before the decode.
Taken(c) == fed' = IF closed THEN fed ELSE [fed EXCEPT ![c] = @ + 1]

\* The JPEG of the frame that suspended the i-th call is decoded, or is bad.
FrameDecoded(i) ==
  LET call == calls[i]
  IN  /\ Taken(call.peer.link) \/ UNCHANGED fed
      /\ Continue(peers, call.peer, Tail(call.todo), RemoveAt(calls, i))
      /\ UNCHANGED <<made, packets, lifeVars>>

\* KcpServer.stop: every peer is sent bye and dropped.
ServerStops ==
  /\ \E c \in Links : peers[c] # 0
  /\ peers' = [c \in Links |-> 0]
  /\ packets' = MaxPackets
  /\ UNCHANGED <<made, helloed, calls, bound, fed, lifeVars>>

KcpInit ==
  /\ peers = [c \in Links |-> 0] /\ made = [c \in Links |-> 0]
  /\ packets = 0
  /\ helloed = {} /\ calls = <<>> /\ bound = NoPeer
  /\ fed = [c \in Links |-> 0]
  /\ registered = TRUE /\ closed = FALSE

KcpStep ==
  \/ \E c \in Links : OnData(c)
  \/ \E i \in DOMAIN calls : FrameDecoded(i)
  \/ ServerStops

-------------------------------------------------------------------------------
\* Once the ingestor is closed no frame enters it, however long ago its decoding
\* began: the session is looked up before the decode and used after it.
NoFrameAfterClose == [][closed => fed' = fed]_fed
===============================================================================

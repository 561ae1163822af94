-------------------------------- MODULE Framing --------------------------------
(***************************************************************************)
(* The KCP channel's framing (kcp_server.py, Framer): messages             *)
(* [u32 length][JSON header], a frame followed by its JPEG, cut out of a    *)
(* byte stream whose packets end anywhere.                                 *)
(*                                                                         *)
(* A stream is a sequence of cells: LenSize of them make a length prefix,  *)
(* HeaderSize a header.  A prefix read where none was written is Misread,   *)
(* a number larger than the stream: it is read from a JPEG, which starts   *)
(* with the bytes FF D8, so it is more than 4 * 10^9.                      *)
(***************************************************************************)
EXTENDS Integers, SequencesExt, Selection

CONSTANTS Messages,     \* records [type, form, size] a client may send
          MaxMessages,  \* bound: messages in a stream
          LenSize, HeaderSize,
          PayloadCap,   \* the 16 MB sanity cap, in cells
          Misread       \* what a length read in the middle of a JPEG is

\* encode_message writes payload_len (form A) for a payload that is not empty.
ASSUME FramingAssumption ==
  /\ LenSize \in Nat \ {0} /\ HeaderSize \in Nat \ {0}
  /\ PayloadCap \in Nat /\ Misread \in Nat /\ PayloadCap < Misread /\ MaxMessages \in Nat
  /\ Messages \subseteq [type : {"frame", "other", "noise", "empty"}, form : {"A", "B"}, size : Nat]
  /\ \A m \in Messages : m.type = "frame" /\ m.form = "A" => m.size > 0

VARIABLES stream,   \* the messages the client writes
          arrived,  \* cells of it that have arrived
          framer    \* Framer: _buf, _expected, and what feed() has returned so far

framingVars == <<stream, arrived, framer>>

-------------------------------------------------------------------------------
(***************************************************************************)
(* What clients write                                                      *)
(***************************************************************************)

\* msg_with_len's prefix
Prefix(n) == [i \in 1..LenSize |-> [length |-> n, at |-> i]]

Header(m) == [i \in 1..HeaderSize |-> [header |-> m, at |-> i]]
Payload(m) == [i \in 1..m.size |-> [payload |-> m, at |-> i]]

\* encode_message.  A "noise" message has a body that is not JSON, an "empty" one
\* has none.  The frames of form "A" carry payload_len in the header, those of
\* form "B" only the prefix on the wire.
Wire(m) ==
  IF m.type = "empty" THEN Prefix(0)
  ELSE IF m.type = "frame" THEN Prefix(HeaderSize) \o Header(m) \o Prefix(m.size) \o Payload(m)
  ELSE Prefix(HeaderSize) \o Header(m)

Bytes(ms) == FlattenSeq([i \in DOMAIN ms |-> Wire(ms[i])])

Streams == UNION {[1..n -> Messages] : n \in 1..MaxMessages}

ASSUME StreamsAreShort == \A ms \in Streams : Len(Bytes(ms)) < Misread

-------------------------------------------------------------------------------
(***************************************************************************)
(* Framer.feed                                                             *)
(***************************************************************************)
None == -1

From(cells, n) == SubSeq(cells, n + 1, Len(cells))

\* LEN_FMT.unpack_from(buf, 0)
ReadLength(buf) ==
  IF "length" \in DOMAIN buf[1] /\ SubSeq(buf, 1, LenSize) = Prefix(buf[1].length)
  THEN buf[1].length ELSE Misread

NeedMore == [took |-> None, payload |-> <<>>]

\* Mutation: a payload is taken as soon as any of it is there.
TakePartialPayload(m, buf) ==
  IF Len(buf) <= LenSize THEN NeedMore
  ELSE LET end == IF Len(buf) < LenSize + m.size THEN Len(buf) ELSE LenSize + m.size
       IN  [took |-> end, payload |-> SubSeq(buf, LenSize + 1, end)]

\* _consume_frame_payload: how many cells it removes and the payload among them.
\* Form A trusts the header; form B skips the prefix, and only the prefix, of an
\* implausible payload.
ConsumeFramePayload(m, buf) ==
  LET explicit == IF m.form = "A" THEN m.size ELSE 0
      plen == IF explicit # 0 THEN explicit ELSE ReadLength(buf)
  IN  IF Len(buf) < LenSize + explicit THEN NeedMore
      ELSE IF explicit = 0 /\ (plen > PayloadCap \/ plen = 0)
           THEN [took |-> LenSize, payload |-> <<>>]
      ELSE IF Len(buf) < LenSize + plen THEN NeedMore
      ELSE [took |-> LenSize + plen, payload |-> SubSeq(buf, LenSize + 1, LenSize + plen)]

\* The body of a message whose length has been read: json.loads fails on noise.
IsJson(body) ==
  /\ body # <<>> /\ "header" \in DOMAIN body[1]
  /\ body = Header(body[1].header) /\ body[1].header.type # "noise"

\* feed() works on [buf, expected, local, out, more]: its buffer, the length it has
\* read, its variable payload, what it returns, and whether its loop goes on.
Stop(s) == [s EXCEPT !.more = FALSE]

\* The first half of a turn of the loop: the length of the next message.
TakePrefix(s) ==
  IF Len(s.buf) < LenSize THEN Stop(s)
  ELSE LET n == ReadLength(s.buf)
       IN  [s EXCEPT !.buf = From(@, LenSize), !.expected = IF n = 0 THEN None ELSE n]

\* A message is returned; one without a payload is given the last frame's.
Return(s, m, payload, rest) ==
  [s EXCEPT !.buf = rest, !.expected = None, !.local = payload,
            !.out = Append(@, [msg |-> m, payload |-> payload])]

\* The second half: its body, and the payload of a frame.  A frame whose payload has
\* not arrived puts its header back in front of the buffer, prefix and all.
TakeBody(s) ==
  LET body == SubSeq(s.buf, 1, s.expected)
      rest == From(s.buf, s.expected)
      m    == body[1].header
      p    == ConsumeFramePayload(m, rest)
  IN  IF Len(s.buf) < s.expected THEN Stop(s)
      ELSE IF ~ IsJson(body) THEN [s EXCEPT !.buf = rest, !.expected = None]
      ELSE IF m.type # "frame" THEN Return(s, m, s.local, rest)
      ELSE IF p = NeedMore
           THEN [Stop(s) EXCEPT !.buf = Prefix(s.expected) \o @, !.expected = None]
      ELSE Return(s, m, p.payload, From(rest, p.took))

Turn(s) ==
  IF ~ s.more THEN s ELSE IF s.expected = None THEN TakePrefix(s) ELSE TakeBody(s)

NewFramer == [buf |-> <<>>, expected |-> None, out |-> <<>>]

\* What feed() starts with.
Loaded(f, data) ==
  [buf |-> f.buf \o data, expected |-> f.expected, local |-> <<>>, out |-> f.out, more |-> TRUE]

\* The loop, which removes a cell or more in each half of a turn but the last.
Drain(s) ==
  LET turn[i \in 0..(Len(s.buf) + 1)] == IF i = 0 THEN s ELSE Turn(turn[i - 1])
  IN  turn[Len(s.buf) + 1]

\* feed(data); out collects what the calls have returned.
Feed(f, data) ==
  LET s == Drain(Loaded(f, data))
  IN  [buf |-> s.buf, expected |-> s.expected, out |-> s.out]

FramingInit == stream \in Streams /\ arrived = 0 /\ framer = NewFramer

\* A packet brings the next n cells, ending anywhere.
PacketArrives(n) ==
  /\ arrived' = arrived + n
  /\ framer' = Feed(framer, SubSeq(Bytes(stream), arrived + 1, arrived + n))
  /\ UNCHANGED stream

FramingNext == \E n \in 1..(Len(Bytes(stream)) - arrived) : PacketArrives(n)

FramingSpec == FramingInit /\ [][FramingNext]_framingVars

-------------------------------------------------------------------------------
(***************************************************************************)
(* Reference: what a stream means, whatever its packets                    *)
(***************************************************************************)
Oversize(m) == m.type = "frame" /\ m.form = "B" /\ m.size > PayloadCap

\* The cells of the first i messages; an oversize payload is not waited for.
Needs(ms, i) ==
  Len(Bytes(SubSeq(ms, 1, i))) - (IF Oversize(ms[i]) THEN ms[i].size ELSE 0)

\* The messages that mean something, and what they mean.
Spoken == {m \in Messages : m.type \in {"frame", "other"}}

Meaning(m) ==
  [msg |-> m, payload |-> IF m.type = "frame" /\ ~ Oversize(m) THEN Payload(m) ELSE <<>>]

\* How many messages the first n cells hold.  Nothing is read past an oversize frame.
Complete(ms, n) ==
  Cardinality({i \in DOMAIN ms : Needs(ms, i) <= n /\ \A j \in 1..(i - 1) : ~ Oversize(ms[j])})

Meant(ms, n) ==
  LET said == Only(SubSeq(ms, 1, Complete(ms, n)), Spoken)
  IN  [i \in DOMAIN said |-> Meaning(said[i])]

\* _dispatch looks at the payload of a frame only.
Understood(out) ==
  [i \in DOMAIN out |-> IF out[i].msg.type = "frame" THEN out[i] ELSE [out[i] EXCEPT !.payload = <<>>]]

\* Wherever its packets end, a stream is cut into the same messages: feed() has
\* returned each one that has arrived in full, once, in order, a frame with its own
\* payload, and nothing of one that has not.
FramingExact == Understood(framer.out) = Meant(stream, arrived)
===============================================================================

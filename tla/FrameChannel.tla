----------------------------- MODULE FrameChannel -----------------------------
(***************************************************************************)
(* What an ingestor promises the pipeline: a bounded, lossy channel.  A    *)
(* frame enters it at most once and frames come out in the order they went *)
(* in; where the channel is ordered, the frames of one source enter in     *)
(* their order; a frame may cost the oldest one its place, never the       *)
(* newest; nothing comes out after the end.                                *)
(***************************************************************************)
EXTENDS Integers, SequencesExt

CONSTANTS Frames,     \* [conn : sources, n : the source's frame number]
          Capacity    \* frames held at most

VARIABLES ordered,    \* the sources keep their frames in order; it never changes
          used,       \* frames accepted or refused so far
          buffer,     \* accepted, not delivered, not lost
          delivered,  \* what the pipeline has received, in order
          finished    \* the pipeline has seen the end

channelVars == <<ordered, used, buffer, delivered, finished>>

ChannelInit ==
  /\ ordered \in BOOLEAN /\ used = {}
  /\ buffer = <<>> /\ delivered = <<>> /\ finished = FALSE

\* f has not come before, nor has, on an ordered channel, a newer frame of its source.
Comes(f) ==
  /\ f \notin used
  /\ ordered => \A g \in used : g.conn = f.conn => g.n < f.n
  /\ used' = used \cup {f}
  /\ UNCHANGED ordered

\* A frame is accepted, and perhaps the oldest one lost to make room.
Accept(f) ==
  /\ Comes(f)
  /\ \/ /\ Len(buffer) < Capacity
        /\ buffer' = Append(buffer, f)
     \/ /\ buffer # <<>>
        /\ buffer' = Append(Tail(buffer), f)
  /\ UNCHANGED <<delivered, finished>>

\* A frame does not decode, or comes when the channel is closed.
Refuse(f) ==
  /\ Comes(f)
  /\ UNCHANGED <<buffer, delivered, finished>>

\* The pipeline takes the oldest frame, or discards it because it is stopping.
Deliver ==
  /\ ~ finished /\ buffer # <<>>
  /\ buffer' = Tail(buffer)
  /\ \/ /\ delivered' = Append(delivered, Head(buffer))
        /\ UNCHANGED finished
     \/ finished' = TRUE /\ UNCHANGED delivered
  /\ UNCHANGED <<ordered, used>>

Finish ==
  /\ ~ finished
  /\ finished' = TRUE
  /\ UNCHANGED <<ordered, used, buffer, delivered>>

ChannelNext == (\E f \in Frames : Accept(f) \/ Refuse(f)) \/ Deliver \/ Finish

ChannelSpec == ChannelInit /\ [][ChannelNext]_channelVars
===============================================================================

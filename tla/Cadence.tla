-------------------------------- MODULE Cadence --------------------------------
(***************************************************************************)
(* From frames to windows (pipeline.py, _consume, FrameRing, _cadencer and *)
(* _dispatch_window; scheduler.py, WindowScheduler): the frame rate cap,   *)
(* the ring of recent frames, when a window is due, and which of its       *)
(* frames are sent for analysis.                                           *)
(*                                                                         *)
(* Time is stream time, in ticks: the frames' own stamps.  They come from  *)
(* the client's clock, which may also step back.                           *)
(***************************************************************************)
EXTENDS Integers, Sequences

CONSTANTS MinGap,      \* min_interval: (1 / target_fps) * (1 - tolerance)
          Window,      \* window_seconds
          Stride,      \* of each level of the ladder: 1 / window_hz
          MaxFrames,   \* of each level: frames sent with a window
          RingMax,     \* maxlen of the ring (64 in the code)
          MaxStep,     \* bound: a running clock's step from frame to frame
          MaxPts,      \* bound: the last stamp
          Late,        \* frames that may reach the ring before a due window is
                       \* assembled (what the ingestor's queue holds: 32)
          MaxWindows   \* bound: windows dispatched

Rungs == DOMAIN Stride

ASSUME CadenceAssumption ==
  /\ MinGap \in Nat \ {0} /\ Window \in Nat \ {0} /\ RingMax \in Nat \ {0}
  /\ 0 \in Rungs /\ DOMAIN MaxFrames = Rungs
  /\ \A r \in Rungs : Stride[r] \in Nat \ {0} /\ MaxFrames[r] \in Nat \ {0}
  /\ MaxStep \in Nat \ {0} /\ MaxPts \in Nat /\ MaxWindows \in Nat
  /\ Late \in Nat /\ Window \div MinGap + 1 + Late <= RingMax

VARIABLES clock,         \* the stamp of the last frame received
          lastKept,      \* last_kept_pts
          ring,          \* FrameRing.buf: stamps, the newest last
          nextDispatch,  \* WindowScheduler._next_dispatch_t
          rung,          \* Backpressure.current_level
          windows,       \* the windows dispatched, in order
          gathered,      \* the frames each window was assembled from
          sample,        \* the frames sent with the last of them
          kept,          \* stamps of all the frames put in the ring so far
          late           \* frames received since the last window was due

cadenceVars == <<clock, lastKept, ring, nextDispatch, rung, windows, gathered,
                 sample, kept, late>>

CadenceInit ==
  /\ clock = 0 /\ lastKept = 0 /\ ring = <<>>
  /\ nextDispatch = 0 /\ rung = 0 /\ windows = <<>>
  /\ gathered = <<>> /\ sample = <<>>
  /\ kept = {} /\ late = 0

-------------------------------------------------------------------------------
\* Mutation: a stamp far from the last one, on either side, is kept.
TooClose(p) == IF p < lastKept THEN lastKept - p < MinGap ELSE p - lastKept < MinGap

\* The rate cap compares a frame's stamp with the last kept one's.
Capped(p) == p - lastKept < MinGap

\* Mutation: a ring that holds a window's frames and no more.
PushedTight(p) ==
  Append(IF Len(ring) < Window \div MinGap + 1 THEN ring ELSE Tail(ring), p)

\* push() on a deque with a maxlen.
Pushed(p) == Append(IF Len(ring) < RingMax THEN ring ELSE Tail(ring), p)

\* A frame stamped p reaches _consume.  Below the cap, which includes every frame
\* of a clock that has stepped back, it is dropped.
Frame(p) ==
  /\ Len(gathered) < Len(windows) => late < Late
  /\ late' = IF Len(gathered) < Len(windows) THEN late + 1 ELSE 0
  /\ clock' = p
  /\ IF Capped(p)
     THEN UNCHANGED <<lastKept, ring, kept>>
     ELSE lastKept' = p /\ ring' = Pushed(p) /\ kept' = kept \cup {p}
  /\ UNCHANGED <<nextDispatch, rung, windows, gathered, sample>>

FrameArrives == \E p \in (clock + 1)..(clock + MaxStep) : p <= MaxPts /\ Frame(p)

\* The client restarts its clock.
ClockStepsBack == \E p \in 1..(clock - 1) : Frame(p)

Newest == IF ring = <<>> THEN 0 ELSE ring[Len(ring)]

\* Mutation: next_window's default stride is left in place.
DueAfterWindow(now) == nextDispatch' = now + Window

\* next_window() makes the stride a window; the cadencer then sets the level's.
DueAfter(now) == nextDispatch' = now + Stride[rung]

\* The cadencer wakes and a window is due: it ends at the newest frame.
WindowDue ==
  LET now == Newest
  IN  /\ Len(windows) < MaxWindows /\ Len(gathered) = Len(windows)
      /\ now >= nextDispatch
      /\ windows' = Append(windows, [from |-> now - Window, to |-> now, rung |-> rung])
      /\ DueAfter(now)
      /\ late' = 0
      /\ UNCHANGED <<clock, lastKept, ring, rung, gathered, sample, kept>>

\* stats_loop's update() changes the level.
RungChanges ==
  /\ \E r \in Rungs \ {rung} : rung' = r
  /\ UNCHANGED <<clock, lastKept, ring, nextDispatch, windows, gathered, sample, kept, late>>

\* frames[::step][:max_frames] with step = max(1, len(frames) // max_frames)
Sample(frames, most) ==
  LET step == IF Len(frames) < most THEN 1 ELSE Len(frames) \div most
      all == (Len(frames) + step - 1) \div step
  IN  [i \in 1..(IF all < most THEN all ELSE most) |-> frames[(i - 1) * step + 1]]

\* recent(t_from, t_to): as a sequence, and the set of its stamps.
Recent(from, to) == SelectSeq(ring, LAMBDA p : from <= p /\ p <= to)
RecentSet(from, to) == {ring[i] : i \in {j \in DOMAIN ring : from <= ring[j] /\ ring[j] <= to}}

\* The window's task runs: it takes its frames from the ring; fewer than two are
\* not worth a call.
Assemble ==
  /\ Len(gathered) < Len(windows)
  /\ LET w == windows[Len(windows)]
         frames == Recent(w.from, w.to)
     IN  /\ gathered' = Append(gathered, RecentSet(w.from, w.to))
         /\ sample' = IF Len(frames) < 2 THEN <<>> ELSE Sample(frames, MaxFrames[w.rung])
  /\ UNCHANGED <<clock, lastKept, ring, nextDispatch, rung, windows, kept, late>>

CadenceNext ==
  \/ FrameArrives \/ ClockStepsBack
  \/ WindowDue \/ RungChanges \/ Assemble

CadenceSpec == CadenceInit /\ [][CadenceNext]_cadenceVars

-------------------------------------------------------------------------------
(***************************************************************************)
(* Properties                                                              *)
(***************************************************************************)

\* Whatever the client's clock does, the frames in the ring are in the order of
\* their stamps and at least min_interval apart: recent() and the offsets a window
\* is sent with rely on it.
RingIncreasing ==
  \A i, j \in DOMAIN ring : i < j => ring[j] - ring[i] >= MinGap

\* Two windows are at least as far apart in stream time as the level in force at
\* the first one asks for, however late the cadencer runs and however the level
\* moves: a stride shorter than that would overload the model it spares.
WindowsSpaced ==
  \A k \in DOMAIN windows : k > 1 =>
    windows[k].to - windows[k - 1].to >= Stride[windows[k - 1].rung]

\* A window is assembled from every frame kept in its span: the ring still holds
\* them although newer frames came in before its task ran.
WindowWhole ==
  \A k \in DOMAIN gathered :
    gathered[k] = {p \in kept : windows[k].from <= p /\ p <= windows[k].to}

\* "uniform sample within the window": no frame of the window is further from the
\* sample than the sample's own widest step.
UniformSample ==
  Len(sample) > 1 =>
    \E step \in {sample[i + 1] - sample[i] : i \in 1..(Len(sample) - 1)} :
      \A p \in gathered[Len(gathered)] :
        \E i \in DOMAIN sample : p - sample[i] <= step /\ sample[i] - p <= step
===============================================================================

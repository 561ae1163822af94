----------------------------- MODULE StreamProofs -----------------------------
(***************************************************************************)
(* The frame ring and the windows cut from it, for every frame rate,       *)
(* window length, ladder and ring that CadenceAssumption admits; and what  *)
(* the event memory keeps of the windows' answers and what is said of it,  *)
(* for any number of windows, events, retries and firings of the gate,     *)
(* whatever the model answers and whichever events are alike.              *)
(***************************************************************************)
EXTENDS Cadence, Analysis, DataLemmas

-------------------------------------------------------------------------------
(***************************************************************************)
(* Cadence: the rate cap, the ring and the window scheduler                *)
(***************************************************************************)
WindowRecords == [from : Int, to : Nat, rung : Rungs]

\* The values the cadence's variables range over.
CadenceTypes ==
  /\ clock \in Nat /\ lastKept \in Nat
  /\ ring \in Seq(Nat) /\ kept \in SUBSET Nat
  /\ nextDispatch \in Int /\ rung \in Rungs
  /\ windows \in Seq(WindowRecords) /\ gathered \in Seq(SUBSET Nat)
  /\ late \in 0..Late

\* The stamps that n frames at the cap take.
Gaps(n) == n * MinGap

\* What the rate cap keeps true of the ring: stamps any number of places apart are
\* that many gaps apart, and the last one is the last kept.
Spread(s, last) ==
  /\ \A i, j \in 1..Len(s) : i <= j => s[j] - s[i] >= Gaps(j - i)
  /\ Len(s) > 0 => s[Len(s)] = last

RingSpread ==
  /\ Spread(ring, lastKept)
  /\ \A i \in 1..Len(ring) : ring[i] \in kept
  /\ \A p \in kept : p <= lastKept
  /\ Len(ring) = 0 => kept = {}

\* A kept stamp that the ring no longer holds went out on the left.
Holds(s, stamps) ==
  \A q \in stamps :
    (\E i \in 1..Len(s) : s[i] = q) \/ (Len(s) = RingMax /\ q + MinGap <= s[1])

\* A stamp that is at most n places from the right end.
Within(s, q, n) == \E i \in 1..Len(s) : s[i] = q /\ i + n >= Len(s)

\* Where the cadencer stands: the next window waits for the last one's stride.
DispatchFollows ==
  /\ \A k \in DOMAIN windows :
       windows[k].to <= lastKept /\ windows[k].from = windows[k].to - Window
  /\ windows # <<>> =>
       nextDispatch = windows[Len(windows)].to + Stride[windows[Len(windows)].rung]
  /\ Len(gathered) <= Len(windows) /\ Len(windows) <= Len(gathered) + 1

\* A window that is due and not assembled yet: its newest frame is still at most
\* late places from the right end of the ring, if there was a frame at all.
PendingInRing ==
  Len(gathered) < Len(windows) =>
    \/ \A q \in kept : q > windows[Len(windows)].to
    \/ Within(ring, windows[Len(windows)].to, late)

CadenceInv ==
  /\ CadenceTypes /\ RingSpread /\ Holds(ring, kept) /\ DispatchFollows /\ PendingInRing
  /\ Len(ring) <= RingMax

-------------------------------------------------------------------------------
\* The two things push() can do to a sequence: it grows, or it loses its oldest.
Grown(s, t, p) ==
  Len(t) = Len(s) + 1 /\ t[Len(s) + 1] = p /\ \A i \in 1..Len(s) : t[i] = s[i]

Shifted(s, t, p) ==
  Len(t) = Len(s) /\ t[Len(s)] = p /\ \A i \in 1..(Len(s) - 1) : t[i] = s[i + 1]

LEMMA PushGrows ==
  ASSUME NEW p \in Nat, ring \in Seq(Nat), Len(ring) < RingMax
  PROVE  Pushed(p) \in Seq(Nat) /\ Grown(ring, Pushed(p), p)
  BY DEF Pushed, Grown

LEMMA PushShifts ==
  ASSUME NEW p \in Nat, ring \in Seq(Nat), Len(ring) = RingMax
  PROVE  Pushed(p) \in Seq(Nat) /\ Shifted(ring, Pushed(p), p)
<1>1. ring # <<>> /\ RingMax \in Nat \ {0} /\ ~ (Len(ring) < RingMax)
  BY CadenceAssumption
<1>2. /\ Tail(ring) \in Seq(Nat) /\ Len(Tail(ring)) = Len(ring) - 1
      /\ \A i \in 1..(Len(ring) - 1) : Tail(ring)[i] = ring[i + 1]
  BY <1>1
<1>3. Pushed(p) = Append(Tail(ring), p)
  BY <1>1 DEF Pushed
<1>4. /\ Append(Tail(ring), p) \in Seq(Nat)
      /\ Len(Append(Tail(ring), p)) = Len(ring)
      /\ \A i \in 1..(Len(ring) - 1) : Append(Tail(ring), p)[i] = Tail(ring)[i]
      /\ Append(Tail(ring), p)[Len(ring)] = p
  BY <1>2, AppendProperties
<1> QED BY <1>2, <1>3, <1>4 DEF Shifted

LEMMA GapsGrow ==
  /\ Gaps(0) = 0 /\ Gaps(1) = MinGap
  /\ \A n \in Nat : Gaps(n) \in Nat /\ Gaps(n + 1) = Gaps(n) + MinGap
<1>1. MinGap \in Nat
  BY CadenceAssumption
<1>2. \A n \in Nat : (n + 1) * MinGap = n * MinGap + MinGap /\ n * MinGap \in Nat
  BY <1>1
<1> QED BY <1>1, <1>2 DEF Gaps

\* A stamp above the cap is any number of places' gaps above the ones before it.
LEMMA NextIsSpread ==
  ASSUME NEW s \in Seq(Nat), NEW last \in Nat, Spread(s, last),
         NEW p \in Nat, p - last >= MinGap
  PROVE  \A i \in 1..Len(s) : p - s[i] >= Gaps(Len(s) + 1 - i)
<1> SUFFICES ASSUME NEW i \in 1..Len(s) PROVE p - s[i] >= Gaps(Len(s) + 1 - i)
  OBVIOUS
<1>1. MinGap \in Nat /\ Len(s) \in Nat /\ s[i] \in Nat
  BY CadenceAssumption
<1>2. s[Len(s)] = last /\ s[Len(s)] - s[i] >= Gaps(Len(s) - i)
  BY <1>1 DEF Spread
<1>3. Len(s) - i \in Nat
  BY <1>1
<1>4. Gaps(Len(s) - i + 1) = Gaps(Len(s) - i) + MinGap /\ Gaps(Len(s) - i) \in Nat
  BY <1>3, GapsGrow
<1>5. Len(s) - i + 1 = Len(s) + 1 - i
  BY <1>1
<1> QED BY <1>1, <1>2, <1>4, <1>5

\* The ring stays spread when it grows,
LEMMA GrownIsSpread ==
  ASSUME NEW s \in Seq(Nat), NEW t \in Seq(Nat), NEW last \in Nat, Spread(s, last),
         NEW p \in Nat, p - last >= MinGap,
         Grown(s, t, p)
  PROVE  Spread(t, p)
<1>1. Len(s) \in Nat /\ Len(t) = Len(s) + 1 /\ t[Len(s) + 1] = p
      /\ \A i \in 1..Len(s) : t[i] = s[i]
  BY DEF Grown
<1>2. ASSUME NEW i \in 1..Len(t), NEW j \in 1..Len(t), i <= j
      PROVE  t[j] - t[i] >= Gaps(j - i)
  <2>1. CASE j <= Len(s)
    <3>1. i \in 1..Len(s) /\ j \in 1..Len(s)
      BY <1>1, <1>2, <2>1
    <3>2. s[j] - s[i] >= Gaps(j - i)
      BY <1>2, <3>1 DEF Spread
    <3>3. t[i] = s[i] /\ t[j] = s[j]
      BY <1>1, <3>1
    <3> QED BY <3>2, <3>3
  <2>2. CASE j = Len(s) + 1 /\ i <= Len(s)
    <3>1. p - s[i] >= Gaps(Len(s) + 1 - i)
      BY <1>1, <2>2, NextIsSpread
    <3> QED BY <1>1, <2>2, <3>1
  <2>3. CASE i = j
    <3>1. t[j] - t[i] = 0
      BY <1>1, <2>3
    <3>2. j - i = 0 /\ Gaps(0) = 0
      BY <1>1, <2>3, GapsGrow
    <3> QED BY <3>1, <3>2
  <2>4. j <= Len(s) \/ (j = Len(s) + 1 /\ i <= Len(s)) \/ i = j
    <3>1. Len(s) \in Int /\ i \in Int /\ j \in Int /\ j <= Len(s) + 1 /\ i <= j
      BY <1>1, <1>2
    <3> QED BY <3>1
  <2> QED BY <2>1, <2>2, <2>3, <2>4
<1> QED BY <1>1, <1>2 DEF Spread

\* and when it shifts.
LEMMA ShiftedIsSpread ==
  ASSUME NEW s \in Seq(Nat), NEW t \in Seq(Nat), NEW last \in Nat, Spread(s, last),
         NEW p \in Nat, p - last >= MinGap, Len(s) > 0, Shifted(s, t, p)
  PROVE  Spread(t, p)
<1>1. Len(s) \in Nat /\ Len(t) = Len(s) /\ t[Len(s)] = p
      /\ \A i \in 1..(Len(s) - 1) : t[i] = s[i + 1]
  BY DEF Shifted
<1>2. ASSUME NEW i \in 1..Len(t), NEW j \in 1..Len(t), i <= j
      PROVE  t[j] - t[i] >= Gaps(j - i)
  <2>1. CASE j < Len(s)
    <3>1. i + 1 \in 1..Len(s) /\ j + 1 \in 1..Len(s) /\ i + 1 <= j + 1
      BY <1>1, <1>2, <2>1
    <3>2. s[j + 1] - s[i + 1] >= Gaps((j + 1) - (i + 1))
      BY <3>1 DEF Spread
    <3>3. (j + 1) - (i + 1) = j - i /\ t[i] = s[i + 1] /\ t[j] = s[j + 1]
      BY <1>1, <1>2, <2>1
    <3> QED BY <3>2, <3>3
  <2>2. CASE j = Len(s) /\ i < j
    <3>1. i + 1 \in 1..Len(s)
      BY <1>1, <2>2
    <3>2. p - s[i + 1] >= Gaps(Len(s) + 1 - (i + 1))
      BY <3>1, NextIsSpread
    <3>3. Len(s) + 1 - (i + 1) = j - i /\ t[i] = s[i + 1] /\ t[j] = p
      BY <1>1, <1>2, <2>2
    <3> QED BY <3>2, <3>3
  <2>3. CASE i = j
    <3>1. t[j] - t[i] = 0
      BY <1>1, <2>3
    <3>2. j - i = 0 /\ Gaps(0) = 0
      BY <1>1, <2>3, GapsGrow
    <3> QED BY <3>1, <3>2
  <2> QED BY <1>1, <1>2, <2>1, <2>2, <2>3
<1> QED BY <1>1, <1>2 DEF Spread

LEMMA GrownHolds ==
  ASSUME NEW s \in Seq(Nat), NEW t \in Seq(Nat), NEW p \in Nat, NEW K \in SUBSET Nat,
         Grown(s, t, p), Len(s) < RingMax, RingMax \in Nat, Holds(s, K)
  PROVE  Holds(t, K \cup {p})
<1>1. Len(s) \in Nat /\ Len(t) = Len(s) + 1 /\ t[Len(s) + 1] = p
      /\ \A i \in 1..Len(s) : t[i] = s[i]
  BY DEF Grown
<1>2. ASSUME NEW q \in K \cup {p} PROVE \E i \in 1..Len(t) : t[i] = q
  <2>1. CASE q = p
    BY <1>1, <2>1
  <2>2. CASE q \in K
    <3>1. PICK i \in 1..Len(s) : s[i] = q
      BY <1>1, <2>2 DEF Holds
    <3>2. i \in 1..Len(t) /\ t[i] = q
      BY <1>1, <3>1
    <3> QED BY <3>2
  <2> QED BY <2>1, <2>2
<1> QED BY <1>2 DEF Holds

LEMMA ShiftedHolds ==
  ASSUME NEW s \in Seq(Nat), NEW t \in Seq(Nat), NEW p \in Nat, NEW K \in SUBSET Nat,
         NEW last \in Nat, Spread(s, last), p - last >= MinGap, MinGap \in Nat,
         Shifted(s, t, p), Len(s) > 0, Len(s) = RingMax, Holds(s, K)
  PROVE  Holds(t, K \cup {p})
<1>1. Len(s) \in Nat /\ Len(t) = Len(s) /\ t[Len(s)] = p
      /\ \A i \in 1..(Len(s) - 1) : t[i] = s[i + 1]
  BY DEF Shifted
<1>2. s[1] + MinGap <= t[1] /\ s[1] \in Nat /\ t[1] \in Nat
  <2>1. s[1] \in Nat /\ t[1] \in Nat
    BY <1>1
  <2>2. CASE Len(s) = 1
    <3>1. s[1] = last /\ t[1] = p
      BY <1>1, <2>2 DEF Spread
    <3> QED BY <2>1, <3>1
  <2>3. CASE Len(s) > 1
    <3>1. 1 \in 1..(Len(s) - 1) /\ 1 \in 1..Len(s) /\ 2 \in 1..Len(s)
      BY <1>1, <2>3
    <3>2. t[1] = s[1 + 1]
      BY <1>1, <3>1
    <3>3. s[2] - s[1] >= Gaps(2 - 1)
      BY <3>1 DEF Spread
    <3>4. 2 - 1 = 1 /\ s[2] \in Nat
      BY <3>1
    <3>5. Gaps(1) = MinGap
      BY GapsGrow
    <3> QED BY <2>1, <3>2, <3>3, <3>4, <3>5
  <2> QED BY <1>1, <2>1, <2>2, <2>3
<1>3. ASSUME NEW q \in K \cup {p}
      PROVE  (\E i \in 1..Len(t) : t[i] = q) \/ q + MinGap <= t[1]
  <2>1. CASE q = p
    BY <1>1, <2>1
  <2>2. CASE q + MinGap <= s[1]
    BY <1>2, <2>2
  <2>3. CASE \E i \in 1..Len(s) : s[i] = q
    <3>1. PICK i \in 1..Len(s) : s[i] = q
      BY <2>3
    <3>2. CASE i = 1
      BY <1>2, <3>1, <3>2
    <3>3. CASE i > 1
      <4>1. i - 1 \in 1..(Len(s) - 1) /\ i - 1 + 1 = i /\ i - 1 \in 1..Len(t)
        BY <1>1, <3>3
      <4>2. t[i - 1] = s[i - 1 + 1]
        BY <1>1, <4>1
      <4> QED BY <3>1, <4>1, <4>2
    <3> QED BY <1>1, <3>2, <3>3
  <2> QED BY <2>1, <2>2, <2>3 DEF Holds
<1> QED BY <1>1, <1>3 DEF Holds

LEMMA PushedAmong ==
  ASSUME NEW s \in Seq(Nat), NEW t \in Seq(Nat), NEW p, NEW K,
         \A i \in 1..Len(s) : s[i] \in K, p \in K, Grown(s, t, p) \/ Shifted(s, t, p)
  PROVE  \A i \in 1..Len(t) : t[i] \in K
<1>0. Len(s) \in Nat
  OBVIOUS
<1>1. CASE Grown(s, t, p)
  <2>1. \A i \in 1..Len(t) : i \in 1..Len(s) \/ i = Len(s) + 1
    BY <1>0, <1>1 DEF Grown
  <2> QED BY <1>1, <2>1 DEF Grown
<1>2. CASE Shifted(s, t, p)
  <2>1. \A i \in 1..Len(t) :
          (i \in 1..(Len(s) - 1) /\ i + 1 \in 1..Len(s)) \/ i = Len(s)
    BY <1>0, <1>2 DEF Shifted
  <2> QED BY <1>2, <2>1 DEF Shifted
<1> QED BY <1>1, <1>2

\* A stamp moves at most one place away from the right end.
LEMMA PushedWithin ==
  ASSUME NEW s \in Seq(Nat), NEW t \in Seq(Nat), NEW p, NEW q, NEW n \in Nat,
         Within(s, q, n), Grown(s, t, p) \/ (Shifted(s, t, p) /\ n + 1 < Len(s))
  PROVE  Within(t, q, n + 1)
<1>0. Len(s) \in Nat
  OBVIOUS
<1>1. PICK i \in 1..Len(s) : s[i] = q /\ i + n >= Len(s)
  BY DEF Within
<1>2. CASE Grown(s, t, p)
  <2>1. i \in 1..Len(t) /\ t[i] = q /\ i + (n + 1) >= Len(t)
    BY <1>0, <1>1, <1>2 DEF Grown
  <2> QED BY <2>1 DEF Within
<1>3. CASE Shifted(s, t, p) /\ n + 1 < Len(s)
  <2>1. i - 1 \in 1..(Len(s) - 1) /\ i - 1 + 1 = i /\ i - 1 + (n + 1) >= Len(s)
    BY <1>0, <1>1, <1>3
  <2>2. t[i - 1] = s[i - 1 + 1] /\ Len(t) = Len(s)
    BY <1>3, <2>1 DEF Shifted
  <2>3. i - 1 \in 1..Len(t) /\ t[i - 1] = q /\ i - 1 + (n + 1) >= Len(t)
    BY <1>0, <1>1, <2>1, <2>2
  <2> QED BY <2>3 DEF Within
<1> QED BY <1>2, <1>3

\* More places than a window has gaps take longer than the window.
LEMMA GapsOutlastWindow ==
  ASSUME NEW n \in Nat, n >= Window \div MinGap + 1
  PROVE  Gaps(n) > Window
<1> DEFINE d == Window \div MinGap
<1>1. MinGap \in Nat \ {0} /\ Window \in Nat /\ d \in Nat
  BY CadenceAssumption
<1>2. Window = MinGap * d + (Window % MinGap) /\ Window % MinGap \in 0..(MinGap - 1)
  BY <1>1
<1>3. Window < MinGap * d + MinGap
  <2>1. MinGap * d \in Int
    BY <1>1
  <2> QED BY <1>1, <1>2, <2>1
<1>4. n * MinGap >= (d + 1) * MinGap
  BY <1>1
<1>5. (d + 1) * MinGap = MinGap * d + MinGap
  BY <1>1
<1> QED BY <1>1, <1>3, <1>4, <1>5 DEF Gaps

-------------------------------------------------------------------------------
\* Facts every step uses: the values as naturals.
LEMMA Facts ==
  ASSUME CadenceInv
  PROVE  /\ MinGap \in Nat /\ MinGap > 0 /\ RingMax \in Nat /\ RingMax > 0 /\ Late \in Nat
         /\ Late + 1 <= RingMax /\ Window \in Nat
         /\ ring \in Seq(Nat) /\ Len(ring) \in Nat /\ Len(ring) <= RingMax
         /\ lastKept \in Nat /\ kept \in SUBSET Nat /\ late \in Nat /\ late <= Late
         /\ windows \in Seq(WindowRecords) /\ gathered \in Seq(SUBSET Nat)
<1>1. Window \div MinGap \in Nat
  BY CadenceAssumption
<1> QED BY <1>1, CadenceAssumption DEF CadenceInv, CadenceTypes

\* A kept frame leaves the ring's invariants as they were.
LEMMA KeptFrame ==
  ASSUME CadenceInv, NEW p \in Nat, ~ Capped(p),
         lastKept' = p, ring' = Pushed(p), kept' = kept \cup {p},
         Len(gathered) < Len(windows) => late < Late /\ late' = late + 1,
         UNCHANGED <<windows, gathered>>
  PROVE  /\ RingSpread' /\ Holds(ring', kept') /\ PendingInRing'
         /\ ring' \in Seq(Nat) /\ Len(ring') <= RingMax
<1>1. p - lastKept >= MinGap /\ p > lastKept
  BY Facts DEF Capped
<1>2. \A q \in kept' : q <= p
  BY Facts, <1>1 DEF CadenceInv, RingSpread
<1>3. Spread(ring, lastKept) /\ Holds(ring, kept)
  BY DEF CadenceInv, RingSpread
<1>4. ring' \in Seq(Nat) /\ Len(ring') \in Nat /\ Len(ring') <= RingMax /\ Len(ring') > 0
      /\ Spread(ring', p) /\ Holds(ring', kept')
      /\ \A i \in 1..Len(ring') : ring'[i] \in kept'
  <2>0. p \in kept' /\ \A i \in 1..Len(ring) : ring[i] \in kept'
    BY DEF CadenceInv, RingSpread
  <2>1. CASE Len(ring) < RingMax
    <3>1. ring' \in Seq(Nat) /\ Grown(ring, ring', p)
      BY Facts, <2>1, PushGrows
    <3>2. Spread(ring', p)
      BY Facts, <1>1, <1>3, <3>1, GrownIsSpread
    <3>3. Holds(ring', kept')
      BY Facts, <1>3, <2>1, <3>1, GrownHolds
    <3>4. \A i \in 1..Len(ring') : ring'[i] \in kept'
      BY Facts, <2>0, <3>1, PushedAmong
    <3> QED BY Facts, <2>1, <3>1, <3>2, <3>3, <3>4 DEF Grown
  <2>2. CASE Len(ring) = RingMax
    <3>1. ring' \in Seq(Nat) /\ Shifted(ring, ring', p) /\ Len(ring) > 0
      BY Facts, <2>2, PushShifts
    <3>2. Spread(ring', p)
      BY Facts, <1>1, <1>3, <3>1, ShiftedIsSpread
    <3>3. Holds(ring', kept')
      BY Facts, <1>1, <1>3, <2>2, <3>1, ShiftedHolds
    <3>4. \A i \in 1..Len(ring') : ring'[i] \in kept'
      BY Facts, <2>0, <3>1, PushedAmong
    <3> QED BY Facts, <2>2, <3>1, <3>2, <3>3, <3>4 DEF Shifted
  <2> QED BY Facts, <2>1, <2>2
<1>5. RingSpread'
  BY <1>2, <1>4 DEF RingSpread
<1>6. PendingInRing'
  <2> SUFFICES ASSUME Len(gathered) < Len(windows)
               PROVE  \/ \A q \in kept' : q > windows[Len(windows)].to
                      \/ Within(ring', windows[Len(windows)].to, late')
    BY DEF PendingInRing
  <2> DEFINE to == windows[Len(windows)].to
  <2>1. late < Late /\ late' = late + 1
    OBVIOUS
  <2>2. to \in Nat /\ to <= lastKept
    <3>1. Len(windows) \in DOMAIN windows /\ windows[Len(windows)] \in WindowRecords
      BY Facts
    <3> QED BY <3>1 DEF CadenceInv, DispatchFollows, WindowRecords
  <2>3. CASE \A q \in kept : q > to
    BY Facts, <1>1, <2>2, <2>3
  <2>4. CASE Within(ring, to, late)
    <3>1. CASE Len(ring) < RingMax
      BY Facts, <2>1, <2>4, <3>1, <1>4, PushGrows, PushedWithin
    <3>2. CASE Len(ring) = RingMax
      <4>1. late + 1 < Len(ring)
        BY Facts, <2>1, <3>2
      <4> QED BY Facts, <2>1, <2>4, <3>2, <4>1, <1>4, PushShifts, PushedWithin
    <3> QED BY Facts, <3>1, <3>2
  <2> QED BY <2>3, <2>4 DEF CadenceInv, PendingInRing
<1> QED BY <1>4, <1>5, <1>6

\* The ring holds all that was kept in the span of the window that is due.
LEMMA PendingIsHeld ==
  ASSUME CadenceInv, Len(gathered) < Len(windows),
         NEW w, w = windows[Len(windows)]
  PROVE  RecentSet(w.from, w.to) = {p \in kept : w.from <= p /\ p <= w.to}
<1>1. w \in WindowRecords /\ w.to \in Nat /\ w.from = w.to - Window
  <2>1. Len(windows) \in DOMAIN windows /\ windows[Len(windows)] \in WindowRecords
    BY Facts
  <2> QED BY <2>1 DEF CadenceInv, DispatchFollows, WindowRecords
<1>2. \A i \in 1..Len(ring) : ring[i] \in kept /\ ring[i] \in Nat
  BY Facts DEF CadenceInv, RingSpread
<1>3. ASSUME NEW p \in kept, w.from <= p, p <= w.to
      PROVE  \E i \in 1..Len(ring) : ring[i] = p
  <2> SUFFICES ASSUME Len(ring) = RingMax, p + MinGap <= ring[1] PROVE FALSE
    BY DEF CadenceInv, Holds
  <2>1. Within(ring, w.to, late)
    BY <1>3, Facts, <1>1 DEF CadenceInv, PendingInRing
  <2>2. PICK i \in 1..Len(ring) : ring[i] = w.to /\ i + late >= Len(ring)
    BY <2>1 DEF Within
  <2>3. i \in Nat /\ i - 1 \in Nat /\ 1 \in 1..Len(ring) /\ p \in Nat
    BY Facts, <2>2
  <2>4. ring[i] - ring[1] >= Gaps(i - 1)
    BY Facts, <2>2, <2>3 DEF CadenceInv, RingSpread, Spread
  <2>5. Gaps(i) = Gaps(i - 1) + MinGap /\ Gaps(i - 1) \in Nat
    <3>1. i - 1 + 1 = i
      BY <2>3
    <3> QED BY <2>3, <3>1, GapsGrow
  <2>6. i >= Window \div MinGap + 1
    <3> DEFINE q == Window \div MinGap
    <3>1. q \in Nat /\ q + 1 + Late <= RingMax
      BY CadenceAssumption
    <3>2. i + late >= RingMax /\ late \in Nat /\ late <= Late
      BY Facts, <2>2
    <3>3. Late \in Nat /\ RingMax \in Nat
      BY Facts
    <3> HIDE DEF q
    <3>4. i >= q + 1
      BY <2>3, <3>1, <3>2, <3>3
    <3> QED BY <3>4 DEF q
  <2>7. Gaps(i) > Window
    BY <2>3, <2>6, GapsOutlastWindow
  <2>8. ring[1] \in Nat
    BY <1>2, <2>3
  <2>9. MinGap \in Nat /\ Window \in Nat
    BY Facts
  <2>10. w.to - ring[1] >= Gaps(i - 1) /\ p + MinGap <= ring[1] /\ w.to - Window <= p
    BY <1>1, <1>3, <2>2, <2>4
  <2> QED BY <1>1, <2>3, <2>5, <2>7, <2>8, <2>9, <2>10
<1>4. DOMAIN ring = 1..Len(ring)
  BY Facts
<1> QED BY <1>2, <1>3, <1>4 DEF RecentSet

-------------------------------------------------------------------------------
Inv == CadenceInv /\ WindowsSpaced /\ WindowWhole

LEMMA InitHolds == CadenceInit => Inv
<1> SUFFICES ASSUME CadenceInit PROVE Inv
  OBVIOUS
<1> USE CadenceAssumption DEF CadenceInit
<1>1. Len(ring) = 0 /\ Len(windows) = 0 /\ Len(gathered) = 0
  OBVIOUS
<1>2. CadenceTypes
  BY DEF CadenceTypes
<1>3. RingSpread /\ Holds(ring, kept) /\ PendingInRing /\ Len(ring) <= RingMax
  BY <1>1 DEF RingSpread, Spread, Holds, PendingInRing
<1>4. DispatchFollows /\ WindowsSpaced /\ WindowWhole
  BY <1>1 DEF DispatchFollows, WindowsSpaced, WindowWhole
<1> QED BY <1>2, <1>3, <1>4 DEF Inv, CadenceInv

\* A frame reaches _consume, whatever its stamp.
LEMMA FrameKeepsInv ==
  ASSUME Inv, NEW p \in Nat, Frame(p)
  PROVE  Inv'
<1> USE DEF Inv
<1>1. UNCHANGED <<nextDispatch, rung, windows, gathered>> /\ clock' = p
  BY DEF Frame
<1>2. late' \in 0..Late
  BY Facts DEF Frame
<1>3. Len(gathered) < Len(windows) => late < Late /\ late' = late + 1
  BY DEF Frame
<1>4. \A k \in DOMAIN windows : windows[k].to \in Nat /\ windows[k].to <= lastKept
  <2>1. \A k \in DOMAIN windows : windows[k] \in WindowRecords
    BY Facts
  <2> QED BY <2>1 DEF CadenceInv, DispatchFollows, WindowRecords
<1>5. WindowsSpaced'
  BY <1>1 DEF WindowsSpaced
<1>6. CASE Capped(p)
  <2>1. UNCHANGED <<lastKept, ring, kept>>
    BY <1>6 DEF Frame
  <2>2. PendingInRing'
    <3>1. ASSUME NEW q \in Nat, Len(gathered) < Len(windows), Within(ring, q, late)
          PROVE  Within(ring, q, late')
      <4>1. PICK i \in 1..Len(ring) : ring[i] = q /\ i + late >= Len(ring)
        BY <3>1 DEF Within
      <4>2. i + late' >= Len(ring)
        BY Facts, <1>3, <3>1, <4>1
      <4> QED BY <4>1, <4>2 DEF Within
    <3>2. Len(gathered) < Len(windows) => windows[Len(windows)].to \in Nat
      BY Facts, <1>4
    <3> QED BY <1>1, <2>1, <3>1, <3>2 DEF CadenceInv, PendingInRing
  <2>3. CadenceTypes'
    BY <1>1, <1>2, <2>1 DEF CadenceInv, CadenceTypes
  <2>4. RingSpread' /\ Holds(ring', kept') /\ DispatchFollows' /\ Len(ring') <= RingMax
    BY <1>1, <2>1 DEF CadenceInv, RingSpread, Holds, DispatchFollows
  <2>5. WindowWhole'
    BY <1>1, <2>1 DEF WindowWhole
  <2> QED BY <1>5, <2>2, <2>3, <2>4, <2>5 DEF CadenceInv
<1>7. CASE ~ Capped(p)
  <2>1. lastKept' = p /\ ring' = Pushed(p) /\ kept' = kept \cup {p} /\ p > lastKept
    BY Facts, <1>7 DEF Frame, Capped
  <2>2. /\ RingSpread' /\ Holds(ring', kept') /\ PendingInRing'
        /\ ring' \in Seq(Nat) /\ Len(ring') <= RingMax
    BY <1>1, <1>3, <1>7, <2>1, KeptFrame
  <2>3. CadenceTypes'
    BY <1>1, <1>2, <2>1, <2>2 DEF CadenceInv, CadenceTypes
  <2>4. DispatchFollows'
    <3>1. \A k \in DOMAIN windows : windows[k].to <= p
      BY Facts, <1>4, <2>1
    <3> QED BY <1>1, <2>1, <3>1 DEF CadenceInv, DispatchFollows
  <2>5. WindowWhole'
    <3> SUFFICES ASSUME NEW k \in DOMAIN gathered
                 PROVE  gathered[k] =
                          {q \in kept \cup {p} : windows[k].from <= q /\ q <= windows[k].to}
      BY <1>1, <2>1 DEF WindowWhole
    <3>1. k \in DOMAIN windows
      BY Facts DEF CadenceInv, DispatchFollows
    <3>2. ~ (p <= windows[k].to)
      BY Facts, <1>4, <2>1, <3>1
    <3> QED BY <3>2 DEF WindowWhole
  <2> QED BY <1>5, <2>2, <2>3, <2>4, <2>5 DEF CadenceInv
<1> QED BY <1>6, <1>7

\* A window falls due.
LEMMA WindowDueKeepsInv ==
  ASSUME Inv, WindowDue
  PROVE  Inv'
<1> USE DEF Inv
<1> DEFINE w == [from |-> Newest - Window, to |-> Newest, rung |-> rung]
<1>1. /\ windows' = Append(windows, w) /\ nextDispatch' = Newest + Stride[rung] /\ late' = 0
      /\ Newest >= nextDispatch /\ Len(gathered) = Len(windows)
      /\ UNCHANGED <<clock, lastKept, ring, rung, gathered, kept>>
  BY DEF WindowDue, DueAfter
<1>2. Newest \in Nat /\ Newest <= lastKept
  BY Facts DEF Newest, CadenceInv, RingSpread, Spread
<1>3. rung \in Rungs /\ Stride[rung] \in Nat
  BY CadenceAssumption DEF CadenceInv, CadenceTypes
<1>4. w \in WindowRecords
  BY <1>2, <1>3, Facts DEF WindowRecords
<1>5. /\ windows' \in Seq(WindowRecords) /\ Len(windows') = Len(windows) + 1
      /\ \A k \in 1..Len(windows) : windows'[k] = windows[k]
      /\ windows'[Len(windows) + 1] = w
  BY Facts, <1>1, <1>4, AppendProperties
<1>6. DOMAIN windows = 1..Len(windows) /\ DOMAIN windows' = 1..(Len(windows) + 1)
      /\ Len(windows) \in Nat /\ DOMAIN gathered = 1..Len(windows)
  BY Facts, <1>1, <1>5
<1>7. CadenceTypes'
  <2>1. nextDispatch' \in Int /\ late' \in 0..Late
    BY <1>1, <1>2, <1>3, Facts
  <2> QED BY <1>1, <1>5, <2>1 DEF CadenceInv, CadenceTypes
<1>8. RingSpread' /\ Holds(ring', kept') /\ Len(ring') <= RingMax
  BY <1>1 DEF CadenceInv, RingSpread, Holds
<1>9. DispatchFollows'
  <2>1. ASSUME NEW k \in 1..(Len(windows) + 1)
        PROVE  windows'[k].to <= lastKept /\ windows'[k].from = windows'[k].to - Window
    <3>1. CASE k = Len(windows) + 1
      BY <1>2, <1>5, <3>1
    <3>2. CASE k \in 1..Len(windows)
      BY <1>5, <1>6, <3>2 DEF CadenceInv, DispatchFollows
    <3> QED BY <1>6, <3>1, <3>2
  <2>2. nextDispatch' = windows'[Len(windows')].to + Stride[windows'[Len(windows')].rung]
    BY <1>1, <1>5
  <2> QED BY <1>1, <1>5, <1>6, <2>1, <2>2 DEF DispatchFollows
<1>10. PendingInRing'
  <2>1. windows'[Len(windows')].to = Newest
    BY <1>5
  <2>2. CASE ring = <<>>
    <3>1. kept = {}
      BY <2>2 DEF CadenceInv, RingSpread
    <3> QED BY <1>1, <3>1 DEF PendingInRing
  <2>3. CASE ring # <<>>
    <3>1. Len(ring) \in 1..Len(ring) /\ ring[Len(ring)] = Newest /\ Len(ring) + 0 >= Len(ring)
      BY Facts, <2>3 DEF Newest
    <3>2. Within(ring, Newest, 0)
      BY <3>1 DEF Within
    <3> QED BY <1>1, <2>1, <3>2 DEF PendingInRing, Within
  <2> QED BY <2>2, <2>3
<1>11. WindowsSpaced'
  <2> SUFFICES ASSUME NEW k \in 1..(Len(windows) + 1), k > 1
               PROVE  windows'[k].to - windows'[k - 1].to >= Stride[windows'[k - 1].rung]
    BY <1>6 DEF WindowsSpaced
  <2>1. CASE k = Len(windows) + 1
    <3>1. Len(windows) \in 1..Len(windows) /\ k - 1 = Len(windows)
      BY <1>6, <2>1
    <3>2. windows'[k - 1] = windows[Len(windows)] /\ windows'[k].to = Newest
      BY <1>5, <2>1, <3>1
    <3>3. windows[Len(windows)] \in WindowRecords /\ windows # <<>>
      BY Facts, <3>1
    <3>4. nextDispatch = windows[Len(windows)].to + Stride[windows[Len(windows)].rung]
      BY <3>3 DEF CadenceInv, DispatchFollows
    <3>5. windows[Len(windows)].to \in Nat /\ Stride[windows[Len(windows)].rung] \in Nat
      BY <3>3, CadenceAssumption DEF WindowRecords
    <3>6. Newest - windows[Len(windows)].to >= Stride[windows[Len(windows)].rung]
      BY <1>1, <1>2, <3>4, <3>5
    <3> QED BY <3>2, <3>6
  <2>2. CASE k <= Len(windows)
    <3>1. k \in 1..Len(windows) /\ k - 1 \in 1..Len(windows)
      BY <1>6, <2>2
    <3>2. k > 1 => windows[k].to - windows[k - 1].to >= Stride[windows[k - 1].rung]
      BY <1>6, <3>1 DEF WindowsSpaced
    <3>3. windows'[k] = windows[k] /\ windows'[k - 1] = windows[k - 1]
      BY <1>5, <3>1
    <3> QED BY <3>2, <3>3
  <2> QED BY <1>6, <2>1, <2>2
<1>12. WindowWhole'
  BY <1>1, <1>5, <1>6 DEF WindowWhole
<1> QED BY <1>7, <1>8, <1>9, <1>10, <1>11, <1>12 DEF CadenceInv

\* A due window's task takes its frames.
LEMMA AssembleKeepsInv ==
  ASSUME Inv, Assemble
  PROVE  Inv'
<1> USE DEF Inv
<1> DEFINE w == windows[Len(windows)]
<1>1. /\ Len(gathered) < Len(windows)
      /\ gathered' = Append(gathered, RecentSet(w.from, w.to))
      /\ UNCHANGED <<clock, lastKept, ring, nextDispatch, rung, windows, kept, late>>
  BY DEF Assemble
<1>2. RecentSet(w.from, w.to) = {p \in kept : w.from <= p /\ p <= w.to}
  BY <1>1, PendingIsHeld
<1>3. RecentSet(w.from, w.to) \in SUBSET Nat
  BY <1>2, Facts
<1>4. Len(gathered) \in Nat /\ Len(windows) = Len(gathered) + 1
  BY Facts, <1>1 DEF CadenceInv, DispatchFollows
<1>5. /\ gathered' \in Seq(SUBSET Nat) /\ Len(gathered') = Len(gathered) + 1
      /\ \A k \in 1..Len(gathered) : gathered'[k] = gathered[k]
      /\ gathered'[Len(gathered) + 1] = RecentSet(w.from, w.to)
  BY Facts, <1>1, <1>3, AppendProperties
<1>6. CadenceTypes'
  BY <1>1, <1>5 DEF CadenceInv, CadenceTypes
<1>7. /\ RingSpread' /\ Holds(ring', kept') /\ Len(ring') <= RingMax
      /\ DispatchFollows' /\ PendingInRing'
  BY <1>1, <1>4, <1>5 DEF CadenceInv, RingSpread, Holds, DispatchFollows, PendingInRing
<1>8. WindowsSpaced'
  BY <1>1 DEF WindowsSpaced
<1>9. WindowWhole'
  <2>1. DOMAIN gathered = 1..Len(gathered) /\ DOMAIN gathered' = 1..(Len(gathered) + 1)
    BY Facts, <1>5
  <2>2. ASSUME NEW k \in 1..(Len(gathered) + 1)
        PROVE  gathered'[k] = {p \in kept : windows[k].from <= p /\ p <= windows[k].to}
    <3>1. CASE k = Len(gathered) + 1
      BY <1>2, <1>4, <1>5, <3>1
    <3>2. CASE k \in 1..Len(gathered)
      BY <1>5, <2>1, <3>2 DEF WindowWhole
    <3> QED BY <1>4, <3>1, <3>2
  <2> QED BY <1>1, <2>1, <2>2 DEF WindowWhole
<1> QED BY <1>6, <1>7, <1>8, <1>9 DEF CadenceInv

LEMMA StepKeepsInv == Inv /\ [CadenceNext]_cadenceVars => Inv'
<1> SUFFICES ASSUME Inv, [CadenceNext]_cadenceVars PROVE Inv'
  OBVIOUS
<1>0. clock \in Nat
  BY DEF Inv, CadenceInv, CadenceTypes
<1>1. CASE FrameArrives
  <2>1. PICK p \in (clock + 1)..(clock + MaxStep) : Frame(p)
    BY <1>1 DEF FrameArrives
  <2>2. p \in Nat
    BY <1>0, CadenceAssumption
  <2> QED BY <2>1, <2>2, FrameKeepsInv
<1>2. CASE ClockStepsBack
  <2>1. PICK p \in 1..(clock - 1) : Frame(p)
    BY <1>2 DEF ClockStepsBack
  <2>2. p \in Nat
    BY <1>0
  <2> QED BY <2>1, <2>2, FrameKeepsInv
<1>3. CASE WindowDue
  BY <1>3, WindowDueKeepsInv
<1>4. CASE RungChanges
  <2>1. rung' \in Rungs
        /\ UNCHANGED <<clock, lastKept, ring, nextDispatch, windows, gathered, kept, late>>
    BY <1>4 DEF RungChanges
  <2> QED BY <2>1 DEF Inv, CadenceInv, CadenceTypes, RingSpread, Holds, DispatchFollows,
                      PendingInRing, WindowsSpaced, WindowWhole
<1>5. CASE Assemble
  BY <1>5, AssembleKeepsInv
<1>6. CASE UNCHANGED cadenceVars
  BY <1>6 DEF cadenceVars, Inv, CadenceInv, CadenceTypes, RingSpread, Holds,
              DispatchFollows, PendingInRing, WindowsSpaced, WindowWhole
<1> QED BY <1>1, <1>2, <1>3, <1>4, <1>5, <1>6 DEF CadenceNext

-------------------------------------------------------------------------------
(***************************************************************************)
(* The theorems                                                            *)
(***************************************************************************)

\* The invariant that the theorems follow from.
THEOREM CadenceInvariant == CadenceSpec => []Inv
<1> QED BY InitHolds, StepKeepsInv, PTL DEF CadenceSpec

LEMMA SpreadIsIncreasing ==
  ASSUME Inv, NEW i \in DOMAIN ring, NEW j \in DOMAIN ring, i < j
  PROVE  ring[j] - ring[i] >= MinGap
<1>0. CadenceInv
  BY DEF Inv
<1>6. ring \in Seq(Nat) /\ MinGap \in Nat /\ i \in 1..Len(ring) /\ j \in 1..Len(ring)
  BY <1>0, Facts
<1>1. i \in Nat /\ j \in Nat /\ j - i - 1 \in Nat /\ j - i \in Nat /\ i <= j
  BY <1>6
<1>2. ring[j] - ring[i] >= Gaps(j - i)
  BY <1>0, <1>1, <1>6 DEF CadenceInv, RingSpread, Spread
<1>3. Gaps(j - i - 1 + 1) = Gaps(j - i - 1) + MinGap /\ Gaps(j - i - 1) \in Nat
  BY <1>1, GapsGrow
<1>4. j - i - 1 + 1 = j - i
  BY <1>1
<1>5. ring[i] \in Nat /\ ring[j] \in Nat
  BY <1>6
<1> QED BY <1>2, <1>3, <1>4, <1>5, <1>6

\* The frames in the ring are in the order of their stamps and at least
\* min_interval apart, whatever the client's clock does (_consume, FrameRing.push).
THEOREM RingStaysIncreasing == CadenceSpec => []RingIncreasing
<1>1. Inv => RingIncreasing
  BY SpreadIsIncreasing DEF RingIncreasing
<1> QED BY CadenceInvariant, <1>1, PTL

\* Two windows are at least the first one's stride apart (_cadencer, next_window).
THEOREM WindowsAreSpaced == CadenceSpec => []WindowsSpaced
<1>1. Inv => WindowsSpaced
  BY DEF Inv
<1> QED BY CadenceInvariant, <1>1, PTL

\* A ring with room for the frames of a window at the rate cap, and for those that
\* come in before the window's task runs, never loses a frame that the window is to
\* be assembled from (FrameRing, _dispatch_window).
THEOREM WindowsAreWhole == CadenceSpec => []WindowWhole
<1>1. Inv => WindowWhole
  BY DEF Inv
<1> QED BY CadenceInvariant, <1>1, PTL

-------------------------------------------------------------------------------
(***************************************************************************)
(* Analysis: the windows' answers and the event memory                     *)
(***************************************************************************)
Ids == (Windows \cup {0}) \X Nat

Event == [id : Ids, from : Nat, to : Nat, windows : SUBSET Windows, count : Nat]

Memory == [mem : Seq(Event), ids : Seq(Ids)]

IdsOf(mem) == {mem[i].id : i \in DOMAIN mem}

\* No two events of a memory have the same id.
Distinct(mem) == \A i, j \in DOMAIN mem : mem[i].id = mem[j].id => i = j

\* b says all that a says.
AtLeast(a, b) ==
  /\ a.windows \subseteq b.windows
  /\ b.from <= a.from /\ a.to <= b.to /\ a.count <= b.count

\* Events keep their place and their id, and say no less.
Grows(old, new) ==
  \A i \in DOMAIN old : i \in DOMAIN new /\ new[i].id = old[i].id /\ AtLeast(old[i], new[i])

-------------------------------------------------------------------------------
(***************************************************************************)
(* merge_events and ingest_new_events                                      *)
(***************************************************************************)
LEMMA MergedSaysMore ==
  ASSUME NEW a \in Event, NEW b \in Event
  PROVE  /\ Merged(a, b) \in Event
         /\ Merged(a, b).id = a.id
         /\ Merged(a, b).windows = a.windows \cup b.windows
         /\ Merged(a, b).count = a.count + 1
         /\ AtLeast(a, Merged(a, b))
<1> DEFINE m == Merged(a, b)
<1>1. /\ a.id \in Ids /\ a.from \in Nat /\ a.to \in Nat /\ a.count \in Nat
      /\ b.from \in Nat /\ b.to \in Nat /\ a.windows \subseteq Windows /\ b.windows \subseteq Windows
  BY DEF Event
<1>2. /\ m.id = a.id
      /\ m.windows = a.windows \cup b.windows /\ m.count = a.count + 1
  BY DEF Merged, Event
<1>3. m.from = Lower(a.from, b.from) /\ m.to = Higher(a.to, b.to)
  BY DEF Merged, Event
<1>4. /\ Lower(a.from, b.from) \in Nat /\ Lower(a.from, b.from) <= a.from
      /\ Higher(a.to, b.to) \in Nat /\ a.to <= Higher(a.to, b.to)
  BY <1>1 DEF Lower, Higher
<1>5. m \in Event
  <2> DEFINE x == Lower(a.from, b.from)
             y == Higher(a.to, b.to)
             z == a.windows \cup b.windows
             n == a.count + 1
  <2>1. x \in Nat /\ y \in Nat /\ z \in SUBSET Windows /\ n \in Nat
    BY <1>1, <1>4
  <2>2. m = [a EXCEPT !.from = x, !.to = y, !.windows = z, !.count = n]
    BY DEF Merged
  <2> HIDE DEF m, x, y, z, n
  <2> QED BY <2>1, <2>2 DEF Event
<1> QED BY <1>1, <1>2, <1>3, <1>4, <1>5 DEF AtLeast

\* b is inserted at the end, or merged into the event named like.
InsertedOrMerged(acc, like, b, new) ==
  \/ new = [mem |-> Append(acc.mem, b), ids |-> Append(acc.ids, b.id)]
  \/ \E i \in DOMAIN acc.mem :
       /\ acc.mem[i].id = like
       /\ new = [mem |-> [acc.mem EXCEPT ![i] = Merged(@, b)], ids |-> Append(acc.ids, like)]

LEMMA StoredIs ==
  ASSUME NEW acc \in Memory, NEW like \in Ids, NEW b \in Event
  PROVE  /\ Stored(acc, like, b) \in Memory
         /\ InsertedOrMerged(acc, like, b, Stored(acc, like, b))
<1>1. acc.mem \in Seq(Event) /\ acc.ids \in Seq(Ids) /\ b.id \in Ids
  BY DEF Memory, Event
<1>2. CASE Matches(acc.mem, like, b) = {}
  <2>1. Stored(acc, like, b) = [mem |-> Append(acc.mem, b), ids |-> Append(acc.ids, b.id)]
    BY <1>2 DEF Stored
  <2> QED BY <1>1, <2>1 DEF Memory, InsertedOrMerged
<1>3. CASE Matches(acc.mem, like, b) # {}
  <2> DEFINE i == CHOOSE x \in Matches(acc.mem, like, b) : TRUE
  <2>1. i \in Matches(acc.mem, like, b)
    BY <1>3
  <2>2. i \in DOMAIN acc.mem /\ acc.mem[i].id = like
    BY <2>1 DEF Matches
  <2>3. Stored(acc, like, b) = [mem |-> [acc.mem EXCEPT ![i] = Merged(@, b)],
                                ids |-> Append(acc.ids, like)]
    BY <1>3 DEF Stored
  <2> HIDE DEF i
  <2>4. acc.mem[i] \in Event /\ Merged(acc.mem[i], b) \in Event
    BY <1>1, <2>2, MergedSaysMore
  <2>5. [acc.mem EXCEPT ![i] = Merged(@, b)] \in Seq(Event)
    BY <1>1, <2>2, <2>4
  <2>6. Append(acc.ids, like) \in Seq(Ids)
    BY <1>1
  <2>7. Stored(acc, like, b) \in Memory
    BY <2>3, <2>5, <2>6 DEF Memory
  <2> QED BY <2>2, <2>3, <2>7 DEF InsertedOrMerged
<1> QED BY <1>2, <1>3

-------------------------------------------------------------------------------
LEMMA CountsAreNumbers ==
  ASSUME NEW mem \in Seq(Event), NEW i \in 1..Len(mem)
  PROVE  mem[i] \in Event /\ mem[i].count \in Nat
<1>1. mem[i] \in Event
  OBVIOUS
<1> QED BY <1>1 DEF Event

\* Corroborations, as the recursive function that defines it.
LEMMA CorroborationsAre ==
  ASSUME NEW mem \in Seq(Event)
  PROVE  \E upto \in [0..Len(mem) -> Nat] :
           /\ Corroborations(mem) = upto[Len(mem)] /\ upto[0] = 0
           /\ \A i \in 1..Len(mem) : upto[i] = upto[i - 1] + mem[i].count
<1> DEFINE step == [i \in 1..Len(mem) |-> [n \in Nat |-> n + mem[i].count]]
<1>1. Len(mem) \in Nat /\ \A i \in 1..Len(mem) : mem[i].count \in Nat
  BY CountsAreNumbers
<1>2. step \in [1..Len(mem) -> [Nat -> Nat]]
  BY <1>1
<1>3. PICK t \in [0..Len(mem) -> Nat] : Recurs(t, 0, step, Len(mem))
  <2>1. 0 \in Nat
    OBVIOUS
  <2> HIDE DEF step
  <2> QED BY <1>1, <1>2, <2>1, RecursionDefines
<1>4. t[0] = 0 /\ \A i \in 1..Len(mem) : t[i] = t[i - 1] + mem[i].count
  <2>1. ASSUME NEW i \in 1..Len(mem)
        PROVE  t[i] = t[i - 1] + mem[i].count
    <3>1. t[i - 1] \in Nat
      BY <1>1
    <3> QED BY <1>3, <3>1 DEF Recurs
  <2> QED BY <1>3, <2>1 DEF Recurs
<1> DEFINE u == CHOOSE x : x = [i \in 0..Len(mem) |-> IF i = 0 THEN 0 ELSE x[i - 1] + mem[i].count]
<1>5. t = [i \in 0..Len(mem) |-> IF i = 0 THEN 0 ELSE t[i - 1] + mem[i].count]
  <2> HIDE DEF step
  <2> QED BY <1>1, <1>4
<1>6. u = [i \in 0..Len(mem) |-> IF i = 0 THEN 0 ELSE u[i - 1] + mem[i].count]
  BY <1>5, Zenon
<1>7. Corroborations(mem) = u[Len(mem)]
  BY Zenon DEF Corroborations
<1> HIDE DEF u, step
<1>8. u[0] = 0 /\ \A i \in 1..Len(mem) : u[i] = u[i - 1] + mem[i].count
  BY <1>1, <1>6
<1>9. \A i \in 0..Len(mem) : u[i] = t[i]
  <2>1. InStep(u, t, Len(mem)) /\ Len(mem) \in Nat
    BY <1>1, <1>4, <1>8 DEF InStep
  <2> QED BY <2>1, InStepAgree, Zenon
<1> QED BY <1>1, <1>4, <1>7, <1>9

LEMMA CorroborationsOfAppend ==
  ASSUME NEW mem \in Seq(Event), NEW b \in Event
  PROVE  Corroborations(Append(mem, b)) = Corroborations(mem) + b.count
<1> DEFINE new == Append(mem, b)
           N == Len(mem)
<1>1. /\ N \in Nat /\ new \in Seq(Event) /\ Len(new) = N + 1 /\ new[N + 1] = b
      /\ \A i \in 1..N : new[i] = mem[i]
  OBVIOUS
<1>2. PICK t \in [0..N -> Nat] :
        /\ Corroborations(mem) = t[N] /\ t[0] = 0
        /\ \A i \in 1..N : t[i] = t[i - 1] + mem[i].count
  BY CorroborationsAre
<1>3. PICK u \in [0..(N + 1) -> Nat] :
        /\ Corroborations(new) = u[N + 1] /\ u[0] = 0
        /\ \A i \in 1..(N + 1) : u[i] = u[i - 1] + new[i].count
  <2> HIDE DEF new, N
  <2>1. PICK u \in [0..Len(new) -> Nat] :
          /\ Corroborations(new) = u[Len(new)] /\ u[0] = 0
          /\ \A i \in 1..Len(new) : u[i] = u[i - 1] + new[i].count
    BY <1>1, CorroborationsAre, Zenon
  <2>2. Len(new) = N + 1
    BY <1>1
  <2> QED BY <2>1, <2>2, Zenon
<1> HIDE DEF new, N
<1>4. ASSUME NEW i \in 1..N, u[i - 1] = t[i - 1]
      PROVE  u[i] = t[i]
  <2>1. u[i] = u[i - 1] + new[i].count
    BY <1>1, <1>3
  <2>2. t[i] = t[i - 1] + mem[i].count
    BY <1>2
  <2>3. new[i] = mem[i]
    BY <1>1
  <2> QED BY <1>4, <2>1, <2>2, <2>3
<1>5. \A i \in 0..N : u[i] = t[i]
  <2>1. InStep(u, t, N)
    BY <1>2, <1>3, <1>4 DEF InStep
  <2>2. N \in Nat
    BY <1>1
  <2> QED BY <2>1, <2>2, InStepAgree, Zenon
<1>6. u[N + 1] = u[N] + b.count
  BY <1>1, <1>3
<1> QED BY <1>1, <1>2, <1>3, <1>5, <1>6 DEF new

LEMMA CorroborationsOfMerge ==
  ASSUME NEW mem \in Seq(Event), NEW j \in DOMAIN mem, NEW e \in Event,
         e.count = mem[j].count + 1
  PROVE  Corroborations([mem EXCEPT ![j] = e]) = Corroborations(mem) + 1
<1> DEFINE new == [mem EXCEPT ![j] = e]
           N == Len(mem)
<1>1. /\ N \in Nat /\ new \in Seq(Event) /\ Len(new) = N /\ j \in 1..N /\ new[j] = e
      /\ \A i \in 1..N : i # j => new[i] = mem[i]
  OBVIOUS
<1>2. PICK t \in [0..N -> Nat] :
        /\ Corroborations(mem) = t[N] /\ t[0] = 0
        /\ \A i \in 1..N : t[i] = t[i - 1] + mem[i].count
  BY CorroborationsAre
<1>3. PICK u \in [0..N -> Nat] :
        /\ Corroborations(new) = u[N] /\ u[0] = 0
        /\ \A i \in 1..N : u[i] = u[i - 1] + new[i].count
  <2> HIDE DEF new, N
  <2>1. PICK u \in [0..Len(new) -> Nat] :
          /\ Corroborations(new) = u[Len(new)] /\ u[0] = 0
          /\ \A i \in 1..Len(new) : u[i] = u[i - 1] + new[i].count
    BY <1>1, CorroborationsAre, Zenon
  <2>2. Len(new) = N
    BY <1>1
  <2> QED BY <2>1, <2>2, Zenon
<1> DEFINE v == [k \in 0..N |-> IF k >= j THEN t[k] + 1 ELSE t[k]]
<1>4. \A i \in 1..N : mem[i].count \in Nat
  BY CountsAreNumbers
<1> HIDE DEF new, N
<1>5. u[0] = v[0]
  BY <1>1, <1>2, <1>3
<1>6. \A i \in 1..N : u[i - 1] = v[i - 1] => u[i] = v[i]
  <2> SUFFICES ASSUME NEW i \in 1..N, u[i - 1] = v[i - 1]
               PROVE  u[i] = v[i]
    OBVIOUS
  <2>1. i - 1 \in 0..N /\ i \in 0..N /\ i \in Int /\ j \in Int
    BY <1>1
  <2>2. t[i] \in Nat /\ t[i - 1] \in Nat /\ mem[i].count \in Nat
    BY <1>4, <2>1
  <2>3. t[i] = t[i - 1] + mem[i].count /\ u[i] = u[i - 1] + new[i].count
    BY <1>2, <1>3
  <2>4. /\ v[i] = IF i >= j THEN t[i] + 1 ELSE t[i]
        /\ v[i - 1] = IF i - 1 >= j THEN t[i - 1] + 1 ELSE t[i - 1]
    BY <2>1
  <2>5. new[i].count = IF i = j THEN mem[i].count + 1 ELSE mem[i].count
    BY <1>1
  <2> HIDE DEF v
  <2> QED BY <2>1, <2>2, <2>3, <2>4, <2>5
<1> HIDE DEF v
<1>7. \A i \in 0..N : u[i] = v[i]
  <2>1. InStep(u, v, N)
    BY <1>5, <1>6 DEF InStep
  <2>2. N \in Nat
    BY <1>1
  <2> QED BY <2>1, <2>2, InStepAgree, Zenon
<1>8. v[N] = t[N] + 1
  BY <1>1 DEF v
<1> QED BY <1>1, <1>2, <1>3, <1>7, <1>8 DEF new

-------------------------------------------------------------------------------
\* StoredAll, as the recursive function that defines it.
LEMMA StoredAllIs ==
  ASSUME pending \in Seq(Event), NEW news \in Seq(Event), NEW like \in [1..Len(news) -> Ids]
  PROVE  \E acc \in [0..Len(news) -> Memory] :
           /\ acc[0] = [mem |-> pending, ids |-> <<>>]
           /\ \A i \in 1..Len(news) : acc[i] = Stored(acc[i - 1], like[i], news[i])
           /\ StoredAll(news, like) = acc[Len(news)]
<1> DEFINE base == [mem |-> pending, ids |-> <<>>]
           N == Len(news)
           step == [i \in 1..N |-> [a \in Memory |-> Stored(a, like[i], news[i])]]
<1>1. N \in Nat /\ base \in Memory
  BY DEF Memory
<1>2. \A i \in 1..N : like[i] \in Ids /\ news[i] \in Event
  OBVIOUS
<1>3. \A a \in Memory, i \in 1..N : Stored(a, like[i], news[i]) \in Memory
  BY <1>2, StoredIs
<1>4. step \in [1..N -> [Memory -> Memory]]
  BY <1>3
<1>5. PICK t \in [0..N -> Memory] : Recurs(t, base, step, N)
  <2> HIDE DEF base, N, step
  <2> QED BY <1>1, <1>4, RecursionDefines
<1>6. t[0] = base /\ \A i \in 1..N : t[i] = Stored(t[i - 1], like[i], news[i])
  <2>1. ASSUME NEW i \in 1..N
        PROVE  t[i] = Stored(t[i - 1], like[i], news[i])
    <3>1. i - 1 \in 0..N
      BY <1>1
    <3>3. t[i - 1] \in Memory
      BY <3>1
    <3>2. t[i] = step[i][t[i - 1]]
      BY <1>5 DEF Recurs
    <3> QED BY <3>2, <3>3
  <2> QED BY <1>5, <2>1 DEF Recurs
<1> DEFINE u == CHOOSE x : x = [i \in 0..N |-> IF i = 0 THEN base
                                               ELSE Stored(x[i - 1], like[i], news[i])]
<1>7. t = [i \in 0..N |-> IF i = 0 THEN base ELSE Stored(t[i - 1], like[i], news[i])]
  <2> HIDE DEF step, base, N
  <2> QED BY <1>1, <1>6
<1>8. u = [i \in 0..N |-> IF i = 0 THEN base ELSE Stored(u[i - 1], like[i], news[i])]
  BY <1>7, Zenon
<1>9. StoredAll(news, like) = u[N]
  BY Zenon DEF StoredAll
<1> HIDE DEF u, step, base
<1>10. u[0] = base /\ \A i \in 1..N : u[i] = Stored(u[i - 1], like[i], news[i])
  BY <1>1, <1>8
<1>11. InStep(u, t, N)
  BY <1>6, <1>10 DEF InStep
<1>12. \A i \in 0..N : u[i] = t[i]
  <2>1. N \in Nat
    BY <1>1
  <2> HIDE DEF N
  <2> QED BY <1>11, <2>1, InStepAgree
<1>13. StoredAll(news, like) = t[N]
  BY <1>1, <1>9, <1>12
<1> QED BY <1>6, <1>13 DEF base

\* After the first i events of news, all found by the windows in W.
Ingested(acc, news, W, i) ==
  /\ acc \in Memory
  /\ Grows(pending, acc.mem)
  /\ Distinct(acc.mem)
  /\ \A j \in DOMAIN acc.mem :
       \/ acc.mem[j].id \in IdsOf(pending)
       \/ \E k \in 1..i : news[k].id = acc.mem[j].id /\ AtLeast(news[k], acc.mem[j])
  /\ ToSet(acc.ids) \subseteq IdsOf(acc.mem)
  /\ \A j \in DOMAIN acc.mem : \A v \in acc.mem[j].windows :
       \/ j \in DOMAIN pending /\ v \in pending[j].windows
       \/ v \in W /\ acc.mem[j].id \in ToSet(acc.ids)
  /\ Corroborations(acc.mem) = Corroborations(pending) + i

\* Events just found: their ids are new and differ from each other.
New(news, W) ==
  /\ news \in Seq(Event)
  /\ \A k \in 1..Len(news) : /\ news[k].id \notin IdsOf(pending)
                             /\ news[k].count = 1 /\ news[k].windows \subseteq W
  /\ \A k, l \in 1..Len(news) : news[k].id = news[l].id => k = l

LEMMA CorroborationsType ==
  ASSUME NEW mem \in Seq(Event)
  PROVE  Corroborations(mem) \in Nat
<1>1. Len(mem) \in Nat
  OBVIOUS
<1> QED BY <1>1, CorroborationsAre

LEMMA AtLeastTransitive ==
  ASSUME NEW x \in Event, NEW y \in Event, NEW z \in Event, AtLeast(x, y), AtLeast(y, z)
  PROVE  AtLeast(x, z)
<1>1. /\ x.from \in Nat /\ x.to \in Nat /\ x.count \in Nat
      /\ y.from \in Nat /\ y.to \in Nat /\ y.count \in Nat
      /\ z.from \in Nat /\ z.to \in Nat /\ z.count \in Nat
  BY DEF Event
<1>2. x.windows \subseteq z.windows
  BY DEF AtLeast
<1>3. z.from <= x.from /\ x.to <= z.to /\ x.count <= z.count
  BY <1>1 DEF AtLeast
<1> QED BY <1>2, <1>3 DEF AtLeast

LEMMA GrowsTransitive ==
  ASSUME NEW a \in Seq(Event), NEW b \in Seq(Event), NEW c \in Seq(Event), Grows(a, b), Grows(b, c)
  PROVE  Grows(a, c)
<1> SUFFICES ASSUME NEW i \in DOMAIN a
             PROVE  i \in DOMAIN c /\ c[i].id = a[i].id /\ AtLeast(a[i], c[i])
  BY DEF Grows
<1>1. i \in DOMAIN b /\ b[i].id = a[i].id /\ AtLeast(a[i], b[i])
  BY DEF Grows
<1>2. i \in DOMAIN c /\ c[i].id = b[i].id /\ AtLeast(b[i], c[i])
  BY <1>1 DEF Grows
<1>3. a[i] \in Event /\ b[i] \in Event /\ c[i] \in Event
  BY <1>1, <1>2
<1> QED BY <1>1, <1>2, <1>3, AtLeastTransitive

LEMMA AtLeastItself ==
  ASSUME NEW e \in Event
  PROVE  AtLeast(e, e)
BY DEF AtLeast, Event

\* An event that is like no other enters at the end.
LEMMA InsertedKeeps ==
  ASSUME pending \in Seq(Event), NEW news, NEW W, New(news, W), NEW i \in 1..Len(news), NEW acc,
         Ingested(acc, news, W, i - 1)
  PROVE  Ingested([mem |-> Append(acc.mem, news[i]), ids |-> Append(acc.ids, news[i].id)],
                  news, W, i)
<1> DEFINE b == news[i]
           mem == Append(acc.mem, b)
           ids == Append(acc.ids, b.id)
           N == Len(acc.mem)
<1>1. /\ acc.mem \in Seq(Event) /\ acc.ids \in Seq(Ids) /\ b \in Event /\ b.id \in Ids
      /\ b.count = 1 /\ b.windows \subseteq W /\ b.id \notin IdsOf(pending) /\ i \in Nat
  <2>1. /\ acc.mem \in Seq(Event) /\ acc.ids \in Seq(Ids)
    BY DEF Ingested, Memory
  <2>2. b \in Event /\ i \in Nat
    BY DEF New
  <2> QED BY <2>1, <2>2 DEF New, Event
<1>2. /\ N \in Nat /\ mem \in Seq(Event) /\ DOMAIN mem = 1..(N + 1) /\ DOMAIN acc.mem = 1..N
      /\ mem[N + 1] = b /\ \A j \in 1..N : mem[j] = acc.mem[j]
  BY <1>1
<1>3. /\ ids \in Seq(Ids) /\ ToSet(ids) = ToSet(acc.ids) \cup {b.id}
  BY <1>1, AppendNew
<1>4. [mem |-> mem, ids |-> ids] \in Memory
  BY <1>2, <1>3 DEF Memory
<1>5. b.id \notin IdsOf(acc.mem)
  <2>1. \A k \in 1..(i - 1) : news[k].id # b.id
    BY DEF New
  <2>2. \A j \in DOMAIN acc.mem : acc.mem[j].id # b.id
    BY <1>1, <2>1 DEF Ingested
  <2> QED BY <2>2 DEF IdsOf
<1>6. IdsOf(mem) = IdsOf(acc.mem) \cup {b.id}
  <2>1. mem[N + 1].id = b.id /\ N + 1 \in DOMAIN mem
    BY <1>2
  <2>2. \A j \in DOMAIN acc.mem : j \in DOMAIN mem /\ mem[j].id = acc.mem[j].id
    BY <1>2
  <2>3. \A j \in DOMAIN mem : j \in DOMAIN acc.mem \/ j = N + 1
    BY <1>2
  <2> HIDE DEF mem, b
  <2>4. IdsOf(acc.mem) \cup {b.id} \subseteq IdsOf(mem)
    BY <2>1, <2>2 DEF IdsOf
  <2>5. IdsOf(mem) \subseteq IdsOf(acc.mem) \cup {b.id}
    BY <2>1, <2>2, <2>3 DEF IdsOf
  <2> QED BY <2>4, <2>5
<1>7. Grows(pending, mem)
  <2>1. Grows(acc.mem, mem)
    <3>1. \A j \in 1..N : acc.mem[j] \in Event
      BY <1>1
    <3> QED BY <1>2, <3>1, AtLeastItself DEF Grows
  <2>2. Grows(pending, acc.mem)
    BY DEF Ingested
  <2> QED BY <1>1, <1>2, <2>1, <2>2, GrowsTransitive
<1>8. Distinct(mem)
  <2>1. \A j, k \in 1..N : mem[j].id = mem[k].id => j = k
    BY <1>2 DEF Distinct, Ingested
  <2>2. \A j \in 1..N : mem[j].id # mem[N + 1].id
    BY <1>2, <1>5 DEF IdsOf
  <2> HIDE DEF mem
  <2>3. ASSUME NEW j \in 1..(N + 1), NEW k \in 1..(N + 1), mem[j].id = mem[k].id
        PROVE  j = k
    <3>1. CASE j \in 1..N /\ k \in 1..N
      BY <2>1, <2>3, <3>1
    <3>2. CASE j = N + 1 \/ k = N + 1
      BY <1>2, <2>2, <2>3, <3>2
    <3>3. N \in Nat
      BY <1>1
    <3> QED BY <3>1, <3>2, <3>3
  <2> QED BY <1>2, <2>3 DEF Distinct
<1>9. ASSUME NEW j \in DOMAIN mem
      PROVE  \/ mem[j].id \in IdsOf(pending)
             \/ \E k \in 1..i : news[k].id = mem[j].id /\ AtLeast(news[k], mem[j])
  <2>1. CASE j = N + 1
    <3>1. i \in 1..i /\ news[i].id = mem[j].id /\ AtLeast(news[i], mem[j])
      BY <1>1, <1>2, <2>1, AtLeastItself
    <3> QED BY <3>1
  <2>2. CASE j # N + 1
    <3>1. j \in DOMAIN acc.mem /\ mem[j] = acc.mem[j]
      BY <1>2, <2>2
    <3>2. \A k \in 1..(i - 1) : k \in 1..i
      BY <1>1
    <3> QED BY <3>1, <3>2 DEF Ingested
  <2> QED BY <2>1, <2>2
<1>10. ToSet(ids) \subseteq IdsOf(mem)
  BY <1>3, <1>6 DEF Ingested
<1>11. ASSUME NEW j \in DOMAIN mem, NEW v \in mem[j].windows
       PROVE  \/ j \in DOMAIN pending /\ v \in pending[j].windows
              \/ v \in W /\ mem[j].id \in ToSet(ids)
  <2>1. CASE j = N + 1
    BY <1>1, <1>2, <1>3, <1>11, <2>1
  <2>2. CASE j # N + 1
    <3>1. j \in DOMAIN acc.mem /\ mem[j] = acc.mem[j]
      BY <1>2, <2>2
    <3> QED BY <1>3, <1>11, <3>1 DEF Ingested
  <2> QED BY <2>1, <2>2
<1>12. Corroborations(mem) = Corroborations(pending) + i
  <2>1. Corroborations(mem) = Corroborations(acc.mem) + 1
    BY <1>1, CorroborationsOfAppend
  <2>2. Corroborations(acc.mem) = Corroborations(pending) + (i - 1)
    BY DEF Ingested
  <2>3. Corroborations(pending) \in Nat
    BY CorroborationsType
  <2> QED BY <1>1, <2>1, <2>2, <2>3
<1> HIDE DEF mem, ids
<1> QED BY <1>4, <1>7, <1>8, <1>9, <1>10, <1>11, <1>12 DEF Ingested, mem, ids

\* An event like another is merged into it and goes by its id.
LEMMA MergedKeeps ==
  ASSUME pending \in Seq(Event), NEW news, NEW W, New(news, W), NEW i \in 1..Len(news), NEW acc,
         Ingested(acc, news, W, i - 1), NEW at \in DOMAIN acc.mem
  PROVE  Ingested([mem |-> [acc.mem EXCEPT ![at] = Merged(@, news[i])],
                   ids |-> Append(acc.ids, acc.mem[at].id)], news, W, i)
<1> DEFINE b == news[i]
           e == Merged(acc.mem[at], b)
           mem == [acc.mem EXCEPT ![at] = e]
           id == acc.mem[at].id
           ids == Append(acc.ids, id)
           N == Len(acc.mem)
<1>1. /\ acc.mem \in Seq(Event) /\ acc.ids \in Seq(Ids) /\ b \in Event
      /\ b.count = 1 /\ b.windows \subseteq W /\ i \in Nat
  BY DEF Ingested, Memory, New
<1>2. acc.mem[at] \in Event /\ id \in Ids
  <2>1. acc.mem[at] \in Event
    BY <1>1
  <2> QED BY <2>1 DEF Event
<1>3. /\ e \in Event /\ e.id = id /\ e.windows = acc.mem[at].windows \cup b.windows
      /\ e.count = acc.mem[at].count + 1 /\ AtLeast(acc.mem[at], e)
  BY <1>1, <1>2, MergedSaysMore
<1> HIDE DEF e
<1>4. /\ N \in Nat /\ mem \in Seq(Event) /\ DOMAIN mem = 1..N /\ DOMAIN acc.mem = 1..N
      /\ mem[at] = e /\ \A j \in 1..N : j # at => mem[j] = acc.mem[j]
  BY <1>1, <1>3
<1>5. /\ ids \in Seq(Ids) /\ ToSet(ids) = ToSet(acc.ids) \cup {id}
  BY <1>1, <1>2, AppendNew
<1>6. [mem |-> mem, ids |-> ids] \in Memory
  BY <1>4, <1>5 DEF Memory
<1>7. \A j \in 1..N : mem[j].id = acc.mem[j].id
  BY <1>3, <1>4
<1>8. IdsOf(mem) = IdsOf(acc.mem) /\ id \in IdsOf(mem)
  <2> HIDE DEF mem
  <2> QED BY <1>4, <1>7 DEF IdsOf
<1>9. Grows(pending, mem)
  <2>1. Grows(acc.mem, mem)
    <3>1. \A j \in 1..N : acc.mem[j] \in Event
      BY <1>1
    <3>2. ASSUME NEW j \in 1..N
          PROVE  AtLeast(acc.mem[j], mem[j])
      BY <1>3, <1>4, <3>1, AtLeastItself
    <3> QED BY <1>4, <1>7, <3>2 DEF Grows
  <2>2. Grows(pending, acc.mem)
    BY DEF Ingested
  <2> QED BY <1>1, <1>4, <2>1, <2>2, GrowsTransitive
<1>10. Distinct(mem)
  <2>1. Distinct(acc.mem)
    BY DEF Ingested
  <2> HIDE DEF mem
  <2> QED BY <1>4, <1>7, <2>1 DEF Distinct
<1>11. ASSUME NEW j \in DOMAIN mem
       PROVE  \/ mem[j].id \in IdsOf(pending)
              \/ \E k \in 1..i : news[k].id = mem[j].id /\ AtLeast(news[k], mem[j])
  <2>1. j \in DOMAIN acc.mem /\ mem[j].id = acc.mem[j].id
    BY <1>4, <1>7
  <2>2. acc.mem[j] \in Event /\ mem[j] \in Event
    BY <1>1, <1>4, <2>1
  <2>3. AtLeast(acc.mem[j], mem[j])
    BY <1>3, <1>4, <2>1, <2>2, AtLeastItself
  <2>4. CASE mem[j].id \notin IdsOf(pending)
    <3>1. PICK k \in 1..(i - 1) : news[k].id = acc.mem[j].id /\ AtLeast(news[k], acc.mem[j])
      BY <2>1, <2>4 DEF Ingested
    <3>2. k \in 1..i /\ news[k] \in Event
      BY <1>1 DEF New
    <3>3. AtLeast(news[k], mem[j])
      BY <2>2, <2>3, <3>1, <3>2, AtLeastTransitive
    <3> QED BY <2>1, <3>1, <3>2, <3>3
  <2> QED BY <2>4
<1>12. ToSet(ids) \subseteq IdsOf(mem)
  BY <1>5, <1>8 DEF Ingested
<1>13. ASSUME NEW j \in DOMAIN mem, NEW v \in mem[j].windows
       PROVE  \/ j \in DOMAIN pending /\ v \in pending[j].windows
              \/ v \in W /\ mem[j].id \in ToSet(ids)
  <2>1. CASE j = at /\ v \in b.windows
    BY <1>1, <1>3, <1>4, <1>5, <2>1
  <2>2. CASE j # at \/ v \notin b.windows
    <3>1. j \in DOMAIN acc.mem /\ v \in acc.mem[j].windows /\ mem[j].id = acc.mem[j].id
      BY <1>3, <1>4, <1>7, <1>13, <2>2
    <3> QED BY <1>5, <3>1 DEF Ingested
  <2> QED BY <2>1, <2>2
<1>14. Corroborations(mem) = Corroborations(pending) + i
  <2>1. Corroborations(mem) = Corroborations(acc.mem) + 1
    BY <1>1, <1>3, CorroborationsOfMerge
  <2>2. Corroborations(acc.mem) = Corroborations(pending) + (i - 1)
    BY DEF Ingested
  <2>3. Corroborations(pending) \in Nat
    BY CorroborationsType
  <2> QED BY <1>1, <2>1, <2>2, <2>3
<1> HIDE DEF mem, ids
<1>15. Ingested([mem |-> mem, ids |-> ids], news, W, i)
  BY <1>6, <1>9, <1>10, <1>11, <1>12, <1>13, <1>14 DEF Ingested
<1> QED BY <1>15 DEF mem, ids, e

\* ingest_new_events(): what was known is still known, each event found is in the
\* memory once, and whatever it was merged into is to be announced.
LEMMA StoredAllKeeps ==
  ASSUME pending \in Seq(Event), Distinct(pending), NEW news, NEW W, New(news, W),
         NEW like \in [1..Len(news) -> Ids]
  PROVE  Ingested(StoredAll(news, like), news, W, Len(news))
<1> DEFINE N == Len(news)
<1>1. N \in Nat /\ news \in Seq(Event)
  BY DEF New
<1>2. PICK acc \in [0..N -> Memory] :
        /\ acc[0] = [mem |-> pending, ids |-> <<>>]
        /\ \A i \in 1..N : acc[i] = Stored(acc[i - 1], like[i], news[i])
        /\ StoredAll(news, like) = acc[N]
  BY <1>1, StoredAllIs
<1>3. Ingested(acc[0], news, W, 0)
  <2>1. acc[0] \in Memory /\ acc[0].mem = pending /\ acc[0].ids = <<>> /\ ToSet(<<>>) = {}
    BY <1>1, <1>2 DEF ToSet
  <2>2. Grows(pending, pending)
    <3>1. \A j \in DOMAIN pending : pending[j] \in Event
      OBVIOUS
    <3> QED BY <3>1, AtLeastItself DEF Grows
  <2>3. Corroborations(pending) = Corroborations(pending) + 0
    BY CorroborationsType
  <2> QED BY <2>1, <2>2, <2>3 DEF Ingested
<1>4. ASSUME NEW i \in 1..N, Ingested(acc[i - 1], news, W, i - 1)
      PROVE  Ingested(acc[i], news, W, i)
  <2>1. acc[i - 1] \in Memory /\ like[i] \in Ids /\ news[i] \in Event
    BY <1>1, <1>4 DEF Ingested
  <2>2. acc[i] = Stored(acc[i - 1], like[i], news[i])
    BY <1>2
  <2> DEFINE a == acc[i - 1]
             b == news[i]
  <2>3. \/ acc[i] = [mem |-> Append(a.mem, b), ids |-> Append(a.ids, b.id)]
        \/ \E j \in DOMAIN a.mem :
             /\ a.mem[j].id = like[i]
             /\ acc[i] = [mem |-> [a.mem EXCEPT ![j] = Merged(@, b)], ids |-> Append(a.ids, like[i])]
    <3>1. InsertedOrMerged(a, like[i], b, Stored(a, like[i], b))
      BY <2>1, StoredIs
    <3> QED BY <2>2, <3>1 DEF InsertedOrMerged
  <2>4. CASE acc[i] = [mem |-> Append(a.mem, b), ids |-> Append(a.ids, b.id)]
    <3>1. Ingested([mem |-> Append(a.mem, b), ids |-> Append(a.ids, b.id)], news, W, i)
      BY <1>4, InsertedKeeps
    <3> QED BY <2>4, <3>1
  <2>5. ASSUME NEW j \in DOMAIN a.mem, a.mem[j].id = like[i],
               acc[i] = [mem |-> [a.mem EXCEPT ![j] = Merged(@, b)],
                         ids |-> Append(a.ids, like[i])]
        PROVE  Ingested(acc[i], news, W, i)
    <3>1. Ingested([mem |-> [a.mem EXCEPT ![j] = Merged(@, b)],
                    ids |-> Append(a.ids, a.mem[j].id)], news, W, i)
      BY <1>4, MergedKeeps
    <3> QED BY <2>5, <3>1
  <2> HIDE DEF a, b
  <2> QED BY <2>3, <2>4, <2>5
<1> DEFINE S == {n \in Nat : n <= N => Ingested(acc[n], news, W, n)}
<1>5. 0 \in S
  BY <1>3
<1>6. ASSUME NEW n \in Nat, n \in S
      PROVE  n + 1 \in S
  <2> SUFFICES ASSUME n + 1 <= N
               PROVE  Ingested(acc[n + 1], news, W, n + 1)
    OBVIOUS
  <2>1. n + 1 \in 1..N /\ Ingested(acc[(n + 1) - 1], news, W, (n + 1) - 1)
    BY <1>1, <1>6
  <2> QED BY <1>4, <2>1
<1>7. Nat \subseteq S
  <2> HIDE DEF S
  <2> QED BY <1>5, <1>6, InductionOnNat
<1> QED BY <1>1, <1>2, <1>7

-------------------------------------------------------------------------------
(***************************************************************************)
(* The invariant of the memory and of what was said of it                  *)
(***************************************************************************)
Places == {"waiting", "posting", "backoff", "reporting", "announcing", "failed", "done", "cancelled"}

\* Where an analysis may be whose result has entered the memory.
Found == {"announcing", "done", "cancelled"}

AnalysisTypes ==
  /\ call \in [Windows -> [at : Places, turn : 1..2, attempt : 0..MaxRetry]]
  /\ \A w \in Windows : At(w, "backoff") => MayRetry(w)
  /\ told \in [Windows -> Seq(Ids)]
  /\ pending \in Seq(Event) /\ ingested \in Nat
  /\ narratives \in Seq(Windows) /\ stopping \in BOOLEAN
  /\ DOMAIN shown \subseteq Ids /\ \A id \in DOMAIN shown : shown[id] \in Event

\* Only a window whose result was applied has left its mark on the memory.
MarkInv ==
  \A w \in Windows, i \in DOMAIN pending :
    pending[i].id[1] = w \/ w \in pending[i].windows => call[w].at \in Found

\* What is to be announced is known, and only while it is being announced.
ToldInv ==
  \A w \in Windows : /\ ToSet(told[w]) \subseteq IdsOf(pending)
                     /\ ~ At(w, "announcing") => told[w] = <<>>

\* A message about an event said no more than what is known of it now.
ShownInv ==
  \A i \in DOMAIN pending :
    pending[i].id \in DOMAIN shown => AtLeast(shown[pending[i].id], pending[i])

GateIds(n) == {0} \X (1..n)

\* The gate's events are numbered without a gap and are announced at once; an event
\* of a window that was announced is in the memory.
GateInv ==
  /\ \E n \in Nat : {id \in DOMAIN shown : id[1] = 0} = GateIds(n)
  /\ \A id \in IdsOf(pending) : id[1] = 0 => id \in DOMAIN shown
  /\ \A id \in DOMAIN shown : id[1] # 0 => id \in IdsOf(pending)

\* What a window contributed was shown or is about to be.
NewsInv ==
  \A w \in Windows : call[w].at \in {"announcing", "done"} =>
    \A i \in DOMAIN pending : w \in pending[i].windows =>
      \/ pending[i].id \in DOMAIN shown /\ w \in shown[pending[i].id].windows
      \/ pending[i].id \in ToSet(told[w])

AnalysisInv ==
  /\ AnalysisTypes /\ Distinct(pending) /\ MarkInv /\ ToldInv /\ ShownInv /\ GateInv /\ NewsInv
  /\ EventsConserved

LEMMA EmptySequence == ToSet(<<>>) = {}
BY DEF ToSet

LEMMA NothingCorroborated == Corroborations(<<>>) = 0
<1>1. <<>> \in Seq(Event) /\ Len(<<>>) = 0
  OBVIOUS
<1> QED BY <1>1, CorroborationsAre

LEMMA AnalysisInitial == AnalysisInit => AnalysisInv
<1> SUFFICES ASSUME AnalysisInit PROVE AnalysisInv
  OBVIOUS
<1>1. AnalysisTypes
  <2>1. Now("waiting") \in [at : Places, turn : 1..2, attempt : 0..MaxRetry]
        /\ Now("waiting").at = "waiting"
    <3>1. 1 \in 1..2 /\ 0 \in 0..MaxRetry
      BY AnalysisAssumption
    <3> QED BY <3>1 DEF Now, Places
  <2>2. /\ call \in [Windows -> [at : Places, turn : 1..2, attempt : 0..MaxRetry]]
        /\ \A w \in Windows : call[w].at # "backoff"
    BY <2>1 DEF AnalysisInit
  <2>3. /\ told \in [Windows -> Seq(Ids)] /\ pending \in Seq(Event)
        /\ narratives \in Seq(Windows) /\ ingested \in Nat /\ stopping \in BOOLEAN
        /\ DOMAIN shown = {}
    <3>1. <<>> \in Seq(Ids) /\ <<>> \in Seq(Event) /\ <<>> \in Seq(Windows) /\ DOMAIN <<>> = {}
      OBVIOUS
    <3>2. told = [w \in Windows |-> <<>>]
      BY DEF AnalysisInit
    <3>3. told \in [Windows -> Seq(Ids)]
      BY <3>1, <3>2, Zenon
    <3>4. stopping \in BOOLEAN
      BY DEF AnalysisInit
    <3> QED BY <3>1, <3>3, <3>4 DEF AnalysisInit
  <2> QED BY <2>2, <2>3 DEF AnalysisTypes, At
<1>2. DOMAIN pending = {} /\ DOMAIN shown = {} /\ IdsOf(pending) = {}
  BY DEF AnalysisInit, IdsOf
<1>3. Distinct(pending) /\ MarkInv /\ ShownInv /\ NewsInv
  BY <1>2 DEF Distinct, MarkInv, ShownInv, NewsInv
<1>4. ToldInv
  BY EmptySequence DEF AnalysisInit, ToldInv
<1>5. GateInv
  <2>1. {id \in DOMAIN shown : id[1] = 0} = GateIds(0)
    BY <1>2 DEF GateIds
  <2> QED BY <1>2, <2>1 DEF GateInv
<1>6. EventsConserved
  BY NothingCorroborated DEF AnalysisInit, EventsConserved
<1> QED BY <1>1, <1>3, <1>4, <1>5, <1>6 DEF AnalysisInv

-------------------------------------------------------------------------------
(***************************************************************************)
(* Steps that neither touch the memory nor send a message about an event   *)
(***************************************************************************)
Quiet ==
  /\ UNCHANGED <<memoryVars, shown>>
  /\ AnalysisTypes'
  /\ \A w \in Windows :
       /\ call[w].at \in Found => call'[w].at \in Found
       /\ told'[w] = told[w] \/ (told'[w] = <<>> /\ call'[w].at = "cancelled")
       /\ call[w].at = "announcing" /\ call'[w].at # "announcing" => told'[w] = <<>>
       /\ call'[w].at \in {"announcing", "done"} =>
            call[w].at \in {"announcing", "done", "posting"}

LEMMA QuietKeeps ==
  ASSUME AnalysisInv, Quiet
  PROVE  AnalysisInv'
<1>1. pending' = pending /\ shown' = shown /\ ingested' = ingested /\ AnalysisTypes'
  BY DEF Quiet, memoryVars
<1>2. Distinct(pending)' /\ MarkInv' /\ ShownInv' /\ GateInv' /\ EventsConserved'
  <2>1. MarkInv'
    BY <1>1 DEF AnalysisInv, MarkInv, Quiet
  <2>2. Distinct(pending)' /\ ShownInv' /\ EventsConserved'
    BY <1>1 DEF AnalysisInv, Distinct, ShownInv, EventsConserved
  <2>3. GateInv'
    BY <1>1 DEF AnalysisInv, GateInv, IdsOf
  <2> QED BY <2>1, <2>2, <2>3
<1>3. ToldInv'
  <2> SUFFICES ASSUME NEW w \in Windows
               PROVE  /\ ToSet(told'[w]) \subseteq IdsOf(pending)
                      /\ call'[w].at # "announcing" => told'[w] = <<>>
    BY <1>1 DEF ToldInv, At, IdsOf
  <2>1. /\ told'[w] = told[w] \/ (told'[w] = <<>> /\ call'[w].at = "cancelled")
        /\ call[w].at = "announcing" /\ call'[w].at # "announcing" => told'[w] = <<>>
    BY DEF Quiet
  <2>2. ToSet(told[w]) \subseteq IdsOf(pending) /\ (call[w].at # "announcing" => told[w] = <<>>)
    BY DEF AnalysisInv, ToldInv, At
  <2> QED BY <2>1, <2>2, EmptySequence
<1>4. NewsInv'
  <2> SUFFICES ASSUME NEW w \in Windows, call'[w].at \in {"announcing", "done"},
                      NEW i \in DOMAIN pending, w \in pending[i].windows
               PROVE  \/ pending[i].id \in DOMAIN shown /\ w \in shown[pending[i].id].windows
                      \/ pending[i].id \in ToSet(told'[w])
    BY <1>1 DEF NewsInv
  <2>1. told'[w] = told[w] /\ call[w].at \in {"announcing", "done", "posting"}
    BY DEF Quiet
  <2>2. call[w].at # "posting"
    BY DEF AnalysisInv, MarkInv, Found
  <2> QED BY <2>1, <2>2 DEF AnalysisInv, NewsInv
<1> QED BY <1>1, <1>2, <1>3, <1>4 DEF AnalysisInv

\* The task at w goes on to a place where it has nothing to say.
LEMMA MovesTypes ==
  ASSUME AnalysisTypes, NEW w \in Windows, NEW where \in Places \ {"backoff"}, Moves(w, where)
  PROVE  /\ call' \in [Windows -> [at : Places, turn : 1..2, attempt : 0..MaxRetry]]
         /\ \A v \in Windows : call'[v].at = IF v = w THEN where ELSE call[v].at
         /\ \A v \in Windows : call'[v].at = "backoff" => call'[v].attempt < MaxRetry
<1>1. Now(where) \in [at : Places, turn : 1..2, attempt : 0..MaxRetry]
  BY AnalysisAssumption DEF Now
<1>2. call' = [call EXCEPT ![w] = Now(where)]
  BY DEF Moves
<1>3. call \in [Windows -> [at : Places, turn : 1..2, attempt : 0..MaxRetry]]
  BY DEF AnalysisTypes
<1>4. \A v \in Windows : call'[v] = IF v = w THEN Now(where) ELSE call[v]
  BY <1>2, <1>3
<1>5. Now(where).at = where
  BY DEF Now
<1> QED BY <1>1, <1>2, <1>3, <1>4, <1>5 DEF AnalysisTypes, At, MayRetry

LEMMA PostsTypes ==
  ASSUME AnalysisTypes, NEW w \in Windows, NEW turn \in 1..2, NEW attempt \in 0..MaxRetry,
         Posts(w, turn, attempt)
  PROVE  /\ call' \in [Windows -> [at : Places, turn : 1..2, attempt : 0..MaxRetry]]
         /\ \A v \in Windows : call'[v].at = IF v = w THEN "posting" ELSE call[v].at
         /\ \A v \in Windows : call'[v].at = "backoff" => call'[v].attempt < MaxRetry
<1> DEFINE post == [at |-> "posting", turn |-> turn, attempt |-> attempt]
<1>1. post \in [at : Places, turn : 1..2, attempt : 0..MaxRetry] /\ post.at = "posting"
  BY DEF Places
<1>2. call' = [call EXCEPT ![w] = post]
  BY DEF Posts
<1> HIDE DEF post
<1>3. call \in [Windows -> [at : Places, turn : 1..2, attempt : 0..MaxRetry]]
  BY DEF AnalysisTypes
<1>4. \A v \in Windows : call'[v] = IF v = w THEN post ELSE call[v]
  BY <1>2, <1>3
<1> QED BY <1>1, <1>2, <1>3, <1>4 DEF AnalysisTypes, At, MayRetry

\* A window's task that says nothing of an event.
Silent(w) ==
  \/ WindowStarts(w) \/ Backs(w) \/ Retries(w) \/ Fails(w) \/ Repairs(w) \/ Empty(w)
  \/ Finishes(w) \/ Cancelled(w)

LEMMA SilentIsQuiet ==
  ASSUME AnalysisInv, NEW w \in Windows, Silent(w)
  PROVE  Quiet
<1> DEFINE from == call[w].at
           to == call'[w].at
<1>1. AnalysisTypes
  BY DEF AnalysisInv
<1>2. SUFFICES /\ UNCHANGED <<memoryVars, shown, stopping>>
               /\ call' \in [Windows -> [at : Places, turn : 1..2, attempt : 0..MaxRetry]]
               /\ \A v \in Windows : call'[v].at = "backoff" => call'[v].attempt < MaxRetry
               /\ \A v \in Windows : v # w => call'[v].at = call[v].at /\ told'[v] = told[v]
               /\ told' \in [Windows -> Seq(Ids)]
               /\ from \in Found => to \in Found
               /\ told'[w] = told[w] \/ (told'[w] = <<>> /\ to = "cancelled")
               /\ from = "announcing" /\ to # "announcing" => told'[w] = <<>>
               /\ to \in {"announcing", "done"} => from \in {"announcing", "done", "posting"}
  <2>1. AnalysisTypes'
    BY <1>1, <1>2 DEF AnalysisTypes, memoryVars, At, MayRetry
  <2> QED BY <1>2, <2>1 DEF Quiet, memoryVars
<1>3. told \in [Windows -> Seq(Ids)]
  BY <1>1 DEF AnalysisTypes
<1>4. CASE WindowStarts(w)
  <2>1. Posts(w, 1, 0) /\ from = "waiting" /\ UNCHANGED <<told, memoryVars, shown, stopping>>
    BY <1>4 DEF WindowStarts, At
  <2>2. 1 \in 1..2 /\ 2 \in 1..2 /\ 0 \in 0..MaxRetry
    BY AnalysisAssumption
  <2>3. /\ call' \in [Windows -> [at : Places, turn : 1..2, attempt : 0..MaxRetry]]
        /\ \A v \in Windows : call'[v].at = IF v = w THEN "posting" ELSE call[v].at
        /\ \A v \in Windows : call'[v].at = "backoff" => call'[v].attempt < MaxRetry
    BY <1>1, <2>1, <2>2, PostsTypes
  <2> QED BY <1>3, <2>1, <2>3 DEF Found
<1>5. CASE Backs(w)
  <2>1. /\ call' = [call EXCEPT ![w].at = "backoff"] /\ from = "posting"
        /\ call[w].attempt < MaxRetry /\ UNCHANGED <<told, memoryVars, shown, stopping>>
    BY <1>5 DEF Backs, At, MayRetry
  <2>2. call \in [Windows -> [at : Places, turn : 1..2, attempt : 0..MaxRetry]]
    BY <1>1 DEF AnalysisTypes
  <2>3. call' \in [Windows -> [at : Places, turn : 1..2, attempt : 0..MaxRetry]]
    BY <2>1, <2>2 DEF Places
  <2>4. \A v \in Windows : call'[v].at = (IF v = w THEN "backoff" ELSE call[v].at)
                           /\ call'[v].attempt = call[v].attempt
    BY <2>1, <2>2
  <2>5. \A v \in Windows : call'[v].at = "backoff" => call'[v].attempt < MaxRetry
    BY <1>1, <2>1, <2>4 DEF AnalysisTypes, At, MayRetry
  <2> QED BY <1>3, <2>1, <2>3, <2>4, <2>5 DEF Found
<1>6. CASE Retries(w)
  <2>1. /\ Posts(w, call[w].turn, call[w].attempt + 1) /\ from = "backoff"
        /\ UNCHANGED <<told, memoryVars, shown, stopping>>
    BY <1>6 DEF Retries, At
  <2>2. call[w].turn \in 1..2 /\ call[w].attempt + 1 \in 0..MaxRetry
    BY <1>1, <2>1, AnalysisAssumption DEF AnalysisTypes, At, MayRetry
  <2>3. /\ call' \in [Windows -> [at : Places, turn : 1..2, attempt : 0..MaxRetry]]
        /\ \A v \in Windows : call'[v].at = IF v = w THEN "posting" ELSE call[v].at
        /\ \A v \in Windows : call'[v].at = "backoff" => call'[v].attempt < MaxRetry
    BY <1>1, <2>1, <2>2, PostsTypes
  <2> QED BY <1>3, <2>1, <2>3 DEF Found
<1>7. CASE Fails(w)
  <2>1. Moves(w, "reporting") /\ from = "posting" /\ UNCHANGED <<told, memoryVars, shown, stopping>>
    BY <1>7 DEF Fails, At
  <2> QED BY <1>1, <1>3, <2>1, MovesTypes DEF Found, Places
<1>8. CASE Repairs(w)
  <2>1. Posts(w, 2, 0) /\ from = "posting" /\ UNCHANGED <<told, memoryVars, shown, stopping>>
    BY <1>8 DEF Repairs, At
  <2>2. 1 \in 1..2 /\ 2 \in 1..2 /\ 0 \in 0..MaxRetry
    BY AnalysisAssumption
  <2>3. /\ call' \in [Windows -> [at : Places, turn : 1..2, attempt : 0..MaxRetry]]
        /\ \A v \in Windows : call'[v].at = IF v = w THEN "posting" ELSE call[v].at
        /\ \A v \in Windows : call'[v].at = "backoff" => call'[v].attempt < MaxRetry
    BY <1>1, <2>1, <2>2, PostsTypes
  <2> QED BY <1>3, <2>1, <2>3 DEF Found
<1>9. CASE Empty(w)
  <2>1. Moves(w, "done") /\ from = "posting" /\ UNCHANGED <<told, memoryVars, shown, stopping>>
    BY <1>9 DEF Empty, At
  <2> QED BY <1>1, <1>3, <2>1, MovesTypes DEF Found, Places
<1>10. CASE Finishes(w)
  <2>1. /\ Moves(w, IF At(w, "reporting") THEN "failed" ELSE "done")
        /\ from = "reporting" \/ (from = "announcing" /\ told[w] = <<>>)
        /\ UNCHANGED <<told, memoryVars, shown, stopping>>
    BY <1>10 DEF Finishes, At
  <2>2. CASE from = "reporting"
    BY <1>1, <1>3, <2>1, <2>2, MovesTypes DEF Found, Places, At
  <2>3. CASE from = "announcing" /\ told[w] = <<>>
    BY <1>1, <1>3, <2>1, <2>3, MovesTypes DEF Found, Places, At
  <2> QED BY <2>1, <2>2, <2>3
<1>11. CASE Cancelled(w)
  <2>1. /\ Moves(w, "cancelled") /\ told' = [told EXCEPT ![w] = <<>>]
        /\ UNCHANGED <<memoryVars, shown, stopping>>
    BY <1>11 DEF Cancelled
  <2>2. /\ told' \in [Windows -> Seq(Ids)] /\ told'[w] = <<>>
        /\ \A v \in Windows : v # w => told'[v] = told[v]
    BY <1>3, <2>1
  <2> QED BY <1>1, <2>1, <2>2, MovesTypes DEF Found, Places
<1> QED BY <1>4, <1>5, <1>6, <1>7, <1>8, <1>9, <1>10, <1>11 DEF Silent

-------------------------------------------------------------------------------
(***************************************************************************)
(* Steps that find events                                                  *)
(***************************************************************************)
\* What a step that ingests news leaves in the memory, and how it relates to what
\* was there and was shown.
LEMMA MemoryGrows ==
  ASSUME AnalysisInv, NEW news, NEW W, NEW all, New(news, W), Ingested(all, news, W, Len(news)),
         pending' = all.mem, ingested' = ingested + Len(news)
  PROVE  /\ pending' \in Seq(Event) /\ ingested' \in Nat
         /\ Distinct(pending)' /\ EventsConserved'
         /\ IdsOf(pending) \subseteq IdsOf(pending')
         /\ \A j \in DOMAIN pending' : \A i \in DOMAIN pending :
              pending'[j].id = pending[i].id => j = i /\ AtLeast(pending[i], pending'[j])
         /\ \A j \in DOMAIN pending' :
              pending'[j].id \in IdsOf(pending) /\ pending'[j].id \in DOMAIN shown =>
                AtLeast(shown[pending'[j].id], pending'[j])
<1>1. /\ pending \in Seq(Event) /\ ingested \in Nat /\ Len(news) \in Nat
      /\ \A id \in DOMAIN shown : shown[id] \in Event
  BY DEF AnalysisInv, AnalysisTypes, New
<1>2. pending' \in Seq(Event)
  BY DEF Ingested, Memory
<1>3. Distinct(pending')
  BY DEF Ingested
<1>4. EventsConserved' /\ ingested' \in Nat
  <2>1. Corroborations(pending') = Corroborations(pending) + Len(news)
    BY DEF Ingested
  <2>2. Corroborations(pending) = ingested
    BY DEF AnalysisInv, EventsConserved
  <2> QED BY <1>1, <2>1, <2>2 DEF EventsConserved
<1>5. Grows(pending, pending')
  BY DEF Ingested
<1>6. IdsOf(pending) \subseteq IdsOf(pending')
  BY <1>5 DEF Grows, IdsOf
<1>7. ASSUME NEW j \in DOMAIN pending', NEW i \in DOMAIN pending, pending'[j].id = pending[i].id
      PROVE  j = i /\ AtLeast(pending[i], pending'[j])
  <2>1. i \in DOMAIN pending' /\ pending'[i].id = pending[i].id /\ AtLeast(pending[i], pending'[i])
    BY <1>5 DEF Grows
  <2>2. j = i
    BY <1>3, <1>7, <2>1 DEF Distinct
  <2> QED BY <2>1, <2>2
<1>8. ASSUME NEW j \in DOMAIN pending', pending'[j].id \in IdsOf(pending),
             pending'[j].id \in DOMAIN shown
      PROVE  AtLeast(shown[pending'[j].id], pending'[j])
  <2>1. PICK i \in DOMAIN pending : pending[i].id = pending'[j].id
    BY <1>8 DEF IdsOf
  <2>2. AtLeast(shown[pending[i].id], pending[i])
    BY <1>8, <2>1 DEF AnalysisInv, ShownInv
  <2>3. AtLeast(pending[i], pending'[j])
    BY <1>7, <2>1
  <2>4. shown[pending[i].id] \in Event /\ pending[i] \in Event /\ pending'[j] \in Event
    BY <1>1, <1>2, <1>8, <2>1
  <2> QED BY <2>1, <2>2, <2>3, <2>4, AtLeastTransitive
<1> QED BY <1>2, <1>3, <1>4, <1>6, <1>7, <1>8

LEMMA NewsIsNew ==
  ASSUME AnalysisInv, NEW w \in Windows, At(w, "posting"),
         NEW n \in Nat, NEW spans \in [1..n -> Spans]
  PROVE  /\ New(News(w, spans), {w}) /\ Len(News(w, spans)) = n
         /\ \A i \in 1..n : News(w, spans)[i].id = <<w, i>>
<1> DEFINE news == News(w, spans)
           found(i) == [id |-> <<w, i>>, from |-> w + spans[i][1], to |-> w + spans[i][2],
                        windows |-> {w}, count |-> 1]
<1>1. news = [i \in 1..n |-> found(i)]
  BY DEF News
<1>2. ASSUME NEW i \in 1..n
      PROVE  found(i) \in Event
  <2>1. spans[i] \in Nat \X Nat /\ w \in Nat /\ i \in Nat
    BY AnalysisAssumption
  <2>2. w + spans[i][1] \in Nat /\ w + spans[i][2] \in Nat /\ 1 \in Nat
    BY <2>1
  <2>3. <<w, i>> \in Ids
    BY <2>1 DEF Ids
  <2> QED BY <2>2, <2>3 DEF Event
<1>3. news \in Seq(Event) /\ Len(news) = n
  <2> HIDE DEF found
  <2> QED BY <1>1, <1>2
<1>4. \A i \in 1..n : news[i].id = <<w, i>> /\ news[i].windows = {w} /\ news[i].count = 1
  <2> HIDE DEF news
  <2> QED BY <1>1
<1>5. ASSUME NEW i \in 1..n
      PROVE  news[i].id \notin IdsOf(pending)
  <2>1. \A j \in DOMAIN pending : pending[j].id[1] # w
    BY DEF AnalysisInv, MarkInv, At, Found
  <2>2. news[i].id[1] = w
    BY <1>4
  <2> QED BY <2>1, <2>2 DEF IdsOf
<1> HIDE DEF news
<1>6. \A k, l \in 1..n : news[k].id = news[l].id => k = l
  BY <1>4
<1> QED BY <1>3, <1>4, <1>5, <1>6 DEF New, news

\* What the result of the window w leaves.
ResultEnters(w, news, all) ==
  /\ New(news, {w}) /\ Ingested(all, news, {w}, Len(news))
  /\ \A k \in 1..Len(news) : news[k].id[1] = w
  /\ pending' = all.mem /\ ingested' = ingested + Len(news)
  /\ told' = [told EXCEPT ![w] = all.ids]

LEMMA AppliesFinds ==
  ASSUME AnalysisInv, NEW w \in Windows, Applies(w)
  PROVE  \E news, all : ResultEnters(w, news, all)
<1>1. PICK n \in 0..MostEvents : \E spans \in [1..n -> Spans], narrative \in BOOLEAN :
         /\ \E like \in [1..n -> Known \cup {News(w, spans)[i].id : i \in 1..n}] :
              LET all == StoredAll(News(w, spans), like)
              IN  pending' = all.mem /\ told' = [told EXCEPT ![w] = ToAnnounce(w, all.ids)]
         /\ ingested' = ingested + n
  BY DEF Applies
<1>2. PICK spans \in [1..n -> Spans] :
         /\ \E like \in [1..n -> Known \cup {News(w, spans)[i].id : i \in 1..n}] :
              LET all == StoredAll(News(w, spans), like)
              IN  pending' = all.mem /\ told' = [told EXCEPT ![w] = ToAnnounce(w, all.ids)]
         /\ ingested' = ingested + n
  BY <1>1
<1> DEFINE news == News(w, spans)
<1>3. n \in Nat /\ At(w, "posting")
  BY AnalysisAssumption DEF Applies
<1>4. /\ New(news, {w}) /\ Len(news) = n /\ \A i \in 1..n : news[i].id = <<w, i>>
  BY <1>3, NewsIsNew
<1> HIDE DEF news
<1>5. PICK like \in [1..n -> Known \cup {news[i].id : i \in 1..n}] :
         LET all == StoredAll(news, like)
         IN  pending' = all.mem /\ told' = [told EXCEPT ![w] = ToAnnounce(w, all.ids)]
  BY <1>2 DEF news
<1> DEFINE all == StoredAll(news, like)
<1>6. like \in [1..Len(news) -> Ids]
  <2>1. ASSUME NEW i \in DOMAIN pending
        PROVE  pending[i].id \in Ids
    <3>1. pending[i] \in Event
      BY DEF AnalysisInv, AnalysisTypes
    <3> QED BY <3>1 DEF Event
  <2>2. ASSUME NEW i \in 1..n
        PROVE  news[i].id \in Ids
    <3>1. news[i] \in Event
      BY <1>4 DEF New
    <3> QED BY <3>1 DEF Event
  <2>3. Known \cup {news[i].id : i \in 1..n} \subseteq Ids
    BY <2>1, <2>2 DEF Known
  <2> QED BY <1>4, <2>3
<1>7. Ingested(all, news, {w}, n)
  BY <1>4, <1>6, StoredAllKeeps DEF AnalysisInv, AnalysisTypes
<1>8. pending' = all.mem /\ told' = [told EXCEPT ![w] = all.ids] /\ ingested' = ingested + n
  BY <1>2, <1>5 DEF ToAnnounce
<1> HIDE DEF all
<1>9. \A k \in 1..n : news[k].id[1] = w
  BY <1>4
<1>10. ResultEnters(w, news, all)
  BY <1>4, <1>7, <1>8, <1>9 DEF ResultEnters
<1> QED BY <1>10

LEMMA RememberedType ==
  ASSUME AnalysisTypes, NEW w \in Windows
  PROVE  Remembered(w) \in Seq(Windows)
<1>1. narratives \in Seq(Windows)
  BY DEF AnalysisTypes
<1>2. CASE Len(narratives) < Kept
  BY <1>1, <1>2 DEF Remembered
<1>3. CASE ~ Len(narratives) < Kept
  <2>1. narratives # <<>>
    BY <1>1, <1>3, AnalysisAssumption
  <2> QED BY <1>1, <1>3, <2>1 DEF Remembered
<1> QED BY <1>2, <1>3

LEMMA AppliesKeeps ==
  ASSUME AnalysisInv, NEW w \in Windows, Applies(w)
  PROVE  AnalysisInv'
<1>1. PICK news, all : ResultEnters(w, news, all)
  BY AppliesFinds
<1>2. /\ At(w, "posting") /\ Moves(w, "announcing") /\ UNCHANGED <<shown, stopping>>
      /\ narratives' \in {narratives, Remembered(w)}
  BY DEF Applies
<1>3. /\ pending' \in Seq(Event) /\ ingested' \in Nat
      /\ Distinct(pending)' /\ EventsConserved'
      /\ IdsOf(pending) \subseteq IdsOf(pending')
      /\ \A j \in DOMAIN pending' : \A i \in DOMAIN pending :
           pending'[j].id = pending[i].id => j = i /\ AtLeast(pending[i], pending'[j])
      /\ \A j \in DOMAIN pending' :
           pending'[j].id \in IdsOf(pending) /\ pending'[j].id \in DOMAIN shown =>
             AtLeast(shown[pending'[j].id], pending'[j])
  BY <1>1, MemoryGrows DEF ResultEnters
<1>4. /\ AnalysisTypes /\ MarkInv /\ ToldInv /\ ShownInv /\ GateInv /\ NewsInv
  BY DEF AnalysisInv
<1>5. /\ call' \in [Windows -> [at : Places, turn : 1..2, attempt : 0..MaxRetry]]
      /\ \A v \in Windows : call'[v].at = IF v = w THEN "announcing" ELSE call[v].at
      /\ \A v \in Windows : call'[v].at = "backoff" => call'[v].attempt < MaxRetry
  BY <1>2, <1>4, MovesTypes DEF Places
<1>6. /\ told' \in [Windows -> Seq(Ids)] /\ told'[w] = all.ids
      /\ \A v \in Windows : v # w => told'[v] = told[v]
  <2>1. all.ids \in Seq(Ids)
    BY <1>1 DEF ResultEnters, Ingested, Memory
  <2> QED BY <1>1, <1>4, <2>1 DEF ResultEnters, AnalysisTypes
<1>7. AnalysisTypes'
  <2>1. narratives' \in Seq(Windows)
    BY <1>2, <1>4, RememberedType DEF AnalysisTypes
  <2> QED BY <1>2, <1>3, <1>4, <1>5, <1>6, <2>1 DEF AnalysisTypes, At, MayRetry
\* Where each event of the memory comes from.
<1>8. ASSUME NEW j \in DOMAIN pending'
      PROVE  pending'[j].id \in IdsOf(pending) \/ pending'[j].id[1] = w
  BY <1>1 DEF ResultEnters, Ingested
<1>9. ASSUME NEW j \in DOMAIN pending', NEW v \in pending'[j].windows
      PROVE  \/ v # w /\ j \in DOMAIN pending /\ v \in pending[j].windows
                /\ pending'[j].id = pending[j].id
             \/ v = w /\ pending'[j].id \in ToSet(told'[w])
  <2>1. \/ j \in DOMAIN pending /\ v \in pending[j].windows
        \/ v = w /\ pending'[j].id \in ToSet(told'[w])
    BY <1>1, <1>6, <1>9 DEF ResultEnters, Ingested
  <2>2. CASE j \in DOMAIN pending /\ v \in pending[j].windows
    <3>1. pending'[j].id = pending[j].id
      BY <1>1, <2>2 DEF ResultEnters, Ingested, Grows
    <3>2. v # w
      BY <1>2, <1>4, <2>2 DEF MarkInv, At, Found
    <3> QED BY <2>2, <3>1, <3>2
  <2> QED BY <2>1, <2>2
<1>10. MarkInv'
  <2> SUFFICES ASSUME NEW v \in Windows, NEW j \in DOMAIN pending',
                      pending'[j].id[1] = v \/ v \in pending'[j].windows, v # w
               PROVE  call[v].at \in Found
    BY <1>5 DEF MarkInv, Found
  <2>1. CASE v \in pending'[j].windows
    BY <1>4, <1>9, <2>1 DEF MarkInv
  <2>2. CASE pending'[j].id[1] = v
    <3>1. PICK i \in DOMAIN pending : pending[i].id = pending'[j].id
      BY <1>8, <2>2 DEF IdsOf
    <3> QED BY <1>4, <2>2, <3>1 DEF MarkInv
  <2> QED BY <2>1, <2>2
<1>11. ToldInv'
  <2>1. ToSet(told'[w]) \subseteq IdsOf(pending')
    BY <1>1, <1>6 DEF ResultEnters, Ingested
  <2> QED BY <1>3, <1>4, <1>5, <1>6, <2>1 DEF ToldInv, At, IdsOf
<1>12. w # 0
  BY AnalysisAssumption
\* What was not known has not been shown.
<1>13. ASSUME NEW j \in DOMAIN pending', pending'[j].id \in DOMAIN shown
       PROVE  pending'[j].id \in IdsOf(pending)
  BY <1>4, <1>8, <1>12, <1>13 DEF GateInv
<1>14. ShownInv'
  BY <1>2, <1>3, <1>13 DEF ShownInv
<1>15. GateInv'
  <2>1. \A id \in IdsOf(pending') : id \in IdsOf(pending) \/ id[1] = w
    BY <1>8 DEF IdsOf
  <2>2. /\ \E m \in Nat : {id \in DOMAIN shown : id[1] = 0} = GateIds(m)
        /\ \A id \in IdsOf(pending) : id[1] = 0 => id \in DOMAIN shown
        /\ \A id \in DOMAIN shown : id[1] # 0 => id \in IdsOf(pending)
    BY <1>4 DEF GateInv
  <2>3. \A id \in IdsOf(pending') : id[1] = 0 => id \in DOMAIN shown
    BY <1>12, <2>1, <2>2
  <2>4. \A id \in DOMAIN shown : id[1] # 0 => id \in IdsOf(pending')
    BY <1>3, <2>2
  <2> QED BY <1>2, <2>2, <2>3, <2>4 DEF GateInv, IdsOf
<1>16. NewsInv'
  <2> SUFFICES ASSUME NEW v \in Windows, call'[v].at \in {"announcing", "done"},
                      NEW j \in DOMAIN pending', v \in pending'[j].windows
               PROVE  \/ pending'[j].id \in DOMAIN shown /\ v \in shown[pending'[j].id].windows
                      \/ pending'[j].id \in ToSet(told'[v])
    BY <1>2 DEF NewsInv
  <2>1. CASE v = w
    BY <1>9, <2>1
  <2>2. CASE v # w
    BY <1>4, <1>5, <1>6, <1>9, <2>2 DEF NewsInv
  <2> QED BY <2>1, <2>2
<1> QED BY <1>3, <1>7, <1>10, <1>11, <1>14, <1>15, <1>16 DEF AnalysisInv

-------------------------------------------------------------------------------
(***************************************************************************)
(* Steps that send a message about an event                                *)
(***************************************************************************)
LEMMA ShowsIs ==
  ASSUME NEW id, NEW ev, Shows(id, ev)
  PROVE  /\ DOMAIN shown' = DOMAIN shown \cup {id}
         /\ shown'[id] = ev
         /\ \A x \in DOMAIN shown : x # id => shown'[x] = shown[x]
BY DEF Shows

\* The announced event is in the memory, and is the only one of its id.
LEMMA AnnouncesWhat ==
  ASSUME AnalysisInv, NEW w \in Windows, Announces(w)
  PROVE  \E i \in DOMAIN pending :
           /\ told[w] # <<>> /\ pending[i].id = Head(told[w])
           /\ DOMAIN shown' = DOMAIN shown \cup {pending[i].id}
           /\ shown'[pending[i].id] = pending[i]
           /\ \A x \in DOMAIN shown : x # pending[i].id => shown'[x] = shown[x]
<1> DEFINE id == Head(told[w])
           i == Named(pending, id)
<1>1. told[w] # <<>> /\ Shows(id, pending[i])
  BY DEF Announces
<1>2. told[w] \in Seq(Ids) /\ ToSet(told[w]) \subseteq IdsOf(pending)
  BY DEF AnalysisInv, AnalysisTypes, ToldInv
<1>3. id \in IdsOf(pending)
  BY <1>1, <1>2, TakeHead
<1>4. i \in DOMAIN pending /\ pending[i].id = id
  <2>1. \E x \in DOMAIN pending : pending[x].id = id
    BY <1>3 DEF IdsOf
  <2> HIDE DEF id
  <2> QED BY <2>1 DEF Named
<1> HIDE DEF i, id
<1> QED BY <1>1, <1>4, ShowsIs DEF id

LEMMA AnnouncesKeeps ==
  ASSUME AnalysisInv, NEW w \in Windows, Announces(w)
  PROVE  AnalysisInv'
<1>1. PICK i \in DOMAIN pending :
        /\ told[w] # <<>> /\ pending[i].id = Head(told[w])
        /\ DOMAIN shown' = DOMAIN shown \cup {pending[i].id}
        /\ shown'[pending[i].id] = pending[i]
        /\ \A x \in DOMAIN shown : x # pending[i].id => shown'[x] = shown[x]
  BY AnnouncesWhat
<1> DEFINE id == pending[i].id
<1>2. /\ At(w, "announcing") /\ told' = [told EXCEPT ![w] = Tail(@)]
      /\ pending' = pending /\ call' = call
      /\ narratives' = narratives /\ ingested' = ingested /\ stopping' = stopping
  BY DEF Announces, memoryVars
<1>3. /\ AnalysisTypes /\ Distinct(pending) /\ MarkInv /\ ToldInv /\ ShownInv /\ GateInv /\ NewsInv
      /\ EventsConserved
  BY DEF AnalysisInv
<1>4. pending[i] \in Event /\ id \in Ids /\ id \in IdsOf(pending)
  <2>1. pending[i] \in Event
    BY <1>3 DEF AnalysisTypes
  <2> QED BY <2>1 DEF Event, IdsOf
<1>5. told[w] \in Seq(Ids) /\ told \in [Windows -> Seq(Ids)]
  BY <1>3 DEF AnalysisTypes
<1>6. /\ told'[w] \in Seq(Ids) /\ ToSet(told[w]) = {id} \cup ToSet(told'[w])
      /\ told' \in [Windows -> Seq(Ids)] /\ \A v \in Windows : v # w => told'[v] = told[v]
  <2>1. Tail(told[w]) \in Seq(Ids) /\ ToSet(told[w]) = {id} \cup ToSet(Tail(told[w]))
    BY <1>1, <1>5, TakeHead
  <2> QED BY <1>2, <1>5, <2>1
<1>7. AnalysisTypes'
  <2>1. DOMAIN shown' \subseteq Ids
    BY <1>1, <1>3, <1>4 DEF AnalysisTypes
  <2>2. \A x \in DOMAIN shown' : shown'[x] \in Event
    BY <1>1, <1>3, <1>4 DEF AnalysisTypes
  <2> QED BY <1>2, <1>3, <1>6, <2>1, <2>2 DEF AnalysisTypes, At, MayRetry
<1>8. Distinct(pending)' /\ MarkInv' /\ EventsConserved'
  BY <1>2, <1>3 DEF Distinct, MarkInv, EventsConserved
<1>9. ToldInv'
  BY <1>2, <1>3, <1>6 DEF ToldInv, At, IdsOf
<1>10. ShownInv'
  <2> SUFFICES ASSUME NEW j \in DOMAIN pending, pending[j].id \in DOMAIN shown'
               PROVE  AtLeast(shown'[pending[j].id], pending[j])
    BY <1>2 DEF ShownInv
  <2>1. CASE pending[j].id = id
    <3>1. j = i
      BY <1>3, <2>1 DEF Distinct
    <3> QED BY <1>1, <1>4, <3>1, AtLeastItself
  <2>2. CASE pending[j].id # id
    BY <1>1, <1>3, <2>2 DEF ShownInv
  <2> QED BY <2>1, <2>2
<1>11. GateInv'
  <2>1. id[1] = 0 => id \in DOMAIN shown
    BY <1>3, <1>4 DEF GateInv
  <2>2. {x \in DOMAIN shown' : x[1] = 0} = {x \in DOMAIN shown : x[1] = 0}
    BY <1>1, <2>1
  <2>3. \A x \in IdsOf(pending) : x[1] = 0 => x \in DOMAIN shown'
    BY <1>1, <1>3 DEF GateInv
  <2>4. \A x \in DOMAIN shown' : x[1] # 0 => x \in IdsOf(pending)
    BY <1>1, <1>3, <1>4 DEF GateInv
  <2>5. \E n \in Nat : {x \in DOMAIN shown' : x[1] = 0} = GateIds(n)
    BY <1>3, <2>2 DEF GateInv
  <2> QED BY <1>2, <2>3, <2>4, <2>5 DEF GateInv, IdsOf
<1>12. NewsInv'
  <2> SUFFICES ASSUME NEW v \in Windows, call[v].at \in {"announcing", "done"},
                      NEW j \in DOMAIN pending, v \in pending[j].windows
               PROVE  \/ pending[j].id \in DOMAIN shown' /\ v \in shown'[pending[j].id].windows
                      \/ pending[j].id \in ToSet(told'[v])
    BY <1>2 DEF NewsInv
  <2>1. \/ pending[j].id \in DOMAIN shown /\ v \in shown[pending[j].id].windows
        \/ pending[j].id \in ToSet(told[v])
    BY <1>3 DEF NewsInv
  <2>2. CASE pending[j].id = id
    <3>1. j = i
      BY <1>3, <2>2 DEF Distinct
    <3> QED BY <1>1, <3>1
  <2>3. CASE pending[j].id # id
    <3>1. pending[j].id \in ToSet(told[v]) => pending[j].id \in ToSet(told'[v])
      BY <1>6, <2>3
    <3> QED BY <1>1, <2>1, <2>3, <3>1
  <2> QED BY <2>2, <2>3
<1> QED BY <1>7, <1>8, <1>9, <1>10, <1>11, <1>12 DEF AnalysisInv

-------------------------------------------------------------------------------
LEMMA GateIdsCounted ==
  ASSUME NEW n \in Nat
  PROVE  Cardinality(GateIds(n)) = n
<1>1. IsFiniteSet(1..n) /\ Cardinality(1..n) = n
  BY FS_Interval
<1>2. IsFiniteSet({0}) /\ Cardinality({0}) = 1
  BY FS_Singleton
<1>3. Cardinality(GateIds(n)) = 1 * n
  BY <1>1, <1>2, FS_Product DEF GateIds
<1> QED BY <1>3

LEMMA FiringsAre ==
  ASSUME GateInv
  PROVE  Firings \in Nat /\ {id \in DOMAIN shown : id[1] = 0} = GateIds(Firings)
<1>1. PICK n \in Nat : {id \in DOMAIN shown : id[1] = 0} = GateIds(n)
  BY DEF GateInv
<1>2. Firings = n
  BY <1>1, GateIdsCounted DEF Firings
<1> QED BY <1>1, <1>2

\* What a firing of the gate leaves.
FiringEnters(ev, all) ==
  /\ New(<<ev>>, {}) /\ Ingested(all, <<ev>>, {}, 1)
  /\ ev \in Event /\ ev.id = <<0, Firings + 1>> /\ ev.windows = {}
  /\ pending' = all.mem /\ ingested' = ingested + 1
  /\ Shows(ev.id, ev)

LEMMA GateFinds ==
  ASSUME AnalysisInv, GateFires
  PROVE  \E ev, all : FiringEnters(ev, all)
<1>1. PICK t \in GateTimes, like \in Known \cup {NoEvent} :
        LET ev == [id |-> <<0, Firings + 1>>, from |-> t, to |-> t, windows |-> {}, count |-> 1]
        IN  pending' = StoredAll(<<ev>>, <<like>>).mem /\ Shows(ev.id, ev)
  BY DEF GateFires
<1> DEFINE ev == [id |-> <<0, Firings + 1>>, from |-> t, to |-> t, windows |-> {}, count |-> 1]
           all == StoredAll(<<ev>>, <<like>>)
<1>2. Firings \in Nat /\ {id \in DOMAIN shown : id[1] = 0} = GateIds(Firings)
  BY FiringsAre DEF AnalysisInv
<1>3. ev \in Event /\ ev.id = <<0, Firings + 1>> /\ ev.windows = {} /\ ev.count = 1
  <2>1. t \in Nat /\ 1 \in Nat /\ {} \in SUBSET Windows
    BY AnalysisAssumption
  <2>2. <<0, Firings + 1>> \in Ids
    BY <1>2 DEF Ids
  <2> QED BY <2>1, <2>2 DEF Event
<1>4. ev.id \notin IdsOf(pending)
  <2>1. <<0, Firings + 1>> \notin GateIds(Firings)
    BY <1>2 DEF GateIds
  <2>2. ev.id[1] = 0
    BY <1>3
  <2>3. ev.id \notin DOMAIN shown
    BY <1>2, <1>3, <2>1, <2>2
  <2> QED BY <2>2, <2>3 DEF AnalysisInv, GateInv
<1> HIDE DEF ev
<1>5. New(<<ev>>, {}) /\ Len(<<ev>>) = 1
  BY <1>3, <1>4 DEF New
<1>6. <<like>> \in [1..Len(<<ev>>) -> Ids]
  <2>1. NoEvent \in Ids
    BY DEF NoEvent, Ids
  <2>2. ASSUME NEW i \in DOMAIN pending
        PROVE  pending[i].id \in Ids
    <3>1. pending[i] \in Event
      BY DEF AnalysisInv, AnalysisTypes
    <3> QED BY <3>1 DEF Event
  <2>3. like \in Ids
    BY <2>1, <2>2 DEF Known
  <2> QED BY <2>3
<1>7. Ingested(all, <<ev>>, {}, Len(<<ev>>))
  BY <1>5, <1>6, StoredAllKeeps DEF AnalysisInv, AnalysisTypes
<1>8. pending' = all.mem /\ Shows(ev.id, ev) /\ ingested' = ingested + 1
  BY <1>1 DEF ev, GateFires
<1> HIDE DEF all
<1>9. FiringEnters(ev, all)
  BY <1>3, <1>5, <1>7, <1>8 DEF FiringEnters
<1> QED BY <1>9

LEMMA GateFiresKeeps ==
  ASSUME AnalysisInv, GateFires
  PROVE  AnalysisInv'
<1>1. PICK ev, all : FiringEnters(ev, all)
  BY GateFinds
<1> DEFINE id == ev.id
<1>2. /\ told' = told /\ call' = call /\ narratives' = narratives /\ stopping' = stopping
  BY DEF GateFires, callVars
<1>3. /\ AnalysisTypes /\ MarkInv /\ ToldInv /\ ShownInv /\ GateInv /\ NewsInv
  BY DEF AnalysisInv
<1>4. Len(<<ev>>) = 1
  OBVIOUS
<1>5. /\ pending' \in Seq(Event) /\ ingested' \in Nat
      /\ Distinct(pending)' /\ EventsConserved'
      /\ IdsOf(pending) \subseteq IdsOf(pending')
      /\ \A j \in DOMAIN pending' : \A i \in DOMAIN pending :
           pending'[j].id = pending[i].id => j = i /\ AtLeast(pending[i], pending'[j])
      /\ \A j \in DOMAIN pending' :
           pending'[j].id \in IdsOf(pending) /\ pending'[j].id \in DOMAIN shown =>
             AtLeast(shown[pending'[j].id], pending'[j])
  BY <1>1, <1>4, MemoryGrows DEF FiringEnters
<1>6. Firings \in Nat /\ {x \in DOMAIN shown : x[1] = 0} = GateIds(Firings)
  BY <1>3, FiringsAre
<1>7. ev \in Event /\ id = <<0, Firings + 1>> /\ id \in Ids /\ id[1] = 0
  <2>1. ev \in Event /\ id = <<0, Firings + 1>>
    BY <1>1 DEF FiringEnters
  <2> QED BY <2>1 DEF Event
<1>8. /\ DOMAIN shown' = DOMAIN shown \cup {id} /\ shown'[id] = ev
      /\ \A x \in DOMAIN shown : x # id => shown'[x] = shown[x]
  BY <1>1, ShowsIs DEF FiringEnters
<1>9. id \notin IdsOf(pending)
  <2>1. <<ev>>[1] = ev /\ 1 \in 1..1
    OBVIOUS
  <2> QED BY <1>1, <1>4, <2>1 DEF FiringEnters, New
<1>10. AnalysisTypes'
  <2>1. DOMAIN shown' \subseteq Ids /\ \A x \in DOMAIN shown' : shown'[x] \in Event
    BY <1>3, <1>7, <1>8 DEF AnalysisTypes
  <2> QED BY <1>2, <1>3, <1>5, <2>1 DEF AnalysisTypes, At, MayRetry
\* Where each event of the memory comes from.
<1>11. ASSUME NEW j \in DOMAIN pending'
       PROVE  \/ pending'[j].id \in IdsOf(pending)
              \/ pending'[j].id = id /\ AtLeast(ev, pending'[j])
  <2>1. \A k \in 1..1 : <<ev>>[k] = ev
    OBVIOUS
  <2> QED BY <1>1, <2>1 DEF FiringEnters, Ingested
<1>12. ASSUME NEW j \in DOMAIN pending', NEW v \in pending'[j].windows
       PROVE  /\ j \in DOMAIN pending /\ v \in pending[j].windows
              /\ pending'[j].id = pending[j].id
  <2>1. j \in DOMAIN pending /\ v \in pending[j].windows
    BY <1>1, <1>12 DEF FiringEnters, Ingested
  <2> QED BY <1>1, <2>1 DEF FiringEnters, Ingested, Grows
<1>13. MarkInv'
  <2> SUFFICES ASSUME NEW v \in Windows, NEW j \in DOMAIN pending',
                      pending'[j].id[1] = v \/ v \in pending'[j].windows
               PROVE  call[v].at \in Found
    BY <1>2 DEF MarkInv
  <2>1. CASE v \in pending'[j].windows
    BY <1>3, <1>12, <2>1 DEF MarkInv
  <2>2. CASE pending'[j].id[1] = v
    <3>1. pending'[j].id # id
      BY <1>7, <2>2, AnalysisAssumption
    <3>2. PICK i \in DOMAIN pending : pending[i].id = pending'[j].id
      BY <1>11, <3>1 DEF IdsOf
    <3> QED BY <1>3, <2>2, <3>2 DEF MarkInv
  <2> QED BY <2>1, <2>2
<1>14. ToldInv'
  BY <1>2, <1>3, <1>5 DEF ToldInv, At, IdsOf
<1>15. ShownInv'
  <2> SUFFICES ASSUME NEW j \in DOMAIN pending', pending'[j].id \in DOMAIN shown'
               PROVE  AtLeast(shown'[pending'[j].id], pending'[j])
    BY DEF ShownInv
  <2>1. CASE pending'[j].id \in IdsOf(pending)
    BY <1>5, <1>8, <1>9, <2>1
  <2>2. CASE pending'[j].id \notin IdsOf(pending)
    BY <1>8, <1>11, <2>2
  <2> QED BY <2>1, <2>2
<1>16. GateInv'
  <2>1. \A x \in IdsOf(pending') : x \in IdsOf(pending) \/ x = id
    BY <1>11 DEF IdsOf
  <2>2. \A x \in IdsOf(pending') : x[1] = 0 => x \in DOMAIN shown'
    BY <1>3, <1>8, <2>1 DEF GateInv
  <2>3. \A x \in DOMAIN shown' : x[1] # 0 => x \in IdsOf(pending')
    BY <1>3, <1>5, <1>7, <1>8 DEF GateInv
  <2>4. {x \in DOMAIN shown' : x[1] = 0} = GateIds(Firings) \cup {id}
    <3>1. {x \in DOMAIN shown' : x[1] = 0} = {x \in DOMAIN shown : x[1] = 0} \cup {id}
      BY <1>7, <1>8
    <3> QED BY <1>6, <3>1
  <2>5. GateIds(Firings) \cup {id} = GateIds(Firings + 1)
    <3>1. 1..(Firings + 1) = 1..Firings \cup {Firings + 1}
      BY <1>6
    <3> HIDE DEF id
    <3> QED BY <1>7, <3>1 DEF GateIds
  <2>6. \E n \in Nat : {x \in DOMAIN shown' : x[1] = 0} = GateIds(n)
    BY <1>6, <2>4, <2>5
  <2>7. /\ (\E n \in Nat : {x \in DOMAIN shown : x[1] = 0} = GateIds(n))'
        /\ (\A x \in IdsOf(pending) : x[1] = 0 => x \in DOMAIN shown)'
        /\ (\A x \in DOMAIN shown : x[1] # 0 => x \in IdsOf(pending))'
    BY <2>2, <2>3, <2>6 DEF IdsOf, GateIds
  <2> QED BY <2>7 DEF GateInv
<1>17. NewsInv'
  <2> SUFFICES ASSUME NEW v \in Windows, call[v].at \in {"announcing", "done"},
                      NEW j \in DOMAIN pending', v \in pending'[j].windows
               PROVE  \/ pending'[j].id \in DOMAIN shown' /\ v \in shown'[pending'[j].id].windows
                      \/ pending'[j].id \in ToSet(told[v])
    BY <1>2 DEF NewsInv
  <2>1. j \in DOMAIN pending /\ v \in pending[j].windows /\ pending'[j].id = pending[j].id
    BY <1>12
  <2>2. \/ pending[j].id \in DOMAIN shown /\ v \in shown[pending[j].id].windows
        \/ pending[j].id \in ToSet(told[v])
    BY <1>3, <2>1 DEF NewsInv
  <2>3. pending[j].id # id
    BY <1>9, <2>1 DEF IdsOf
  <2> QED BY <1>8, <2>1, <2>2, <2>3
<1> QED BY <1>5, <1>10, <1>13, <1>14, <1>15, <1>16, <1>17 DEF AnalysisInv

-------------------------------------------------------------------------------
(***************************************************************************)
(* The invariant holds                                                     *)
(***************************************************************************)
LEMMA NothingMovesIsQuiet ==
  ASSUME AnalysisInv, UNCHANGED <<callVars, memoryVars, shown>>, stopping' \in BOOLEAN
  PROVE  Quiet
<1>1. /\ call' = call /\ told' = told /\ pending' = pending /\ narratives' = narratives
      /\ ingested' = ingested /\ shown' = shown
  BY DEF callVars, memoryVars
<1>2. AnalysisTypes
  BY DEF AnalysisInv
<1>3. AnalysisTypes'
  BY <1>1, <1>2 DEF AnalysisTypes, At, MayRetry
<1>4. \A w \in Windows : call[w].at = "announcing" /\ call'[w].at # "announcing" => told'[w] = <<>>
  BY <1>1
<1> QED BY <1>1, <1>3, <1>4 DEF Quiet, memoryVars

\* What each step of a window's task does to the pool, and to the memory.
LEMMA StepsOf ==
  ASSUME AnalysisNext
  PROVE  \/ \E w \in Windows : Silent(w) \/ Applies(w) \/ Announces(w)
         \/ GateFires
         \/ (Ladder \/ Stops)
BY DEF AnalysisNext, Silent

LEMMA AnalysisStepKeeps ==
  ASSUME AnalysisInv, [AnalysisNext]_<<vars, analysisVars>>
  PROVE  AnalysisInv'
<1>1. stopping \in BOOLEAN
  BY DEF AnalysisInv, AnalysisTypes
<1>2. CASE \E w \in Windows : Silent(w)
  BY <1>2, SilentIsQuiet, QuietKeeps
<1>3. CASE \E w \in Windows : Applies(w)
  BY <1>3, AppliesKeeps
<1>4. CASE \E w \in Windows : Announces(w)
  BY <1>4, AnnouncesKeeps
<1>5. CASE GateFires
  BY <1>5, GateFiresKeeps
<1>6. CASE Ladder \/ Stops
  <2>1. UNCHANGED <<callVars, memoryVars, shown>> /\ stopping' \in BOOLEAN
    BY <1>1, <1>6 DEF Ladder, Stops, analysisVars
  <2> QED BY <2>1, NothingMovesIsQuiet, QuietKeeps
<1>7. CASE UNCHANGED <<vars, analysisVars>>
  <2>1. UNCHANGED <<callVars, memoryVars, shown>> /\ stopping' \in BOOLEAN
    BY <1>1, <1>7 DEF analysisVars
  <2> QED BY <2>1, NothingMovesIsQuiet, QuietKeeps
<1> QED BY <1>2, <1>3, <1>4, <1>5, <1>6, <1>7, StepsOf

\* AnalysisInv holds in every reachable state.
THEOREM AnalysisInvariant == AnalysisSpec => []AnalysisInv
BY AnalysisInitial, AnalysisStepKeeps, PTL DEF AnalysisSpec

\* The analyses' state has its type: events, ids and spans, and where every window is.
THEOREM AnalysisTypeCorrect == AnalysisSpec => []AnalysisTypes
<1>1. AnalysisInv => AnalysisTypes
  BY DEF AnalysisInv
<1> QED BY <1>1, AnalysisInvariant, PTL

\* However the windows' results and the gate's events interleave and merge, none is
\* lost from the memory and none counts twice.
THEOREM EventsAreConserved == AnalysisSpec => []EventsConserved
<1>1. AnalysisInv => EventsConserved
  BY DEF AnalysisInv
<1> QED BY <1>1, AnalysisInvariant, PTL

\* A window whose task is through has told the observers of everything it found,
\* also of what went into another window's event.
THEOREM NewsAreTold == AnalysisSpec => []NewsIsTold
<1>1. AnalysisInv => NewsIsTold
  <2> SUFFICES ASSUME AnalysisInv, NEW w \in Windows, At(w, "done"),
                      NEW i \in DOMAIN pending, w \in pending[i].windows
               PROVE  /\ pending[i].id \in DOMAIN shown
                      /\ w \in shown[pending[i].id].windows
    BY DEF NewsIsTold
  <2>1. told[w] = <<>>
    BY DEF AnalysisInv, ToldInv, At
  <2>2. ToSet(told[w]) = {}
    BY <2>1, EmptySequence
  <2> QED BY <2>2 DEF AnalysisInv, NewsInv, At
<1> QED BY <1>1, AnalysisInvariant, PTL

-------------------------------------------------------------------------------
(***************************************************************************)
(* A later message never says less                                         *)
(***************************************************************************)
LEMMA MessageSaysNoLess ==
  ASSUME AnalysisInv, AnalysisNext, NEW id \in DOMAIN shown
  PROVE  id \in DOMAIN shown' /\ AtLeast(shown[id], shown'[id])
<1>1. shown[id] \in Event /\ AtLeast(shown[id], shown[id])
  <2>1. shown[id] \in Event
    BY DEF AnalysisInv, AnalysisTypes
  <2> QED BY <2>1, AtLeastItself
<1>2. CASE \E w \in Windows : Announces(w)
  <2>1. PICK w \in Windows : Announces(w)
    BY <1>2
  <2>2. PICK i \in DOMAIN pending :
          /\ DOMAIN shown' = DOMAIN shown \cup {pending[i].id}
          /\ shown'[pending[i].id] = pending[i]
          /\ \A x \in DOMAIN shown : x # pending[i].id => shown'[x] = shown[x]
    BY <2>1, AnnouncesWhat
  <2>3. pending[i].id \in DOMAIN shown => AtLeast(shown[pending[i].id], pending[i])
    BY DEF AnalysisInv, ShownInv
  <2>4. CASE id = pending[i].id
    BY <2>2, <2>3, <2>4
  <2>5. CASE id # pending[i].id
    BY <1>1, <2>2, <2>5
  <2> QED BY <2>4, <2>5
<1>3. CASE GateFires
  <2>1. PICK ev, all : FiringEnters(ev, all)
    BY <1>3, GateFinds
  <2>2. /\ DOMAIN shown' = DOMAIN shown \cup {ev.id}
        /\ \A x \in DOMAIN shown : x # ev.id => shown'[x] = shown[x]
    BY <2>1, ShowsIs DEF FiringEnters
  <2>3. ev.id \notin DOMAIN shown
    <3>1. Firings \in Nat /\ {x \in DOMAIN shown : x[1] = 0} = GateIds(Firings)
      BY FiringsAre DEF AnalysisInv
    <3>2. <<0, Firings + 1>> \notin GateIds(Firings) /\ <<0, Firings + 1>>[1] = 0
      BY <3>1 DEF GateIds
    <3> QED BY <2>1, <3>1, <3>2 DEF FiringEnters
  <2> QED BY <1>1, <2>2, <2>3
<1>4. CASE shown' = shown
  BY <1>1, <1>4
<1>5. ASSUME NEW w \in Windows, Silent(w)
      PROVE  shown' = shown
  BY <1>5 DEF Silent, WindowStarts, Backs, Retries, Fails, Repairs, Empty, Finishes, Cancelled
<1>6. ASSUME NEW w \in Windows, Applies(w)
      PROVE  shown' = shown
  BY <1>6 DEF Applies
<1>7. Ladder \/ Stops => shown' = shown
  BY DEF Ladder, Stops, analysisVars
<1> QED BY <1>2, <1>3, <1>4, <1>5, <1>6, <1>7, StepsOf

\* Whatever the interleaving of windows and gate, a message about an event takes
\* back nothing of an earlier one.
THEOREM EventsNeverRegress == AnalysisSpec => EventNeverRegresses
<1> DEFINE Step == \A id \in DOMAIN shown :
                     /\ shown[id].windows \subseteq shown'[id].windows
                     /\ shown'[id].from <= shown[id].from /\ shown[id].to <= shown'[id].to
                     /\ shown[id].count <= shown'[id].count
<1>1. AnalysisInv /\ [AnalysisNext]_<<vars, analysisVars>> => [Step]_shown
  <2> SUFFICES ASSUME AnalysisInv, [AnalysisNext]_<<vars, analysisVars>>, shown' # shown
               PROVE  Step
    OBVIOUS
  <2>1. AnalysisNext
    BY DEF analysisVars
  <2> QED BY <2>1, MessageSaysNoLess DEF AtLeast
<1> QED BY <1>1, AnalysisInvariant, PTL DEF AnalysisSpec, EventNeverRegresses

-------------------------------------------------------------------------------
(***************************************************************************)
(* The backpressure controller, for every choice of the thresholds, the    *)
(* pool's size and the error limit                                         *)
(***************************************************************************)
\* update()'s target starts at the current level and is only raised.
LEMMA TargetNotBelow ==
  ASSUME NEW l \in Levels, NEW d \in Nat, NEW n \in Nat
  PROVE  Target(l, d, n) \in Levels /\ Target(l, d, n) >= l
<1>1. DepthTarget(l, d) \in Levels /\ DepthTarget(l, d) >= l
  BY BackpressureAssumption DEF DepthTarget, Higher, Levels
<1> QED BY <1>1 DEF Target, Higher, Levels

LEMMA NextLevelNotBelow ==
  ASSUME NEW l \in Levels, NEW d \in Nat, NEW n \in Nat, NEW s \in BOOLEAN
  PROVE  NextLevel(l, d, n, s) \in Levels /\ NextLevel(l, d, n, s) >= l
<1>1. Target(l, d, n) \in Levels /\ Target(l, d, n) >= l
  BY TargetNotBelow
<1>2. ~ (Target(l, d, n) < l)
  BY <1>1 DEF Levels
<1> QED BY <1>1, <1>2 DEF NextLevel, Levels

\* A level gained comes from the depth or from the errors.
LEMMA GainHasCause ==
  ASSUME NEW l \in Levels, NEW d \in Nat, NEW n \in Nat, NEW s \in BOOLEAN,
         d < BpL2, d < BpL3, NextLevel(l, d, n, s) > l
  PROVE  \/ NextLevel(l, d, n, s) = 1 /\ d >= BpL1
         \/ NextLevel(l, d, n, s) = 2 /\ n > ErrLimit
<1>1. DepthTarget(l, d) = IF d >= BpL1 THEN Higher(l, 1) ELSE l
  BY BackpressureAssumption DEF DepthTarget
<1>2. NextLevel(l, d, n, s) = Target(l, d, n)
  BY TargetNotBelow DEF NextLevel, Levels
<1> QED BY <1>1, <1>2 DEF Target, Higher, Levels

LEMMA ControlTypesKept == TypeOK /\ [Next]_vars => TypeOK'
<1> SUFFICES ASSUME TypeOK, [Next]_vars PROVE TypeOK'
  OBVIOUS
<1>1. CASE CallStarts
  <2>1. depth' \in 0..Workers
    BY <1>1, ControlAssumption DEF TypeOK, CallStarts
  <2> QED BY <1>1, <2>1 DEF TypeOK, CallStarts
<1>2. CASE CallEnds
  <2>1. depth' \in 0..Workers
    BY <1>2, ControlAssumption DEF TypeOK, CallEnds
  <2> QED BY <1>2, <2>1 DEF TypeOK, CallEnds
<1>7. CASE CallFails
  <2>1. errors' \in 0..MaxErrors
    BY <1>7, ControlAssumption DEF TypeOK, CallFails
  <2> QED BY <1>7, <2>1 DEF TypeOK, CallFails
<1>3. CASE ErrorExpires
  <2>1. errors' \in 0..MaxErrors
    BY <1>3, ControlAssumption DEF TypeOK, ErrorExpires
  <2> QED BY <1>3, <2>1 DEF TypeOK, ErrorExpires
<1>4. CASE FiveSecondsPass
  BY <1>4 DEF TypeOK, FiveSecondsPass
<1>5. CASE Update
  <2>1. depth \in Nat /\ errors \in Nat
    BY ControlAssumption DEF TypeOK
  <2>2. level' \in Levels
    BY <1>5, <2>1, NextLevelNotBelow DEF TypeOK, Update
  <2> QED BY <1>5, <2>2 DEF TypeOK, Update
<1>6. CASE UNCHANGED vars
  BY <1>6 DEF TypeOK, vars
<1> QED BY <1>1, <1>2, <1>3, <1>4, <1>5, <1>6, <1>7 DEF Next

\* The controller's state has its type; the depth it sees is bounded by the pool.
THEOREM ControlTypeCorrect == Spec => []TypeOK
<1>1. Init => TypeOK
  BY ControlAssumption DEF Init, TypeOK, Levels
<1> QED BY <1>1, ControlTypesKept, PTL DEF Spec

\* With a pool smaller than bp_l2 and bp_l3, only errors reach "heavy" and nothing
\* reaches "circuit".
THEOREM LadderClimbsForCause == Spec => LadderNeedsCause
<1> DEFINE Cause == \/ level' = 1 /\ depth >= BpL1
                    \/ level' = 2 /\ errors > ErrLimit
<1>1. Init => TypeOK
  BY ControlAssumption DEF Init, TypeOK, Levels
<1>2. TypeOK /\ [Next]_vars =>
        [level' > level /\ Workers < BpL2 /\ Workers < BpL3 => Cause]_vars
  <2> SUFFICES ASSUME TypeOK, Next, level' > level, Workers < BpL2, Workers < BpL3
               PROVE  Cause
    OBVIOUS
  <2>1. depth \in Nat /\ errors \in Nat /\ depth < BpL2 /\ depth < BpL3
    BY ControlAssumption, BackpressureAssumption DEF TypeOK
  <2>2. CASE Update
    BY <2>1, <2>2, GainHasCause DEF TypeOK, Update
  <2>3. CASE CallStarts \/ CallFails \/ CallEnds \/ ErrorExpires \/ FiveSecondsPass
    BY <2>3 DEF TypeOK, Levels, CallStarts, CallFails, CallEnds, ErrorExpires, FiveSecondsPass
  <2> QED BY <2>2, <2>3 DEF Next
<1> QED BY <1>1, <1>2, ControlTypesKept, PTL DEF Spec, LadderNeedsCause

-------------------------------------------------------------------------------
(***************************************************************************)
(* The analyses drive the controller                                       *)
(***************************************************************************)
\* Where a window holds a slot of the pool (WorkerPool.submit's "async with"), and the
\* windows that are there.
Holding == {"posting", "backoff", "reporting", "announcing"}
Busy == {w \in Windows : call[w].at \in Holding}

\* The depth that update() reads is their number.
DepthInv == IsFiniteSet(Busy) /\ depth = Cardinality(Busy)

\* A step of a window's task either leaves the pool alone or takes or gives back the
\* slot of that window.
LEMMA TaskStepIsControlStep ==
  ASSUME NEW w \in Windows, Silent(w) \/ Applies(w) \/ Announces(w)
  PROVE  CallStarts \/ CallFails \/ CallEnds \/ UNCHANGED vars
BY DEF Silent, WindowStarts, Backs, Retries, Fails, Repairs, Empty, Finishes, Cancelled,
       Applies, Announces

\* An analysis starts, fails and ends a call as the controller's model allows, so what
\* is proved of the controller holds while windows are analysed.
THEOREM AnalysisDrivesLadder == AnalysisSpec => Spec
<1>1. [AnalysisNext]_<<vars, analysisVars>> => [Next]_vars
  <2> SUFFICES ASSUME [AnalysisNext]_<<vars, analysisVars>> PROVE Next \/ UNCHANGED vars
    OBVIOUS
  <2>1. CASE AnalysisNext
    <3>1. ASSUME NEW w \in Windows, Silent(w) \/ Applies(w) \/ Announces(w)
          PROVE  Next \/ UNCHANGED vars
      BY <3>1, TaskStepIsControlStep DEF Next
    <3>2. GateFires => UNCHANGED vars
      BY DEF GateFires
    <3>3. Ladder \/ Stops => Next \/ UNCHANGED vars
      BY DEF Ladder, Stops, Next
    <3> QED BY <2>1, <3>1, <3>2, <3>3, StepsOf
  <2>2. CASE UNCHANGED <<vars, analysisVars>>
    BY <2>2
  <2> QED BY <2>1, <2>2
<1> QED BY <1>1, PTL DEF AnalysisSpec, Spec

\* The slot is taken, given back or kept.
LEMMA TaskStepMovesSlot ==
  ASSUME AnalysisTypes, NEW w \in Windows, Silent(w) \/ Applies(w)
  PROVE  /\ \A v \in Windows \ {w} : call'[v].at = call[v].at
         /\ \/ CallStarts /\ call[w].at \notin Holding /\ call'[w].at \in Holding
            \/ CallEnds /\ call[w].at \in Holding /\ call'[w].at \notin Holding
            \/ depth' = depth /\ call[w].at \in Holding /\ call'[w].at \in Holding
<1>1. \A v \in Windows \ {w} : call'[v].at = call[v].at
  <2>1. \E next : call' = [call EXCEPT ![w] = next]
    <3>1. CASE Backs(w)
      <4>1. call' = [call EXCEPT ![w].at = "backoff"]
        BY <3>1 DEF Backs
      <4>2. call' = [call EXCEPT ![w] = [call[w] EXCEPT !.at = "backoff"]]
        BY <4>1 DEF AnalysisTypes
      <4> QED BY <4>2
    <3>2. CASE ~ Backs(w)
      <4>1. (\E where : Moves(w, where)) \/ (\E turn, attempt : Posts(w, turn, attempt))
        BY <3>2 DEF Silent, WindowStarts, Retries, Fails, Repairs, Empty, Finishes, Cancelled, Applies
      <4> QED BY <4>1 DEF Moves, Posts
    <3> QED BY <3>1, <3>2
  <2>2. PICK next : call' = [call EXCEPT ![w] = next]
    BY <2>1
  <2> QED BY <2>2 DEF AnalysisTypes
<1>2. \A where : Moves(w, where) => call'[w].at = where
  BY DEF Moves, Now, AnalysisTypes
<1>3. \A turn, attempt : Posts(w, turn, attempt) => call'[w].at = "posting"
  BY DEF Posts, AnalysisTypes
<1>4. CASE WindowStarts(w)
  BY <1>1, <1>3, <1>4 DEF WindowStarts, At, Holding
<1>5. CASE Backs(w)
  <2>1. call'[w].at = "backoff"
    BY <1>5 DEF Backs, AnalysisTypes
  <2> QED BY <1>1, <1>5, <2>1 DEF Backs, At, Holding, vars
<1>6. CASE Retries(w) \/ Repairs(w)
  BY <1>1, <1>3, <1>6 DEF Retries, Repairs, At, Holding, vars
<1>7. CASE Fails(w)
  BY <1>1, <1>2, <1>7 DEF Fails, CallFails, At, Holding
<1>8. CASE Empty(w)
  BY <1>1, <1>2, <1>8 DEF Empty, At, Holding
<1>9. CASE Finishes(w)
  <2>1. call'[w].at \in {"failed", "done"} /\ CallEnds /\ call[w].at \in Holding
    BY <1>2, <1>9 DEF Finishes, At, Holding
  <2> QED BY <1>1, <2>1 DEF Holding
<1>10. CASE Cancelled(w)
  BY <1>1, <1>2, <1>10 DEF Cancelled, Holding
<1>11. CASE Applies(w)
  BY <1>1, <1>2, <1>11 DEF Applies, At, Holding, vars
<1> QED BY <1>4, <1>5, <1>6, <1>7, <1>8, <1>9, <1>10, <1>11 DEF Silent

LEMMA DepthKept ==
  ASSUME AnalysisTypes, DepthInv, [AnalysisNext]_<<vars, analysisVars>>
  PROVE  DepthInv'
<1>1. IsFiniteSet(Busy) /\ depth = Cardinality(Busy) /\ depth \in Nat
  BY FS_CardinalityType DEF DepthInv
<1>2. ASSUME NEW w \in Windows, Silent(w) \/ Applies(w)
      PROVE  DepthInv'
  <2>1. /\ \A v \in Windows \ {w} : call'[v].at = call[v].at
        /\ \/ CallStarts /\ call[w].at \notin Holding /\ call'[w].at \in Holding
           \/ CallEnds /\ call[w].at \in Holding /\ call'[w].at \notin Holding
           \/ depth' = depth /\ call[w].at \in Holding /\ call'[w].at \in Holding
    BY <1>2, TaskStepMovesSlot
  <2>2. CASE CallStarts /\ call[w].at \notin Holding /\ call'[w].at \in Holding
    <3>1. w \notin Busy /\ Busy' = Busy \cup {w} /\ depth' = depth + 1
      BY <2>1, <2>2 DEF Busy, Holding, CallStarts
    <3> QED BY <1>1, <3>1, FS_AddElement DEF DepthInv
  <2>3. CASE CallEnds /\ call[w].at \in Holding /\ call'[w].at \notin Holding
    <3>1. w \in Busy /\ Busy' = Busy \ {w} /\ depth' = depth - 1
      BY <2>1, <2>3 DEF Busy, Holding, CallEnds
    <3> QED BY <1>1, <3>1, FS_RemoveElement DEF DepthInv
  <2>4. CASE depth' = depth /\ call[w].at \in Holding /\ call'[w].at \in Holding
    <3>1. Busy' = Busy
      BY <2>1, <2>4 DEF Busy, Holding
    <3> QED BY <1>1, <2>4, <3>1 DEF DepthInv
  <2> QED BY <2>1, <2>2, <2>3, <2>4
<1>3. ASSUME call' = call, depth' = depth
      PROVE  DepthInv'
  BY <1>1, <1>3 DEF DepthInv, Busy
<1>4. ASSUME NEW w \in Windows, Announces(w)
      PROVE  call' = call /\ depth' = depth
  BY <1>4 DEF Announces, vars
<1>5. GateFires => call' = call /\ depth' = depth
  BY DEF GateFires, vars, callVars
<1>6. Ladder \/ Stops => call' = call /\ depth' = depth
  BY DEF Ladder, Stops, analysisVars, vars, callVars, Update, FiveSecondsPass, ErrorExpires
<1>7. UNCHANGED <<vars, analysisVars>> => call' = call /\ depth' = depth
  BY DEF analysisVars, vars, callVars
<1> QED BY <1>2, <1>3, <1>4, <1>5, <1>6, <1>7, StepsOf

\* The depth the controller sees is the number of windows being analysed: whichever
\* way an analysis ends, it gives its slot back once.
THEOREM DepthCountsAnalyses == AnalysisSpec => []DepthInv
<1>1. Init /\ AnalysisInit => DepthInv
  <2> SUFFICES ASSUME Init, AnalysisInit PROVE DepthInv
    OBVIOUS
  <2>1. Busy = {}
    BY DEF AnalysisInit, Busy, Holding, Now
  <2>2. depth = 0
    BY DEF Init
  <2> QED BY <2>1, <2>2, FS_EmptySet DEF DepthInv
<1>2. AnalysisInv => AnalysisTypes
  BY DEF AnalysisInv
<1> QED BY <1>1, <1>2, DepthKept, AnalysisInvariant, PTL DEF AnalysisSpec
===============================================================================

--------------------------- MODULE WorkerPoolProofs ---------------------------
(***************************************************************************)
(* Machine-checked safety of WorkerPool for every set of tasks and every   *)
(* pool size.  The inductive invariant is PoolInv: the type invariant, the *)
(* two counting invariants, the exactness of the deque (every waiting or   *)
(* granted task is in it) and NoLostWakeup.  The deque's exactness is what *)
(* makes _wake_up_next's scan complete: if it finds nobody, nobody waits.  *)
(***************************************************************************)
EXTENDS WorkerPool, FiniteSetTheorems, SequenceTheorems, TLAPS

\* The first two parts of DequeExact, which the wake-up argument rests on.
DequeComplete ==
  /\ \A i \in DOMAIN waiters : slot[waiters[i]] \in {"waiting", "granted"}
  /\ \A t \in In("waiting") \cup In("granted") : \E i \in DOMAIN waiters : waiters[i] = t

NoDuplicates == \A i, j \in DOMAIN waiters : waiters[i] = waiters[j] => i = j

\* The inductive invariant.
PoolInv ==
  /\ PoolTypeOK
  /\ SlotsConserved
  /\ InFlightExact
  /\ DequeComplete
  /\ NoDuplicates
  /\ NoLostWakeup

Using(s) == {t \in Tasks : s[t] \in {"granted", "held"}}
Holding(s) == {t \in Tasks : s[t] = "held"}

LEMMA RemoveAtProperties ==
  ASSUME NEW S, NEW q \in Seq(S), NEW i \in 1..Len(q)
  PROVE  /\ RemoveAt(q, i) \in Seq(S)
         /\ Len(RemoveAt(q, i)) = Len(q) - 1
         /\ \A j \in 1..(Len(q) - 1) :
              RemoveAt(q, i)[j] = IF j < i THEN q[j] ELSE q[j + 1]
<1> DEFINE a == SubSeq(q, 1, i - 1)
           b == SubSeq(q, i + 1, Len(q))
<1>1. /\ a \in Seq(S) /\ Len(a) = i - 1
      /\ \A j \in 1..(i - 1) : a[j] = q[j]
  <2>1. \A j \in 1..(i - 1) : q[j] \in S
    OBVIOUS
  <2> QED BY <2>1, SubSeqProperties, i - 1 \in Int
<1>2. /\ b \in Seq(S) /\ Len(b) = Len(q) - i
      /\ \A j \in 1..(Len(q) - i) : b[j] = q[i + j]
  <2>1. \A j \in (i + 1)..Len(q) : q[j] \in S
    OBVIOUS
  <2>2. /\ b \in Seq(S)
        /\ Len(b) = IF i + 1 <= Len(q) THEN Len(q) - (i + 1) + 1 ELSE 0
        /\ \A j \in 1..(Len(q) - (i + 1) + 1) : b[j] = q[i + 1 + j - 1]
    BY <2>1, SubSeqProperties, i + 1 \in Int, Len(q) \in Int
  <2> HIDE DEF b
  <2> QED BY <2>2
<1>3. RemoveAt(q, i) = a \o b
  BY DEF RemoveAt
<1> HIDE DEF a, b
<1>4. /\ a \o b \in Seq(S)
      /\ Len(a \o b) = Len(a) + Len(b)
      /\ \A j \in 1..(Len(a) + Len(b)) :
           (a \o b)[j] = IF j <= Len(a) THEN a[j] ELSE b[j - Len(a)]
  BY <1>1, <1>2, ConcatProperties
<1> QED BY <1>1, <1>2, <1>3, <1>4

LEMMA UsingIsFinite ==
  ASSUME NEW s
  PROVE  IsFiniteSet(Using(s)) /\ Cardinality(Using(s)) \in Nat
BY FS_Subset, FS_CardinalityType, TasksAssumption DEF Using

LEMMA ConservedAsUsing ==
  /\ SlotsConserved <=> value + Cardinality(Using(slot)) = Workers
  /\ SlotsConserved' <=> value' + Cardinality(Using(slot')) = Workers
<1>1. /\ In("granted") \cup In("held") = Using(slot)
      /\ (In("granted") \cup In("held"))' = Using(slot')
  BY DEF Using, In
<1> QED BY <1>1 DEF SlotsConserved

\* One task more, or one fewer, uses a slot.
LEMMA UsingGrows ==
  ASSUME NEW s, NEW r, NEW t \in Tasks,
         t \notin Using(s), t \in Using(r),
         \A u \in Tasks \ {t} : r[u] = s[u]
  PROVE  Cardinality(Using(r)) = Cardinality(Using(s)) + 1
<1>1. Using(r) = Using(s) \cup {t}
  BY DEF Using
<1> QED BY <1>1, UsingIsFinite, FS_AddElement

LEMMA UsingShrinks ==
  ASSUME NEW s, NEW r, NEW t \in Tasks,
         t \in Using(s), t \notin Using(r),
         \A u \in Tasks \ {t} : r[u] = s[u]
  PROVE  Cardinality(Using(r)) = Cardinality(Using(s)) - 1
<1>1. Using(r) = Using(s) \ {t}
  BY DEF Using
<1> QED BY <1>1, UsingIsFinite, FS_RemoveElement

\* Semaphore._wake_up_next restores the invariant whenever one more slot is free
\* than the tasks in progress account for: it hands that slot to the oldest
\* pending waiter, or nobody is pending.
LEMMA WakeUpKeepsInvariant ==
  ASSUME PoolTypeOK,
         NEW v \in Nat \ {0}, NEW q \in Seq(Tasks), NEW s \in [Tasks -> SlotState],
         v + Cardinality(Using(s)) = Workers,
         \A i \in DOMAIN q : s[q[i]] \in {"waiting", "granted"},
         \A t \in Tasks : s[t] \in {"waiting", "granted"} => \E i \in DOMAIN q : q[i] = t,
         \A i, j \in DOMAIN q : q[i] = q[j] => i = j,
         WakeUpNext(v, q, s), UNCHANGED cancelled
  PROVE  /\ value' \in 0..Workers
         /\ waiters' \in Seq(Tasks)
         /\ slot' \in [Tasks -> SlotState]
         /\ SlotsConserved'
         /\ Holding(slot') = Holding(s)
         /\ DequeComplete'
         /\ NoDuplicates'
         /\ NoLostWakeup'
<1> DEFINE pendingAt(i) == s[q[i]] = "waiting" /\ q[i] \notin cancelled
<1>1. Cardinality(Using(s)) \in Nat
  BY UsingIsFinite
<1>2. SlotsConserved' <=> value' + Cardinality(Using(slot')) = Workers
  BY ConservedAsUsing
<1>3. waiters' = q
  BY DEF WakeUpNext
<1>4. CASE /\ \A i \in DOMAIN q : ~ pendingAt(i)
           /\ value' = v
           /\ slot' = s
  <2>1. Pending' = {}
    BY <1>4, <1>3 DEF Pending, In
  <2>2. value' \in 0..Workers /\ SlotsConserved'
    BY <1>1, <1>2, <1>4, WorkersAssumption
  <2>3. DequeComplete'
    BY <1>3, <1>4 DEF DequeComplete, In
  <2> QED BY <1>3, <1>4, <2>1, <2>2, <2>3 DEF NoDuplicates, NoLostWakeup
<1>5. ASSUME NEW i \in DOMAIN q,
             pendingAt(i),
             value' = v - 1,
             slot' = [s EXCEPT ![q[i]] = "granted"]
      PROVE  /\ value' \in 0..Workers
             /\ slot' \in [Tasks -> SlotState]
             /\ SlotsConserved'
             /\ Holding(slot') = Holding(s)
             /\ DequeComplete'
             /\ NoLostWakeup'
  <2>1. q[i] \in Tasks /\ s[q[i]] = "waiting" /\ "granted" \in SlotState
    BY <1>5 DEF SlotState
  <2>2. Cardinality(Using(slot')) = Cardinality(Using(s)) + 1
    <3>1. q[i] \notin Using(s) /\ q[i] \in Using(slot')
      BY <1>5, <2>1 DEF Using
    <3>2. \A u \in Tasks \ {q[i]} : slot'[u] = s[u]
      BY <1>5
    <3> QED BY <2>1, <3>1, <3>2, UsingGrows
  <2>3. value' \in 0..Workers /\ SlotsConserved'
    BY <1>1, <1>2, <1>5, <2>2, WorkersAssumption
  <2>4. slot' \in [Tasks -> SlotState] /\ Holding(slot') = Holding(s)
    BY <1>5, <2>1 DEF Holding
  <2>5. DequeComplete'
    BY <1>3, <1>5, <2>1 DEF DequeComplete, In
  <2>6. q[i] \in In("granted")'
    BY <1>5, <2>1 DEF In
  <2> QED BY <2>3, <2>4, <2>5, <2>6 DEF NoLostWakeup
<1>6. NoDuplicates'
  BY <1>3 DEF NoDuplicates
<1> QED BY <1>3, <1>4, <1>5, <1>6 DEF WakeUpNext

\* A waiter leaves the deque: what remains is still exactly the tasks queued.
LEMMA DequeAfterRemoval ==
  ASSUME PoolTypeOK, DequeComplete, NoDuplicates,
         NEW i \in DOMAIN waiters,
         NEW x \in SlotState \ {"waiting", "granted"}
  PROVE  LET q == RemoveAt(waiters, i)
             s == [slot EXCEPT ![waiters[i]] = x]
         IN  /\ q \in Seq(Tasks)
             /\ s \in [Tasks -> SlotState]
             /\ \A j \in DOMAIN q : s[q[j]] \in {"waiting", "granted"}
             /\ \A t \in Tasks : s[t] \in {"waiting", "granted"} =>
                  \E j \in DOMAIN q : q[j] = t
             /\ \A j, k \in DOMAIN q : q[j] = q[k] => j = k
<1> DEFINE q == RemoveAt(waiters, i)
           s == [slot EXCEPT ![waiters[i]] = x]
<1>1. /\ waiters \in Seq(Tasks) /\ slot \in [Tasks -> SlotState]
      /\ i \in 1..Len(waiters) /\ Len(waiters) \in Nat
  BY DEF PoolTypeOK
<1>2. /\ q \in Seq(Tasks)
      /\ Len(q) = Len(waiters) - 1
      /\ \A j \in 1..(Len(waiters) - 1) :
           q[j] = IF j < i THEN waiters[j] ELSE waiters[j + 1]
  BY <1>1, RemoveAtProperties
<1>3. DOMAIN q = 1..(Len(waiters) - 1) /\ DOMAIN waiters = 1..Len(waiters)
  BY <1>1, <1>2
<1> HIDE DEF q
<1>4. \A j \in DOMAIN q : \E k \in DOMAIN waiters : k # i /\ q[j] = waiters[k]
  <2> TAKE j \in DOMAIN q
  <2>1. CASE j < i
    <3>1. j \in DOMAIN waiters
      BY <1>1, <1>3
    <3> WITNESS j \in DOMAIN waiters
    <3> QED BY <1>1, <1>2, <1>3, <2>1
  <2>2. CASE ~ (j < i)
    <3>1. j + 1 \in DOMAIN waiters
      BY <1>1, <1>3
    <3> WITNESS j + 1 \in DOMAIN waiters
    <3> QED BY <1>1, <1>2, <1>3, <2>2
  <2> QED BY <2>1, <2>2
<1>5. \A k \in DOMAIN waiters : k # i => \E j \in DOMAIN q : q[j] = waiters[k]
  <2> SUFFICES ASSUME NEW k \in DOMAIN waiters, k # i
               PROVE  \E j \in DOMAIN q : q[j] = waiters[k]
    OBVIOUS
  <2>1. CASE k < i
    <3>1. k \in DOMAIN q
      BY <1>1, <1>3, <2>1
    <3> WITNESS k \in DOMAIN q
    <3> QED BY <1>1, <1>2, <1>3, <2>1
  <2>2. CASE k > i
    <3>1. k - 1 \in DOMAIN q
      BY <1>1, <1>3, <2>2
    <3> WITNESS k - 1 \in DOMAIN q
    <3> QED BY <1>1, <1>2, <1>3, <2>2
  <2> QED BY <1>1, <1>3, <2>1, <2>2
<1>6. \A j \in DOMAIN q : s[q[j]] \in {"waiting", "granted"}
  <2> TAKE j \in DOMAIN q
  <2>1. PICK k \in DOMAIN waiters : k # i /\ q[j] = waiters[k]
    BY <1>4
  <2>2. waiters[k] # waiters[i] /\ waiters[k] \in Tasks
    BY <1>1, <1>3, <2>1 DEF NoDuplicates
  <2> QED BY <1>1, <2>1, <2>2 DEF DequeComplete
<1>7. \A t \in Tasks : s[t] \in {"waiting", "granted"} => \E j \in DOMAIN q : q[j] = t
  <2> SUFFICES ASSUME NEW t \in Tasks, s[t] \in {"waiting", "granted"}
               PROVE  \E j \in DOMAIN q : q[j] = t
    OBVIOUS
  <2>1. t # waiters[i] /\ slot[t] \in {"waiting", "granted"}
    BY <1>1
  <2>2. PICK k \in DOMAIN waiters : waiters[k] = t
    BY <2>1 DEF DequeComplete, In
  <2> QED BY <1>5, <2>1, <2>2
<1>8. \A j, k \in DOMAIN q : q[j] = q[k] => j = k
  <2> DEFINE at(j) == IF j < i THEN j ELSE j + 1
  <2>1. \A j \in DOMAIN q : at(j) \in DOMAIN waiters /\ q[j] = waiters[at(j)]
    BY <1>1, <1>2, <1>3
  <2>2. \A j, k \in DOMAIN q : at(j) = at(k) => j = k
    BY <1>1, <1>3
  <2> HIDE DEF at
  <2> QED BY <2>1, <2>2 DEF NoDuplicates
<1>9. s \in [Tasks -> SlotState]
  BY <1>1
<1> QED BY <1>2, <1>6, <1>7, <1>8, <1>9 DEF q

\* sem.acquire(): a free slot is taken at once, or the task joins the deque.
LEMMA AcquireKeepsInvariant ==
  ASSUME PoolInv, NEW t \in Tasks, Acquire(t), UNCHANGED cancelled
  PROVE  PoolInv'
<1> USE DEF PoolInv, PoolTypeOK
<1>1. Cardinality(Using(slot)) \in Nat /\ value + Cardinality(Using(slot)) = Workers
  BY UsingIsFinite, ConservedAsUsing
<1>2. Cardinality(In("held")) \in Nat /\ IsFiniteSet(In("held"))
  BY FS_Subset, FS_CardinalityType, TasksAssumption DEF In
<1>3. inFlight = Cardinality(In("held"))
  BY DEF InFlightExact
<1>4. CASE /\ ~ Locked
           /\ value' = value - 1
           /\ slot' = [slot EXCEPT ![t] = "held"]
           /\ inFlight' = inFlight + 1
           /\ UNCHANGED waiters
  <2>1. slot[t] = "idle" /\ In("granted") = {} /\ Pending = {} /\ value # 0
    BY <1>4 DEF Acquire, Locked
  <2>2. In("held")' = In("held") \cup {t} /\ t \notin In("held")
    BY <1>4, <2>1 DEF In
  <2>3. Cardinality(In("held")') = Cardinality(In("held")) + 1
    BY <1>2, <2>2, FS_AddElement
  <2>4. Cardinality(Using(slot')) = Cardinality(Using(slot)) + 1
    <3>1. t \notin Using(slot) /\ t \in Using(slot') /\ \A u \in Tasks \ {t} : slot'[u] = slot[u]
      BY <1>4, <2>1 DEF Using
    <3> QED BY <3>1, UsingGrows
  <2>5. SlotsConserved' /\ InFlightExact'
    <3>1. value' + Cardinality(Using(slot')) = Workers
      BY <1>1, <1>4, <2>4, WorkersAssumption
    <3>2. inFlight' = Cardinality(In("held")')
      BY <1>2, <1>3, <1>4, <2>3
    <3> QED BY <3>1, <3>2, ConservedAsUsing DEF InFlightExact
  <2>6. PoolTypeOK'
    <3>1. In("held") \subseteq Using(slot) /\ IsFiniteSet(Using(slot))
      BY UsingIsFinite DEF In, Using
    <3>2. Cardinality(In("held")) <= Cardinality(Using(slot))
      BY <3>1, FS_Subset
    <3>3. inFlight' \in 0..Workers /\ value' \in 0..Workers
      BY <1>1, <1>2, <1>3, <1>4, <2>1, <3>2, WorkersAssumption
    <3>4. slot' \in [Tasks -> SlotState]
      BY <1>4 DEF SlotState
    <3> QED BY <1>4, <3>3, <3>4
  <2>7. DequeComplete' /\ NoDuplicates'
    BY <1>4, <2>1 DEF DequeComplete, NoDuplicates, In
  <2>8. NoLostWakeup'
    BY <1>4, <2>1 DEF NoLostWakeup, Pending, In
  <2> QED BY <2>5, <2>6, <2>7, <2>8
<1>5. CASE /\ Locked
           /\ waiters' = Append(waiters, t)
           /\ slot' = [slot EXCEPT ![t] = "waiting"]
           /\ UNCHANGED <<value, inFlight>>
  <2>1. slot[t] = "idle"
    BY DEF Acquire
  <2>2. slot' \in [Tasks -> SlotState] /\ PoolTypeOK'
    BY <1>5 DEF SlotState
  <2>3. In("held")' = In("held") /\ In("granted")' = In("granted")
    BY <1>5, <2>1 DEF In
  <2>4. SlotsConserved' /\ InFlightExact'
    BY <1>5, <2>3 DEF SlotsConserved, InFlightExact
  <2>5. /\ DOMAIN waiters' = 1..(Len(waiters) + 1)
        /\ \A i \in 1..Len(waiters) : waiters'[i] = waiters[i]
        /\ waiters'[Len(waiters) + 1] = t
    BY <1>5
  <2>6. \A i \in DOMAIN waiters : waiters[i] # t
    BY <2>1 DEF DequeComplete
  <2>7. DequeComplete'
    <3>1. \A i \in DOMAIN waiters' : slot'[waiters'[i]] \in {"waiting", "granted"}
      BY <1>5, <2>5, <2>6 DEF DequeComplete
    <3>2. ASSUME NEW u \in Tasks, slot'[u] \in {"waiting", "granted"}
          PROVE  \E i \in DOMAIN waiters' : waiters'[i] = u
      <4>1. CASE u = t
        BY <2>5, <4>1
      <4>2. CASE u # t
        <5>1. u \in In("waiting") \cup In("granted")
          BY <1>5, <3>2, <4>2 DEF In
        <5> QED BY <2>5, <5>1 DEF DequeComplete
      <4> QED BY <4>1, <4>2
    <3> QED BY <3>1, <3>2 DEF DequeComplete, In
  <2>8. NoDuplicates'
    BY <2>5, <2>6 DEF NoDuplicates
  <2>9. NoLostWakeup'
    BY <1>5, <2>3 DEF NoLostWakeup, Locked
  <2> QED BY <2>2, <2>4, <2>7, <2>8, <2>9
<1> QED BY <1>4, <1>5 DEF Acquire

LEMMA InFlightAsHolding ==
  /\ InFlightExact <=> inFlight = Cardinality(Holding(slot))
  /\ InFlightExact' <=> inFlight' = Cardinality(Holding(slot'))
<1>1. In("held") = Holding(slot) /\ In("held")' = Holding(slot')
  BY DEF Holding, In
<1> QED BY <1>1 DEF InFlightExact

LEMMA HoldingProperties ==
  ASSUME NEW s
  PROVE  /\ IsFiniteSet(Holding(s)) /\ Cardinality(Holding(s)) \in Nat
         /\ Cardinality(Holding(s)) <= Cardinality(Using(s))
<1>1. Holding(s) \subseteq Using(s)
  BY DEF Holding, Using
<1> QED BY <1>1, UsingIsFinite, FS_Subset, FS_CardinalityType

\* A waiter leaves the deque and the semaphore may wake the next one: the part
\* that Resume and Abandon share.  v is the counter once the departing task's
\* grant, if it had one, is accounted for.
LEMMA DepartureKeepsInvariant ==
  ASSUME PoolInv, NEW i \in DOMAIN waiters, NEW v \in Nat \ {0},
         NEW x \in SlotState \ {"waiting", "granted"},
         v + Cardinality(Using([slot EXCEPT ![waiters[i]] = x])) = Workers,
         WakeUpNext(v, RemoveAt(waiters, i), [slot EXCEPT ![waiters[i]] = x]),
         inFlight' = Cardinality(Holding([slot EXCEPT ![waiters[i]] = x])),
         UNCHANGED cancelled
  PROVE  PoolInv'
<1> DEFINE q == RemoveAt(waiters, i)
           s == [slot EXCEPT ![waiters[i]] = x]
<1>1. /\ q \in Seq(Tasks)
      /\ s \in [Tasks -> SlotState]
      /\ \A j \in DOMAIN q : s[q[j]] \in {"waiting", "granted"}
      /\ \A t \in Tasks : s[t] \in {"waiting", "granted"} =>
           \E j \in DOMAIN q : q[j] = t
      /\ \A j, k \in DOMAIN q : q[j] = q[k] => j = k
  BY DequeAfterRemoval DEF PoolInv
<1> HIDE DEF q, s
<1>2. v + Cardinality(Using(s)) = Workers /\ WakeUpNext(v, q, s)
  BY DEF q, s
<1>3. inFlight' = Cardinality(Holding(s))
  BY DEF s
<1>4. /\ value' \in 0..Workers
      /\ waiters' \in Seq(Tasks)
      /\ slot' \in [Tasks -> SlotState]
      /\ SlotsConserved'
      /\ Holding(slot') = Holding(s)
      /\ DequeComplete'
      /\ NoDuplicates'
      /\ NoLostWakeup'
  BY <1>1, <1>2, WakeUpKeepsInvariant DEF PoolInv
<1>5. InFlightExact'
  BY <1>3, <1>4, InFlightAsHolding
<1>6. inFlight' \in 0..Workers
  BY <1>2, <1>3, HoldingProperties, UsingIsFinite, WorkersAssumption
<1>7. PoolTypeOK'
  BY <1>4, <1>6 DEF PoolInv, PoolTypeOK
<1> QED BY <1>4, <1>5, <1>7 DEF PoolInv

\* A waiter leaves the deque and nobody is woken, because the counter is zero or
\* because the waiter's future was cancelled before it got a slot.
LEMMA QuietDepartureKeepsInvariant ==
  ASSUME PoolInv, NEW i \in DOMAIN waiters,
         NEW x \in SlotState \ {"waiting", "granted"},
         value' = value, waiters' = RemoveAt(waiters, i),
         slot' = [slot EXCEPT ![waiters[i]] = x],
         value + Cardinality(Using(slot')) = Workers,
         inFlight' = Cardinality(Holding(slot')),
         value = 0 \/ (slot[waiters[i]] = "waiting" /\ waiters[i] \in cancelled),
         UNCHANGED cancelled
  PROVE  PoolInv'
<1>1. /\ waiters' \in Seq(Tasks)
      /\ slot' \in [Tasks -> SlotState]
      /\ \A j \in DOMAIN waiters' : slot'[waiters'[j]] \in {"waiting", "granted"}
      /\ \A t \in Tasks : slot'[t] \in {"waiting", "granted"} =>
           \E j \in DOMAIN waiters' : waiters'[j] = t
      /\ \A j, k \in DOMAIN waiters' : waiters'[j] = waiters'[k] => j = k
  BY DequeAfterRemoval DEF PoolInv
<1>2. DequeComplete' /\ NoDuplicates'
  BY <1>1 DEF DequeComplete, NoDuplicates, In
<1>3. SlotsConserved' /\ InFlightExact'
  BY ConservedAsUsing, InFlightAsHolding
<1>4. value \in 0..Workers
  BY DEF PoolInv, PoolTypeOK
<1>5. inFlight' \in 0..Workers
  BY <1>4, HoldingProperties, UsingIsFinite, WorkersAssumption
<1>6. PoolTypeOK'
  BY <1>1, <1>4, <1>5 DEF PoolInv, PoolTypeOK
<1>7. NoLostWakeup'
  <2>1. CASE value = 0
    BY <2>1 DEF NoLostWakeup
  <2>2. CASE slot[waiters[i]] = "waiting" /\ waiters[i] \in cancelled
    <3>1. Pending' \subseteq Pending /\ In("granted") \subseteq In("granted")'
      BY <2>2 DEF Pending, In, PoolInv, PoolTypeOK
    <3> QED BY <3>1 DEF NoLostWakeup, PoolInv
  <2> QED BY <2>1, <2>2
<1> QED BY <1>2, <1>3, <1>6, <1>7 DEF PoolInv

\* One task more, or one fewer, is in its call.
LEMMA HoldingGrows ==
  ASSUME NEW s, NEW r, NEW t \in Tasks,
         s[t] # "held", r[t] = "held",
         \A u \in Tasks \ {t} : r[u] = s[u]
  PROVE  Cardinality(Holding(r)) = Cardinality(Holding(s)) + 1
<1>1. Holding(r) = Holding(s) \cup {t} /\ t \notin Holding(s)
  BY DEF Holding
<1> QED BY <1>1, HoldingProperties, FS_AddElement

LEMMA HoldingShrinks ==
  ASSUME NEW s, NEW r, NEW t \in Tasks,
         s[t] = "held", r[t] # "held",
         \A u \in Tasks \ {t} : r[u] = s[u]
  PROVE  Cardinality(Holding(r)) = Cardinality(Holding(s)) - 1
<1>1. Holding(r) = Holding(s) \ {t} /\ t \in Holding(s)
  BY DEF Holding
<1> QED BY <1>1, HoldingProperties, FS_RemoveElement

\* A granted task starts its call; the free slots are as many as before.
LEMMA ResumeKeepsInvariant ==
  ASSUME PoolInv, NEW t \in Tasks, Resume(t), UNCHANGED cancelled
  PROVE  PoolInv'
<1>1. PICK i \in DOMAIN waiters :
        /\ waiters[i] = t /\ slot[t] = "granted"
        /\ IF value > 0
           THEN WakeUpNext(value, RemoveAt(waiters, i), [slot EXCEPT ![t] = "held"])
           ELSE /\ value' = value /\ waiters' = RemoveAt(waiters, i)
                /\ slot' = [slot EXCEPT ![t] = "held"]
  BY DEF Resume
<1> DEFINE s == [slot EXCEPT ![t] = "held"]
<1>2. value \in Nat /\ slot \in [Tasks -> SlotState] /\ "held" \in SlotState \ {"waiting", "granted"}
  BY WorkersAssumption DEF PoolInv, PoolTypeOK, SlotState
<1>3. s[t] = "held" /\ \A u \in Tasks \ {t} : s[u] = slot[u]
  BY <1>2
<1> HIDE DEF s
<1>4. value + Cardinality(Using(s)) = Workers
  <2>1. Using(s) = Using(slot)
    BY <1>1, <1>3 DEF Using
  <2> QED BY <2>1, ConservedAsUsing DEF PoolInv
<1>5. inFlight' = Cardinality(Holding(s))
  <2>1. Cardinality(Holding(s)) = Cardinality(Holding(slot)) + 1
    BY <1>1, <1>3, HoldingGrows
  <2> QED BY <2>1, InFlightAsHolding DEF PoolInv, Resume
<1>6. CASE value > 0
  <2>1. value \in Nat \ {0} /\ WakeUpNext(value, RemoveAt(waiters, i), [slot EXCEPT ![waiters[i]] = "held"])
    BY <1>1, <1>2, <1>6
  <2> QED BY <1>1, <1>2, <1>4, <1>5, <2>1, DepartureKeepsInvariant DEF s
<1>7. CASE ~ (value > 0)
  <2>1. value = 0
    BY <1>2, <1>7
  <2>2. value' = value /\ waiters' = RemoveAt(waiters, i) /\ slot' = s
    BY <1>1, <1>7 DEF s
  <2>3. slot' = [slot EXCEPT ![waiters[i]] = "held"]
    BY <1>1, <2>2 DEF s
  <2>4. value + Cardinality(Using(slot')) = Workers /\ inFlight' = Cardinality(Holding(slot'))
    BY <1>4, <1>5, <2>2
  <2>5. value = 0 \/ (slot[waiters[i]] = "waiting" /\ waiters[i] \in cancelled)
    BY <2>1
  <2>6. value' = value /\ waiters' = RemoveAt(waiters, i)
    BY <2>2
  <2> QED BY <1>2, <2>3, <2>4, <2>5, <2>6, QuietDepartureKeepsInvariant
<1> QED BY <1>6, <1>7

\* CancelledError reaches a queued task; a grant it had is passed on.
LEMMA AbandonKeepsInvariant ==
  ASSUME PoolInv, NEW t \in Tasks, Abandon(t), UNCHANGED cancelled
  PROVE  PoolInv'
<1> DEFINE s == [slot EXCEPT ![t] = "done"]
<1>1. PICK i \in DOMAIN waiters :
        /\ waiters[i] = t
        /\ \/ /\ slot[t] = "waiting"
              /\ value' = value /\ waiters' = RemoveAt(waiters, i) /\ slot' = s
           \/ /\ slot[t] = "granted"
              /\ WakeUpNext(value + 1, RemoveAt(waiters, i), s)
  BY DEF Abandon
<1>2. value \in Nat /\ slot \in [Tasks -> SlotState] /\ "done" \in SlotState \ {"waiting", "granted"}
  BY WorkersAssumption DEF PoolInv, PoolTypeOK, SlotState
<1>3. s[t] = "done" /\ \A u \in Tasks \ {t} : s[u] = slot[u]
  BY <1>2
<1>4. s = [slot EXCEPT ![waiters[i]] = "done"]
  BY <1>1
<1> HIDE DEF s
<1>5. inFlight' = Cardinality(Holding(s))
  <2>1. Holding(s) = Holding(slot)
    BY <1>1, <1>3 DEF Holding
  <2> QED BY <2>1, InFlightAsHolding DEF PoolInv, Abandon
<1>6. CASE /\ slot[t] = "waiting"
           /\ value' = value /\ waiters' = RemoveAt(waiters, i) /\ slot' = s
  <2>1. Using(s) = Using(slot)
    BY <1>3, <1>6 DEF Using
  <2>2. value + Cardinality(Using(slot')) = Workers
    BY <1>6, <2>1, ConservedAsUsing DEF PoolInv
  <2>3. waiters[i] \in cancelled /\ slot[waiters[i]] = "waiting"
    BY <1>1, <1>6 DEF Abandon
  <2> QED BY <1>2, <1>4, <1>5, <1>6, <2>2, <2>3, QuietDepartureKeepsInvariant
<1>7. CASE /\ slot[t] = "granted"
           /\ WakeUpNext(value + 1, RemoveAt(waiters, i), s)
  <2>1. Cardinality(Using(s)) = Cardinality(Using(slot)) - 1
    <3>1. t \in Using(slot) /\ t \notin Using(s)
      BY <1>3, <1>7 DEF Using
    <3> QED BY <1>3, <3>1, UsingShrinks
  <2>2. value + 1 \in Nat \ {0} /\ (value + 1) + Cardinality(Using(s)) = Workers
    BY <1>2, <2>1, ConservedAsUsing, UsingIsFinite DEF PoolInv
  <2> QED BY <1>2, <1>4, <1>5, <1>7, <2>2, DepartureKeepsInvariant
<1> QED BY <1>1, <1>6, <1>7

\* submit()'s finally block: the slot goes to the next waiter or becomes free.
LEMMA ReleaseKeepsInvariant ==
  ASSUME PoolInv, NEW t \in Tasks, Release(t), UNCHANGED cancelled
  PROVE  PoolInv'
<1> DEFINE s == [slot EXCEPT ![t] = "done"]
<1>1. slot[t] = "held" /\ inFlight' = inFlight - 1 /\ WakeUpNext(value + 1, waiters, s)
  BY DEF Release
<1>2. /\ value \in Nat /\ slot \in [Tasks -> SlotState] /\ waiters \in Seq(Tasks)
      /\ s \in [Tasks -> SlotState]
  BY WorkersAssumption DEF PoolInv, PoolTypeOK, SlotState
<1>3. s[t] = "done" /\ \A u \in Tasks \ {t} : s[u] = slot[u]
  BY <1>2
<1> HIDE DEF s
<1>4. Cardinality(Using(s)) = Cardinality(Using(slot)) - 1
  <2>1. t \in Using(slot) /\ t \notin Using(s)
    BY <1>1, <1>3 DEF Using
  <2> QED BY <1>3, <2>1, UsingShrinks
<1>5. value + 1 \in Nat \ {0} /\ (value + 1) + Cardinality(Using(s)) = Workers
  BY <1>2, <1>4, ConservedAsUsing, UsingIsFinite DEF PoolInv
<1>6. inFlight' = Cardinality(Holding(s))
  <2>1. Cardinality(Holding(s)) = Cardinality(Holding(slot)) - 1
    BY <1>1, <1>3, HoldingShrinks
  <2> QED BY <1>1, <2>1, InFlightAsHolding DEF PoolInv
<1>7. /\ \A i \in DOMAIN waiters : s[waiters[i]] \in {"waiting", "granted"}
      /\ \A u \in Tasks : s[u] \in {"waiting", "granted"} => \E i \in DOMAIN waiters : waiters[i] = u
      /\ \A i, j \in DOMAIN waiters : waiters[i] = waiters[j] => i = j
  BY <1>1, <1>2, <1>3 DEF PoolInv, DequeComplete, NoDuplicates, In
<1>8. /\ value' \in 0..Workers
      /\ waiters' \in Seq(Tasks)
      /\ slot' \in [Tasks -> SlotState]
      /\ SlotsConserved'
      /\ Holding(slot') = Holding(s)
      /\ DequeComplete'
      /\ NoDuplicates'
      /\ NoLostWakeup'
  BY <1>1, <1>2, <1>5, <1>7, WakeUpKeepsInvariant DEF PoolInv
<1>9. InFlightExact' /\ inFlight' \in 0..Workers
  BY <1>5, <1>6, <1>8, InFlightAsHolding, HoldingProperties, UsingIsFinite, WorkersAssumption
<1>10. PoolTypeOK'
  BY <1>8, <1>9 DEF PoolInv, PoolTypeOK
<1> QED BY <1>8, <1>9, <1>10 DEF PoolInv

LEMMA CancelKeepsInvariant ==
  ASSUME PoolInv, NEW C \in SUBSET Tasks, RequestCancel(C)
  PROVE  PoolInv'
<1>1. UNCHANGED poolVars /\ cancelled' = cancelled \cup C
  BY DEF RequestCancel
<1>2. Pending' \subseteq Pending /\ In("granted")' = In("granted")
  BY <1>1 DEF Pending, In, poolVars
<1> QED BY <1>1, <1>2
        DEF PoolInv, PoolTypeOK, SlotsConserved, InFlightExact, DequeComplete,
            NoDuplicates, NoLostWakeup, In, poolVars

LEMMA InitEstablishesInvariant == PoolInit => PoolInv
<1> SUFFICES ASSUME PoolInit PROVE PoolInv
  OBVIOUS
<1>1. Using(slot) = {} /\ Holding(slot) = {} /\ DOMAIN waiters = {}
  BY DEF PoolInit, Using, Holding
<1>2. SlotsConserved /\ InFlightExact
  <2>1. Cardinality(Using(slot)) = 0 /\ Cardinality(Holding(slot)) = 0
    BY <1>1, FS_EmptySet
  <2>2. value + Cardinality(Using(slot)) = Workers /\ inFlight = Cardinality(Holding(slot))
    BY <2>1, WorkersAssumption DEF PoolInit
  <2> QED BY <2>2, ConservedAsUsing, InFlightAsHolding
<1>3. DequeComplete /\ NoDuplicates /\ NoLostWakeup
  BY <1>1 DEF PoolInit, DequeComplete, NoDuplicates, NoLostWakeup, In, Pending
<1>4. PoolTypeOK
  BY WorkersAssumption DEF PoolInit, PoolTypeOK, SlotState
<1> QED BY <1>2, <1>3, <1>4 DEF PoolInv

LEMMA StepKeepsInvariant ==
  ASSUME PoolInv, [PoolNext]_<<poolVars, cancelled>>
  PROVE  PoolInv'
<1>1. ASSUME NEW t \in Tasks, PoolStep(t) PROVE PoolInv'
  BY <1>1, AcquireKeepsInvariant, ResumeKeepsInvariant, AbandonKeepsInvariant,
     ReleaseKeepsInvariant DEF PoolStep
<1>2. ASSUME NEW C \in SUBSET Tasks, RequestCancel(C) PROVE PoolInv'
  BY <1>2, CancelKeepsInvariant
<1>3. CASE UNCHANGED <<poolVars, cancelled>>
  BY <1>3 DEF PoolInv, PoolTypeOK, SlotsConserved, InFlightExact, DequeComplete,
              NoDuplicates, NoLostWakeup, Pending, In, poolVars
<1> QED BY <1>1, <1>2, <1>3 DEF PoolNext

\* PoolInv holds in every reachable state, for every set of tasks, every pool
\* size and every pattern of cancellations.
THEOREM PoolInvariant == PoolSpec => []PoolInv
<1>1. PoolInv /\ [PoolNext]_<<poolVars, cancelled>> => PoolInv'
  BY StepKeepsInvariant
<1> QED BY <1>1, InitEstablishesInvariant, PTL DEF PoolSpec

\* WorkerPool's state has its type.
THEOREM PoolTypeCorrect == PoolSpec => []PoolTypeOK
<1>1. PoolInv => PoolTypeOK
  BY DEF PoolInv
<1> QED BY <1>1, PoolInvariant, PTL

\* No slot leaks: whatever the interleaving of grants, releases and
\* cancellations, every slot of the semaphore is free, granted or in use.
THEOREM SlotsNeverLeak == PoolSpec => []SlotsConserved
<1>1. PoolInv => SlotsConserved
  BY DEF PoolInv
<1> QED BY <1>1, PoolInvariant, PTL

\* The deque holds the tasks awaiting a slot, all of them and once each.
THEOREM DequeIsExact == PoolSpec => []DequeExact
<1>1. PoolInv => DequeExact
  BY DEF PoolInv, DequeComplete, NoDuplicates, DequeExact
<1> QED BY <1>1, PoolInvariant, PTL

\* in_flight counts exactly the calls in progress.
THEOREM InFlightCountsCalls == PoolSpec => []InFlightExact
<1>1. PoolInv => InFlightExact
  BY DEF PoolInv
<1> QED BY <1>1, PoolInvariant, PTL

\* No wake-up is lost: a free slot and a pending waiter never coexist without a
\* granted task on its way to wake that waiter.
THEOREM NoWakeupIsLost == PoolSpec => []NoLostWakeup
<1>1. PoolInv => NoLostWakeup
  BY DEF PoolInv
<1> QED BY <1>1, PoolInvariant, PTL

-------------------------------------------------------------------------------
(***************************************************************************)
(* The order of the grants                                                 *)
(***************************************************************************)

\* GrantsInOrder of a deque and slots that a step is still working on.
Ordered(q, s) ==
  \A i, j \in DOMAIN q :
    i < j /\ s[q[j]] = "granted" => ~ (s[q[i]] = "waiting" /\ q[i] \notin cancelled)

Distinct(q) == \A i, j \in DOMAIN q : q[i] = q[j] => i = j

LEMMA OrderOfTheDeque ==
  ASSUME waiters \in Seq(Tasks)
  PROVE  GrantsInOrder <=> Ordered(waiters, slot)
BY DEF GrantsInOrder, Ordered, Pending, In

\* _wake_up_next grants to the oldest pending waiter, so nobody is overtaken.
LEMMA WakeUpKeepsOrder ==
  ASSUME NEW v, NEW q \in Seq(Tasks), NEW s \in [Tasks -> SlotState],
         Distinct(q), Ordered(q, s), WakeUpNext(v, q, s), UNCHANGED cancelled
  PROVE  GrantsInOrder'
<1> DEFINE pendingAt(i) == s[q[i]] = "waiting" /\ q[i] \notin cancelled
<1>1. waiters' = q
  BY DEF WakeUpNext
<1>2. CASE slot' = s
  BY <1>1, <1>2 DEF GrantsInOrder, Ordered, Pending, In
<1>3. ASSUME NEW k \in DOMAIN q, pendingAt(k), \A j \in 1..(k - 1) : ~ pendingAt(j),
             slot' = [s EXCEPT ![q[k]] = "granted"]
      PROVE  GrantsInOrder'
  <2> SUFFICES ASSUME NEW i \in DOMAIN q, NEW j \in DOMAIN q,
                      i < j, slot'[q[j]] = "granted", slot'[q[i]] = "waiting",
                      q[i] \notin cancelled
               PROVE  FALSE
    BY <1>1 DEF GrantsInOrder, Pending, In
  <2>1. q[i] \in Tasks /\ q[j] \in Tasks /\ q[k] \in Tasks
    OBVIOUS
  <2>2. q[i] # q[k] /\ s[q[i]] = "waiting"
    BY <1>3, <2>1
  <2>3. pendingAt(i)
    BY <2>2
  <2>4. CASE j = k
    BY <1>3, <2>3, <2>4
  <2>5. CASE j # k
    <3>1. s[q[j]] = "granted"
      BY <1>3, <2>1, <2>5 DEF Distinct
    <3> QED BY <2>3, <3>1 DEF Ordered
  <2> QED BY <2>4, <2>5
<1> QED BY <1>2, <1>3 DEF WakeUpNext

\* A task that leaves the deque leaves the others in their order.
LEMMA LeavingKeepsOrder ==
  ASSUME PoolInv, GrantsInOrder, NEW i \in DOMAIN waiters, NEW x \in SlotState
  PROVE  LET q == RemoveAt(waiters, i)
             s == [slot EXCEPT ![waiters[i]] = x]
         IN  q \in Seq(Tasks) /\ s \in [Tasks -> SlotState] /\ Distinct(q) /\ Ordered(q, s)
<1> DEFINE q == RemoveAt(waiters, i)
           s == [slot EXCEPT ![waiters[i]] = x]
<1>1. waiters \in Seq(Tasks) /\ slot \in [Tasks -> SlotState]
  BY DEF PoolInv, PoolTypeOK
<1>2. /\ q \in Seq(Tasks) /\ Len(q) = Len(waiters) - 1
      /\ \A j \in 1..Len(q) : q[j] = IF j < i THEN waiters[j] ELSE waiters[j + 1]
  <2>1. i \in 1..Len(waiters)
    BY <1>1
  <2>2. /\ q \in Seq(Tasks) /\ Len(q) = Len(waiters) - 1
        /\ \A j \in 1..(Len(waiters) - 1) :
             q[j] = IF j < i THEN waiters[j] ELSE waiters[j + 1]
    BY <1>1, <2>1, RemoveAtProperties
  <2> HIDE DEF q
  <2> QED BY <2>2
<1>3. s \in [Tasks -> SlotState]
  BY <1>1
<1> DEFINE old(j) == IF j < i THEN j ELSE j + 1
<1>4. \A j \in 1..Len(q) : old(j) \in DOMAIN waiters /\ old(j) # i /\ q[j] = waiters[old(j)]
  BY <1>1, <1>2
<1>5. \A j, k \in 1..Len(q) : (j < k => old(j) < old(k)) /\ (old(j) = old(k) => j = k)
  BY <1>1, <1>2
<1>6. DOMAIN q = 1..Len(q)
  BY <1>2
<1> HIDE DEF q, old
<1>7. \A j \in 1..Len(q) : q[j] \in Tasks /\ q[j] # waiters[i]
  BY <1>1, <1>2, <1>4 DEF PoolInv, NoDuplicates
<1>8. \A j \in 1..Len(q) : s[q[j]] = slot[waiters[old(j)]]
  BY <1>1, <1>4, <1>7
<1>9. Distinct(q)
  BY <1>4, <1>5, <1>6 DEF Distinct, PoolInv, NoDuplicates
<1> HIDE DEF s
<1>10. Ordered(waiters, slot)
  BY <1>1, OrderOfTheDeque
<1>11. Ordered(q, s)
  <2> SUFFICES ASSUME NEW j \in 1..Len(q), NEW k \in 1..Len(q),
                      j < k, s[q[k]] = "granted", s[q[j]] = "waiting",
                      q[j] \notin cancelled
               PROVE  FALSE
    BY <1>6 DEF Ordered
  <2>1. /\ old(j) \in DOMAIN waiters /\ old(k) \in DOMAIN waiters /\ old(j) < old(k)
        /\ slot[waiters[old(k)]] = "granted" /\ slot[waiters[old(j)]] = "waiting"
        /\ waiters[old(j)] \notin cancelled
    BY <1>4, <1>5, <1>8
  <2> QED BY <1>10, <2>1 DEF Ordered
<1> QED BY <1>2, <1>3, <1>9, <1>11 DEF q, s

LEMMA StepKeepsOrder ==
  ASSUME PoolInv, GrantsInOrder, [PoolNext]_<<poolVars, cancelled>>
  PROVE  GrantsInOrder'
<1>1. waiters \in Seq(Tasks) /\ slot \in [Tasks -> SlotState] /\ Ordered(waiters, slot)
  BY OrderOfTheDeque DEF PoolInv, PoolTypeOK
<1>2. CASE UNCHANGED <<poolVars, cancelled>>
  BY <1>2 DEF poolVars, GrantsInOrder, Pending, In
<1>3. ASSUME NEW C \in SUBSET Tasks, RequestCancel(C)
      PROVE  GrantsInOrder'
  BY <1>3 DEF RequestCancel, poolVars, GrantsInOrder, Pending, In
<1>4. ASSUME NEW t \in Tasks, Acquire(t), UNCHANGED cancelled
      PROVE  GrantsInOrder'
  <2>1. CASE waiters' = waiters /\ slot' = [slot EXCEPT ![t] = "held"]
    BY <1>1, <1>4, <2>1 DEF Ordered, GrantsInOrder, Pending, In
  <2>2. CASE waiters' = Append(waiters, t) /\ slot' = [slot EXCEPT ![t] = "waiting"]
    <3>1. slot[t] = "idle"
      BY <1>4 DEF Acquire
    <3>2. \A k \in DOMAIN waiters : waiters[k] # t
      BY <3>1 DEF PoolInv, DequeComplete
    <3> SUFFICES ASSUME NEW i \in DOMAIN waiters', NEW j \in DOMAIN waiters',
                        i < j, slot'[waiters'[j]] = "granted",
                        slot'[waiters'[i]] = "waiting", waiters'[i] \notin cancelled
                 PROVE  FALSE
      BY <1>4 DEF GrantsInOrder, Pending, In
    <3>3. j # Len(waiters) + 1
      BY <1>1, <2>2
    <3>4. /\ i \in DOMAIN waiters /\ j \in DOMAIN waiters
          /\ waiters'[i] = waiters[i] /\ waiters'[j] = waiters[j]
      BY <1>1, <2>2, <3>3
    <3>5. slot[waiters[j]] = "granted" /\ slot[waiters[i]] = "waiting"
      BY <1>1, <2>2, <3>2, <3>4
    <3> QED BY <1>1, <3>4, <3>5 DEF Ordered
  <2> QED BY <1>4, <2>1, <2>2 DEF Acquire
<1>5. ASSUME NEW q \in Seq(Tasks), NEW s \in [Tasks -> SlotState],
             Distinct(q), Ordered(q, s), waiters' = q, slot' = s, UNCHANGED cancelled
      PROVE  GrantsInOrder'
  <2> SUFFICES ASSUME NEW i \in DOMAIN q, NEW j \in DOMAIN q,
                      i < j, s[q[j]] = "granted", s[q[i]] = "waiting", q[i] \notin cancelled
               PROVE  FALSE
    BY <1>5 DEF GrantsInOrder, Pending, In
  <2> QED BY <1>5 DEF Ordered
<1>6. ASSUME NEW t \in Tasks, Resume(t), UNCHANGED cancelled
      PROVE  GrantsInOrder'
  <2>1. PICK i \in DOMAIN waiters :
          LET q == RemoveAt(waiters, i)
              s == [slot EXCEPT ![waiters[i]] = "held"]
          IN  WakeUpNext(value, q, s) \/ (waiters' = q /\ slot' = s)
    BY <1>6 DEF Resume
  <2> QED BY <1>5, <1>6, <2>1, LeavingKeepsOrder, WakeUpKeepsOrder DEF SlotState
<1>7. ASSUME NEW t \in Tasks, Abandon(t), UNCHANGED cancelled
      PROVE  GrantsInOrder'
  <2>1. PICK i \in DOMAIN waiters :
          LET q == RemoveAt(waiters, i)
              s == [slot EXCEPT ![waiters[i]] = "done"]
          IN  WakeUpNext(value + 1, q, s) \/ (waiters' = q /\ slot' = s)
    BY <1>7 DEF Abandon
  <2> QED BY <1>5, <1>7, <2>1, LeavingKeepsOrder, WakeUpKeepsOrder DEF SlotState
<1>8. ASSUME NEW t \in Tasks, Release(t), UNCHANGED cancelled
      PROVE  GrantsInOrder'
  <2> DEFINE s == [slot EXCEPT ![t] = "done"]
  <2>1. s \in [Tasks -> SlotState] /\ WakeUpNext(value + 1, waiters, s)
    BY <1>1, <1>8 DEF Release, SlotState
  <2>2. Distinct(waiters)
    BY DEF PoolInv, NoDuplicates, Distinct
  <2>3. Ordered(waiters, s)
    BY <1>1 DEF Ordered
  <2> QED BY <1>1, <1>8, <2>1, <2>2, <2>3, WakeUpKeepsOrder
<1> QED BY <1>2, <1>3, <1>4, <1>6, <1>7, <1>8 DEF PoolNext, PoolStep

\* Slots go to the windows in the order they asked: a granted waiter never has a
\* pending one before it in the deque (WorkerPool.submit on asyncio.Semaphore).
THEOREM SlotsGrantedInOrder == PoolSpec => []GrantsInOrder
<1>1. PoolInit => PoolInv /\ GrantsInOrder
  BY InitEstablishesInvariant DEF PoolInit, GrantsInOrder
<1>2. PoolInv /\ GrantsInOrder /\ [PoolNext]_<<poolVars, cancelled>>
        => (PoolInv /\ GrantsInOrder)'
  BY StepKeepsInvariant, StepKeepsOrder
<1> QED BY <1>1, <1>2, PTL DEF PoolSpec
===============================================================================

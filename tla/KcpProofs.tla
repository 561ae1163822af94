------------------------------- MODULE KcpProofs -------------------------------
(***************************************************************************)
(* A session's messages, both ways.  Out: an observer and the KCP peer get *)
(* every one exactly once, for any number of emitting tasks, observers and *)
(* messages, and any size of the replay buffer.  In: the framer cuts every *)
(* stream into the messages it was made of, for all sizes of theirs.       *)
(***************************************************************************)
EXTENDS Fanout, Framing, DataLemmas

-------------------------------------------------------------------------------
(***************************************************************************)
(* The invariant of the fan-out                                            *)
(***************************************************************************)
Emission == [msg : Nat, todo : Seq(Observers), dead : SUBSET Observers]

FanoutTypes ==
  /\ emitSeq \in Nat /\ cut \subseteq Nat
  /\ replay \in Seq(1..emitSeq)
  /\ observers \subseteq Observers /\ broken \subseteq Observers
  /\ emitting \in [Emitters -> Emission]
  /\ handler \in [Observers -> {"none", "accepting", "replaying", "reading", "left"}]
  /\ backlog \in [Observers -> Seq(Nat)]
  /\ got \in [Observers -> Seq(Nat)]
  /\ joinedAt \in [Observers -> Nat]

\* The observers that joined, whether or not they are still there.
Joined == {o \in Observers : handler[o] \notin {"none", "accepting"}}

\* An emission has somebody to go, everybody once, and only drops broken sockets.
EmissionWell(em) ==
  /\ em.msg \in 1..emitSeq
  /\ em.todo # <<>> /\ IsInjective(em.todo) /\ ToSet(em.todo) \subseteq Joined
  /\ em.dead \subseteq broken

EmissionInv ==
  /\ \A e \in Emitters : emitting[e] = NotEmitting \/ EmissionWell(emitting[e])
  /\ \A e, f \in Emitters :
       emitting[e].msg = emitting[f].msg => e = f \/ emitting[e] = NotEmitting

\* The buffer holds the latest messages without a gap.
ReplayInv ==
  /\ Len(replay) <= emitSeq
  /\ \A i \in DOMAIN replay : replay[i] = emitSeq - Len(replay) + i

\* Where the messages for o are: sent, to be replayed, on their way.
Apart(o) ==
  /\ ToSet(got[o]) \cap ToSet(backlog[o]) = {}
  /\ ToSet(got[o]) \cap Coming(o) = {}
  /\ ToSet(backlog[o]) \cap Coming(o) = {}

Owed(o) == (joinedAt[o]..emitSeq) \ cut \subseteq ToSet(got[o]) \cup ToSet(backlog[o]) \cup Coming(o)

ObserverInv(o) ==
  /\ IsInjective(got[o]) /\ IsInjective(backlog[o])
  /\ ToSet(got[o]) \subseteq 1..emitSeq /\ ToSet(backlog[o]) \subseteq 1..emitSeq
  /\ Apart(o)
  /\ o \notin Joined => got[o] = <<>> /\ backlog[o] = <<>>
  /\ Live(o) => o \in observers /\ Owed(o)

FanoutInv ==
  /\ FanoutTypes
  /\ observers \subseteq Joined
  /\ EmissionInv /\ ReplayInv
  /\ \A o \in Observers : ObserverInv(o)

LEMMA FanoutInitial == FanoutInit => FanoutInv
<1> SUFFICES ASSUME FanoutInit
             PROVE  FanoutInv
  OBVIOUS
<1>1. FanoutTypes
  BY DEF FanoutInit, FanoutTypes, NotEmitting, Emission
<1>2. observers \subseteq Joined /\ EmissionInv /\ ReplayInv
  BY DEF FanoutInit, EmissionInv, ReplayInv
<1>3. ASSUME NEW o \in Observers
      PROVE  ObserverInv(o)
  <2>1. got[o] = <<>> /\ backlog[o] = <<>> /\ handler[o] = "none"
    BY DEF FanoutInit
  <2>2. ToSet(got[o]) = {} /\ ToSet(backlog[o]) = {} /\ IsInjective(got[o]) /\ IsInjective(backlog[o])
    BY <2>1 DEF ToSet, IsInjective
  <2> QED BY <2>1, <2>2 DEF ObserverInv, Apart, Live
<1> QED BY <1>1, <1>2, <1>3 DEF FanoutInv

LEMMA FanoutStutters ==
  ASSUME FanoutInv, UNCHANGED fanoutVars
  PROVE  FanoutInv'
BY DEF FanoutInv, fanoutVars, emitVars, handlerVars, FanoutTypes, EmissionInv, EmissionWell,
       ReplayInv, ObserverInv, Apart, Owed, Coming, Live, Joined

-------------------------------------------------------------------------------
(***************************************************************************)
(* What is on its way                                                      *)
(***************************************************************************)

\* A message is on its way to o as long as o is among the ones to go.
LEMMA ComingAre ==
  ASSUME NEW o \in Observers, NEW m
  PROVE  m \in Coming(o) <=> \E e \in Emitters : emitting[e].msg = m /\ o \in ToSet(emitting[e].todo)
BY DEF Coming

LEMMA ComingAreNext ==
  ASSUME NEW o \in Observers, NEW m
  PROVE  m \in Coming(o)' <=> \E e \in Emitters : emitting'[e].msg = m /\ o \in ToSet(emitting'[e].todo)
BY DEF Coming

\* Nothing is on its way that was not emitted, nor to anybody who did not join.
LEMMA ComingBounded ==
  ASSUME FanoutTypes, EmissionInv, NEW o \in Observers
  PROVE  Coming(o) \subseteq 1..emitSeq /\ (o \notin Joined => Coming(o) = {})
<1>1. ToSet(NotEmitting.todo) = {}
  BY DEF NotEmitting, ToSet
<1> QED BY <1>1, ComingAre DEF EmissionInv, EmissionWell

-------------------------------------------------------------------------------
(***************************************************************************)
(* Steps of a handler                                                      *)
(***************************************************************************)

\* What the handler of o does changes nothing for the other observers.
LEMMA OthersKeep ==
  ASSUME FanoutInv, NEW o \in Observers, NEW x \in Observers, x # o,
         UNCHANGED <<emitSeq, emitting, cut>>, UNCHANGED <<got[x], backlog[x], handler[x], joinedAt[x]>>,
         x \in broken => x \in broken', x \in observers => x \in observers'
  PROVE  ObserverInv(x)'
<1>1. ObserverInv(x) /\ Coming(x)' = Coming(x)
  BY DEF FanoutInv, Coming
<1>2. Live(x)' => Live(x)
  BY DEF Live
<1>3. x \in Joined' <=> x \in Joined
  BY DEF Joined
<1>4. Apart(x)' /\ (Owed(x) => Owed(x)')
  BY <1>1 DEF ObserverInv, Apart, Owed
<1> QED BY <1>1, <1>2, <1>3, <1>4 DEF ObserverInv

LEMMA JoinKeeps ==
  ASSUME FanoutInv, NEW o \in Observers, Join(o)
  PROVE  FanoutInv'
<1> USE DEF Join, emitVars, handlerVars
<1>1. FanoutTypes
  BY DEF FanoutInv
<1>2. handler' = [handler EXCEPT ![o] = "replaying"] /\ handler[o] = "accepting"
  BY DEF Join
<1>3. Joined' = Joined \cup {o} /\ o \notin Joined
  BY <1>1, <1>2 DEF Joined, FanoutTypes
<1>4. replay \in Seq(1..emitSeq) /\ emitSeq \in Nat
  BY <1>1 DEF FanoutTypes
<1>5. FanoutTypes'
  <2>1. joinedAt'[o] \in Nat
    <3>1. CASE replay = <<>>
      BY <1>1, <1>4, <3>1 DEF FanoutTypes
    <3>2. CASE replay # <<>>
      <4>1. Head(replay) \in 1..emitSeq
        BY <1>4, <3>2
      <4> QED BY <1>1, <3>2, <4>1 DEF FanoutTypes
    <3> QED BY <3>1, <3>2
  <2>2. replay \in Seq(Nat)
    BY <1>4
  <2> QED BY <1>1, <2>1, <2>2 DEF FanoutTypes
<1>6. EmissionInv' /\ ReplayInv' /\ (observers \subseteq Joined)'
  BY <1>3 DEF FanoutInv, EmissionInv, EmissionWell, ReplayInv
<1>7. ObserverInv(o)'
  <2>1. got'[o] = <<>> /\ backlog'[o] = replay
    BY <1>1, <1>3 DEF FanoutInv, ObserverInv, FanoutTypes
  <2>2. Coming(o)' = {}
    BY <1>1, <1>3, ComingBounded DEF FanoutInv, Coming
  <2>3. ToSet(got'[o]) = {} /\ IsInjective(got'[o])
    BY <2>1 DEF ToSet, IsInjective
  <2>4. Len(replay) \in Nat /\ DOMAIN replay = 1..Len(replay) /\ Len(replay) <= emitSeq
        /\ \A i \in DOMAIN replay : replay[i] = emitSeq - Len(replay) + i
    BY <1>4 DEF FanoutInv, ReplayInv
  <2>5. IsInjective(replay) /\ ToSet(replay) \subseteq 1..emitSeq
    BY <1>4, <2>4 DEF IsInjective, ToSet
  <2>6. joinedAt'[o]..emitSeq \subseteq ToSet(replay)
    <3>1. CASE replay = <<>>
      BY <1>1, <1>4, <3>1 DEF FanoutTypes
    <3>2. CASE replay # <<>>
      <4>1. joinedAt'[o] = emitSeq - Len(replay) + 1
        <5>1. joinedAt'[o] = replay[1]
          BY <1>1, <1>4, <3>2 DEF FanoutTypes
        <5>2. 1 \in DOMAIN replay
          BY <1>4, <2>4, <3>2
        <5> QED BY <2>4, <5>1, <5>2
      <4>2. ASSUME NEW m \in joinedAt'[o]..emitSeq
            PROVE  m \in ToSet(replay)
        <5>1. m - emitSeq + Len(replay) \in DOMAIN replay
          BY <1>4, <2>4, <4>1
        <5>2. replay[m - emitSeq + Len(replay)] = emitSeq - Len(replay) + (m - emitSeq + Len(replay))
          BY <2>4, <5>1
        <5>3. emitSeq - Len(replay) + (m - emitSeq + Len(replay)) = m
          BY <1>4, <2>4, <4>1
        <5> QED BY <5>1, <5>2, <5>3 DEF ToSet
      <4> QED BY <4>2
    <3> QED BY <3>1, <3>2
  <2>7. o \in observers' /\ o \in Joined'
    BY <1>3
  <2>8. UNCHANGED emitSeq
    OBVIOUS
  <2> QED BY <2>1, <2>2, <2>3, <2>5, <2>6, <2>7, <2>8 DEF ObserverInv, Apart, Owed
<1>8. ASSUME NEW x \in Observers, x # o
      PROVE  ObserverInv(x)'
  BY <1>1, <1>8, OthersKeep DEF FanoutTypes
<1> QED BY <1>5, <1>6, <1>7, <1>8 DEF FanoutInv
LEMMA ReplayKeeps ==
  ASSUME FanoutInv, NEW o \in Observers, Replay(o)
  PROVE  FanoutInv'
<1> USE DEF Replay, emitVars
<1>1. FanoutTypes /\ handler[o] = "replaying"
  BY DEF FanoutInv
<1>2. Joined' = Joined
  BY <1>1 DEF Joined, FanoutTypes
<1>3. UNCHANGED <<emitSeq, cut, replay, observers, broken, emitting, joinedAt>>
  OBVIOUS
<1>4. CASE UNCHANGED <<backlog, got>>
  <2>1. handler' = [handler EXCEPT ![o] = "reading"]
    BY <1>1, <1>4 DEF FanoutTypes
  <2>2. FanoutTypes'
    BY <1>1, <1>3, <1>4, <2>1 DEF FanoutTypes
  <2>3. EmissionInv' /\ ReplayInv' /\ (observers \subseteq Joined)'
    BY <1>2, <1>3 DEF FanoutInv, EmissionInv, EmissionWell, ReplayInv
  <2>4. ASSUME NEW x \in Observers
        PROVE  ObserverInv(x)'
    <3>1. Live(x)' => Live(x)
      BY <1>1, <1>3, <2>1 DEF Live, FanoutTypes
    <3>2. ObserverInv(x) /\ Coming(x)' = Coming(x)
      BY <1>3 DEF FanoutInv, Coming
    <3> QED BY <1>2, <1>3, <1>4, <3>1, <3>2 DEF ObserverInv, Apart, Owed
  <2> QED BY <2>2, <2>3, <2>4 DEF FanoutInv
<1>5. CASE backlog[o] # <<>> /\ got' = [got EXCEPT ![o] = Append(@, Head(backlog[o]))]
           /\ backlog' = [backlog EXCEPT ![o] = Tail(@)] /\ UNCHANGED handler
  <2> DEFINE m == Head(backlog[o])
  <2>1. got[o] \in Seq(Nat) /\ backlog[o] \in Seq(Nat) /\ ObserverInv(o)
    BY <1>1 DEF FanoutInv, FanoutTypes
  <2>2. m \in Nat /\ Tail(backlog[o]) \in Seq(Nat) /\ IsInjective(Tail(backlog[o]))
        /\ m \notin ToSet(Tail(backlog[o]))
        /\ ToSet(backlog[o]) = {m} \cup ToSet(Tail(backlog[o]))
    BY <1>5, <2>1, TakeHead DEF ObserverInv
  <2>3. m \notin ToSet(got[o])
    BY <2>1, <2>2 DEF ObserverInv, Apart
  <2>4. Append(got[o], m) \in Seq(Nat) /\ IsInjective(Append(got[o], m))
        /\ ToSet(Append(got[o], m)) = ToSet(got[o]) \cup {m}
    BY <2>1, <2>2, <2>3, AppendNew DEF ObserverInv
  <2>5. got'[o] = Append(got[o], m) /\ backlog'[o] = Tail(backlog[o])
    BY <1>1, <1>5 DEF FanoutTypes
  <2>6. FanoutTypes'
    BY <1>1, <1>3, <1>5, <2>2, <2>4 DEF FanoutTypes
  <2>7. EmissionInv' /\ ReplayInv' /\ (observers \subseteq Joined)'
    BY <1>2, <1>3 DEF FanoutInv, EmissionInv, EmissionWell, ReplayInv
  <2>8. ObserverInv(o)'
    <3>1. Coming(o)' = Coming(o) /\ Live(o)' = Live(o) /\ o \in Joined
      BY <1>1, <1>3, <1>5 DEF Coming, Live, Joined
    <3> QED BY <1>2, <1>3, <2>1, <2>2, <2>4, <2>5, <3>1 DEF ObserverInv, Apart, Owed
  <2>9. ASSUME NEW x \in Observers, x # o
        PROVE  ObserverInv(x)'
    BY <1>1, <1>3, <1>5, <2>9, OthersKeep DEF FanoutTypes
  <2> QED BY <2>6, <2>7, <2>8, <2>9 DEF FanoutInv
<1> QED BY <1>4, <1>5

\* Connecting, breaking and leaving move no message.
LEMMA HandlerKeeps ==
  ASSUME FanoutInv, NEW o \in Observers, Connect(o) \/ Breaks(o) \/ Leave(o)
  PROVE  FanoutInv'
<1>1. FanoutTypes
  BY DEF FanoutInv
<1>2. UNCHANGED <<emitSeq, cut, replay, emitting, got, backlog, joinedAt>>
  BY DEF Connect, Breaks, Leave, emitVars
<1>3. Joined' = Joined \/ (handler[o] = "none" /\ Joined' \subseteq Joined \cup {o})
  BY <1>1 DEF Connect, Breaks, Leave, Joined, FanoutTypes
<1>4. FanoutTypes'
  BY <1>1, <1>2 DEF Connect, Breaks, Leave, emitVars, FanoutTypes
<1>5. Joined \subseteq Joined' /\ observers' \subseteq observers /\ broken \subseteq broken'
  BY <1>1 DEF Connect, Breaks, Leave, emitVars, Joined, FanoutTypes
<1>6. EmissionInv' /\ ReplayInv' /\ (observers \subseteq Joined)'
  BY <1>2, <1>5 DEF FanoutInv, EmissionInv, EmissionWell, ReplayInv
<1>7. ASSUME NEW x \in Observers
      PROVE  ObserverInv(x)'
  <2>1. Live(x)' => Live(x) /\ (x \in observers => x \in observers')
    BY <1>1 DEF Connect, Breaks, Leave, emitVars, Live, FanoutTypes
  <2>2. x \notin Joined' => x \notin Joined
    BY <1>5
  <2>3. ObserverInv(x) /\ Coming(x)' = Coming(x)
    BY <1>2 DEF FanoutInv, Coming
  <2> QED BY <1>2, <2>1, <2>2, <2>3 DEF ObserverInv, Apart, Owed
<1> QED BY <1>4, <1>6, <1>7 DEF FanoutInv
-------------------------------------------------------------------------------
(***************************************************************************)
(* Steps of an emission                                                    *)
(***************************************************************************)

\* The buffer stays gapless: it takes the next message and drops the oldest.
LEMMA RememberKeeps ==
  ASSUME FanoutTypes, ReplayInv, emitSeq' = emitSeq + 1, Remember(emitSeq + 1)
  PROVE  ReplayInv' /\ replay' \in Seq(1..emitSeq')
<1> DEFINE kept == IF Len(replay) < ReplayMax THEN replay ELSE Tail(replay)
<1>1. emitSeq \in Nat /\ replay \in Seq(1..emitSeq) /\ ReplayMax \in Nat \ {0}
  BY FanoutAssumption DEF FanoutTypes
<1>2. Len(replay) \in Nat /\ DOMAIN replay = 1..Len(replay)
  BY <1>1
<1>3. kept \in Seq(1..emitSeq) /\ Len(kept) <= emitSeq /\ Len(kept) \in Nat
      /\ \A i \in 1..Len(kept) : kept[i] = emitSeq - Len(kept) + i
  <2>1. CASE Len(replay) < ReplayMax
    BY <1>1, <1>2, <2>1 DEF ReplayInv
  <2>2. CASE ~ (Len(replay) < ReplayMax)
    <3>1. replay # <<>>
      BY <1>1, <2>2
    <3>2. kept = Tail(replay) /\ kept \in Seq(1..emitSeq) /\ Len(kept) = Len(replay) - 1
          /\ \A i \in 1..Len(kept) : kept[i] = replay[i + 1]
      BY <1>1, <2>2, <3>1
    <3> HIDE DEF kept
    <3>3. Len(replay) \in Nat \ {0} /\ Len(replay) <= emitSeq
      BY <1>1, <1>2, <3>1 DEF ReplayInv
    <3>4. ASSUME NEW i \in 1..Len(kept)
          PROVE  kept[i] = emitSeq - Len(kept) + i
      <4>1. i + 1 \in DOMAIN replay
        BY <1>2, <3>2, <3>3
      <4>2. replay[i + 1] = emitSeq - Len(replay) + (i + 1)
        BY <4>1 DEF ReplayInv
      <4> QED BY <1>1, <3>2, <3>3, <4>2
    <3> QED BY <1>1, <3>2, <3>3, <3>4
  <2> QED BY <2>1, <2>2
<1>4. replay' = Append(kept, emitSeq + 1)
  BY DEF Remember
<1>5. kept \in Seq(1..(emitSeq + 1))
  BY <1>1, <1>3
<1>6. replay' \in Seq(1..emitSeq') /\ Len(replay') = Len(kept) + 1
      /\ replay'[Len(kept) + 1] = emitSeq + 1 /\ \A i \in 1..Len(kept) : replay'[i] = kept[i]
  BY <1>1, <1>4, <1>5
<1>7. DOMAIN replay' = 1..(Len(kept) + 1)
  <2>1. DOMAIN Append(kept, emitSeq + 1) = 1..(Len(kept) + 1)
    BY <1>3, <1>5
  <2> QED BY <1>4, <2>1
<1> HIDE DEF kept
<1>8. ASSUME NEW i \in DOMAIN replay'
      PROVE  replay'[i] = emitSeq' - Len(replay') + i
  <2>1. CASE i = Len(kept) + 1
    BY <1>1, <1>3, <1>6, <2>1
  <2>2. CASE i \in 1..Len(kept)
    BY <1>1, <1>3, <1>6, <2>2
  <2> QED BY <1>3, <1>7, <2>1, <2>2
<1>9. Len(replay') <= emitSeq'
  BY <1>1, <1>3, <1>6
<1> QED BY <1>6, <1>8, <1>9 DEF ReplayInv

\* Nobody observes: the message is numbered and remembered.
LEMMA EmitToNobody ==
  ASSUME FanoutInv, NEW e \in Emitters, Emit(e), observers = {}
  PROVE  FanoutInv'
<1>1. FanoutTypes /\ emitting[e] = NotEmitting
  BY DEF FanoutInv, Emit
<1>2. emitSeq' = emitSeq + 1 /\ Remember(emitSeq + 1)
      /\ UNCHANGED <<handler, backlog, broken, joinedAt, got, cut>>
  BY DEF Emit, handlerVars
<1>3. emitting' = emitting /\ observers' = {}
  BY <1>1 DEF Emit, Finish, FanoutTypes
<1>4. ReplayInv' /\ replay' \in Seq(1..emitSeq')
  BY <1>1, <1>2, RememberKeeps DEF FanoutInv
<1>5. FanoutTypes'
  BY <1>1, <1>2, <1>3, <1>4 DEF FanoutTypes
<1>6. \A m \in 1..emitSeq : m \in 1..emitSeq'
  BY <1>1, <1>2 DEF FanoutTypes
<1>7. EmissionInv'
  BY <1>2, <1>3, <1>6 DEF FanoutInv, EmissionInv, EmissionWell, Joined
<1>8. ASSUME NEW x \in Observers
      PROVE  ObserverInv(x)'
  <2>1. ObserverInv(x) /\ ~ Live(x)
    BY DEF FanoutInv, ObserverInv
  <2>2. ~ Live(x)' /\ Coming(x)' = Coming(x) /\ Joined' = Joined
    BY <1>2, <1>3, <2>1 DEF Live, Coming, Joined
  <2> QED BY <1>2, <1>6, <2>1, <2>2 DEF ObserverInv, Apart
<1> QED BY <1>3, <1>4, <1>5, <1>7, <1>8 DEF FanoutInv

LEMMA EmitToObservers ==
  ASSUME FanoutInv, NEW e \in Emitters, Emit(e), observers # {}
  PROVE  FanoutInv'
<1> DEFINE n == emitSeq + 1
<1>1. FanoutTypes /\ emitting[e] = NotEmitting
  BY DEF FanoutInv, Emit
<1>2. emitSeq' = n /\ Remember(n)
      /\ UNCHANGED <<observers, handler, backlog, broken, joinedAt, got, cut>>
  BY DEF Emit, handlerVars
<1>3. PICK order \in SetToSeqs(observers) :
        emitting' = [emitting EXCEPT ![e] = [msg |-> n, todo |-> order, dead |-> {}]]
  BY DEF Emit
<1>4. order \in Seq(Observers) /\ IsInjective(order) /\ ToSet(order) = observers
  <2>1. IsFiniteSet(observers)
    BY <1>1, FanoutAssumption, FS_Subset DEF FanoutTypes
  <2>2. order \in Seq(observers) /\ IsInjective(order) /\ ToSet(order) = observers
    BY <2>1, ListOfSet
  <2> QED BY <1>1, <2>2 DEF FanoutTypes
<1>5. order # <<>>
  BY <1>4 DEF ToSet
<1>6. ReplayInv' /\ replay' \in Seq(1..emitSeq')
  BY <1>1, <1>2, RememberKeeps DEF FanoutInv
<1>7. emitSeq \in Nat /\ n \in Nat /\ \A m \in 1..emitSeq : m \in 1..n /\ m # n
  BY <1>1 DEF FanoutTypes
<1> HIDE DEF n
<1>8. emitting'[e] = [msg |-> n, todo |-> order, dead |-> {}]
      /\ \A f \in Emitters \ {e} : emitting'[f] = emitting[f]
  BY <1>1, <1>3 DEF FanoutTypes
<1>9. FanoutTypes'
  <2>1. emitting' \in [Emitters -> Emission]
    BY <1>1, <1>3, <1>4, <1>7 DEF FanoutTypes, Emission
  <2> QED BY <1>1, <1>2, <1>6, <1>7, <2>1 DEF FanoutTypes
<1>10. Joined' = Joined /\ observers \subseteq Joined
  BY <1>2 DEF Joined, FanoutInv
<1>11. n \in 1..n /\ n # 0
  BY <1>7 DEF n
<1>12. EmissionInv'
  <2>1. ASSUME NEW f \in Emitters
        PROVE  emitting'[f] = NotEmitting \/ EmissionWell(emitting[f])'
    <3>1. CASE f = e
      BY <1>2, <1>4, <1>5, <1>8, <1>10, <1>11, <3>1 DEF EmissionWell
    <3>2. CASE f # e
      BY <1>2, <1>7, <1>8, <1>10, <3>2 DEF FanoutInv, EmissionInv, EmissionWell
    <3> QED BY <3>1, <3>2
  <2>2. \A f \in Emitters \ {e} : emitting'[f].msg # n
    BY <1>7, <1>8, <1>11 DEF FanoutInv, EmissionInv, EmissionWell, NotEmitting
  <2>3. ASSUME NEW f \in Emitters, NEW g \in Emitters,
               emitting'[f].msg = emitting'[g].msg, f # g
        PROVE  emitting'[f] = NotEmitting
    <3>1. f # e /\ g # e
      BY <1>8, <2>2, <2>3
    <3> QED BY <1>8, <2>3, <3>1 DEF FanoutInv, EmissionInv
  <2> QED BY <2>1, <2>3 DEF EmissionInv
<1>13. ASSUME NEW x \in Observers
       PROVE  ObserverInv(x)'
  <2>1. ObserverInv(x) /\ Coming(x) \subseteq 1..emitSeq
    BY <1>1, ComingBounded DEF FanoutInv
  <2>2. ToSet(NotEmitting.todo) = {}
    BY DEF NotEmitting, ToSet
  <2>3. Coming(x)' = IF x \in observers THEN Coming(x) \cup {n} ELSE Coming(x)
    <3>1. ASSUME NEW m
          PROVE  m \in Coming(x)' <=> m \in Coming(x) \/ (m = n /\ x \in observers)
      BY <1>1, <1>4, <1>8, <2>2, ComingAre, ComingAreNext
    <3> QED BY <3>1
  <2>4. n \notin ToSet(got[x]) /\ n \notin ToSet(backlog[x])
    BY <1>7, <2>1 DEF ObserverInv
  <2>5. Apart(x)'
    BY <1>2, <2>1, <2>3, <2>4 DEF ObserverInv, Apart
  <2>6. joinedAt[x]..n \subseteq (joinedAt[x]..emitSeq) \cup {n}
    BY <1>1, <1>7 DEF FanoutTypes, n
  <2>7. Live(x)' => x \in observers' /\ Owed(x)'
    <3>1. Live(x)' = Live(x)
      BY <1>2 DEF Live
    <3>2. ASSUME Live(x)
          PROVE  Owed(x)'
      <4>1. x \in observers /\ Owed(x)
        BY <2>1, <3>2 DEF ObserverInv
      <4> QED BY <1>2, <2>3, <2>6, <4>1 DEF Owed
    <3> QED BY <1>2, <2>1, <3>1, <3>2 DEF ObserverInv
  <2> QED BY <1>2, <1>7, <1>10, <2>1, <2>5, <2>7 DEF ObserverInv
<1> QED BY <1>2, <1>6, <1>9, <1>10, <1>12, <1>13 DEF FanoutInv

\* An emission goes on at e or ends there: whoever leaves its list is not on the
\* list of another task for the same message.
Advances(e) ==
  /\ emitting \in [Emitters -> Emission] /\ emitting' \in [Emitters -> Emission]
  /\ emitting[e] # NotEmitting
  /\ \A f \in Emitters \ {e} : emitting'[f] = emitting[f]
  /\ \/ emitting'[e] = NotEmitting
     \/ emitting'[e].msg = emitting[e].msg /\ EmissionWell(emitting[e])'
  /\ ToSet(emitting'[e].todo) \subseteq ToSet(emitting[e].todo)

Dropped(e) == ToSet(emitting[e].todo) \ ToSet(emitting'[e].todo)

LEMMA ComingAfter ==
  ASSUME EmissionInv, NEW e \in Emitters, Advances(e), NEW x \in Observers
  PROVE  Coming(x)' = IF x \in Dropped(e) THEN Coming(x) \ {emitting[e].msg} ELSE Coming(x)
<1> DEFINE m == emitting[e].msg
<1>1. ToSet(NotEmitting.todo) = {}
  BY DEF NotEmitting, ToSet
<1>2. ASSUME NEW f \in Emitters, f # e, emitting[f].msg = m
      PROVE  FALSE
  BY <1>2 DEF EmissionInv, Advances
<1>3. ASSUME NEW y, y # m
      PROVE  y \in Coming(x)' <=> y \in Coming(x)
  <2>1. ASSUME NEW f \in Emitters, emitting'[f].msg = y, x \in ToSet(emitting'[f].todo)
        PROVE  emitting[f].msg = y /\ x \in ToSet(emitting[f].todo)
    BY <1>1, <1>3, <2>1 DEF Advances
  <2>2. ASSUME NEW f \in Emitters, emitting[f].msg = y, x \in ToSet(emitting[f].todo)
        PROVE  emitting'[f].msg = y /\ x \in ToSet(emitting'[f].todo)
    BY <1>1, <1>3, <2>2 DEF Advances
  <2> QED BY <2>1, <2>2, ComingAre, ComingAreNext
<1>4. m \in Coming(x) <=> x \in ToSet(emitting[e].todo)
  BY <1>2, ComingAre
<1>5. m \in Coming(x)' <=> x \in ToSet(emitting'[e].todo)
  <2>1. x \in ToSet(emitting'[e].todo) => emitting'[e].msg = m
    BY <1>1 DEF Advances
  <2> QED BY <1>2, <2>1, ComingAreNext DEF Advances
<1>6. x \in ToSet(emitting'[e].todo) => x \in ToSet(emitting[e].todo)
  BY DEF Advances
<1> QED BY <1>3, <1>4, <1>5, <1>6 DEF Dropped

LEMMA EmissionsAfter ==
  ASSUME EmissionInv, NEW e \in Emitters, Advances(e), UNCHANGED <<emitSeq, handler, broken>>
  PROVE  EmissionInv'
<1>1. Joined' = Joined
  BY DEF Joined
<1>2. ASSUME NEW f \in Emitters
      PROVE  emitting'[f] = NotEmitting \/ EmissionWell(emitting[f])'
  BY <1>1 DEF EmissionInv, EmissionWell, Advances
<1>3. ASSUME NEW f \in Emitters, NEW g \in Emitters, emitting'[f].msg = emitting'[g].msg, f # g
      PROVE  emitting'[f] = NotEmitting
  <2>1. CASE emitting'[e] = NotEmitting
    <3>1. \A h \in Emitters : emitting'[h].msg = 0 => emitting'[h] = NotEmitting
      BY <1>2 DEF EmissionWell
    <3>2. CASE f = e \/ g = e
      BY <1>3, <2>1, <3>1, <3>2 DEF NotEmitting
    <3>3. CASE f # e /\ g # e
      BY <1>3, <3>3 DEF EmissionInv, Advances
    <3> QED BY <3>2, <3>3
  <2>2. CASE emitting'[e].msg = emitting[e].msg
    BY <1>3, <2>2 DEF EmissionInv, Advances
  <2> QED BY <2>1, <2>2 DEF Advances
<1> QED BY <1>2, <1>3 DEF EmissionInv

LEMMA SentKeeps ==
  ASSUME FanoutInv, NEW e \in Emitters, Sent(e)
  PROVE  FanoutInv'
<1> DEFINE em == emitting[e]
           o == Head(em.todo)
           rest == Tail(em.todo)
<1>1. FanoutTypes /\ EmissionInv /\ em # NotEmitting
  BY DEF FanoutInv, Sent
<1>2. em \in Emission /\ EmissionWell(em)
  BY <1>1 DEF FanoutTypes, EmissionInv
<1>3. o \in Observers /\ rest \in Seq(Observers) /\ IsInjective(rest)
      /\ o \notin ToSet(rest) /\ ToSet(em.todo) = {o} \cup ToSet(rest)
  <2>1. em.todo \in Seq(Observers) /\ em.todo # <<>> /\ IsInjective(em.todo)
    BY <1>2 DEF Emission, EmissionWell
  <2> QED BY <2>1, TakeHead
<1>4. PICK dead \in SUBSET broken :
        \/ /\ emitting' = [emitting EXCEPT ![e] = NotEmitting] /\ rest = <<>>
           /\ observers' = observers \ dead
        \/ /\ emitting' = [emitting EXCEPT ![e].todo = rest, ![e].dead = dead] /\ rest # <<>>
           /\ observers' = observers
  <2> DEFINE dead == IF o \in broken THEN em.dead \cup {o} ELSE em.dead
  <2>1. dead \in SUBSET broken
    BY <1>2 DEF EmissionWell
  <2> QED BY <2>1 DEF Sent, Finish, LeftToSend
<1>5. UNCHANGED <<emitSeq, replay, handler, backlog, broken, joinedAt, cut>>
      /\ got' = IF o \in broken THEN got ELSE [got EXCEPT ![o] = Append(@, em.msg)]
  BY DEF Sent, handlerVars
<1>6. em.msg \in Nat /\ em.msg \in 1..emitSeq
  BY <1>2 DEF Emission, EmissionWell
<1>7. emitting' \in [Emitters -> Emission] /\ emitting \in [Emitters -> Emission]
      /\ \A f \in Emitters \ {e} : emitting'[f] = emitting[f]
  <2>1. dead \in SUBSET Observers
    BY <1>1, <1>4 DEF FanoutTypes
  <2>2. NotEmitting \in Emission
    BY DEF NotEmitting, Emission
  <2>3. emitting \in [Emitters -> Emission]
    BY <1>1 DEF FanoutTypes
  <2>4. CASE emitting' = [emitting EXCEPT ![e] = NotEmitting]
    BY <2>2, <2>3, <2>4
  <2>5. CASE emitting' = [emitting EXCEPT ![e].todo = rest, ![e].dead = dead]
    <3>1. [em EXCEPT !.todo = rest, !.dead = dead] \in Emission
      BY <1>2, <1>3, <2>1 DEF Emission
    <3>2. emitting' = [emitting EXCEPT ![e] = [em EXCEPT !.todo = rest, !.dead = dead]]
      BY <2>3, <2>5
    <3> QED BY <2>3, <3>1, <3>2
  <2> QED BY <1>4, <2>3, <2>4, <2>5
<1>8. \/ emitting'[e] = NotEmitting /\ rest = <<>>
      \/ emitting'[e] = [msg |-> em.msg, todo |-> rest, dead |-> dead] /\ rest # <<>>
  BY <1>1, <1>2, <1>4 DEF FanoutTypes, Emission
<1> HIDE DEF em, o, rest
<1>9. emitting'[e].todo = rest
  BY <1>8 DEF NotEmitting
<1>10. Joined' = Joined
  BY <1>5 DEF Joined
<1>11. Advances(e)
  <2>1. rest # <<>> => EmissionWell(emitting[e])' /\ emitting'[e].msg = em.msg
    BY <1>2, <1>3, <1>4, <1>5, <1>8, <1>10 DEF EmissionWell
  <2>2. ToSet(emitting'[e].todo) \subseteq ToSet(emitting[e].todo)
    BY <1>3, <1>9 DEF em
  <2> QED BY <1>1, <1>7, <1>8, <2>1, <2>2 DEF Advances, em
<1>12. Dropped(e) = {o}
  BY <1>3, <1>9 DEF Dropped, em
<1>13. EmissionInv'
  BY <1>1, <1>5, <1>11, EmissionsAfter
<1>14. em.msg \in Coming(o)
  BY <1>3, ComingAre DEF em
<1>15. got[o] \in Seq(Nat) /\ ObserverInv(o)
  BY <1>1, <1>3 DEF FanoutInv, FanoutTypes
<1>16. em.msg \notin ToSet(got[o]) /\ em.msg \notin ToSet(backlog[o])
  BY <1>14, <1>15 DEF ObserverInv, Apart
<1>17. Append(got[o], em.msg) \in Seq(Nat) /\ IsInjective(Append(got[o], em.msg))
       /\ ToSet(Append(got[o], em.msg)) = ToSet(got[o]) \cup {em.msg}
  BY <1>6, <1>15, <1>16, AppendNew DEF ObserverInv
<1>18. FanoutTypes'
  <2>1. got' \in [Observers -> Seq(Nat)]
    BY <1>1, <1>3, <1>5, <1>17 DEF FanoutTypes
  <2> QED BY <1>1, <1>4, <1>5, <1>7, <2>1 DEF FanoutTypes
<1>19. observers' \subseteq observers /\ \A x \in observers : x \notin broken => x \in observers'
  BY <1>4
<1>20. ReplayInv' /\ (observers \subseteq Joined)'
  BY <1>5, <1>10, <1>19 DEF FanoutInv, ReplayInv
<1>21. ASSUME NEW x \in Observers
       PROVE  ObserverInv(x)'
  <2>1. ObserverInv(x) /\ Live(x)' = Live(x)
    BY <1>5 DEF FanoutInv, Live
  <2>2. Live(x) => x \in observers /\ x \in observers'
    BY <1>19, <2>1 DEF ObserverInv, Live
  <2>3. Coming(x)' = IF x = o THEN Coming(x) \ {em.msg} ELSE Coming(x)
    BY <1>1, <1>11, <1>12, ComingAfter DEF em
  <2>4. CASE x # o
    <3>1. got'[x] = got[x]
      BY <1>1, <1>5, <2>4 DEF FanoutTypes
    <3> QED BY <1>5, <1>10, <2>1, <2>2, <2>3, <2>4, <3>1 DEF ObserverInv, Apart, Owed
  <2>5. CASE x = o /\ o \in broken
    BY <1>5, <1>10, <2>1, <2>3, <2>5 DEF ObserverInv, Apart, Live
  <2>6. CASE x = o /\ o \notin broken
    <3>1. got'[x] = Append(got[o], em.msg)
      BY <1>1, <1>3, <1>5, <2>6 DEF FanoutTypes
    <3>2. o \in Joined
      BY <1>2, <1>3 DEF EmissionWell
    <3>3. Apart(x)'
      BY <1>5, <1>16, <1>17, <2>1, <2>3, <2>6, <3>1 DEF ObserverInv, Apart
    <3>4. Owed(x) => Owed(x)'
      BY <1>5, <1>17, <2>3, <2>6, <3>1 DEF Owed
    <3> QED BY <1>5, <1>6, <1>10, <1>17, <2>1, <2>2, <2>6, <3>1, <3>2, <3>3, <3>4 DEF ObserverInv
  <2> QED BY <2>4, <2>5, <2>6
<1> QED BY <1>13, <1>18, <1>20, <1>21 DEF FanoutInv

LEMMA CutKeeps ==
  ASSUME FanoutInv, NEW e \in Emitters, EmissionCut(e)
  PROVE  FanoutInv'
<1> DEFINE m == emitting[e].msg
<1>1. FanoutTypes /\ EmissionInv /\ emitting[e] # NotEmitting
  BY DEF FanoutInv, EmissionCut
<1>2. UNCHANGED <<emitSeq, replay, observers, handler, backlog, broken, joinedAt, got>>
      /\ cut' = cut \cup {m} /\ emitting' = [emitting EXCEPT ![e] = NotEmitting]
  BY DEF EmissionCut, handlerVars
<1>3. emitting' \in [Emitters -> Emission] /\ emitting \in [Emitters -> Emission] /\ m \in Nat
      /\ emitting'[e] = NotEmitting
      /\ \A f \in Emitters \ {e} : emitting'[f] = emitting[f]
  BY <1>1, <1>2 DEF FanoutTypes, NotEmitting, Emission
<1>4. Advances(e)
  <2>1. ToSet(NotEmitting.todo) = {}
    BY DEF NotEmitting, ToSet
  <2>2. ToSet(emitting'[e].todo) \subseteq ToSet(emitting[e].todo)
    BY <1>3, <2>1
  <2> QED BY <1>1, <1>3, <2>2 DEF Advances
<1>5. EmissionInv' /\ Joined' = Joined
  BY <1>1, <1>2, <1>4, EmissionsAfter DEF Joined
<1>6. FanoutTypes'
  BY <1>1, <1>2, <1>3 DEF FanoutTypes
<1>7. ReplayInv' /\ (observers \subseteq Joined)'
  BY <1>2, <1>5 DEF FanoutInv, ReplayInv
<1>8. ASSUME NEW x \in Observers
      PROVE  ObserverInv(x)'
  <2>1. ObserverInv(x) /\ Live(x)' = Live(x)
    BY <1>2 DEF FanoutInv, Live
  <2>2. Coming(x)' \subseteq Coming(x) /\ Coming(x) \ {m} \subseteq Coming(x)'
    BY <1>1, <1>4, ComingAfter
  <2>3. Owed(x) => Owed(x)'
    BY <1>2, <2>2 DEF Owed
  <2> QED BY <1>2, <1>5, <2>1, <2>2, <2>3 DEF ObserverInv, Apart
<1> QED BY <1>5, <1>6, <1>7, <1>8 DEF FanoutInv

-------------------------------------------------------------------------------
LEMMA FanoutStepKeeps ==
  ASSUME FanoutInv, [FanoutNext]_deliveryVars
  PROVE  FanoutInv'
<1>1. CASE \E e \in Emitters : Emit(e)
  BY <1>1, EmitToNobody, EmitToObservers
<1>2. CASE \E e \in Emitters : Sent(e)
  BY <1>2, SentKeeps
<1>3. CASE \E e \in Emitters : EmissionCut(e)
  BY <1>3, CutKeeps
<1>4. CASE \E o \in Observers : Join(o)
  BY <1>4, JoinKeeps
<1>5. CASE \E o \in Observers : Replay(o)
  BY <1>5, ReplayKeeps
<1>6. CASE \E o \in Observers : Connect(o) \/ Breaks(o) \/ Leave(o)
  BY <1>6, HandlerKeeps
<1>7. CASE IngestorCloses \/ SessionLeaves \/ PeerStep \/ UNCHANGED deliveryVars
  <2>1. UNCHANGED fanoutVars
    BY <1>7 DEF IngestorCloses, SessionLeaves, PeerStep, deliveryVars
  <2> QED BY <2>1, FanoutStutters
<1> QED BY <1>1, <1>2, <1>3, <1>4, <1>5, <1>6, <1>7 DEF FanoutNext

\* Where every message is for every observer, for any number of tasks, observers
\* and messages (sessions.py emit, api_v1.py observe_ws_v1).
THEOREM FanoutInvariant == FanoutSpec => []FanoutInv
<1>1. FanoutInv /\ [FanoutNext]_deliveryVars => FanoutInv'
  BY FanoutStepKeeps
<1> QED BY <1>1, FanoutInitial, PTL DEF FanoutSpec

\* An observer gets every message from the oldest replayed one on exactly once,
\* whatever is emitted while it joins; only a cancelled emission is lost.
THEOREM ObserversMissNothing == FanoutSpec => []ObserverMissesNothing
<1>1. ASSUME FanoutInv, NEW o \in Observers
      PROVE  Len(got[o]) = Cardinality(ToSet(got[o]))
  <2>1. got[o] \in Seq(Nat) /\ IsInjective(got[o])
    BY <1>1 DEF FanoutInv, FanoutTypes, ObserverInv
  <2> QED BY <2>1, LengthOfDistinct
<1>2. FanoutInv => ObserverMissesNothing
  BY <1>1 DEF FanoutInv, ObserverInv, Apart, Owed, ObserverMissesNothing
<1> QED BY <1>2, FanoutInvariant, PTL

-------------------------------------------------------------------------------
(***************************************************************************)
(* The KCP peer                                                            *)
(***************************************************************************)
Objects == [link : Links, obj : Nat \ {0}]
Call == [peer : Objects, todo : Seq(Kinds)]

\* Objects are known by a number that is not 0, so that a bound peer is one of
\* them, and once some peer is bound some peer always is.
PeerInv ==
  /\ peers \in [Links -> Nat] /\ made \in [Links -> Nat]
  /\ calls \in Seq(Call) /\ \A i \in DOMAIN calls : calls[i].todo # <<>>
  /\ bound \in Objects \cup {NoPeer}
  /\ boundAt \in Nat /\ (boundAt # 0 => bound \in Objects)

\* The connections whose peers got a message.
Reached(m) == {c \in Links : m \in ToSet(pushed[c])}

\* The messages whose fan-out is under way.
Flying == {emitting[e].msg : e \in {x \in Emitters : emitting[x] # NotEmitting}}

PushInv ==
  /\ pushed \in [Links -> Seq(Nat)]
  /\ \A c \in Links : IsInjective(pushed[c]) /\ ToSet(pushed[c]) \subseteq 1..emitSeq
  /\ \A m \in Flying : Reached(m) = {}
  /\ boundAt # 0 => \A m \in Done : m >= boundAt => \E c \in Links : Reached(m) = {c}

LEMMA ObjectIsNoPeer == NoPeer \notin Objects
BY DEF NoPeer, Objects

LEMMA PeerInitial == FanoutInit => PeerInv /\ PushInv
<1> SUFFICES ASSUME FanoutInit
             PROVE  PeerInv /\ PushInv
  OBVIOUS
<1>1. PeerInv
  BY DEF FanoutInit, KcpInit, PeerInv
<1>2. ToSet(<<>>) = {} /\ IsInjective(<<>>)
  BY DEF ToSet, IsInjective
<1>3. PushInv
  BY <1>2 DEF FanoutInit, PushInv, Reached, Flying
<1> QED BY <1>1, <1>3

\* handle_data on an object binds that object or leaves the binding alone.
LEMMA ContinueKeepsPeer ==
  ASSUME NEW known \in [Links -> Nat], NEW p \in Objects, NEW ms \in Seq(Kinds),
         NEW others \in Seq(Call), \A i \in DOMAIN others : others[i].todo # <<>>,
         Continue(known, p, ms, others)
  PROVE  /\ peers' \in [Links -> Nat]
         /\ calls' \in Seq(Call) /\ \A i \in DOMAIN calls' : calls'[i].todo # <<>>
         /\ bound' = p \/ bound' = bound
<1> DEFINE S == {i \in DOMAIN ms : \A j \in 1..i : ~ Suspends(p, ms, j)}
           now == Prompt(p, ms)
           rest == SubSeq(ms, Len(now) + 1, Len(ms))
<1>1. Len(ms) \in Nat /\ DOMAIN ms = 1..Len(ms)
  OBVIOUS
<1>2. Cardinality(S) \in Nat /\ Cardinality(S) <= Len(ms)
  <2>1. IsFiniteSet(1..Len(ms)) /\ Cardinality(1..Len(ms)) = Len(ms)
    <3>1. 1 \in Int /\ Len(ms) \in Int
      BY <1>1
    <3>2. IsFiniteSet(1..Len(ms)) /\ Cardinality(1..Len(ms)) = IF 1 > Len(ms) THEN 0 ELSE Len(ms) - 1 + 1
      BY <3>1, FS_Interval
    <3> QED BY <1>1, <3>2
  <2>2. IsFiniteSet(S) /\ Cardinality(S) <= Len(ms)
    <3>1. S \in SUBSET (1..Len(ms))
      BY <1>1
    <3> HIDE DEF S
    <3> QED BY <2>1, <3>1, FS_Subset
  <2> QED BY <2>2, FS_CardinalityType
<1>3. now = SubSeq(ms, 1, Cardinality(S))
  BY DEF Prompt
<1> HIDE DEF S
<1>4. now \in Seq(Kinds) /\ Len(now) \in Nat /\ Len(now) <= Len(ms)
  BY <1>1, <1>2, <1>3
<1> HIDE DEF now
<1>5. rest \in Seq(Kinds)
  BY <1>1, <1>4
<1> HIDE DEF rest
<1>6. peers' \in [Links -> Nat] /\ (bound' = p \/ bound' = bound)
  BY DEF Continue, Objects
<1>7. CASE rest = <<>>
  BY <1>6, <1>7 DEF Continue, rest, now
<1>8. CASE rest # <<>>
  <2>1. calls' = Append(others, [peer |-> p, todo |-> rest])
    BY <1>8 DEF Continue, rest, now
  <2>2. [peer |-> p, todo |-> rest] \in Call
    BY <1>5 DEF Call
  <2>3. calls' \in Seq(Call) /\ Len(calls') = Len(others) + 1
        /\ calls'[Len(others) + 1] = [peer |-> p, todo |-> rest]
        /\ \A i \in 1..Len(others) : calls'[i] = others[i]
    BY <2>1, <2>2
  <2>4. \A i \in DOMAIN calls' : calls'[i].todo # <<>>
    BY <1>8, <2>3
  <2> QED BY <1>6, <2>3, <2>4
<1> QED BY <1>7, <1>8

LEMMA KcpStepKeepsPeer ==
  ASSUME PeerInv, KcpStep
  PROVE  /\ peers' \in [Links -> Nat] /\ made' \in [Links -> Nat]
         /\ calls' \in Seq(Call) /\ \A i \in DOMAIN calls' : calls'[i].todo # <<>>
         /\ bound' \in Objects \/ bound' = bound
<1>1. ASSUME NEW c \in Links, OnData(c)
      PROVE  /\ peers' \in [Links -> Nat] /\ made' \in [Links -> Nat]
             /\ calls' \in Seq(Call) /\ \A i \in DOMAIN calls' : calls'[i].todo # <<>>
             /\ bound' \in Objects \/ bound' = bound
  <2>1. PICK ms \in Packets :
          IF peers[c] # 0
          THEN /\ Continue(peers, [link |-> c, obj |-> peers[c]], ms, calls)
               /\ UNCHANGED made
          ELSE /\ made' = [made EXCEPT ![c] = @ + 1]
               /\ Continue([peers EXCEPT ![c] = made[c] + 1],
                           [link |-> c, obj |-> made[c] + 1], ms, calls)
    BY <1>1 DEF OnData
  <2>2. ms \in Seq(Kinds)
    BY KcpAssumption
  <2>3. CASE peers[c] # 0
    <3>1. [link |-> c, obj |-> peers[c]] \in Objects
      BY <2>3 DEF PeerInv, Objects
    <3> QED BY <2>1, <2>2, <2>3, <3>1, ContinueKeepsPeer DEF PeerInv
  <2>4. CASE peers[c] = 0
    <3>1. [link |-> c, obj |-> made[c] + 1] \in Objects
          /\ [peers EXCEPT ![c] = made[c] + 1] \in [Links -> Nat]
          /\ made' \in [Links -> Nat]
      BY <2>1, <2>4 DEF PeerInv, Objects
    <3> QED BY <2>1, <2>2, <2>4, <3>1, ContinueKeepsPeer DEF PeerInv
  <2> QED BY <2>3, <2>4
<1>2. ASSUME NEW i \in DOMAIN calls, FrameDecoded(i)
      PROVE  /\ peers' \in [Links -> Nat] /\ made' \in [Links -> Nat]
             /\ calls' \in Seq(Call) /\ \A j \in DOMAIN calls' : calls'[j].todo # <<>>
             /\ bound' \in Objects \/ bound' = bound
  <2> DEFINE others == RemoveAt(calls, i)
  <2>1. calls \in Seq(Call) /\ calls[i] \in Call /\ calls[i].todo # <<>>
    BY <1>2 DEF PeerInv
  <2>2. calls[i].peer \in Objects /\ Tail(calls[i].todo) \in Seq(Kinds)
    BY <2>1 DEF Call
  <2>3. others \in Seq(Call) /\ \A j \in DOMAIN others : others[j].todo # <<>>
    <3>1. i \in 1..Len(calls) /\ Len(calls) \in Nat
      BY <2>1
    <3> DEFINE before == SubSeq(calls, 1, i - 1)
               after == SubSeq(calls, i + 1, Len(calls))
    <3>2. before \in Seq(Call) /\ Len(before) = i - 1 /\ \A j \in 1..(i - 1) : before[j] = calls[j]
      BY <2>1, <3>1
    <3>3. after \in Seq(Call) /\ Len(after) = Len(calls) - i
          /\ \A j \in 1..(Len(calls) - i) : after[j] = calls[i + j]
      BY <2>1, <3>1
    <3>4. others = before \o after
      BY DEF RemoveAt
    <3> HIDE DEF before, after, others
    <3>5. others \in Seq(Call) /\ Len(others) = Len(calls) - 1
          /\ \A j \in 1..(i - 1) : others[j] = before[j]
      BY <3>1, <3>2, <3>3, <3>4
    <3>6. ASSUME NEW j \in i..(Len(calls) - 1)
          PROVE  others[j] = calls[j + 1]
      <4>1. others[j] = after[j - (i - 1)] /\ j - (i - 1) \in 1..(Len(calls) - i)
        BY <3>1, <3>2, <3>3, <3>4
      <4>2. i + (j - (i - 1)) = j + 1
        BY <3>1
      <4> QED BY <3>3, <4>1, <4>2
    <3>7. ASSUME NEW j \in DOMAIN others
          PROVE  others[j].todo # <<>>
      <4>1. CASE j \in 1..(i - 1)
        BY <2>1, <3>1, <3>2, <3>5, <4>1 DEF PeerInv
      <4>2. CASE j \in i..(Len(calls) - 1)
        <5>1. others[j] = calls[j + 1] /\ j + 1 \in DOMAIN calls
          BY <2>1, <3>1, <3>6, <4>2
        <5> QED BY <5>1 DEF PeerInv
      <4> QED BY <3>1, <3>5, <4>1, <4>2
    <3> QED BY <3>5, <3>7
  <2>4. Continue(peers, calls[i].peer, Tail(calls[i].todo), others) /\ UNCHANGED made
    BY <1>2 DEF FrameDecoded
  <2> HIDE DEF others
  <2> QED BY <2>2, <2>3, <2>4, ContinueKeepsPeer DEF PeerInv
<1>3. CASE ServerStops
  BY <1>3 DEF ServerStops, PeerInv
<1> QED BY <1>1, <1>2, <1>3 DEF KcpStep

\* The peers move and the messages do not: a peer bound only now is owed the
\* messages still to come.
LEMMA PeerStepKeepsPeer ==
  ASSUME FanoutTypes, PeerInv, PushInv, PeerStep
  PROVE  PeerInv' /\ PushInv'
<1>1. /\ peers' \in [Links -> Nat] /\ made' \in [Links -> Nat]
      /\ calls' \in Seq(Call) /\ \A i \in DOMAIN calls' : calls'[i].todo # <<>>
      /\ bound' \in Objects \/ bound' = bound
  BY KcpStepKeepsPeer DEF PeerStep
<1>2. boundAt' = IF bound = NoPeer /\ bound' # NoPeer THEN emitSeq + 1 ELSE boundAt
  BY DEF PeerStep
<1>3. UNCHANGED <<emitSeq, emitting, pushed, cut>> /\ emitSeq \in Nat
  BY DEF PeerStep, fanoutVars, emitVars, FanoutTypes
<1>4. PeerInv'
  BY <1>1, <1>2, <1>3, ObjectIsNoPeer DEF PeerInv
<1>5. Done' = Done /\ Flying' = Flying /\ \A m : Reached(m)' = Reached(m)
  BY <1>3 DEF Done, Reached, Flying
<1>6. boundAt' = boundAt \/ \A m \in Done : ~ (m >= boundAt')
  BY <1>2, <1>3 DEF Done
<1> QED BY <1>3, <1>4, <1>5, <1>6 DEF PushInv

LEMMA PushStutters ==
  ASSUME PeerInv, PushInv, UNCHANGED <<emitSeq, emitting, pushed, cut>>,
         UNCHANGED <<peers, made, calls, bound, boundAt>>
  PROVE  PeerInv' /\ PushInv'
<1>1. Done' = Done /\ Flying' = Flying /\ \A m : Reached(m)' = Reached(m)
  BY DEF Done, Reached, Flying
<1> QED BY <1>1 DEF PeerInv, PushInv

\* A message is done when it is given to the bound peer, and to no other.
LEMMA DeliveryKeeps ==
  ASSUME PeerInv, PushInv, emitSeq \in Nat, emitSeq' \in Nat, emitSeq <= emitSeq',
         NEW m \in 1..emitSeq', Reached(m) = {},
         pushed' = IF bound = NoPeer THEN pushed
                   ELSE [pushed EXCEPT ![bound.link] = Append(@, m)],
         Done' \subseteq Done \cup {m},
         Flying' \subseteq Flying \ {m},
         UNCHANGED boundAt
  PROVE  PushInv'
<1>1. CASE bound = NoPeer
  <2>1. boundAt = 0
    BY <1>1, ObjectIsNoPeer DEF PeerInv
  <2>2. \A n : Reached(n)' = Reached(n)
    BY <1>1 DEF Reached
  <2>3. 1..emitSeq \subseteq 1..emitSeq'
    OBVIOUS
  <2> QED BY <1>1, <2>1, <2>2, <2>3 DEF PushInv
<1>2. CASE bound # NoPeer
  <2> DEFINE c == bound.link
  <2>1. c \in Links
    BY <1>2 DEF PeerInv, Objects
  <2>2. pushed[c] \in Seq(Nat) /\ m \in Nat /\ m \notin ToSet(pushed[c]) /\ IsInjective(pushed[c])
    BY <2>1 DEF PushInv, Reached
  <2>3. Append(pushed[c], m) \in Seq(Nat) /\ IsInjective(Append(pushed[c], m))
        /\ ToSet(Append(pushed[c], m)) = ToSet(pushed[c]) \cup {m}
    BY <2>2, AppendNew
  <2>4. pushed' = [pushed EXCEPT ![c] = Append(pushed[c], m)]
    BY <1>2
  <2> HIDE DEF c
  <2>5. pushed'[c] = Append(pushed[c], m) /\ \A d \in Links \ {c} : pushed'[d] = pushed[d]
    BY <2>1, <2>4 DEF PushInv
  <2>6. pushed' \in [Links -> Seq(Nat)]
    BY <2>1, <2>3, <2>4 DEF PushInv
  <2>7. ASSUME NEW d \in Links
        PROVE  IsInjective(pushed'[d]) /\ ToSet(pushed'[d]) \subseteq 1..emitSeq'
    <3>1. ToSet(pushed[d]) \subseteq 1..emitSeq'
      BY DEF PushInv
    <3> QED BY <2>3, <2>5, <3>1 DEF PushInv
  <2>8. Reached(m)' = {c}
    BY <2>1, <2>3, <2>5 DEF Reached
  <2>9. \A n : n # m => Reached(n)' = Reached(n)
    <3>1. ASSUME NEW n, n # m, NEW d \in Links
          PROVE  n \in ToSet(pushed'[d]) <=> n \in ToSet(pushed[d])
      BY <2>3, <2>5, <3>1
    <3> QED BY <3>1 DEF Reached
  <2>10. \A n \in Flying' : Reached(n)' = {}
    BY <2>9 DEF PushInv
  <2>11. boundAt' # 0 => \A n \in Done' : n >= boundAt' => \E d \in Links : Reached(n)' = {d}
    BY <2>1, <2>8, <2>9 DEF PushInv
  <2> QED BY <2>6, <2>7, <2>10, <2>11 DEF PushInv
<1> QED BY <1>1, <1>2

\* A message that was not emitted reached nobody.
LEMMA FutureReachesNobody ==
  ASSUME PushInv, emitSeq \in Nat, NEW n \in Nat, n > emitSeq
  PROVE  Reached(n) = {}
BY DEF PushInv, Reached

LEMMA EmissionKeepsPush ==
  ASSUME FanoutInv, PeerInv, PushInv, NEW e \in Emitters, Emit(e) \/ Sent(e) \/ EmissionCut(e)
  PROVE  PeerInv' /\ PushInv'
<1>1. FanoutTypes /\ EmissionInv /\ emitSeq \in Nat
      /\ emitting \in [Emitters -> Emission] /\ UNCHANGED <<peers, made, calls, bound, boundAt>>
  BY DEF FanoutInv, FanoutTypes, Emit, Sent, EmissionCut, peerVars
<1>2. PeerInv'
  BY <1>1 DEF PeerInv
<1>3. CASE Emit(e) /\ observers = {}
  <2>1. emitSeq' = emitSeq + 1 /\ emitting' = emitting /\ cut' = cut
        /\ pushed' = IF bound = NoPeer THEN pushed
                     ELSE [pushed EXCEPT ![bound.link] = Append(@, emitSeq + 1)]
    BY <1>1, <1>3 DEF Emit, Finish
  <2>2. Done' \subseteq Done \cup {emitSeq + 1}
    BY <1>1, <2>1 DEF Done
  <2>3. Reached(emitSeq + 1) = {}
    BY <1>1, FutureReachesNobody
  <2>4. Flying' \subseteq Flying \ {emitSeq + 1}
    BY <1>1, <2>1 DEF EmissionInv, EmissionWell, Flying
  <2>5. emitSeq' \in Nat /\ emitSeq <= emitSeq' /\ emitSeq + 1 \in 1..emitSeq'
    BY <1>1, <2>1
  <2> QED BY <1>1, <1>2, <2>1, <2>2, <2>3, <2>4, <2>5, DeliveryKeeps
<1>4. CASE Emit(e) /\ observers # {}
  <2>1. emitSeq' = emitSeq + 1 /\ cut' = cut /\ pushed' = pushed
    BY <1>4 DEF Emit
  <2>2. PICK order : emitting' = [emitting EXCEPT ![e] =
                                    [msg |-> emitSeq + 1, todo |-> order, dead |-> {}]]
    BY <1>4 DEF Emit
  <2>3. emitting[e] = NotEmitting /\ emitting'[e].msg = emitSeq + 1
        /\ \A f \in Emitters \ {e} : emitting'[f] = emitting[f]
    BY <1>1, <1>4, <2>2 DEF Emit
  <2>4. \A m : Reached(m)' = Reached(m)
    BY <2>1 DEF Reached
  <2>5. Done' \subseteq Done
    <3>1. ASSUME NEW m \in Done'
          PROVE  m \in Done
      <4>1. m \in 1..(emitSeq + 1) /\ m # emitSeq + 1 /\ m \notin cut
        BY <2>1, <2>3, <3>1 DEF Done
      <4>2. m \in 1..emitSeq /\ m # 0
        BY <1>1, <4>1
      <4>3. ASSUME NEW f \in Emitters
            PROVE  emitting[f].msg # m
        BY <2>3, <3>1, <4>2 DEF Done, NotEmitting
      <4> QED BY <4>1, <4>2, <4>3 DEF Done
    <3> QED BY <3>1
  <2>6. \A m \in Flying' : Reached(m)' = {}
    <3>1. Flying' \subseteq Flying \cup {emitSeq + 1}
      BY <2>3 DEF Flying
    <3>2. Reached(emitSeq + 1) = {}
      BY <1>1, FutureReachesNobody
    <3> QED BY <2>4, <3>1, <3>2 DEF PushInv
  <2>7. 1..emitSeq \subseteq 1..emitSeq'
    BY <1>1, <2>1
  <2> QED BY <1>1, <1>2, <2>1, <2>4, <2>5, <2>6, <2>7 DEF PushInv
<1>5. CASE Sent(e)
  <2> DEFINE m == emitting[e].msg
  <2>1. emitting[e] # NotEmitting /\ UNCHANGED <<emitSeq, cut>>
    BY <1>5 DEF Sent
  <2>2. m \in 1..emitSeq /\ Reached(m) = {}
    BY <1>1, <2>1 DEF EmissionInv, EmissionWell, PushInv, Flying
  <2>3. \A f \in Emitters \ {e} : emitting[f].msg # m
    BY <1>1, <2>1 DEF EmissionInv
  <2>4. CASE LeftToSend(e) = <<>>
    <3>1. emitting' = [emitting EXCEPT ![e] = NotEmitting]
          /\ pushed' = IF bound = NoPeer THEN pushed
                       ELSE [pushed EXCEPT ![bound.link] = Append(@, m)]
      BY <1>5, <2>4 DEF Sent, Finish
    <3>2. emitting'[e] = NotEmitting /\ \A f \in Emitters \ {e} : emitting'[f] = emitting[f]
      BY <1>1, <3>1
    <3>3. Done' \subseteq Done \cup {m}
      BY <2>1, <3>2 DEF Done
    <3>4. Flying' \subseteq Flying \ {m}
      BY <2>3, <3>2 DEF Flying
    <3>5. emitSeq' \in Nat /\ emitSeq <= emitSeq' /\ m \in 1..emitSeq'
      BY <1>1, <2>1, <2>2
    <3> HIDE DEF m
    <3> QED BY <1>1, <1>2, <2>2, <3>1, <3>3, <3>4, <3>5, DeliveryKeeps
  <2>5. CASE LeftToSend(e) # <<>>
    <3>1. pushed' = pushed
          /\ \E d : emitting' = [emitting EXCEPT ![e].todo = LeftToSend(e), ![e].dead = d]
      BY <1>5, <2>5 DEF Sent
    <3>2. emitting'[e].msg = m /\ \A f \in Emitters \ {e} : emitting'[f] = emitting[f]
      BY <1>1, <3>1 DEF Emission
    <3>3. Done' = Done /\ \A n : Reached(n)' = Reached(n)
      BY <2>1, <3>1, <3>2 DEF Done, Reached
    <3>4. Flying' \subseteq Flying
      BY <2>1, <3>2 DEF Flying
    <3> QED BY <1>1, <1>2, <2>1, <3>1, <3>3, <3>4 DEF PushInv
  <2> QED BY <2>4, <2>5
<1>6. CASE EmissionCut(e)
  <2>1. emitting' = [emitting EXCEPT ![e] = NotEmitting] /\ cut' = cut \cup {emitting[e].msg}
        /\ UNCHANGED <<emitSeq, pushed>>
    BY <1>6 DEF EmissionCut
  <2>2. emitting'[e] = NotEmitting /\ \A f \in Emitters \ {e} : emitting'[f] = emitting[f]
    BY <1>1, <2>1
  <2>3. Done' \subseteq Done /\ \A n : Reached(n)' = Reached(n)
    BY <2>1, <2>2 DEF Done, Reached
  <2>4. Flying' \subseteq Flying
    BY <2>2 DEF Flying
  <2> QED BY <1>1, <1>2, <2>1, <2>3, <2>4 DEF PushInv
<1> QED BY <1>3, <1>4, <1>5, <1>6

LEMMA HandlersKeepPush ==
  ASSUME PeerInv, PushInv,
         \/ \E o \in Observers : Connect(o) \/ Join(o) \/ Replay(o) \/ Breaks(o) \/ Leave(o)
         \/ IngestorCloses \/ SessionLeaves \/ UNCHANGED deliveryVars
  PROVE  PeerInv' /\ PushInv'
<1>1. UNCHANGED <<emitSeq, emitting, pushed, cut>> /\ UNCHANGED <<peers, made, calls, bound, boundAt>>
  BY DEF Connect, Join, Replay, Breaks, Leave, IngestorCloses, SessionLeaves, deliveryVars,
         peerVars, fanoutVars, emitVars
<1> QED BY <1>1, PushStutters

\* Every message of a session whose KCP client has said hello goes to one peer,
\* once, whatever object and connection is bound when its turn comes
\* (kcp_server.py _on_hello, ingest_kcp.py bind_peer and send_event).
THEOREM HandoversLoseNothing == FanoutSpec => []HandoverLosesNothing
<1>1. FanoutInv /\ PeerInv /\ PushInv /\ [FanoutNext]_deliveryVars => PeerInv' /\ PushInv'
  <2> SUFFICES ASSUME FanoutInv, PeerInv, PushInv, [FanoutNext]_deliveryVars
               PROVE  PeerInv' /\ PushInv'
    OBVIOUS
  <2>1. CASE \E e \in Emitters : Emit(e) \/ Sent(e) \/ EmissionCut(e)
    BY <2>1, EmissionKeepsPush
  <2>2. CASE PeerStep
    BY <2>2, PeerStepKeepsPeer DEF FanoutInv
  <2>3. CASE \/ \E o \in Observers : Connect(o) \/ Join(o) \/ Replay(o) \/ Breaks(o) \/ Leave(o)
             \/ IngestorCloses \/ SessionLeaves \/ UNCHANGED deliveryVars
    BY <2>3, HandlersKeepPush
  <2> QED BY <2>1, <2>2, <2>3 DEF FanoutNext
<1>2. PushInv => HandoverLosesNothing
  BY DEF PushInv, HandoverLosesNothing, Reached
<1> QED BY <1>1, <1>2, FanoutInvariant, PeerInitial, PTL DEF FanoutSpec

\* No frame enters a closed ingestor, however long ago its decoding began
\* (kcp_server.py _on_frame, ingest_kcp.py feed).
THEOREM ClosedTakesNoFrame == FanoutSpec => NoFrameAfterClose
<1>1. [FanoutNext]_deliveryVars => [closed => fed' = fed]_fed
  <2> SUFFICES ASSUME [FanoutNext]_deliveryVars, closed
               PROVE  fed' = fed
    OBVIOUS
  <2>1. CASE PeerStep
    BY <2>1 DEF PeerStep, KcpStep, OnData, FrameDecoded, Taken, ServerStops
  <2>2. CASE ~ PeerStep
    BY <2>2 DEF FanoutNext, Emit, Sent, EmissionCut, Connect, Join, Replay, Breaks, Leave,
                IngestorCloses, SessionLeaves, deliveryVars, peerVars
  <2> QED BY <2>1, <2>2
<1> QED BY <1>1, PTL DEF FanoutSpec, NoFrameAfterClose

-------------------------------------------------------------------------------
(***************************************************************************)
(* What is where on the wire                                               *)
(***************************************************************************)
Cell ==
  [length : Nat, at : Nat] \cup [header : Messages, at : Nat] \cup [payload : Messages, at : Nat]

LEMMA Parts ==
  ASSUME NEW m \in Messages, NEW n \in Nat
  PROVE  /\ m.size \in Nat /\ m.form \in {"A", "B"}
         /\ m.type \in {"frame", "other", "noise", "empty"}
         /\ LenSize \in Nat /\ LenSize > 0 /\ HeaderSize \in Nat /\ HeaderSize > 0
         /\ Prefix(n) \in Seq(Cell) /\ Len(Prefix(n)) = LenSize
         /\ Header(m) \in Seq(Cell) /\ Len(Header(m)) = HeaderSize
         /\ Payload(m) \in Seq(Cell) /\ Len(Payload(m)) = m.size
<1>1. /\ m.size \in Nat /\ m.form \in {"A", "B"} /\ m.type \in {"frame", "other", "noise", "empty"}
      /\ LenSize \in Nat /\ LenSize > 0 /\ HeaderSize \in Nat /\ HeaderSize > 0
  BY FramingAssumption
<1>2. \A i \in Nat : /\ [length |-> n, at |-> i] \in Cell
                     /\ [header |-> m, at |-> i] \in Cell
                     /\ [payload |-> m, at |-> i] \in Cell
  BY DEF Cell
<1>3. /\ \A i \in 1..LenSize : i \in Nat
      /\ \A i \in 1..HeaderSize : i \in Nat
      /\ \A i \in 1..m.size : i \in Nat
  BY <1>1
<1>4. Prefix(n) \in [1..LenSize -> Cell]
  BY <1>2, <1>3, Zenon DEF Prefix
<1>5. Header(m) \in [1..HeaderSize -> Cell]
  BY <1>2, <1>3, Zenon DEF Header
<1>6. Payload(m) \in [1..m.size -> Cell]
  BY <1>2, <1>3, Zenon DEF Payload
<1>7. LenSize \in Nat /\ HeaderSize \in Nat /\ m.size \in Nat
  BY <1>1
<1>8. Prefix(n) \in Seq(Cell) /\ Len(Prefix(n)) = LenSize
  BY <1>4, <1>7, FunctionIsSeq, Zenon
<1>9. Header(m) \in Seq(Cell) /\ Len(Header(m)) = HeaderSize
  BY <1>5, <1>7, FunctionIsSeq, Zenon
<1>10. Payload(m) \in Seq(Cell) /\ Len(Payload(m)) = m.size
  BY <1>6, <1>7, FunctionIsSeq, Zenon
<1> QED BY <1>1, <1>8, <1>9, <1>10, Zenon

\* How many cells m takes.
Width(m) ==
  IF m.type = "empty" THEN LenSize
  ELSE IF m.type = "frame" THEN LenSize + HeaderSize + LenSize + m.size
  ELSE LenSize + HeaderSize

\* w has the cells of m at the places offset + 1 and following.
Carries(w, offset, m) ==
  /\ \A i \in 1..LenSize :
       w[offset + i] = [length |-> IF m.type = "empty" THEN 0 ELSE HeaderSize, at |-> i]
  /\ m.type # "empty" =>
       \A i \in 1..HeaderSize : w[offset + LenSize + i] = [header |-> m, at |-> i]
  /\ m.type = "frame" =>
       /\ \A i \in 1..LenSize :
            w[offset + LenSize + HeaderSize + i] = [length |-> m.size, at |-> i]
       /\ \A i \in 1..m.size :
            w[offset + LenSize + HeaderSize + LenSize + i] = [payload |-> m, at |-> i]

LEMMA WireIs ==
  ASSUME NEW m \in Messages
  PROVE  Wire(m) \in Seq(Cell) /\ Len(Wire(m)) = Width(m) /\ Width(m) \in Nat /\ Carries(Wire(m), 0, m)
<1> DEFINE p == Prefix(IF m.type = "empty" THEN 0 ELSE HeaderSize)
           h == Header(m)
           q == Prefix(m.size)
           d == Payload(m)
<1>1. /\ m.size \in Nat /\ m.type \in {"frame", "other", "noise", "empty"}
      /\ LenSize \in Nat /\ LenSize > 0 /\ HeaderSize \in Nat /\ HeaderSize > 0
      /\ p \in Seq(Cell) /\ Len(p) = LenSize /\ h \in Seq(Cell) /\ Len(h) = HeaderSize
      /\ q \in Seq(Cell) /\ Len(q) = LenSize /\ d \in Seq(Cell) /\ Len(d) = m.size
  <2>1. m.size \in Nat /\ (IF m.type = "empty" THEN 0 ELSE HeaderSize) \in Nat
    BY FramingAssumption
  <2>2. p \in Seq(Cell) /\ Len(p) = LenSize
    BY <2>1, Parts
  <2>3. q \in Seq(Cell) /\ Len(q) = LenSize
    BY <2>1, Parts
  <2> QED BY <2>1, <2>2, <2>3, Parts
<1>2. /\ \A i \in 1..LenSize : p[i] = [length |-> IF m.type = "empty" THEN 0 ELSE HeaderSize, at |-> i]
      /\ \A i \in 1..HeaderSize : h[i] = [header |-> m, at |-> i]
      /\ \A i \in 1..LenSize : q[i] = [length |-> m.size, at |-> i]
      /\ \A i \in 1..m.size : d[i] = [payload |-> m, at |-> i]
  BY DEF Prefix, Header, Payload
<1>3. Wire(m) = IF m.type = "empty" THEN p
                ELSE IF m.type = "frame" THEN p \o h \o q \o d
                ELSE p \o h
  BY <1>1 DEF Wire
<1> HIDE DEF p, h, q, d
<1> DEFINE a == p \o h
           b == a \o q
           c == b \o d
<1>4. a \in Seq(Cell) /\ Chained(a, p, h)
  BY <1>1, ConcatChains
<1>5. b \in Seq(Cell) /\ Chained(b, a, q)
  <2> HIDE DEF a
  <2> QED BY <1>1, <1>4, ConcatChains
<1>6. c \in Seq(Cell) /\ Chained(c, b, d)
  <2> HIDE DEF b
  <2> QED BY <1>1, <1>5, ConcatChains
<1>7. Wire(m) = IF m.type = "empty" THEN p ELSE IF m.type = "frame" THEN c ELSE a
  BY <1>3
<1> HIDE DEF a, b, c
<1>8. \A i \in Int : 0 + i = i
  OBVIOUS
<1>9. CASE m.type = "empty"
  BY <1>1, <1>2, <1>7, <1>8, <1>9 DEF Width, Carries
<1>10. CASE m.type \in {"other", "noise"}
  <2>1. Wire(m) = a /\ Width(m) = LenSize + HeaderSize /\ Len(a) = LenSize + HeaderSize
    BY <1>1, <1>4, <1>7, <1>10 DEF Width, Chained
  <2>2. \A i \in 1..LenSize : a[0 + i] = p[i]
    BY <1>1, <1>4, <1>8 DEF Chained
  <2>3. \A i \in 1..HeaderSize : a[0 + LenSize + i] = h[i]
    BY <1>1, <1>4 DEF Chained
  <2> QED BY <1>1, <1>2, <1>4, <1>10, <2>1, <2>2, <2>3 DEF Carries
<1>11. CASE m.type = "frame"
  <2>1. /\ Len(a) = LenSize + HeaderSize /\ Len(b) = LenSize + HeaderSize + LenSize
        /\ Len(c) = LenSize + HeaderSize + LenSize + m.size
    BY <1>1, <1>4, <1>5, <1>6 DEF Chained
  <2>2. \A i \in 1..LenSize : c[i] = p[i]
    BY <1>1, <1>4, <1>5, <1>6, <2>1 DEF Chained
  <2>3. \A i \in 1..HeaderSize : c[LenSize + i] = h[i]
    BY <1>1, <1>4, <1>5, <1>6, <2>1 DEF Chained
  <2>4. \A i \in 1..LenSize : c[LenSize + HeaderSize + i] = q[i]
    BY <1>1, <1>4, <1>5, <1>6, <2>1 DEF Chained
  <2>5. \A i \in 1..m.size : c[LenSize + HeaderSize + LenSize + i] = d[i]
    BY <1>1, <1>4, <1>5, <1>6, <2>1 DEF Chained
  <2>6. Wire(m) = c /\ Width(m) = LenSize + HeaderSize + LenSize + m.size /\ Width(m) \in Nat
    BY <1>1, <1>7, <1>11 DEF Width
  <2>7. 0 + LenSize = LenSize
    BY <1>1
  <2> QED BY <1>2, <1>6, <1>8, <1>11, <2>1, <2>2, <2>3, <2>4, <2>5, <2>6, <2>7 DEF Carries
<1> QED BY <1>1, <1>9, <1>10, <1>11

\* The cells of the first k messages.
Upto(ms, k) == Len(Bytes(SubSeq(ms, 1, k)))

LEMMA BytesLayout ==
  ASSUME NEW ms \in Seq(Messages), NEW k \in 1..Len(ms)
  PROVE  /\ Upto(ms, k - 1) \in Nat /\ Upto(ms, k) \in Nat
         /\ Upto(ms, k) = Upto(ms, k - 1) + Width(ms[k])
         /\ Upto(ms, k) <= Len(Bytes(ms))
         /\ Carries(Bytes(ms), Upto(ms, k - 1), ms[k])
<1> DEFINE wires == [i \in DOMAIN ms |-> Wire(ms[i])]
<1>1. wires \in Seq(Seq(Cell)) /\ Len(wires) = Len(ms)
  <2>1. Len(ms) \in Nat /\ DOMAIN ms = 1..Len(ms)
    OBVIOUS
  <2>2. \A i \in 1..Len(ms) : Wire(ms[i]) \in Seq(Cell)
    BY WireIs
  <2>3. wires \in [1..Len(ms) -> Seq(Cell)]
    BY <2>1, <2>2, Zenon
  <2> QED BY <2>1, <2>3, FunctionIsSeq, Zenon
<1>2. ASSUME NEW j \in 0..Len(ms)
      PROVE  Bytes(SubSeq(ms, 1, j)) = FlattenSeq(SubSeq(wires, 1, j))
  <2> DEFINE r == SubSeq(ms, 1, j)
  <2>1. DOMAIN r = 1..j /\ \A i \in 1..j : r[i] = ms[i] /\ i \in DOMAIN ms
    OBVIOUS
  <2>2. SubSeq(wires, 1, j) = [i \in 1..j |-> wires[i]]
    <3> HIDE DEF wires
    <3> QED BY <1>1
  <2>3. [i \in DOMAIN r |-> Wire(r[i])] = [i \in 1..j |-> wires[i]]
    <3> HIDE DEF r
    <3> QED BY <2>1
  <2> QED BY <2>2, <2>3 DEF Bytes
<1>3. Bytes(ms) = FlattenSeq(wires)
  BY DEF Bytes
<1>4. wires[k] = Wire(ms[k]) /\ k - 1 \in 0..Len(ms) /\ k \in 0..Len(ms) /\ k \in 1..Len(wires)
  BY <1>1
<1> HIDE DEF wires
<1> DEFINE before == FlattenSeq(SubSeq(wires, 1, k - 1))
           upto   == FlattenSeq(SubSeq(wires, 1, k))
           all    == FlattenSeq(wires)
<1>5. /\ before \in Seq(Cell) /\ upto \in Seq(Cell) /\ all \in Seq(Cell)
      /\ Len(upto) = Len(before) + Len(wires[k]) /\ Len(upto) <= Len(all)
      /\ \A i \in 1..Len(wires[k]) : all[Len(before) + i] = wires[k][i]
  BY <1>1, <1>4, FlattenLayout
<1>6. Upto(ms, k - 1) = Len(before) /\ Upto(ms, k) = Len(upto) /\ Bytes(ms) = all
  BY <1>2, <1>3, <1>4 DEF Upto
<1> HIDE DEF before, upto, all
<1> DEFINE m == ms[k]
           w == Wire(m)
           P == Len(before)
<1>7. /\ m \in Messages /\ m.size \in Nat /\ LenSize \in Nat /\ HeaderSize \in Nat /\ P \in Nat
      /\ m.type \in {"frame", "other", "noise", "empty"}
  BY <1>5, FramingAssumption
<1>8. w \in Seq(Cell) /\ Len(w) = Width(m) /\ Width(m) \in Nat /\ Carries(w, 0, m)
  BY <1>7, WireIs
<1>9. /\ Len(upto) = P + Width(m) /\ Len(upto) <= Len(all) /\ Len(upto) \in Nat
      /\ \A i \in 1..Width(m) : all[P + i] = w[i]
  BY <1>4, <1>5, <1>8
<1> HIDE DEF m, w, P
<1>10. Carries(all, P, m)
  <2>1. \A i \in 1..LenSize : i \in 1..Width(m) /\ 0 + i = i
    BY <1>7 DEF Width
  <2>2. ASSUME m.type # "empty", NEW i \in 1..HeaderSize
        PROVE  all[P + LenSize + i] = w[0 + LenSize + i]
    <3>1. LenSize + i \in 1..Width(m) /\ 0 + LenSize + i = LenSize + i /\ P + (LenSize + i) = P + LenSize + i
      BY <1>7, <2>2 DEF Width
    <3> QED BY <1>9, <3>1
  <2>3. ASSUME m.type = "frame", NEW i \in 1..LenSize
        PROVE  all[P + LenSize + HeaderSize + i] = w[0 + LenSize + HeaderSize + i]
    <3>1. /\ LenSize + HeaderSize + i \in 1..Width(m)
          /\ 0 + LenSize + HeaderSize + i = LenSize + HeaderSize + i
          /\ P + (LenSize + HeaderSize + i) = P + LenSize + HeaderSize + i
      BY <1>7, <2>3 DEF Width
    <3> QED BY <1>9, <3>1
  <2>4. ASSUME m.type = "frame", NEW i \in 1..m.size
        PROVE  all[P + LenSize + HeaderSize + LenSize + i] = w[0 + LenSize + HeaderSize + LenSize + i]
    <3>1. /\ LenSize + HeaderSize + LenSize + i \in 1..Width(m)
          /\ 0 + LenSize + HeaderSize + LenSize + i = LenSize + HeaderSize + LenSize + i
          /\ P + (LenSize + HeaderSize + LenSize + i) = P + LenSize + HeaderSize + LenSize + i
      BY <1>7, <2>4 DEF Width
    <3> QED BY <1>9, <3>1
  <2>5. \A i \in 1..LenSize : all[P + i] = w[0 + i]
    BY <1>9, <2>1
  <2> QED BY <1>8, <2>2, <2>3, <2>4, <2>5 DEF Carries
<1>11. P = Len(before) /\ m = ms[k]
  BY DEF P, m
<1> QED BY <1>6, <1>7, <1>9, <1>10, <1>11, Zenon

LEMMA BytesEnds ==
  ASSUME NEW ms \in Seq(Messages)
  PROVE  /\ Upto(ms, 0) = 0 /\ Upto(ms, Len(ms)) = Len(Bytes(ms))
         /\ Len(Bytes(ms)) \in Nat /\ Bytes(ms) \in Seq(Cell)
<1>1. SubSeq(ms, 1, 0) = <<>> /\ SubSeq(ms, 1, Len(ms)) = ms
  OBVIOUS
<1>2. Bytes(<<>>) = <<>>
  BY DEF Bytes, FlattenSeq
<1>3. Upto(ms, 0) = 0
  <2>1. Len(<<>>) = 0
    OBVIOUS
  <2> QED BY <1>1, <1>2, <2>1, Zenon DEF Upto
<1> DEFINE wires == [i \in DOMAIN ms |-> Wire(ms[i])]
<1>4. wires \in Seq(Seq(Cell))
  <2>1. Len(ms) \in Nat /\ DOMAIN ms = 1..Len(ms)
    OBVIOUS
  <2>2. \A i \in 1..Len(ms) : Wire(ms[i]) \in Seq(Cell)
    BY WireIs
  <2>3. wires \in [1..Len(ms) -> Seq(Cell)]
    BY <2>1, <2>2, Zenon
  <2> QED BY <2>1, <2>3, FunctionIsSeq, Zenon
<1>5. Bytes(ms) \in Seq(Cell)
  <2>1. Bytes(ms) = FlattenSeq(wires)
    BY DEF Bytes
  <2> HIDE DEF wires
  <2>2. PICK f \in [0..Len(wires) -> Seq(Cell)] : FlattenSeq(wires) = f[Len(wires)]
    BY <1>4, FlattenIs
  <2>3. Len(wires) \in 0..Len(wires)
    BY <1>4
  <2> QED BY <2>1, <2>2, <2>3
<1>6. Len(Bytes(ms)) \in Nat
  BY <1>5
<1>7. Upto(ms, Len(ms)) = Len(Bytes(ms))
  BY <1>1, Zenon DEF Upto
<1> QED BY <1>3, <1>5, <1>6, <1>7

LEMMA UptoGrows ==
  ASSUME NEW ms \in Seq(Messages), NEW j \in 0..Len(ms), NEW k \in j..Len(ms)
  PROVE  Upto(ms, j) \in Nat /\ Upto(ms, j) <= Upto(ms, k)
<1> DEFINE S == {d \in Nat : j + d <= Len(ms) => Upto(ms, j) <= Upto(ms, j + d)}
<1>1. Upto(ms, j) \in Nat
  <2>1. CASE j = 0
    BY <2>1, BytesEnds
  <2>2. CASE j # 0
    BY <2>2, BytesLayout
  <2> QED BY <2>1, <2>2
<1>2. 0 \in S
  <2>1. j + 0 = j
    OBVIOUS
  <2> QED BY <1>1, <2>1
<1>3. ASSUME NEW d \in Nat, d \in S
      PROVE  d + 1 \in S
  <2> SUFFICES ASSUME j + (d + 1) <= Len(ms)
               PROVE  Upto(ms, j) <= Upto(ms, j + (d + 1))
    OBVIOUS
  <2> DEFINE i == j + (d + 1)
  <2>1. i \in 1..Len(ms) /\ i - 1 = j + d /\ j + d <= Len(ms)
    OBVIOUS
  <2>2. Upto(ms, j) <= Upto(ms, i - 1)
    BY <1>3, <2>1
  <2>3. Width(ms[i]) \in Nat
    <3>1. ms[i] \in Messages
      BY <2>1
    <3> QED BY <3>1, WireIs
  <2>4. Upto(ms, i - 1) \in Nat /\ Upto(ms, i) = Upto(ms, i - 1) + Width(ms[i])
    BY <2>1, BytesLayout
  <2> HIDE DEF i
  <2>5. Upto(ms, j) <= Upto(ms, i)
    BY <1>1, <2>2, <2>3, <2>4
  <2> QED BY <2>5 DEF i
<1>4. Nat \subseteq S
  <2> HIDE DEF S
  <2> QED BY <1>2, <1>3, InductionOnNat
<1>5. k - j \in Nat /\ j + (k - j) = k /\ k <= Len(ms)
  OBVIOUS
<1>6. Upto(ms, j) <= Upto(ms, j + (k - j))
  BY <1>4, <1>5
<1> QED BY <1>1, <1>5, <1>6

LEMMA NeedsIs ==
  ASSUME NEW ms \in Seq(Messages), NEW k \in 1..Len(ms)
  PROVE  /\ Upto(ms, k - 1) \in Nat /\ Needs(ms, k) \in Nat /\ Upto(ms, k) \in Nat
         /\ Needs(ms, k) <= Upto(ms, k) /\ Upto(ms, k) <= Len(Bytes(ms))
         /\ Upto(ms, k - 1) + LenSize <= Needs(ms, k)
         /\ ms[k].type # "empty" => Upto(ms, k - 1) + LenSize + HeaderSize <= Needs(ms, k)
         /\ Oversize(ms[k]) =>
              /\ Needs(ms, k) = Upto(ms, k) - ms[k].size /\ ms[k].size > 0
              /\ Needs(ms, k) = Upto(ms, k - 1) + LenSize + HeaderSize + LenSize
         /\ ~ Oversize(ms[k]) => Needs(ms, k) = Upto(ms, k)
<1> DEFINE m == ms[k]
           start == Upto(ms, k - 1)
<1>1. /\ m \in Messages /\ m.size \in Nat /\ LenSize \in Nat /\ HeaderSize \in Nat /\ PayloadCap \in Nat
      /\ m.type \in {"frame", "other", "noise", "empty"}
  BY FramingAssumption
<1>2. /\ start \in Nat /\ Upto(ms, k) \in Nat /\ Upto(ms, k) = start + Width(m)
      /\ Upto(ms, k) <= Len(Bytes(ms))
  BY BytesLayout
<1>3. Needs(ms, k) = Upto(ms, k) - (IF Oversize(m) THEN m.size ELSE 0)
  BY DEF Needs, Upto
<1> HIDE DEF m, start
<1>4. /\ Needs(ms, k) \in Nat /\ Needs(ms, k) <= Upto(ms, k)
      /\ start + LenSize <= Needs(ms, k)
      /\ m.type # "empty" => start + LenSize + HeaderSize <= Needs(ms, k)
      /\ Oversize(m) => /\ Needs(ms, k) = Upto(ms, k) - m.size /\ m.size > 0
                        /\ Needs(ms, k) = start + LenSize + HeaderSize + LenSize
      /\ ~ Oversize(m) => Needs(ms, k) = Upto(ms, k)
  <2>1. CASE Oversize(m)
    <3>1. m.type = "frame" /\ m.size > 0
      BY <1>1, <2>1 DEF Oversize
    <3>2. Width(m) = LenSize + HeaderSize + LenSize + m.size
      BY <3>1 DEF Width
    <3>3. Needs(ms, k) = Upto(ms, k) - m.size
      BY <1>3, <2>1
    <3> QED BY <1>1, <1>2, <2>1, <3>1, <3>2, <3>3
  <2>2. CASE ~ Oversize(m)
    <3>1. LenSize <= Width(m) /\ (m.type # "empty" => LenSize + HeaderSize <= Width(m))
      BY <1>1 DEF Width
    <3>2. Needs(ms, k) = Upto(ms, k)
      BY <1>2, <1>3, <2>2
    <3>3. Width(m) \in Nat
      BY <1>1 DEF Width
    <3> QED BY <1>1, <1>2, <2>2, <3>1, <3>2, <3>3
  <2> QED BY <2>1, <2>2
<1> QED BY <1>2, <1>4 DEF m, start

\* After k messages there is nothing more to be read in the first n cells.
Waits(ms, n, k) ==
  \/ k = Len(ms)
  \/ k > 0 /\ Oversize(ms[k])
  \/ k < Len(ms) /\ Needs(ms, k + 1) > n

LEMMA CompleteIs ==
  ASSUME NEW ms \in Seq(Messages), NEW n \in Nat, NEW k \in 0..Len(ms),
         k > 0 => Needs(ms, k) <= n, \A j \in 1..(k - 1) : ~ Oversize(ms[j]), Waits(ms, n, k)
  PROVE  Complete(ms, n) = k
<1> DEFINE R == {i \in DOMAIN ms : Needs(ms, i) <= n /\ \A j \in 1..(i - 1) : ~ Oversize(ms[j])}
<1>1. ASSUME NEW i \in 1..Len(ms), NEW j \in 1..Len(ms), i < j
      PROVE  Needs(ms, i) < Needs(ms, j)
  <2>1. Needs(ms, i) \in Nat /\ Upto(ms, i) \in Nat /\ Needs(ms, i) <= Upto(ms, i)
    BY NeedsIs
  <2>2. /\ Upto(ms, j - 1) \in Nat /\ Needs(ms, j) \in Nat
        /\ Upto(ms, j - 1) + LenSize <= Needs(ms, j)
    BY NeedsIs
  <2>3. Upto(ms, i) <= Upto(ms, j - 1)
    <3>1. i \in 0..Len(ms) /\ j - 1 \in i..Len(ms)
      BY <1>1
    <3> QED BY <3>1, UptoGrows
  <2>4. LenSize \in Nat /\ LenSize > 0
    BY FramingAssumption
  <2> QED BY <2>1, <2>2, <2>3, <2>4
<1>2. \A i \in 1..Len(ms) : Needs(ms, i) \in Nat
  BY NeedsIs
<1>3. R = 1..k
  <2>1. ASSUME NEW i \in 1..k
        PROVE  i \in R
    <3>1. i \in 1..Len(ms) /\ DOMAIN ms = 1..Len(ms) /\ k \in 1..Len(ms)
      OBVIOUS
    <3>2. Needs(ms, i) <= n
      BY <1>1, <1>2, <3>1
    <3> QED BY <3>1, <3>2
  <2>2. ASSUME NEW i \in R
        PROVE  i \in 1..k
    <3>1. i \in 1..Len(ms) /\ Len(ms) \in Nat
      OBVIOUS
    <3>2. SUFFICES ASSUME i > k PROVE FALSE
      BY <3>1
    <3>3. CASE k > 0 /\ Oversize(ms[k])
      BY <3>1, <3>2, <3>3
    <3>4. CASE k < Len(ms) /\ Needs(ms, k + 1) > n
      <4>1. k + 1 \in 1..Len(ms) /\ Needs(ms, i) <= n
        BY <3>4
      <4> QED BY <1>1, <1>2, <3>1, <3>2, <3>4, <4>1
    <3> QED BY <3>1, <3>2, <3>3, <3>4 DEF Waits
  <2> QED BY <2>1, <2>2
<1>4. Cardinality(1..k) = k
  BY FS_Interval
<1> QED BY <1>3, <1>4 DEF Complete

-------------------------------------------------------------------------------
(***************************************************************************)
(* What a turn of the loop reads                                           *)
(***************************************************************************)
\* buf has the places a + 1 to n of w.
Rest(buf, w, a, n) ==
  /\ a \in Nat /\ a <= n /\ Len(buf) = n - a
  /\ \A i \in 1..Len(buf) : buf[i] = w[a + i]

LEMMA RestFrom ==
  ASSUME NEW T, NEW buf \in Seq(T), NEW w, NEW a, NEW n \in Nat, Rest(buf, w, a, n),
         NEW c \in Nat, c <= Len(buf)
  PROVE  From(buf, c) \in Seq(T) /\ Rest(From(buf, c), w, a + c, n)
<1> DEFINE r == From(buf, c)
<1>1. r \in Seq(T) /\ Len(r) = Len(buf) - c /\ \A i \in 1..(Len(buf) - c) : r[i] = buf[c + i]
  BY DEF From
<1>2. a \in Nat /\ a <= n /\ Len(buf) = n - a /\ \A i \in 1..Len(buf) : buf[i] = w[a + i]
  BY DEF Rest
<1> HIDE DEF r
<1>3. ASSUME NEW i \in 1..(Len(buf) - c)
      PROVE  r[i] = w[(a + c) + i]
  <2>1. c + i \in 1..Len(buf) /\ a + (c + i) = (a + c) + i
    BY <1>2
  <2> QED BY <1>1, <1>2, <2>1
<1>4. a + c \in Nat /\ a + c <= n /\ Len(r) = n - (a + c)
  BY <1>1, <1>2
<1> QED BY <1>1, <1>3, <1>4 DEF Rest, r

LEMMA ReadsLength ==
  ASSUME NEW buf \in Seq(Cell), NEW N \in Nat, LenSize <= Len(buf),
         \A i \in 1..LenSize : buf[i] = [length |-> N, at |-> i]
  PROVE  ReadLength(buf) = N
<1>1. LenSize \in Nat /\ LenSize > 0
  BY FramingAssumption
<1>2. buf[1] = [length |-> N, at |-> 1]
  BY <1>1
<1>3. "length" \in DOMAIN buf[1] /\ buf[1].length = N
  BY <1>2
<1>4. SubSeq(buf, 1, LenSize) = [i \in 1..LenSize |-> buf[i]]
  BY <1>1
<1>5. SubSeq(buf, 1, LenSize) = Prefix(N)
  BY <1>4 DEF Prefix
<1> QED BY <1>3, <1>5, Zenon DEF ReadLength

LEMMA ReadsPayload ==
  ASSUME NEW buf, NEW m, NEW j, buf[1] = [payload |-> m, at |-> j]
  PROVE  ReadLength(buf) = Misread
<1>1. DOMAIN buf[1] = {"payload", "at"}
  OBVIOUS
<1>2. "length" \notin DOMAIN buf[1]
  BY <1>1
<1> QED BY <1>2, Zenon DEF ReadLength

LEMMA ReadsHeader ==
  ASSUME NEW buf \in Seq(Cell), NEW m \in Messages, HeaderSize <= Len(buf),
         \A i \in 1..HeaderSize : buf[i] = [header |-> m, at |-> i]
  PROVE  LET body == SubSeq(buf, 1, HeaderSize)
         IN  body[1].header = m /\ (IsJson(body) <=> m.type # "noise")
<1> DEFINE body == SubSeq(buf, 1, HeaderSize)
<1>1. HeaderSize \in Nat /\ HeaderSize > 0
  BY FramingAssumption
<1>2. body = [i \in 1..HeaderSize |-> buf[i]]
  BY <1>1
<1>3. body = Header(m)
  BY <1>2 DEF Header
<1>4. body[1] = [header |-> m, at |-> 1]
  BY <1>1, <1>2
<1>5. body # <<>>
  <2>1. Len(body) = HeaderSize
    BY <1>1
  <2>2. Len(<<>>) = 0
    OBVIOUS
  <2> QED BY <1>1, <2>1, <2>2
<1> HIDE DEF body
<1>6. "header" \in DOMAIN body[1] /\ body[1].header = m
  BY <1>4
<1>7. IsJson(body) <=> m.type # "noise"
  BY <1>3, <1>5, <1>6, Zenon DEF IsJson
<1> QED BY <1>6, <1>7 DEF body

\* buf begins with what m has behind its header, as far as it has arrived.
HoldsPayload(buf, m) ==
  /\ LenSize <= Len(buf) => \A i \in 1..LenSize : buf[i] = [length |-> m.size, at |-> i]
  /\ LenSize + m.size <= Len(buf) =>
       \A i \in 1..m.size : buf[LenSize + i] = [payload |-> m, at |-> i]

LEMMA ConsumeIs ==
  ASSUME NEW buf \in Seq(Cell), NEW m \in Messages, m.type = "frame", HoldsPayload(buf, m)
  PROVE  LET p == ConsumeFramePayload(m, buf)
             need == IF Oversize(m) THEN LenSize ELSE LenSize + m.size
         IN  /\ Len(buf) < need => p = NeedMore
             /\ need <= Len(buf) =>
                  /\ p # NeedMore /\ p.took = need
                  /\ p.payload = IF Oversize(m) THEN <<>> ELSE Payload(m)
<1> DEFINE explicit == IF m.form = "A" THEN m.size ELSE 0
           plen == IF explicit # 0 THEN explicit ELSE ReadLength(buf)
           p == ConsumeFramePayload(m, buf)
           need == IF Oversize(m) THEN LenSize ELSE LenSize + m.size
<1>1. /\ m.size \in Nat /\ LenSize \in Nat /\ LenSize > 0 /\ PayloadCap \in Nat /\ Len(buf) \in Nat
      /\ m.form \in {"A", "B"} /\ (m.form = "A" => m.size > 0)
  BY FramingAssumption
<1>2. Oversize(m) <=> m.form = "B" /\ m.size > PayloadCap
  BY DEF Oversize
<1>3. LenSize <= Len(buf) => plen = m.size
  <2> SUFFICES ASSUME LenSize <= Len(buf) PROVE plen = m.size
    OBVIOUS
  <2>1. ReadLength(buf) = m.size
    BY <1>1, ReadsLength DEF HoldsPayload
  <2> QED BY <1>1, <2>1
<1>4. p = IF Len(buf) < LenSize + explicit THEN NeedMore
          ELSE IF explicit = 0 /\ (plen > PayloadCap \/ plen = 0)
               THEN [took |-> LenSize, payload |-> <<>>]
          ELSE IF Len(buf) < LenSize + plen THEN NeedMore
          ELSE [took |-> LenSize + plen, payload |-> SubSeq(buf, LenSize + 1, LenSize + plen)]
  BY DEF ConsumeFramePayload
<1>5. explicit \in Nat /\ explicit = (IF m.form = "A" THEN m.size ELSE 0)
  BY <1>1
<1> HIDE DEF plen, explicit, p
<1>6. ASSUME Len(buf) < need
      PROVE  p = NeedMore
  <2>1. CASE Len(buf) < LenSize + explicit
    BY <1>4, <2>1
  <2>2. CASE LenSize + explicit <= Len(buf)
    <3>1. plen = m.size
      BY <1>1, <1>3, <1>5, <2>2
    <3>2. ~ Oversize(m) /\ m.form = "B" /\ explicit = 0 /\ m.size > 0
      BY <1>1, <1>2, <1>5, <1>6, <2>2
    <3> QED BY <1>1, <1>2, <1>4, <1>6, <2>2, <3>1, <3>2
  <2> QED BY <1>1, <1>5, <2>1, <2>2
<1>7. ASSUME need <= Len(buf)
      PROVE  p.took = need /\ p.payload = IF Oversize(m) THEN <<>> ELSE Payload(m)
  <2>1. LenSize <= Len(buf) /\ plen = m.size /\ LenSize + explicit <= Len(buf)
    BY <1>1, <1>2, <1>3, <1>5, <1>7
  <2>2. CASE Oversize(m)
    <3>1. p = [took |-> LenSize, payload |-> <<>>]
      BY <1>1, <1>2, <1>4, <1>5, <2>1, <2>2
    <3> QED BY <2>2, <3>1
  <2>3. CASE ~ Oversize(m) /\ m.size = 0
    <3>1. p = [took |-> LenSize, payload |-> <<>>]
      BY <1>1, <1>2, <1>4, <1>5, <2>1, <2>3
    <3>2. Payload(m) = <<>>
      BY <2>3 DEF Payload
    <3> QED BY <1>1, <2>3, <3>1, <3>2
  <2>4. CASE ~ Oversize(m) /\ m.size # 0
    <3>1. LenSize + m.size <= Len(buf)
      BY <1>7, <2>4
    <3>2. p = [took |-> LenSize + m.size, payload |-> SubSeq(buf, LenSize + 1, LenSize + m.size)]
      BY <1>1, <1>2, <1>4, <1>5, <2>1, <2>4, <3>1
    <3>3. SubSeq(buf, LenSize + 1, LenSize + m.size) = Payload(m)
      <4> DEFINE d == SubSeq(buf, LenSize + 1, LenSize + m.size)
      <4>1. d \in Seq(Cell) /\ Len(d) = m.size /\ \A i \in 1..m.size : d[i] = buf[LenSize + i]
        BY <1>1, <3>1
      <4> HIDE DEF d
      <4>2. \A i \in 1..m.size : d[i] = Payload(m)[i]
        BY <3>1, <4>1 DEF HoldsPayload, Payload
      <4>3. Payload(m) \in Seq(Cell) /\ Len(Payload(m)) = m.size
        BY <1>1, Parts
      <4>4. d = Payload(m)
        BY <4>1, <4>2, <4>3, SeqEqual
      <4> QED BY <4>4 DEF d
    <3> QED BY <2>4, <3>2, <3>3
  <2> QED BY <2>2, <2>3, <2>4
<1>8. need \in Nat /\ need # -1
  BY <1>1
<1>9. NeedMore.took = -1
  BY DEF NeedMore, None
<1>10. need <= Len(buf) => p # NeedMore
  BY <1>7, <1>8, <1>9
<1> QED BY <1>6, <1>7, <1>10 DEF p

-------------------------------------------------------------------------------
(***************************************************************************)
(* What has been returned                                                  *)
(***************************************************************************)
Said == [msg : Messages, payload : Seq(Cell)]

\* out is what the first k messages say.
Told(out, ms, k) ==
  LET said == Only(SubSeq(ms, 1, k), Spoken)
  IN  /\ Len(out) = Len(said)
      /\ \A i \in 1..Len(said) :
           /\ out[i].msg = said[i]
           /\ said[i].type = "frame" => out[i].payload = Meaning(said[i]).payload

LEMMA OnlySpoken ==
  ASSUME NEW ms \in Seq(Messages), NEW k \in 0..(Len(ms) - 1)
  PROVE  LET old == Only(SubSeq(ms, 1, k), Spoken)
             new == Only(SubSeq(ms, 1, k + 1), Spoken)
         IN  /\ old \in Seq(Messages)
             /\ new = IF ms[k + 1] \in Spoken THEN Append(old, ms[k + 1]) ELSE old
<1> DEFINE r == SubSeq(ms, 1, k)
           m == ms[k + 1]
<1>1. r \in Seq(Messages) /\ m \in Messages
  OBVIOUS
<1>2. SubSeq(ms, 1, k + 1) = Append(r, m)
  OBVIOUS
<1> HIDE DEF r, m
<1>3. Only(Append(r, m), Spoken) = IF m \in Spoken THEN Append(Only(r, Spoken), m) ELSE Only(r, Spoken)
  BY <1>1, OnlyOfAppend
<1>4. Only(r, Spoken) \in Seq(Messages)
  BY <1>1, OnlyWithin
<1> QED BY <1>2, <1>3, <1>4, Zenon DEF r, m

LEMMA ToldNothing ==
  ASSUME NEW ms \in Seq(Messages)
  PROVE  Told(<<>>, ms, 0)
<1> DEFINE r == SubSeq(ms, 1, 0)
           q == Only(r, Spoken)
<1>1. r \in Seq(Messages) /\ Len(r) = 0
  OBVIOUS
<1> HIDE DEF r
<1>2. q \in Seq(Messages) /\ Len(q) <= Len(r)
  BY <1>1, OnlyWithin
<1>3. Len(q) = 0 /\ Len(<<>>) = 0
  BY <1>1, <1>2
<1>4. Len(<<>>) = Len(q) /\ \A i \in 1..Len(q) : FALSE
  BY <1>3
<1> HIDE DEF q
<1> QED BY <1>4, Zenon DEF Told, q, r

LEMMA ToldSkips ==
  ASSUME NEW ms \in Seq(Messages), NEW k \in 0..(Len(ms) - 1), NEW out, Told(out, ms, k),
         ms[k + 1] \notin Spoken
  PROVE  Told(out, ms, k + 1)
<1>1. Only(SubSeq(ms, 1, k + 1), Spoken) = Only(SubSeq(ms, 1, k), Spoken)
  BY OnlySpoken
<1> QED BY <1>1, Zenon DEF Told

LEMMA ToldAdds ==
  ASSUME NEW ms \in Seq(Messages), NEW k \in 0..(Len(ms) - 1), NEW out \in Seq(Said), Told(out, ms, k),
         ms[k + 1] \in Spoken, NEW p \in Seq(Cell),
         ms[k + 1].type = "frame" => p = Meaning(ms[k + 1]).payload
  PROVE  /\ Append(out, [msg |-> ms[k + 1], payload |-> p]) \in Seq(Said)
         /\ Told(Append(out, [msg |-> ms[k + 1], payload |-> p]), ms, k + 1)
<1> DEFINE old == Only(SubSeq(ms, 1, k), Spoken)
           new == Only(SubSeq(ms, 1, k + 1), Spoken)
           m == ms[k + 1]
           x == [msg |-> m, payload |-> p]
           r == Append(out, x)
<1>1. old \in Seq(Messages) /\ new = Append(old, m)
  BY OnlySpoken
<1>2. m \in Messages
  BY DEF Spoken
<1>3. x \in Said /\ x.msg = m /\ x.payload = p
  BY <1>2 DEF Said
<1>4. /\ Len(out) = Len(old)
      /\ \A i \in 1..Len(old) :
           /\ out[i].msg = old[i]
           /\ old[i].type = "frame" => out[i].payload = Meaning(old[i]).payload
  BY Zenon DEF Told
<1>5. m.type = "frame" => p = Meaning(m).payload
  OBVIOUS
<1> HIDE DEF old, new, m, x
<1>6. r \in Seq(Said) /\ Len(r) = Len(out) + 1 /\ r[Len(out) + 1] = x /\ \A i \in 1..Len(out) : r[i] = out[i]
  BY <1>3
<1>7. Len(new) = Len(old) + 1 /\ new[Len(old) + 1] = m /\ (\A i \in 1..Len(old) : new[i] = old[i]) /\ Len(old) \in Nat
  BY <1>1, <1>2
<1> HIDE DEF r
<1>8. ASSUME NEW i \in 1..Len(new)
      PROVE  /\ r[i].msg = new[i]
             /\ new[i].type = "frame" => r[i].payload = Meaning(new[i]).payload
  <2>1. i = Len(old) + 1 \/ i \in 1..Len(old)
    BY <1>7
  <2>2. CASE i = Len(old) + 1
    <3>1. r[i] = x /\ new[i] = m
      BY <1>4, <1>6, <1>7, <2>2
    <3> QED BY <1>3, <1>5, <3>1, Zenon
  <2>3. CASE i \in 1..Len(old)
    <3>1. r[i] = out[i] /\ new[i] = old[i]
      BY <1>4, <1>6, <1>7, <2>3
    <3> QED BY <1>4, <2>3, <3>1, Zenon
  <2> QED BY <2>1, <2>2, <2>3
<1>9. Len(r) = Len(new)
  BY <1>4, <1>6, <1>7
<1>10. Told(r, ms, k + 1)
  BY <1>8, <1>9, Zenon DEF Told, new
<1> QED BY <1>6, <1>10 DEF r, x, m

LEMMA ToldMeans ==
  ASSUME NEW ms \in Seq(Messages), NEW k \in 0..Len(ms), NEW out \in Seq(Said), Told(out, ms, k),
         NEW n \in Nat, Complete(ms, n) = k
  PROVE  Understood(out) = Meant(ms, n)
<1> DEFINE said == Only(SubSeq(ms, 1, k), Spoken)
           U == Understood(out)
           M == Meant(ms, n)
<1>1. said \in Seq(Messages) /\ ToSet(said) \subseteq Spoken
  <2>1. SubSeq(ms, 1, k) \in Seq(Messages)
    OBVIOUS
  <2> QED BY <2>1, OnlyWithin
<1>2. M = [i \in DOMAIN said |-> Meaning(said[i])]
  BY Zenon DEF Meant
<1>3. U = [i \in DOMAIN out |-> IF out[i].msg.type = "frame" THEN out[i] ELSE [out[i] EXCEPT !.payload = <<>>]]
  BY Zenon DEF Understood
<1>4. /\ Len(out) = Len(said)
      /\ \A i \in 1..Len(said) :
           /\ out[i].msg = said[i]
           /\ said[i].type = "frame" => out[i].payload = Meaning(said[i]).payload
  BY Zenon DEF Told
<1> HIDE DEF said, U, M
<1>5. DOMAIN said = 1..Len(said) /\ DOMAIN out = 1..Len(said) /\ Len(said) \in Nat
  BY <1>1, <1>4
<1>6. ASSUME NEW i \in 1..Len(said)
      PROVE  U[i] = M[i]
  <2> DEFINE o == out[i]
             m == said[i]
  <2>1. o \in Said
    BY <1>5
  <2>2. o = [msg |-> o.msg, payload |-> o.payload]
    BY <2>1 DEF Said
  <2>3. o.msg = m /\ (m.type = "frame" => o.payload = Meaning(m).payload)
    BY <1>4, Zenon
  <2>4. M[i] = Meaning(m) /\ U[i] = IF o.msg.type = "frame" THEN o ELSE [o EXCEPT !.payload = <<>>]
    BY <1>2, <1>3, <1>5
  <2>5. Meaning(m) = [msg |-> m, payload |-> Meaning(m).payload]
    BY DEF Meaning
  <2>6. m.type # "frame" => Meaning(m).payload = <<>>
    BY DEF Meaning
  <2> HIDE DEF o, m
  <2>7. CASE m.type = "frame"
    <3>1. U[i] = o
      BY <2>3, <2>4, <2>7
    <3>2. o = [msg |-> m, payload |-> Meaning(m).payload]
      BY <2>2, <2>3, <2>7
    <3> QED BY <2>4, <2>5, <3>1, <3>2
  <2>8. CASE m.type # "frame"
    <3>1. U[i] = [o EXCEPT !.payload = <<>>]
      BY <2>3, <2>4, <2>8
    <3>2. [o EXCEPT !.payload = <<>>] = [msg |-> o.msg, payload |-> <<>>]
      BY <2>2
    <3> QED BY <2>3, <2>4, <2>5, <2>6, <2>8, <3>1, <3>2
  <2> QED BY <2>7, <2>8
<1>7. U = [i \in 1..Len(said) |-> U[i]] /\ M = [i \in 1..Len(said) |-> M[i]]
  BY <1>2, <1>3, <1>5
<1>8. U = M
  BY <1>6, <1>7, Zenon
<1> QED BY <1>8 DEF U, M

-------------------------------------------------------------------------------
(***************************************************************************)
(* Where the framer is in the stream                                       *)
(***************************************************************************)
Loop == [buf : Seq(Cell), expected : Int, local : Seq(Cell), out : Seq(Said), more : BOOLEAN]

\* It is after the first k messages, the last of which may be an oversize frame: then
\* it is in that frame's payload, which it takes for messages.
Lost(buf, expected, ms, n, k) ==
  /\ k > 0 /\ Oversize(ms[k])
  /\ \/ expected = None /\ Rest(buf, Bytes(ms), Needs(ms, k), n)
     \/ expected = Misread /\ Len(buf) <= n /\ Needs(ms, k) <= n

Between(buf, expected, ms, n, k) ==
  /\ k > 0 => ~ Oversize(ms[k])
  /\ expected = None /\ Rest(buf, Bytes(ms), Upto(ms, k), n)

\* The length of the next message has been read.
Inside(buf, expected, ms, n, k) ==
  /\ k > 0 => ~ Oversize(ms[k])
  /\ k < Len(ms) /\ ms[k + 1].type # "empty"
  /\ expected = HeaderSize /\ Rest(buf, Bytes(ms), Upto(ms, k) + LenSize, n)

\* Where it is when n cells have arrived, and that it returned what they say.
Placed(buf, expected, out, ms, n, k) ==
  /\ \A j \in 1..(k - 1) : ~ Oversize(ms[j])
  /\ Told(out, ms, k)
  /\ \/ Lost(buf, expected, ms, n, k)
     \/ Between(buf, expected, ms, n, k)
     \/ Inside(buf, expected, ms, n, k)

LoopInv(s, ms, n) ==
  \E k \in 0..Len(ms) :
    Placed(s.buf, s.expected, s.out, ms, n, k) /\ (~ s.more => Waits(ms, n, k))

\* t is what a turn may make of s.
Turns(s, t, ms, n) ==
  t \in Loop /\ LoopInv(t, ms, n) /\ (t.more => Len(t.buf) < Len(s.buf))

Short(ms) == ms \in Seq(Messages) /\ Len(Bytes(ms)) < Misread

LEMMA SizesAre ==
  /\ LenSize \in Nat /\ LenSize > 0 /\ HeaderSize \in Nat /\ HeaderSize > 0
  /\ PayloadCap \in Nat /\ Misread \in Nat /\ PayloadCap < Misread
BY FramingAssumption

LEMMA StopTurns ==
  ASSUME NEW s \in Loop, NEW ms, NEW n, NEW k \in 0..Len(ms),
         Placed(s.buf, s.expected, s.out, ms, n, k), Waits(ms, n, k)
  PROVE  Turns(s, Stop(s), ms, n)
<1> DEFINE t == Stop(s)
<1>1. /\ t \in Loop /\ t.buf = s.buf /\ t.expected = s.expected /\ t.out = s.out
      /\ t.more = FALSE
  BY DEF Stop, Loop
<1> HIDE DEF t
<1> QED BY <1>1, Zenon DEF Turns, LoopInv, t

\* Behind an oversize frame nothing is read as a message any more.
LEMMA LostTurns ==
  ASSUME NEW ms, Short(ms), NEW n \in 0..Len(Bytes(ms)), NEW k \in 0..Len(ms),
         NEW s \in Loop, s.more, Lost(s.buf, s.expected, ms, n, k),
         \A j \in 1..(k - 1) : ~ Oversize(ms[j]), Told(s.out, ms, k)
  PROVE  Turns(s, Turn(s), ms, n)
<1>1. /\ ms \in Seq(Messages) /\ Len(Bytes(ms)) < Misread /\ Len(Bytes(ms)) \in Nat /\ n \in Nat
      /\ n < Misread /\ Len(ms) \in Nat
  BY BytesEnds, SizesAre DEF Short
<1>2. k \in 1..Len(ms) /\ Oversize(ms[k])
  BY <1>1 DEF Lost
<1>3. Waits(ms, n, k)
  BY <1>1, <1>2 DEF Waits
<1>4. Placed(s.buf, s.expected, s.out, ms, n, k)
  BY Zenon DEF Placed
<1>5. Turns(s, Stop(s), ms, n)
  BY <1>3, <1>4, StopTurns
<1>6. s.buf \in Seq(Cell) /\ Len(s.buf) \in Nat
  BY DEF Loop
<1>7. CASE s.expected = None
  <2>1. Rest(s.buf, Bytes(ms), Needs(ms, k), n)
    BY <1>7, SizesAre DEF Lost, None
  <2>2. Turn(s) = TakePrefix(s)
    BY <1>7 DEF Turn
  <2>3. CASE Len(s.buf) < LenSize
    BY <1>5, <2>2, <2>3 DEF TakePrefix
  <2>4. CASE LenSize <= Len(s.buf)
    <3> DEFINE t == [s EXCEPT !.buf = From(@, LenSize), !.expected = Misread]
               m == ms[k]
    <3>1. 1 \in 1..Len(s.buf)
      BY <1>6, <2>4, SizesAre
    <3>2. s.buf[1] = Bytes(ms)[Needs(ms, k) + 1]
      BY <2>1, <3>1 DEF Rest
    <3>3. Bytes(ms)[Needs(ms, k) + 1] = [payload |-> m, at |-> 1]
      <4>1. Carries(Bytes(ms), Upto(ms, k - 1), m)
        BY <1>1, <1>2, BytesLayout
      <4>2. m.type = "frame" /\ m.size \in Nat /\ m.size > 0
        <5>1. m \in Messages
          BY <1>1, <1>2
        <5> QED BY <1>2, <5>1, FramingAssumption DEF Oversize
      <4>3. /\ Needs(ms, k) = Upto(ms, k - 1) + LenSize + HeaderSize + LenSize
            /\ 1 \in 1..m.size
        BY <1>1, <1>2, <4>2, NeedsIs
      <4> HIDE DEF m
      <4> QED BY <4>1, <4>2, <4>3, Zenon DEF Carries
    <3>4. ReadLength(s.buf) = Misread
      BY <3>2, <3>3, ReadsPayload
    <3>5. TakePrefix(s) = t
      <4>1. ~ (Len(s.buf) < LenSize) /\ Misread # 0
        BY <1>1, <1>6, <2>4, SizesAre
      <4> QED BY <3>4, <4>1 DEF TakePrefix
    <3>6. From(s.buf, LenSize) \in Seq(Cell) /\ Rest(From(s.buf, LenSize), Bytes(ms), Needs(ms, k) + LenSize, n)
      BY <1>1, <1>6, <2>1, <2>4, SizesAre, RestFrom
    <3> DEFINE r == From(s.buf, LenSize)
    <3>7. Len(r) \in Nat /\ Len(r) < Len(s.buf) /\ Len(r) <= n
      <4>1. Len(s.buf) = n - Needs(ms, k) /\ Len(r) = n - (Needs(ms, k) + LenSize) /\ Needs(ms, k) \in Nat
        BY <2>1, <3>6 DEF Rest
      <4>2. Len(r) \in Nat
        BY <3>6
      <4> HIDE DEF r
      <4> QED BY <1>1, <1>6, <4>1, <4>2, SizesAre
    <3>8. Needs(ms, k) <= n
      BY <2>1 DEF Rest
    <3>9. /\ t \in Loop /\ t.buf = r /\ t.expected = Misread /\ t.out = s.out /\ t.more
      <4> HIDE DEF r
      <4>1. t = [s EXCEPT !.buf = r, !.expected = Misread]
        BY DEF r
      <4>2. r \in Seq(Cell) /\ Misread \in Int
        BY <3>6, SizesAre DEF r
      <4> HIDE DEF t
      <4> QED BY <4>1, <4>2 DEF Loop
    <3> HIDE DEF t, r
    <3>10. Lost(t.buf, t.expected, ms, n, k)
      BY <1>2, <3>7, <3>8, <3>9 DEF Lost
    <3>11. Placed(t.buf, t.expected, t.out, ms, n, k)
      BY <3>9, <3>10, Zenon DEF Placed
    <3>12. LoopInv(t, ms, n)
      BY <3>9, <3>11, Zenon DEF LoopInv
    <3> QED BY <2>2, <3>5, <3>7, <3>9, <3>12 DEF Turns
  <2> QED BY <1>6, <2>3, <2>4, SizesAre
<1>8. CASE s.expected # None
  <2>1. s.expected = Misread /\ Len(s.buf) <= n
    BY <1>8 DEF Lost
  <2>2. Turn(s) = TakeBody(s) /\ Len(s.buf) < s.expected
    BY <1>1, <1>6, <1>8, <2>1, SizesAre DEF Turn
  <2>3. TakeBody(s) = Stop(s)
    BY <2>2 DEF TakeBody
  <2> QED BY <1>5, <2>2, <2>3
<1> QED BY <1>7, <1>8

LEMMA MovesTurn ==
  ASSUME NEW s, NEW t \in Loop, NEW ms, NEW n, NEW k \in 0..Len(ms), t.more,
         Len(t.buf) < Len(s.buf), Placed(t.buf, t.expected, t.out, ms, n, k)
  PROVE  Turns(s, t, ms, n)
BY Zenon DEF Turns, LoopInv

\* The length of a message is read, and a message without a body is through.
LEMMA BetweenTurns ==
  ASSUME NEW ms, Short(ms), NEW n \in 0..Len(Bytes(ms)), NEW k \in 0..Len(ms),
         NEW s \in Loop, s.more, Between(s.buf, s.expected, ms, n, k),
         \A j \in 1..(k - 1) : ~ Oversize(ms[j]), Told(s.out, ms, k)
  PROVE  Turns(s, Turn(s), ms, n)
<1>1. /\ ms \in Seq(Messages) /\ Len(Bytes(ms)) \in Nat /\ n \in Nat /\ n <= Len(Bytes(ms))
      /\ Len(ms) \in Nat
  BY BytesEnds DEF Short
<1>2. /\ s.expected = None /\ Rest(s.buf, Bytes(ms), Upto(ms, k), n)
      /\ s.buf \in Seq(Cell) /\ Len(s.buf) \in Nat /\ (k > 0 => ~ Oversize(ms[k]))
  BY DEF Between, Loop
<1>3. Upto(ms, k) \in Nat /\ Upto(ms, k) <= n /\ Len(s.buf) = n - Upto(ms, k)
  BY <1>2 DEF Rest
<1>4. Turn(s) = TakePrefix(s)
  BY <1>2 DEF Turn
<1>5. Placed(s.buf, s.expected, s.out, ms, n, k)
  BY Zenon DEF Placed
<1>6. CASE Len(s.buf) < LenSize
  <2>1. Waits(ms, n, k)
    <3>1. CASE k = Len(ms)
      BY <3>1 DEF Waits
    <3>2. CASE k # Len(ms)
      <4>1. k + 1 \in 1..Len(ms) /\ (k + 1) - 1 = k /\ k < Len(ms)
        BY <1>1, <3>2
      <4>2. Upto(ms, k) + LenSize <= Needs(ms, k + 1) /\ Needs(ms, k + 1) \in Nat
        BY <1>1, <4>1, NeedsIs
      <4>3. Needs(ms, k + 1) > n
        BY <1>1, <1>3, <1>6, <4>2, SizesAre
      <4> QED BY <4>1, <4>3 DEF Waits
    <3> QED BY <3>1, <3>2
  <2>2. Turns(s, Stop(s), ms, n)
    BY <1>5, <2>1, StopTurns
  <2>3. TakePrefix(s) = Stop(s)
    BY <1>6 DEF TakePrefix
  <2> QED BY <1>4, <2>2, <2>3
<1>7. CASE LenSize <= Len(s.buf)
  <2> DEFINE m == ms[k + 1]
             N == IF m.type = "empty" THEN 0 ELSE HeaderSize
             r == From(s.buf, LenSize)
             t == [s EXCEPT !.buf = r, !.expected = IF N = 0 THEN None ELSE N]
  <2>1. k # Len(ms)
    <3>1. SUFFICES ASSUME k = Len(ms) PROVE FALSE
      OBVIOUS
    <3>2. Upto(ms, k) = Len(Bytes(ms))
      BY <1>1, <3>1, BytesEnds
    <3> QED BY <1>1, <1>3, <1>7, <3>2, SizesAre
  <2>2. k + 1 \in 1..Len(ms) /\ (k + 1) - 1 = k /\ k + 1 \in 0..Len(ms) /\ k < Len(ms) /\ k \in Nat
    BY <1>1, <2>1
  <2>3. m \in Messages /\ m.type \in {"frame", "other", "noise", "empty"} /\ N \in Nat
    BY <1>1, <2>2, FramingAssumption
  <2>4. ReadLength(s.buf) = N
    <3>1. Carries(Bytes(ms), Upto(ms, k), m)
      <4>1. Carries(Bytes(ms), Upto(ms, (k + 1) - 1), m)
        BY <1>1, <2>2, BytesLayout
      <4> QED BY <2>2, <4>1
    <3>2. ASSUME NEW i \in 1..LenSize
          PROVE  s.buf[i] = [length |-> N, at |-> i]
      <4>1. i \in 1..Len(s.buf)
        BY <1>2, <1>7, SizesAre
      <4>2. s.buf[i] = Bytes(ms)[Upto(ms, k) + i]
        BY <1>2, <4>1 DEF Rest
      <4> HIDE DEF m
      <4> QED BY <3>1, <4>2 DEF Carries
    <3> HIDE DEF N
    <3> QED BY <1>2, <1>7, <2>3, <3>2, ReadsLength
  <2>5. TakePrefix(s) = t
    <3>1. ~ (Len(s.buf) < LenSize)
      BY <1>2, <1>7, SizesAre
    <3> HIDE DEF N
    <3> QED BY <2>4, <3>1 DEF TakePrefix
  <2>6. r \in Seq(Cell) /\ Rest(r, Bytes(ms), Upto(ms, k) + LenSize, n)
    BY <1>1, <1>2, <1>7, SizesAre, RestFrom
  <2>7. Len(r) < Len(s.buf)
    <3>1. Len(r) = n - (Upto(ms, k) + LenSize)
      BY <2>6 DEF Rest
    <3> HIDE DEF r
    <3> QED BY <1>1, <1>3, <3>1, SizesAre
  <2>8. /\ t \in Loop /\ t.buf = r /\ t.out = s.out /\ t.more
        /\ t.expected = IF m.type = "empty" THEN None ELSE HeaderSize
    <3>1. (IF N = 0 THEN None ELSE N) = IF m.type = "empty" THEN None ELSE HeaderSize
      BY SizesAre
    <3>2. (IF N = 0 THEN None ELSE N) \in Int
      BY SizesAre DEF None
    <3> HIDE DEF r, N
    <3> QED BY <2>6, <3>1, <3>2 DEF Loop
  <2> HIDE DEF t, r, N
  <2>9. CASE m.type = "empty"
    <3>1. ~ Oversize(m) /\ m \notin Spoken
      BY <2>9 DEF Oversize, Spoken
    <3>2. Told(t.out, ms, k + 1)
      <4>1. k \in 0..(Len(ms) - 1)
        BY <1>1, <2>2
      <4> QED BY <1>1, <2>8, <3>1, <4>1, ToldSkips
    <3>3. Upto(ms, k + 1) = Upto(ms, k) + LenSize
      <4>1. Upto(ms, k + 1) = Upto(ms, (k + 1) - 1) + Width(m)
        BY <1>1, <2>2, BytesLayout
      <4>2. Width(m) = LenSize
        BY <2>9 DEF Width
      <4> HIDE DEF m
      <4> QED BY <2>2, <4>1, <4>2
    <3>4. Between(t.buf, t.expected, ms, n, k + 1)
      BY <2>6, <2>8, <2>9, <3>1, <3>3 DEF Between
    <3>5. \A j \in 1..((k + 1) - 1) : ~ Oversize(ms[j])
      BY <1>2, <2>2
    <3>6. Placed(t.buf, t.expected, t.out, ms, n, k + 1)
      BY <3>2, <3>4, <3>5, Zenon DEF Placed
    <3>7. Turns(s, t, ms, n)
      BY <2>2, <2>7, <2>8, <3>6, MovesTurn
    <3> QED BY <1>4, <2>5, <3>7
  <2>10. CASE m.type # "empty"
    <3>1. Inside(t.buf, t.expected, ms, n, k)
      BY <1>2, <2>2, <2>6, <2>8, <2>10 DEF Inside
    <3>2. Placed(t.buf, t.expected, t.out, ms, n, k)
      BY <2>8, <3>1, Zenon DEF Placed
    <3>3. Turns(s, t, ms, n)
      BY <2>7, <2>8, <3>2, MovesTurn
    <3> QED BY <1>4, <2>5, <3>3
  <2> QED BY <2>9, <2>10
<1> QED BY <1>2, <1>6, <1>7, SizesAre

\* The body of the next message, and what is behind it.
LEMMA BodyIs ==
  ASSUME NEW ms \in Seq(Messages), NEW k \in 0..(Len(ms) - 1), ms[k + 1].type # "empty",
         NEW n \in Nat, NEW buf \in Seq(Cell), HeaderSize <= Len(buf),
         Rest(buf, Bytes(ms), Upto(ms, k) + LenSize, n)
  PROVE  /\ SubSeq(buf, 1, HeaderSize)[1].header = ms[k + 1]
         /\ IsJson(SubSeq(buf, 1, HeaderSize)) <=> ms[k + 1].type # "noise"
         /\ From(buf, HeaderSize) \in Seq(Cell)
         /\ Rest(From(buf, HeaderSize), Bytes(ms), Upto(ms, k) + LenSize + HeaderSize, n)
         /\ ms[k + 1].type = "frame" => HoldsPayload(From(buf, HeaderSize), ms[k + 1])
<1> DEFINE m == ms[k + 1]
           w == Bytes(ms)
           a == Upto(ms, k)
           r == From(buf, HeaderSize)
<1>1. k + 1 \in 1..Len(ms) /\ (k + 1) - 1 = k
  OBVIOUS
<1>2. m \in Messages /\ m.size \in Nat
  BY <1>1, FramingAssumption
<1>3. Carries(w, a, m) /\ a \in Nat
  <2>1. Carries(w, Upto(ms, (k + 1) - 1), m) /\ Upto(ms, (k + 1) - 1) \in Nat
    BY <1>1, BytesLayout
  <2> QED BY <1>1, <2>1
<1>4. r \in Seq(Cell) /\ Rest(r, w, a + LenSize + HeaderSize, n)
  BY SizesAre, RestFrom
<1>5. m.type # "empty"
  OBVIOUS
<1> HIDE DEF m, w, a, r
<1>6. ASSUME NEW i \in 1..HeaderSize
      PROVE  buf[i] = [header |-> m, at |-> i]
  <2>1. i \in 1..Len(buf)
    BY SizesAre
  <2>2. buf[i] = w[a + LenSize + i]
    BY <2>1 DEF Rest, w, a
  <2> QED BY <1>3, <1>5, <2>2 DEF Carries
<1>7. SubSeq(buf, 1, HeaderSize)[1].header = m /\ (IsJson(SubSeq(buf, 1, HeaderSize)) <=> m.type # "noise")
  BY <1>2, <1>6, ReadsHeader
<1>8. m.type = "frame" => HoldsPayload(r, m)
  <2> SUFFICES ASSUME m.type = "frame" PROVE HoldsPayload(r, m)
    OBVIOUS
  <2>1. \A i \in 1..Len(r) : r[i] = w[a + LenSize + HeaderSize + i]
    BY <1>4 DEF Rest
  <2>2. ASSUME LenSize <= Len(r), NEW i \in 1..LenSize
        PROVE  r[i] = [length |-> m.size, at |-> i]
    <3>1. i \in 1..Len(r)
      BY <1>4, <2>2, SizesAre
    <3> QED BY <1>3, <2>1, <3>1 DEF Carries
  <2>3. ASSUME LenSize + m.size <= Len(r), NEW i \in 1..m.size
        PROVE  r[LenSize + i] = [payload |-> m, at |-> i]
    <3>1. LenSize + i \in 1..Len(r)
      BY <1>2, <1>4, <2>3, SizesAre
    <3>2. a + LenSize + HeaderSize + (LenSize + i) = a + LenSize + HeaderSize + LenSize + i
      BY <1>2, <1>3, SizesAre
    <3>3. r[LenSize + i] = w[a + LenSize + HeaderSize + LenSize + i]
      BY <2>1, <3>1, <3>2
    <3> QED BY <1>3, <3>3 DEF Carries
  <2> QED BY <2>2, <2>3 DEF HoldsPayload
<1> QED BY <1>4, <1>7, <1>8 DEF m, w, a, r

\* After message k + 1 the framer is behind it, or in it if it is oversize.
LEMMA NextPlaced ==
  ASSUME NEW ms \in Seq(Messages), NEW k \in 0..(Len(ms) - 1), NEW n,
         \A j \in 1..k : ~ Oversize(ms[j]),
         NEW buf, NEW out, Rest(buf, Bytes(ms), Needs(ms, k + 1), n), Told(out, ms, k + 1)
  PROVE  Placed(buf, None, out, ms, n, k + 1)
<1>1. k + 1 \in 1..Len(ms) /\ (k + 1) - 1 = k /\ k + 1 > 0
  OBVIOUS
<1>2. CASE Oversize(ms[k + 1])
  BY <1>1, <1>2 DEF Placed, Lost
<1>3. CASE ~ Oversize(ms[k + 1])
  <2>1. Upto(ms, k + 1) = Needs(ms, k + 1)
    BY <1>1, <1>3, NeedsIs
  <2> QED BY <1>1, <1>3, <2>1 DEF Placed, Between
<1> QED BY <1>2, <1>3

\* A message that is returned.
LEMMA ReturnTurns ==
  ASSUME NEW ms \in Seq(Messages), NEW k \in 0..(Len(ms) - 1), NEW n \in Nat, NEW s \in Loop, s.more,
         \A j \in 1..k : ~ Oversize(ms[j]), Told(s.out, ms, k), ms[k + 1] \in Spoken,
         NEW p \in Seq(Cell), ms[k + 1].type = "frame" => p = Meaning(ms[k + 1]).payload,
         NEW r \in Seq(Cell), Len(r) < Len(s.buf), Rest(r, Bytes(ms), Needs(ms, k + 1), n)
  PROVE  Turns(s, Return(s, ms[k + 1], p, r), ms, n)
<1> DEFINE m == ms[k + 1]
           x == [msg |-> m, payload |-> p]
           out == Append(s.out, x)
           t == Return(s, m, p, r)
<1>1. s.out \in Seq(Said)
  BY DEF Loop
<1>2. out \in Seq(Said) /\ Told(out, ms, k + 1)
  BY <1>1, ToldAdds
<1>3. t = [s EXCEPT !.buf = r, !.expected = None, !.local = p, !.out = out]
  BY DEF Return
<1> HIDE DEF out, t
<1>4. t \in Loop /\ t.buf = r /\ t.expected = None /\ t.out = out /\ t.more
  <2>1. None \in Int
    BY DEF None
  <2> QED BY <1>2, <1>3, <2>1 DEF Loop
<1>5. Placed(r, None, out, ms, n, k + 1)
  BY <1>2, NextPlaced
<1>6. Turns(s, t, ms, n)
  <2>1. k + 1 \in 0..Len(ms)
    OBVIOUS
  <2>2. Placed(t.buf, t.expected, t.out, ms, n, k + 1)
    BY <1>4, <1>5
  <2> QED BY <1>4, <2>1, <2>2, MovesTurn
<1> QED BY <1>6 DEF t

\* The header of a frame without its payload is put back.
LEMMA PutBackTurns ==
  ASSUME NEW ms \in Seq(Messages), NEW k \in 0..(Len(ms) - 1), NEW n \in Nat, NEW s \in Loop,
         s.expected = HeaderSize, ms[k + 1].type = "frame",
         \A j \in 1..k : ~ Oversize(ms[j]), Told(s.out, ms, k),
         Rest(s.buf, Bytes(ms), Upto(ms, k) + LenSize, n), Needs(ms, k + 1) > n
  PROVE  Turns(s, [Stop(s) EXCEPT !.buf = Prefix(s.expected) \o @, !.expected = None], ms, n)
<1> DEFINE m == ms[k + 1]
           w == Bytes(ms)
           a == Upto(ms, k)
           p == Prefix(HeaderSize)
           b == p \o s.buf
           t == [Stop(s) EXCEPT !.buf = Prefix(s.expected) \o @, !.expected = None]
<1>1. k + 1 \in 1..Len(ms) /\ (k + 1) - 1 = k /\ k \in 0..Len(ms) /\ k < Len(ms)
  OBVIOUS
<1>2. Carries(w, a, m) /\ a \in Nat
  <2>1. Carries(w, Upto(ms, (k + 1) - 1), m) /\ Upto(ms, (k + 1) - 1) \in Nat
    BY <1>1, BytesLayout
  <2> QED BY <1>1, <2>1
<1>3. p \in Seq(Cell) /\ Len(p) = LenSize /\ s.buf \in Seq(Cell)
  <2>1. m \in Messages /\ HeaderSize \in Nat
    BY <1>1, SizesAre
  <2>2. p \in Seq(Cell) /\ Len(p) = LenSize
    BY <2>1, Parts
  <2> QED BY <2>2 DEF Loop
<1>4. b \in Seq(Cell) /\ Chained(b, p, s.buf)
  BY <1>3, ConcatChains
<1>5. m.type = "frame" /\ \A i \in 1..LenSize : p[i] = [length |-> HeaderSize, at |-> i]
  BY DEF Prefix
<1>6. t = [s EXCEPT !.buf = b, !.expected = None, !.more = FALSE]
  BY DEF Stop, Loop
<1> HIDE DEF m, p, b, t
<1>7. Rest(b, w, a, n)
  <2>1. /\ a + LenSize \in Nat /\ a + LenSize <= n /\ Len(s.buf) = n - (a + LenSize)
        /\ \A i \in 1..Len(s.buf) : s.buf[i] = w[(a + LenSize) + i]
    BY DEF Rest
  <2> HIDE DEF a, w
  <2>2. Len(b) = n - a /\ a <= n
    BY <1>2, <1>3, <1>4, <2>1, SizesAre DEF Chained
  <2>3. ASSUME NEW i \in 1..Len(b)
        PROVE  b[i] = w[a + i]
    <3>1. CASE i <= LenSize
      <4>1. i \in 1..LenSize /\ i \in 1..Len(p)
        BY <1>2, <1>3, <2>2, <3>1, SizesAre
      <4>2. b[i] = p[i]
        BY <1>4, <4>1 DEF Chained
      <4> QED BY <1>2, <1>5, <4>1, <4>2 DEF Carries
    <3>2. CASE i > LenSize
      <4> DEFINE j == i - LenSize
      <4>1. j \in 1..Len(s.buf) /\ LenSize + j = i /\ (a + LenSize) + j = a + i
        BY <1>2, <1>3, <1>4, <3>2, SizesAre DEF Chained
      <4>2. b[LenSize + j] = s.buf[j]
        <5> HIDE DEF j
        <5> QED BY <1>3, <1>4, <4>1 DEF Chained
      <4> HIDE DEF j
      <4> QED BY <2>1, <4>1, <4>2
    <3>3. i \in Nat
      BY <1>2, <2>2
    <3> QED BY <3>1, <3>2, <3>3, SizesAre
  <2> QED BY <1>2, <2>2, <2>3 DEF Rest
<1>8. /\ t \in Loop /\ t.buf = b /\ t.expected = None /\ t.out = s.out /\ t.more = FALSE
  <2>1. None \in Int
    BY DEF None
  <2> QED BY <1>4, <1>6, <2>1 DEF Loop
<1>9. Waits(ms, n, k)
  BY <1>1 DEF Waits
<1>10. Placed(b, None, s.out, ms, n, k)
  <2>1. Between(b, None, ms, n, k)
    BY <1>1, <1>7 DEF Between, a, w
  <2>2. \A j \in 1..(k - 1) : ~ Oversize(ms[j])
    OBVIOUS
  <2> QED BY <2>1, <2>2, Zenon DEF Placed
<1>11. Turns(s, t, ms, n)
  BY <1>1, <1>8, <1>9, <1>10, Zenon DEF Turns, LoopInv
<1> QED BY <1>11 DEF t

LEMMA InsideTurns ==
  ASSUME NEW ms, Short(ms), NEW n \in 0..Len(Bytes(ms)), NEW k \in 0..Len(ms),
         NEW s \in Loop, s.more, Inside(s.buf, s.expected, ms, n, k),
         \A j \in 1..(k - 1) : ~ Oversize(ms[j]), Told(s.out, ms, k)
  PROVE  Turns(s, Turn(s), ms, n)
<1> DEFINE m == ms[k + 1]
           a == Upto(ms, k)
           body == SubSeq(s.buf, 1, HeaderSize)
           r == From(s.buf, HeaderSize)
           p == ConsumeFramePayload(m, r)
<1>1. /\ ms \in Seq(Messages) /\ Len(ms) \in Nat /\ Len(Bytes(ms)) \in Nat
      /\ n \in Nat /\ n <= Len(Bytes(ms))
  BY BytesEnds DEF Short
<1>2. /\ s.expected = HeaderSize /\ Rest(s.buf, Bytes(ms), a + LenSize, n)
      /\ k < Len(ms) /\ m.type # "empty" /\ s.buf \in Seq(Cell) /\ s.local \in Seq(Cell)
      /\ Len(s.buf) \in Nat /\ (k > 0 => ~ Oversize(ms[k]))
  BY DEF Inside, Loop
<1>3. k + 1 \in 1..Len(ms) /\ (k + 1) - 1 = k /\ k \in 0..(Len(ms) - 1) /\ k \in Nat
  BY <1>1, <1>2
<1>4. m \in Messages /\ m.type \in {"frame", "other", "noise"} /\ m.size \in Nat
  <2>1. m \in Messages
    BY <1>1, <1>3
  <2>2. m \in [type : {"frame", "other", "noise", "empty"}, form : {"A", "B"}, size : Nat]
    BY <2>1, FramingAssumption
  <2> HIDE DEF m
  <2>3. m.type \in {"frame", "other", "noise", "empty"} /\ m.size \in Nat
    BY <2>2
  <2> QED BY <1>2, <2>1, <2>3
<1>5. \A j \in 1..k : ~ Oversize(ms[j])
  BY <1>2, <1>3
<1>6. /\ a \in Nat /\ Needs(ms, k + 1) \in Nat /\ a + LenSize + HeaderSize <= Needs(ms, k + 1)
      /\ Oversize(m) => Needs(ms, k + 1) = a + LenSize + HeaderSize + LenSize
      /\ ~ Oversize(m) => Needs(ms, k + 1) = a + Width(m)
  <2>1. /\ Upto(ms, (k + 1) - 1) \in Nat /\ Needs(ms, k + 1) \in Nat
        /\ Upto(ms, (k + 1) - 1) + LenSize + HeaderSize <= Needs(ms, k + 1)
        /\ Oversize(m) => Needs(ms, k + 1) = Upto(ms, (k + 1) - 1) + LenSize + HeaderSize + LenSize
        /\ ~ Oversize(m) => Needs(ms, k + 1) = Upto(ms, k + 1)
    BY <1>1, <1>2, <1>3, NeedsIs
  <2>2. Upto(ms, k + 1) = Upto(ms, (k + 1) - 1) + Width(m)
    BY <1>1, <1>3, BytesLayout
  <2> HIDE DEF m
  <2> QED BY <1>3, <2>1, <2>2
<1>7. Len(s.buf) = n - (a + LenSize) /\ a + LenSize <= n
  BY <1>2 DEF Rest
<1>8. Turn(s) = TakeBody(s)
  BY <1>2, SizesAre DEF Turn, None
<1>9. CASE Len(s.buf) < HeaderSize
  <2>1. Waits(ms, n, k)
    <3>1. Needs(ms, k + 1) > n
      <4> HIDE DEF a, m
      <4> QED BY <1>1, <1>6, <1>7, <1>9, SizesAre
    <3> QED BY <1>2, <3>1 DEF Waits
  <2>2. Placed(s.buf, s.expected, s.out, ms, n, k)
    BY Zenon DEF Placed
  <2>3. Turns(s, Stop(s), ms, n)
    BY <2>1, <2>2, StopTurns
  <2>4. TakeBody(s) = Stop(s)
    BY <1>2, <1>9 DEF TakeBody
  <2> QED BY <1>8, <2>3, <2>4
<1>10. CASE HeaderSize <= Len(s.buf)
  <2>1. /\ body[1].header = m /\ (IsJson(body) <=> m.type # "noise")
        /\ r \in Seq(Cell) /\ Rest(r, Bytes(ms), a + LenSize + HeaderSize, n)
        /\ m.type = "frame" => HoldsPayload(r, m)
    <3>1. /\ ms \in Seq(Messages) /\ k \in 0..(Len(ms) - 1) /\ ms[k + 1].type # "empty" /\ n \in Nat
          /\ s.buf \in Seq(Cell) /\ HeaderSize <= Len(s.buf)
          /\ Rest(s.buf, Bytes(ms), Upto(ms, k) + LenSize, n)
      BY <1>1, <1>2, <1>3, <1>10
    <3> QED BY <3>1, BodyIs, Zenon
  <2>2. TakeBody(s) =
          IF ~ IsJson(body) THEN [s EXCEPT !.buf = r, !.expected = None]
          ELSE IF m.type # "frame" THEN Return(s, m, s.local, r)
          ELSE IF p = NeedMore THEN [Stop(s) EXCEPT !.buf = Prefix(s.expected) \o @, !.expected = None]
          ELSE Return(s, m, p.payload, From(r, p.took))
    <3>1. ~ (Len(s.buf) < HeaderSize)
      BY <1>2, <1>10, SizesAre
    <3>2. body = SubSeq(s.buf, 1, s.expected) /\ r = From(s.buf, s.expected)
      BY <1>2
    <3>3. m = SubSeq(s.buf, 1, s.expected)[1].header
      BY <1>2, <2>1
    <3> HIDE DEF body, r, m
    <3> QED BY <1>2, <3>1, <3>2, <3>3, Zenon DEF TakeBody, p
  <2>3. Len(r) = n - (a + LenSize + HeaderSize) /\ Len(r) \in Nat /\ Len(r) < Len(s.buf)
    <3>1. Len(r) = n - (a + LenSize + HeaderSize) /\ Len(r) \in Nat
      BY <2>1 DEF Rest
    <3> HIDE DEF r, a
    <3> QED BY <1>1, <1>6, <1>7, <3>1, SizesAre
  <2> HIDE DEF body, r, p, a
  <2>4. CASE m.type = "noise"
    <3> DEFINE t == [s EXCEPT !.buf = r, !.expected = None]
    <3>1. TakeBody(s) = t
      BY <2>1, <2>2, <2>4
    <3>2. t \in Loop /\ t.buf = r /\ t.expected = None /\ t.out = s.out /\ t.more
      <4>1. None \in Int
        BY DEF None
      <4> QED BY <2>1, <4>1 DEF Loop
    <3> HIDE DEF t
    <3>3. Needs(ms, k + 1) = a + LenSize + HeaderSize
      <4>1. ~ Oversize(m) /\ Width(m) = LenSize + HeaderSize
        BY <2>4 DEF Oversize, Width
      <4> HIDE DEF m
      <4> QED BY <1>6, <4>1, SizesAre
    <3>4. Told(s.out, ms, k + 1)
      <4>1. ms[k + 1] \notin Spoken
        BY <2>4 DEF Spoken
      <4> QED BY <1>1, <1>3, <4>1, ToldSkips
    <3>5. Placed(t.buf, t.expected, t.out, ms, n, k + 1)
      BY <1>1, <1>3, <1>5, <2>1, <3>2, <3>3, <3>4, NextPlaced
    <3>6. k + 1 \in 0..Len(ms)
      BY <1>3
    <3>7. Turns(s, t, ms, n)
      BY <2>3, <3>2, <3>5, <3>6, MovesTurn
    <3> QED BY <1>8, <3>1, <3>7
  <2>5. CASE m.type = "other"
    <3>1. TakeBody(s) = Return(s, m, s.local, r)
      BY <2>1, <2>2, <2>5
    <3>2. Needs(ms, k + 1) = a + LenSize + HeaderSize
      <4>1. ~ Oversize(m) /\ Width(m) = LenSize + HeaderSize
        BY <2>5 DEF Oversize, Width
      <4> HIDE DEF m
      <4> QED BY <1>6, <4>1, SizesAre
    <3>3. ms[k + 1] \in Spoken /\ ms[k + 1].type # "frame"
      BY <1>4, <2>5 DEF Spoken
    <3>4. Rest(r, Bytes(ms), Needs(ms, k + 1), n)
      BY <2>1, <3>2
    <3>5. Turns(s, Return(s, ms[k + 1], s.local, r), ms, n)
      BY <1>1, <1>2, <1>3, <1>5, <2>1, <2>3, <3>3, <3>4, ReturnTurns
    <3> QED BY <1>8, <3>1, <3>5
  <2>6. CASE m.type = "frame"
    <3> DEFINE need == IF Oversize(m) THEN LenSize ELSE LenSize + m.size
               q == From(r, need)
    <3>1. /\ Len(r) < need => p = NeedMore
          /\ need <= Len(r) => /\ p # NeedMore /\ p.took = need
                               /\ p.payload = IF Oversize(m) THEN <<>> ELSE Payload(m)
      BY <1>4, <2>1, <2>6, ConsumeIs DEF p
    <3>2. Needs(ms, k + 1) = a + LenSize + HeaderSize + need /\ need \in Nat
      <4>1. Width(m) = LenSize + HeaderSize + LenSize + m.size
        BY <2>6 DEF Width
      <4>2. m.size \in Nat
        BY <1>4
      <4> HIDE DEF m
      <4> QED BY <1>6, <4>1, <4>2, SizesAre
    <3>3. IsJson(body)
      BY <2>1, <2>6
    <3> HIDE DEF need
    <3>4. CASE Len(r) < need
      <4>1. TakeBody(s) = [Stop(s) EXCEPT !.buf = Prefix(s.expected) \o @, !.expected = None]
        BY <2>2, <2>6, <3>1, <3>3, <3>4
      <4>2. Needs(ms, k + 1) > n
        <5> HIDE DEF m
        <5> QED BY <1>1, <1>6, <2>3, <3>2, <3>4, SizesAre
      <4>3. Rest(s.buf, Bytes(ms), Upto(ms, k) + LenSize, n)
        BY <1>2 DEF a
      <4>4. Turns(s, [Stop(s) EXCEPT !.buf = Prefix(s.expected) \o @, !.expected = None], ms, n)
        BY <1>1, <1>2, <1>3, <1>5, <2>6, <4>2, <4>3, PutBackTurns
      <4> QED BY <1>8, <4>1, <4>4
    <3>5. CASE need <= Len(r)
      <4>1. TakeBody(s) = Return(s, m, p.payload, q)
        BY <2>2, <2>6, <3>1, <3>3, <3>5
      <4>2. q \in Seq(Cell) /\ Rest(q, Bytes(ms), (a + LenSize + HeaderSize) + need, n)
        BY <1>1, <2>1, <3>2, <3>5, RestFrom
      <4>3. Rest(q, Bytes(ms), Needs(ms, k + 1), n)
        BY <3>2, <4>2
      <4>4. Len(q) < Len(s.buf)
        <5>1. Len(q) = n - Needs(ms, k + 1)
          BY <4>3 DEF Rest
        <5>2. a \in Nat /\ Needs(ms, k + 1) \in Nat
          BY <1>6
        <5>3. Len(q) = Len(r) - need
          <6> HIDE DEF q
          <6> QED BY <1>1, <2>3, <3>2, <5>1, <5>2, SizesAre
        <5> HIDE DEF q
        <5> QED BY <1>2, <2>3, <3>2, <5>3
      <4>5. p.payload \in Seq(Cell) /\ p.payload = Meaning(m).payload
        <5>1. p.payload = IF Oversize(m) THEN <<>> ELSE Payload(m)
          BY <3>1, <3>5
        <5>2. Payload(m) \in Seq(Cell) /\ <<>> \in Seq(Cell)
          <6>1. 0 \in Nat /\ <<>> \in Seq(Cell)
            OBVIOUS
          <6> QED BY <1>4, <6>1, Parts
        <5>3. Meaning(m).payload = IF Oversize(m) THEN <<>> ELSE Payload(m)
          BY <2>6 DEF Meaning
        <5> QED BY <5>1, <5>2, <5>3
      <4>6. ms[k + 1] \in Spoken
        BY <1>4, <2>6 DEF Spoken
      <4> HIDE DEF q
      <4>7. Turns(s, Return(s, ms[k + 1], p.payload, q), ms, n)
        BY <1>1, <1>3, <1>5, <4>2, <4>3, <4>4, <4>5, <4>6, ReturnTurns
      <4> QED BY <1>8, <4>1, <4>7
    <3> QED BY <2>3, <3>2, <3>4, <3>5
  <2> QED BY <1>4, <2>4, <2>5, <2>6
<1> QED BY <1>2, <1>9, <1>10, SizesAre

-------------------------------------------------------------------------------
(***************************************************************************)
(* The loop                                                                *)
(***************************************************************************)
LEMMA TurnKeeps ==
  ASSUME NEW ms, Short(ms), NEW n \in 0..Len(Bytes(ms)), NEW s \in Loop, LoopInv(s, ms, n)
  PROVE  /\ s.more => Turns(s, Turn(s), ms, n)
         /\ ~ s.more => Turn(s) = s
<1>1. ASSUME s.more
      PROVE  Turns(s, Turn(s), ms, n)
  <2>1. PICK k \in 0..Len(ms) : Placed(s.buf, s.expected, s.out, ms, n, k)
    BY Zenon DEF LoopInv
  <2>2. (\A j \in 1..(k - 1) : ~ Oversize(ms[j])) /\ Told(s.out, ms, k)
    BY <2>1, Zenon DEF Placed
  <2>3. CASE Lost(s.buf, s.expected, ms, n, k)
    BY <1>1, <2>2, <2>3, LostTurns
  <2>4. CASE Between(s.buf, s.expected, ms, n, k)
    BY <1>1, <2>2, <2>4, BetweenTurns
  <2>5. CASE Inside(s.buf, s.expected, ms, n, k)
    BY <1>1, <2>2, <2>5, InsideTurns
  <2> QED BY <2>1, <2>3, <2>4, <2>5, Zenon DEF Placed
<1>2. ASSUME ~ s.more
      PROVE  Turn(s) = s
  BY <1>2 DEF Turn
<1> QED BY <1>1, <1>2

\* The turns of Drain(s).
Runs(turn, s, N) == turn[0] = s /\ \A i \in 1..N : turn[i] = Turn(turn[i - 1])

LEMMA DrainRuns ==
  ASSUME NEW T, NEW s \in T, Len(s.buf) \in Nat, \A x \in T : Turn(x) \in T
  PROVE  \E turn \in [0..(Len(s.buf) + 1) -> T] :
           Runs(turn, s, Len(s.buf) + 1) /\ Drain(s) = turn[Len(s.buf) + 1]
<1> DEFINE N == Len(s.buf) + 1
           step == [i \in 1..N |-> [x \in T |-> Turn(x)]]
<1>1. N \in Nat
  OBVIOUS
<1>2. step \in [1..N -> [T -> T]]
  <2> HIDE DEF N
  <2>1. [x \in T |-> Turn(x)] \in [T -> T]
    BY Zenon
  <2> QED BY <2>1, Zenon
<1>3. PICK t \in [0..N -> T] : Recurs(t, s, step, N)
  <2> HIDE DEF N, step
  <2> QED BY <1>1, <1>2, RecursionDefines
<1>4. Runs(t, s, N)
  <2>1. ASSUME NEW i \in 1..N
        PROVE  t[i] = Turn(t[i - 1])
    <3>1. t[i - 1] \in T
      <4>1. i - 1 \in 0..N
        BY <1>1
      <4> HIDE DEF N
      <4> QED BY <4>1
    <3>2. t[i] = step[i][t[i - 1]]
      BY <1>3 DEF Recurs
    <3> HIDE DEF N
    <3> QED BY <3>1, <3>2
  <2> QED BY <1>3, <2>1 DEF Recurs, Runs
<1> DEFINE u == CHOOSE x : x = [i \in 0..N |-> IF i = 0 THEN s ELSE Turn(x[i - 1])]
<1>5. t = [i \in 0..N |-> IF i = 0 THEN s ELSE Turn(t[i - 1])]
  <2>1. t[0] = s /\ \A i \in 1..N : t[i] = Turn(t[i - 1])
    BY <1>4 DEF Runs
  <2>2. t = [i \in 0..N |-> t[i]]
    OBVIOUS
  <2>3. \A i \in 0..N : i = 0 \/ i \in 1..N
    BY <1>1
  <2> HIDE DEF step, N
  <2>4. \A i \in 0..N : t[i] = IF i = 0 THEN s ELSE Turn(t[i - 1])
    BY <2>1, <2>3, Zenon
  <2> QED BY <2>2, <2>4, Zenon
<1>6. u = [i \in 0..N |-> IF i = 0 THEN s ELSE Turn(u[i - 1])]
  BY <1>5, Zenon
<1>7. Drain(s) = u[N]
  BY Zenon DEF Drain
<1> HIDE DEF u, step
<1>8. Runs(u, s, N)
  <2>1. 0 \in 0..N /\ \A i \in 1..N : i \in 0..N /\ i # 0
    BY <1>1
  <2> HIDE DEF N
  <2>2. \A i \in 0..N : u[i] = IF i = 0 THEN s ELSE Turn(u[i - 1])
    BY <1>6, Zenon
  <2> QED BY <2>1, <2>2, Zenon DEF Runs
<1>9. InStep(u, t, N)
  BY <1>4, <1>8 DEF InStep, Runs
<1>10. \A i \in 0..N : u[i] = t[i]
  <2> HIDE DEF N
  <2> QED BY <1>1, <1>9, InStepAgree
<1>11. Drain(s) = t[N]
  BY <1>1, <1>7, <1>10
<1> QED BY <1>4, <1>11

\* The loop ends, because every turn but the last removes cells from the buffer.
LEMMA DrainIs ==
  ASSUME NEW ms, Short(ms), NEW n \in 0..Len(Bytes(ms)), NEW s \in Loop, LoopInv(s, ms, n)
  PROVE  Drain(s) \in Loop /\ LoopInv(Drain(s), ms, n) /\ ~ Drain(s).more
<1> DEFINE T == {x \in Loop : LoopInv(x, ms, n)}
           B == Len(s.buf)
           N == B + 1
<1>1. s \in T /\ B \in Nat
  BY DEF Loop
<1>2. ASSUME NEW x \in T
      PROVE  Turn(x) \in T /\ (Turn(x).more => x.more /\ Len(Turn(x).buf) < Len(x.buf))
  <2>1. x \in Loop /\ LoopInv(x, ms, n) /\ x.more \in BOOLEAN
    BY DEF Loop
  <2>2. (x.more => Turns(x, Turn(x), ms, n)) /\ (~ x.more => Turn(x) = x)
    BY <2>1, TurnKeeps
  <2> QED BY <2>1, <2>2 DEF Turns
<1>3. PICK t \in [0..N -> T] : Runs(t, s, N) /\ Drain(s) = t[N]
  <2> HIDE DEF T
  <2>1. \A x \in T : Turn(x) \in T
    BY <1>2
  <2> QED BY <1>1, <2>1, DrainRuns
<1>4. \A i \in 0..N : t[i] \in T /\ Len(t[i].buf) \in Nat
  <2>1. ASSUME NEW x \in T
        PROVE  Len(x.buf) \in Nat
    BY DEF Loop
  <2> HIDE DEF T
  <2> QED BY <1>3, <2>1
<1> DEFINE S == {i \in Nat : i <= N /\ t[i].more => Len(t[i].buf) + i <= B}
<1> HIDE DEF T
<1>5. 0 \in S
  <2>1. t[0] = s
    BY <1>3 DEF Runs
  <2> QED BY <1>1, <2>1
<1>6. ASSUME NEW i \in Nat, i \in S
      PROVE  i + 1 \in S
  <2> SUFFICES ASSUME i + 1 <= N, t[i + 1].more
               PROVE  Len(t[i + 1].buf) + (i + 1) <= B
    <3> i + 1 \in Nat
      OBVIOUS
    <3> HIDE DEF N, B
    <3> QED OBVIOUS
  <2>1. i \in 0..N /\ i + 1 \in 0..N /\ i + 1 \in 1..N /\ (i + 1) - 1 = i /\ i <= N
    BY <1>1
  <2>2. t[i + 1] = Turn(t[i])
    BY <1>3, <2>1 DEF Runs
  <2>3. t[i].more /\ Len(t[i + 1].buf) < Len(t[i].buf)
    BY <1>2, <1>4, <2>1, <2>2
  <2>4. Len(t[i].buf) + i <= B
    BY <1>6, <2>1, <2>3
  <2>5. Len(t[i].buf) \in Nat /\ Len(t[i + 1].buf) \in Nat
    BY <1>4, <2>1
  <2>6. \A x, y \in Nat : y < x /\ x + i <= B => y + (i + 1) <= B
    BY <1>1
  <2> HIDE DEF B, N
  <2> QED BY <2>3, <2>4, <2>5, <2>6, Zenon
<1>7. N \in S
  <2> HIDE DEF S
  <2> QED BY <1>1, <1>5, <1>6, InductionOnNat
<1>8. N \in 0..N /\ N \in Nat
  BY <1>1
<1>9. ~ t[N].more
  BY <1>1, <1>4, <1>7, <1>8
<1> QED BY <1>3, <1>4, <1>8, <1>9 DEF T

-------------------------------------------------------------------------------
(***************************************************************************)
(* A packet                                                                *)
(***************************************************************************)
\* c is buf and the next d places of w.
Grown(c, buf, w, n, d) ==
  /\ c \in Seq(Cell) /\ Len(c) = Len(buf) + d
  /\ \A a : Rest(buf, w, a, n) => Rest(c, w, a, n + d)

LEMMA RestGrows ==
  ASSUME NEW w \in Seq(Cell), NEW n \in Nat, NEW d \in Nat, n + d <= Len(w), NEW buf \in Seq(Cell)
  PROVE  Grown(buf \o SubSeq(w, n + 1, n + d), buf, w, n, d)
<1> DEFINE data == SubSeq(w, n + 1, n + d)
           c == buf \o data
<1>1. data \in Seq(Cell) /\ Len(data) = d /\ \A i \in 1..d : data[i] = w[n + i]
  OBVIOUS
<1> HIDE DEF data
<1>2. c \in Seq(Cell) /\ Chained(c, buf, data)
  BY <1>1, ConcatChains
<1> HIDE DEF c
<1>3. Len(c) = Len(buf) + d /\ Len(buf) \in Nat
  BY <1>1, <1>2 DEF Chained
<1>4. ASSUME NEW a, Rest(buf, w, a, n)
      PROVE  Rest(c, w, a, n + d)
  <2>1. a \in Nat /\ a <= n /\ Len(buf) = n - a /\ \A i \in 1..Len(buf) : buf[i] = w[a + i]
    BY <1>4 DEF Rest
  <2>2. ASSUME NEW i \in 1..Len(c)
        PROVE  c[i] = w[a + i]
    <3>1. CASE i <= Len(buf)
      <4>1. i \in 1..Len(buf)
        BY <1>3, <3>1
      <4>2. c[i] = buf[i]
        BY <1>2, <4>1 DEF Chained
      <4> QED BY <2>1, <4>1, <4>2
    <3>2. CASE i > Len(buf)
      <4> DEFINE j == i - Len(buf)
      <4>1. j \in 1..d /\ j \in 1..Len(data) /\ Len(buf) + j = i /\ n + j = a + i
        BY <1>1, <1>3, <2>1, <3>2
      <4> HIDE DEF j
      <4>2. c[Len(buf) + j] = data[j]
        BY <1>2, <4>1 DEF Chained
      <4>3. data[j] = w[n + j]
        BY <1>1, <4>1
      <4> QED BY <4>1, <4>2, <4>3
    <3> QED BY <1>3, <3>1, <3>2
  <2>3. a <= n + d /\ Len(c) = (n + d) - a
    BY <1>3, <2>1
  <2> QED BY <2>1, <2>2, <2>3 DEF Rest
<1>5. Grown(c, buf, w, n, d)
  BY <1>2, <1>3, <1>4, Zenon DEF Grown
<1> QED BY <1>5 DEF c, data

LEMMA PlacedGrows ==
  ASSUME NEW ms \in Seq(Messages), NEW n \in Nat, NEW d \in Nat, n + d <= Len(Bytes(ms)),
         NEW k \in 0..Len(ms), NEW buf \in Seq(Cell), NEW expected, NEW out,
         Placed(buf, expected, out, ms, n, k)
  PROVE  /\ buf \o SubSeq(Bytes(ms), n + 1, n + d) \in Seq(Cell)
         /\ Placed(buf \o SubSeq(Bytes(ms), n + 1, n + d), expected, out, ms, n + d, k)
<1> DEFINE w == Bytes(ms)
           c == buf \o SubSeq(w, n + 1, n + d)
<1>1. w \in Seq(Cell)
  BY BytesEnds
<1>2. Grown(c, buf, w, n, d)
  <2>1. n + d <= Len(w)
    OBVIOUS
  <2> HIDE DEF w
  <2> QED BY <1>1, <2>1, RestGrows
<1>3. SUFFICES c \in Seq(Cell) /\ Placed(c, expected, out, ms, n + d, k)
  OBVIOUS
<1> HIDE DEF c
<1>4. c \in Seq(Cell) /\ Len(c) = Len(buf) + d /\ Len(buf) \in Nat
  BY <1>2 DEF Grown
<1>5. ASSUME NEW a, Rest(buf, w, a, n)
       PROVE  Rest(c, w, a, n + d)
  BY <1>2, <1>5, Zenon DEF Grown
<1>6. (\A j \in 1..(k - 1) : ~ Oversize(ms[j])) /\ Told(out, ms, k)
  BY Zenon DEF Placed
<1>7. CASE Lost(buf, expected, ms, n, k)
  <2>1. k > 0 /\ Oversize(ms[k])
    BY <1>7 DEF Lost
  <2>2. CASE expected = Misread /\ Len(buf) <= n /\ Needs(ms, k) <= n
    <3>1. Needs(ms, k) \in Nat
      <4>1. k \in 1..Len(ms)
        BY <2>1
      <4> QED BY <4>1, NeedsIs
    <3>2. Len(c) <= n + d /\ Needs(ms, k) <= n + d
      BY <1>4, <2>2, <3>1
    <3>3. Lost(c, expected, ms, n + d, k)
      BY <2>1, <2>2, <3>2 DEF Lost
    <3> QED BY <1>6, <1>4, <3>3, Zenon DEF Placed
  <2>3. CASE expected = None /\ Rest(buf, w, Needs(ms, k), n)
    <3>1. Lost(c, expected, ms, n + d, k)
      BY <1>5, <2>1, <2>3 DEF Lost
    <3> QED BY <1>6, <1>4, <3>1, Zenon DEF Placed
  <2> QED BY <1>7, <2>2, <2>3 DEF Lost
<1>8. CASE Between(buf, expected, ms, n, k)
  <2>1. Between(c, expected, ms, n + d, k)
    BY <1>5, <1>8 DEF Between
  <2> QED BY <1>6, <1>4, <2>1, Zenon DEF Placed
<1>9. CASE Inside(buf, expected, ms, n, k)
  <2>1. Inside(c, expected, ms, n + d, k)
    BY <1>5, <1>9 DEF Inside
  <2> QED BY <1>6, <1>4, <2>1, Zenon DEF Placed
<1> QED BY <1>7, <1>8, <1>9, <1>4, Zenon DEF Placed

-------------------------------------------------------------------------------
(***************************************************************************)
(* The invariant                                                           *)
(***************************************************************************)
FramingInv ==
  /\ stream \in Streams
  /\ arrived \in 0..Len(Bytes(stream))
  /\ framer \in [buf : Seq(Cell), expected : Int, out : Seq(Said)]
  /\ \E k \in 0..Len(stream) :
       /\ Placed(framer.buf, framer.expected, framer.out, stream, arrived, k)
       /\ Waits(stream, arrived, k)

LEMMA StreamsAre ==
  ASSUME NEW ms \in Streams
  PROVE  Short(ms) /\ ms \in Seq(Messages) /\ Len(ms) \in Nat /\ Len(ms) > 0
<1>1. PICK N \in 1..MaxMessages : ms \in [1..N -> Messages]
  BY DEF Streams
<1>2. N \in Nat /\ N > 0
  BY FramingAssumption
<1>3. ms \in Seq(Messages) /\ Len(ms) = N
  BY <1>1, <1>2, FunctionIsSeq
<1> QED BY <1>2, <1>3, StreamsAreShort DEF Short

LEMMA FramingStarts ==
  ASSUME FramingInit
  PROVE  FramingInv
<1>1. /\ stream \in Streams /\ arrived = 0 /\ framer.buf = <<>> /\ framer.expected = None
      /\ framer.out = <<>> /\ framer = [buf |-> <<>>, expected |-> None, out |-> <<>>]
  BY DEF FramingInit, NewFramer
<1>2. stream \in Seq(Messages) /\ Len(stream) \in Nat /\ Len(stream) > 0
  BY <1>1, StreamsAre
<1>3. /\ Upto(stream, 0) = 0 /\ Len(Bytes(stream)) \in Nat
  BY <1>2, BytesEnds
<1>4. 0 \in 0..Len(stream)
  BY <1>2
<1>5. Rest(<<>>, Bytes(stream), 0, 0)
  BY DEF Rest
<1>6. Between(<<>>, None, stream, 0, 0)
  BY <1>3, <1>5 DEF Between
<1>7. Told(<<>>, stream, 0)
  BY <1>2, ToldNothing
<1>8. Placed(<<>>, None, <<>>, stream, 0, 0)
  <2>1. \A j \in 1..(0 - 1) : ~ Oversize(stream[j])
    OBVIOUS
  <2> QED BY <1>6, <1>7, <2>1, Zenon DEF Placed
<1>9. Waits(stream, 0, 0)
  <2>1. 1 \in 1..Len(stream) /\ 0 + 1 = 1 /\ 1 - 1 = 0
    BY <1>2
  <2>2. Needs(stream, 1) \in Nat /\ 0 + LenSize <= Needs(stream, 1)
    BY <1>2, <1>3, <2>1, NeedsIs
  <2> QED BY <1>2, <2>1, <2>2, SizesAre DEF Waits
<1>10. framer \in [buf : Seq(Cell), expected : Int, out : Seq(Said)]
  <2>1. None \in Int
    BY DEF None
  <2> QED BY <1>1, <2>1
<1>11. arrived \in 0..Len(Bytes(stream))
  BY <1>1, <1>3
<1> QED BY <1>1, <1>4, <1>8, <1>9, <1>10, <1>11, Zenon DEF FramingInv

LEMMA PacketKeeps ==
  ASSUME FramingInv, NEW d \in 1..(Len(Bytes(stream)) - arrived), PacketArrives(d)
  PROVE  FramingInv'
<1> DEFINE w == Bytes(stream)
           data == SubSeq(w, arrived + 1, arrived + d)
           l == Loaded(framer, data)
           s == Drain(l)
           n == arrived + d
<1>1. Short(stream) /\ stream \in Seq(Messages) /\ Len(stream) \in Nat /\ Len(w) \in Nat
  BY StreamsAre, BytesEnds DEF FramingInv
<1>2. d \in Nat /\ arrived \in Nat /\ n \in 0..Len(w) /\ arrived + d <= Len(w)
  BY <1>1 DEF FramingInv
<1>3. /\ framer.buf \in Seq(Cell) /\ framer.expected \in Int /\ framer.out \in Seq(Said)
  BY DEF FramingInv
<1>4. PICK k \in 0..Len(stream) : Placed(framer.buf, framer.expected, framer.out, stream, arrived, k)
  BY Zenon DEF FramingInv
<1>5. /\ framer.buf \o data \in Seq(Cell)
      /\ Placed(framer.buf \o data, framer.expected, framer.out, stream, n, k)
  BY <1>1, <1>2, <1>3, <1>4, PlacedGrows
<1>6. /\ l \in Loop /\ l.buf = framer.buf \o data /\ l.expected = framer.expected
      /\ l.out = framer.out /\ l.more
  <2>1. <<>> \in Seq(Cell)
    OBVIOUS
  <2> HIDE DEF data
  <2> QED BY <1>3, <1>5, <2>1 DEF Loaded, Loop
<1> HIDE DEF l
<1>7. LoopInv(l, stream, n)
  BY <1>5, <1>6, Zenon DEF LoopInv
<1>8. s \in Loop /\ LoopInv(s, stream, n) /\ ~ s.more
  BY <1>1, <1>2, <1>6, <1>7, DrainIs
<1>9. /\ stream' = stream /\ arrived' = n
      /\ framer' = [buf |-> s.buf, expected |-> s.expected, out |-> s.out]
  BY DEF PacketArrives, Feed, l
<1> HIDE DEF s, n, w
<1>10. /\ framer' \in [buf : Seq(Cell), expected : Int, out : Seq(Said)]
       /\ framer'.buf = s.buf /\ framer'.expected = s.expected /\ framer'.out = s.out
  BY <1>8, <1>9 DEF Loop
<1>11. PICK j \in 0..Len(stream) :
         Placed(s.buf, s.expected, s.out, stream, n, j) /\ Waits(stream, n, j)
  BY <1>8, Zenon DEF LoopInv
<1>12. stream' \in Streams /\ arrived' \in 0..Len(Bytes(stream'))
  BY <1>2, <1>9 DEF FramingInv, w
<1> QED BY <1>9, <1>10, <1>11, <1>12, Zenon DEF FramingInv

\* The framer is at a place of its stream, and has returned what comes before it.
THEOREM FramingInvariant == FramingSpec => []FramingInv
<1>1. FramingInit => FramingInv
  BY FramingStarts
<1>2. FramingInv /\ [FramingNext]_framingVars => FramingInv'
  <2> SUFFICES ASSUME FramingInv, [FramingNext]_framingVars PROVE FramingInv'
    OBVIOUS
  <2>1. CASE FramingNext
    BY <2>1, PacketKeeps, Zenon DEF FramingNext
  <2>2. CASE UNCHANGED framingVars
    BY <2>2, Zenon DEF FramingInv, framingVars
  <2> QED BY <2>1, <2>2
<1> QED BY <1>1, <1>2, PTL DEF FramingSpec

LEMMA InvIsExact ==
  ASSUME FramingInv
  PROVE  FramingExact
<1>1. stream \in Seq(Messages) /\ Len(stream) \in Nat /\ arrived \in Nat /\ framer.out \in Seq(Said)
  <2>1. stream \in Seq(Messages) /\ Len(stream) \in Nat /\ Len(Bytes(stream)) \in Nat
    BY StreamsAre, BytesEnds DEF FramingInv
  <2> QED BY <2>1 DEF FramingInv
<1>2. PICK k \in 0..Len(stream) :
        /\ Placed(framer.buf, framer.expected, framer.out, stream, arrived, k)
        /\ Waits(stream, arrived, k)
  BY Zenon DEF FramingInv
<1>3. (\A j \in 1..(k - 1) : ~ Oversize(stream[j])) /\ Told(framer.out, stream, k)
  BY <1>2, Zenon DEF Placed
<1>4. k > 0 => Needs(stream, k) <= arrived
  <2> SUFFICES ASSUME k > 0 PROVE Needs(stream, k) <= arrived
    OBVIOUS
  <2>1. /\ k \in 1..Len(stream) /\ Needs(stream, k) \in Nat /\ Upto(stream, k) \in Nat
        /\ Needs(stream, k) <= Upto(stream, k)
    <3>1. k \in 1..Len(stream)
      OBVIOUS
    <3> QED BY <1>1, <3>1, NeedsIs
  <2>2. CASE Lost(framer.buf, framer.expected, stream, arrived, k)
    BY <2>2 DEF Lost, Rest
  <2>3. CASE Between(framer.buf, framer.expected, stream, arrived, k)
    <3>1. Upto(stream, k) <= arrived
      BY <2>3 DEF Between, Rest
    <3> QED BY <1>1, <2>1, <3>1
  <2>4. CASE Inside(framer.buf, framer.expected, stream, arrived, k)
    <3>1. Upto(stream, k) + LenSize <= arrived
      BY <2>4 DEF Inside, Rest
    <3> QED BY <1>1, <2>1, <3>1, SizesAre
  <2> QED BY <1>2, <2>2, <2>3, <2>4, Zenon DEF Placed
<1>5. Complete(stream, arrived) = k
  BY <1>1, <1>2, <1>3, <1>4, CompleteIs
<1> QED BY <1>1, <1>3, <1>5, ToldMeans DEF FramingExact

\* Framer.feed cuts every stream into the same messages wherever its packets end,
\* whatever the sizes of prefixes, headers and payloads are.
THEOREM FramingIsExact == FramingSpec => []FramingExact
BY FramingInvariant, InvIsExact, PTL
===============================================================================

---------------------------- MODULE SessionsProofs ----------------------------
(***************************************************************************)
(* Safety of the session manager, for any number of sessions, clients and  *)
(* observers.                                                              *)
(***************************************************************************)
EXTENDS Sessions, TLAPS

\* The state without the lock's queue.
Typed ==
  /\ sessions \subseteq Sids
  /\ sess \in [Sids -> {"none", "creating", "running", "ending", "gone"}]
  /\ pstop \in [Sids -> BOOLEAN]
  /\ activity \in [Sids -> {"fresh", "unstarted", "active", "idle"}]
  /\ joining \in [Sids -> SUBSET Observers]
  /\ observers \in [Sids -> SUBSET Observers]
  /\ where \in [Stoppers -> {"idle", "sweeping", "queued", "stopping", "closing"}]
  /\ todo \in [Stoppers -> SUBSET Sids]
  /\ current \in Sids \cup {None}
  /\ toClose \subseteq Observers
  /\ stops \in [Sids -> Nat]

Holding(p) == where[p] \in {"stopping", "closing"}

\* Whoever is in the middle of stop() has the lock, and is alone in it.
OneHolder ==
  /\ \A p \in Stoppers : Holding(p) => Locked
  /\ \A p, q \in Stoppers : Holding(p) /\ Holding(q) => p = q

\* A registered session was created, is not yet gone, and was not stopped.
EntriesFresh ==
  /\ \A s \in sessions : sess[s] \in {"running", "ending"} /\ stops[s] = 0
  /\ \A s \in Sids : sess[s] \in {"none", "creating"} => stops[s] = 0

SessionsInv ==
  /\ Typed /\ OneHolder /\ EntriesFresh
  /\ EntryHeldWhileStopping /\ StoppedOnce /\ LiveIsRegistered

LEMMA InvInit == Init => SessionsInv
  BY SessionsAssumption
  DEF Init, SessionsInv, Typed, OneHolder, Holding, EntriesFresh, Locked,
      EntryHeldWhileStopping, StoppedOnce, LiveIsRegistered

\* What the end of a stop() call, or of a sweep, does with the lock: whoever was
\* in the middle of stop() was p, and afterwards nobody is, or p is.
LEMMA NextInTurn ==
  ASSUME SessionsInv, NEW p \in Stoppers, NEW ss \in SUBSET Sids, NEW w,
         sessions' \subseteq Sids,
         \A q \in Stoppers : Holding(q) => q = p,
         StopsInTurn(p, ss, w)
  PROVE  /\ where' \in [Stoppers -> {"idle", "sweeping", "queued", "stopping", "closing"}]
         /\ todo' \in [Stoppers -> SUBSET Sids]
         /\ current' \in Sids \cup {None}
         /\ pstop' \in [Sids -> BOOLEAN]
         /\ OneHolder'
         /\ EntryHeldWhileStopping'
<1> USE SessionsAssumption DEF SessionsInv, Typed, Holding
<1>1. CASE /\ w = <<>> /\ waiting' = w
           /\ \E s \in ss \cap sessions' : Holds(p, s, ss \ {s})
  <2>1. PICK s \in ss \cap sessions' : Holds(p, s, ss \ {s})
    BY <1>1
  <2>2. s # None
    BY <2>1
  <2> QED BY <2>1, <2>2 DEF Holds, OneHolder, Locked, EntryHeldWhileStopping
<1>2. CASE /\ current' = None /\ UNCHANGED pstop
           /\ \/ /\ where' = [where EXCEPT ![p] = "queued"]
                 /\ todo' = [todo EXCEPT ![p] = ss]
              \/ /\ where' = [where EXCEPT ![p] = "idle"]
                 /\ todo' = [todo EXCEPT ![p] = {}]
  BY <1>2 DEF OneHolder, Locked, EntryHeldWhileStopping
<1> QED BY <1>1, <1>2 DEF StopsInTurn

\* Taking the lock at once, or after a wait, finds nobody in stop().
LEMMA FreeMeansNoHolder ==
  ASSUME SessionsInv, ~ Locked
  PROVE  \A q \in Stoppers : ~ Holding(q)
  BY DEF SessionsInv, OneHolder

LEMMA SessionStepKeeps ==
  ASSUME SessionsInv, NEW s \in Sids, SessionStep(s)
  PROVE  SessionsInv'
<1> USE SessionsAssumption
    DEF SessionsInv, Typed, OneHolder, Holding, EntriesFresh, Locked,
        EntryHeldWhileStopping, StoppedOnce, LiveIsRegistered
<1>1. CASE Create(s)
  BY <1>1 DEF Create, Insert, Queues, obsVars
<1>2. CASE CreateGranted(s)
  BY <1>2 DEF CreateGranted, Insert, Granted, obsVars
<1>3. CASE RunEnds(s)
  BY <1>3 DEF RunEnds, Pop, Queues, EntersNow, obsVars
<1>4. CASE RunGranted(s)
  BY <1>4 DEF RunGranted, Pop, Granted, obsVars
<1>5. CASE Frame(s)
  BY <1>5 DEF Frame, obsVars, stopVars
<1>6. CASE TimeoutPasses(s)
  BY <1>6 DEF TimeoutPasses, obsVars, stopVars
<1> QED BY <1>1, <1>2, <1>3, <1>4, <1>5, <1>6 DEF SessionStep

LEMMA ObserverStepKeeps ==
  ASSUME SessionsInv, NEW o \in Observers, NEW s \in Sids, ObserverStep(o, s)
  PROVE  SessionsInv'
  BY DEF ObserverStep, ObserverGets, ObserverJoins, ObserverLeaves, stopVars,
         SessionsInv, Typed, OneHolder, Holding, EntriesFresh, Locked,
         EntryHeldWhileStopping, StoppedOnce, LiveIsRegistered

LEMMA DeleteKeeps ==
  ASSUME SessionsInv, NEW c \in Clients, NEW s \in Sids, Delete(c, s)
  PROVE  SessionsInv'
<1>1. /\ sessions' = sessions /\ sess' = sess /\ stops' = stops
      /\ UNCHANGED <<activity, obsVars, toClose>>
      /\ c \in Stoppers
  BY DEF Delete, Stoppers
<1>2. CASE EntersNow /\ StopsInTurn(c, {s}, waiting)
  <2>1. \A q \in Stoppers : Holding(q) => q = c
    BY <1>2, FreeMeansNoHolder DEF EntersNow
  <2>2. sessions' \subseteq Sids
    BY <1>1 DEF SessionsInv, Typed
  <2> HIDE DEF SessionsInv
  <2>3. /\ where' \in [Stoppers -> {"idle", "sweeping", "queued", "stopping", "closing"}]
        /\ todo' \in [Stoppers -> SUBSET Sids]
        /\ current' \in Sids \cup {None}
        /\ pstop' \in [Sids -> BOOLEAN]
        /\ OneHolder' /\ EntryHeldWhileStopping'
    BY <1>1, <1>2, <2>1, <2>2, NextInTurn
  <2> QED BY <1>1, <2>3 DEF SessionsInv, Typed, EntriesFresh, StoppedOnce,
             LiveIsRegistered, obsVars
<1>3. CASE /\ where[c] = "idle"
           /\ where' = [where EXCEPT ![c] = "queued"]
           /\ todo' = [todo EXCEPT ![c] = {s}]
           /\ UNCHANGED <<current, pstop>>
  BY <1>1, <1>3 DEF SessionsInv, Typed, OneHolder, Holding, EntriesFresh, Locked,
     EntryHeldWhileStopping, StoppedOnce, LiveIsRegistered, obsVars
<1> QED BY <1>2, <1>3 DEF Delete

LEMMA SweepKeeps ==
  ASSUME SessionsInv, Sweep \/ SweepGranted
  PROVE  SessionsInv'
<1>1. /\ sessions' = sessions /\ sess' = sess /\ stops' = stops
      /\ UNCHANGED <<activity, obsVars, toClose>>
      /\ Reaper \in Stoppers
  BY DEF Sweep, SweepGranted, Stoppers
<1>2. ASSUME NEW w, ~ Locked, StopsInTurn(Reaper, Victims, w)
      PROVE  SessionsInv'
  <2>1. \A q \in Stoppers : Holding(q) => q = Reaper
    BY <1>2, FreeMeansNoHolder
  <2>2. sessions' \subseteq Sids /\ Victims \in SUBSET Sids
    BY <1>1 DEF SessionsInv, Typed, Victims
  <2>3. /\ where' \in [Stoppers -> {"idle", "sweeping", "queued", "stopping", "closing"}]
        /\ todo' \in [Stoppers -> SUBSET Sids]
        /\ current' \in Sids \cup {None}
        /\ pstop' \in [Sids -> BOOLEAN]
        /\ OneHolder' /\ EntryHeldWhileStopping'
    BY <1>1, <1>2, <2>1, <2>2, NextInTurn
  <2> QED BY <1>1, <2>3 DEF SessionsInv, Typed, EntriesFresh, StoppedOnce,
             LiveIsRegistered, obsVars
<1>3. CASE /\ where[Reaper] = "idle"
           /\ where' = [where EXCEPT ![Reaper] = "sweeping"]
           /\ UNCHANGED <<todo, current, pstop>>
  BY <1>1, <1>3 DEF SessionsInv, Typed, OneHolder, Holding, EntriesFresh, Locked,
     EntryHeldWhileStopping, StoppedOnce, LiveIsRegistered, obsVars
<1> QED BY <1>2, <1>3 DEF Sweep, SweepGranted, EntersNow, Granted

LEMMA StopGrantedKeeps ==
  ASSUME SessionsInv, NEW p \in Stoppers, StopGranted(p)
  PROVE  SessionsInv'
<1>1. /\ sessions' = sessions /\ sess' = sess /\ stops' = stops
      /\ UNCHANGED <<activity, obsVars, toClose>>
  BY DEF StopGranted
<1>2. \A q \in Stoppers : Holding(q) => q = p
  BY FreeMeansNoHolder DEF StopGranted, Granted
<1>3. PICK s \in todo[p] :
        \/ s \in sessions /\ Holds(p, s, todo[p] \ {s})
        \/ StopsInTurn(p, todo[p] \ {s}, Tail(waiting))
  BY DEF StopGranted
<1>4. todo[p] \in SUBSET Sids /\ sessions' \subseteq Sids
  BY <1>1 DEF SessionsInv, Typed
<1>5. /\ where' \in [Stoppers -> {"idle", "sweeping", "queued", "stopping", "closing"}]
      /\ todo' \in [Stoppers -> SUBSET Sids]
      /\ current' \in Sids \cup {None}
      /\ pstop' \in [Sids -> BOOLEAN]
      /\ OneHolder' /\ EntryHeldWhileStopping'
  <2>1. CASE s \in sessions /\ Holds(p, s, todo[p] \ {s})
    <3>1. s \in Sids /\ s # None /\ s \in sessions'
      BY <1>1, <1>4, <2>1, SessionsAssumption
    <3> QED BY <1>2, <1>4, <2>1, <3>1
            DEF Holds, SessionsInv, Typed, OneHolder, Holding, Locked,
                EntryHeldWhileStopping
  <2>2. CASE StopsInTurn(p, todo[p] \ {s}, Tail(waiting))
    <3>1. todo[p] \ {s} \in SUBSET Sids
      BY <1>4
    <3> QED BY <1>2, <1>4, <2>2, <3>1, NextInTurn
  <2> QED BY <1>3, <2>1, <2>2
<1> QED BY <1>1, <1>5 DEF SessionsInv, Typed, EntriesFresh, StoppedOnce,
           LiveIsRegistered, obsVars

\* The step that closes observers, or ends stop() after the last of them.
LEMMA ClosesRestKeeps ==
  ASSUME SessionsInv, NEW p \in Stoppers, Holding(p),
         NEW C \in SUBSET Observers, ClosesRest(p, C)
  PROVE  SessionsInv'
<1>1. /\ sess' = sess /\ toClose' = C
      /\ UNCHANGED <<activity, obsVars>>
  BY DEF ClosesRest
<1>2. /\ \A q \in Stoppers : Holding(q) => q = p
      /\ current \in sessions /\ current \in Sids
      /\ todo[p] \in SUBSET Sids
  BY DEF SessionsInv, Typed, OneHolder, EntryHeldWhileStopping
<1>3. CASE /\ where' = [where EXCEPT ![p] = "closing"]
           /\ UNCHANGED <<sessions, pstop, todo, current, waiting, stops>>
  BY <1>1, <1>2, <1>3
     DEF SessionsInv, Typed, OneHolder, Holding, EntriesFresh, Locked,
         EntryHeldWhileStopping, StoppedOnce, LiveIsRegistered, obsVars
<1>4. CASE Finish(p)
  <2>1. /\ sessions' = sessions \ {current}
        /\ stops' = [stops EXCEPT ![current] = @ + 1]
        /\ StopsInTurn(p, todo[p], waiting)
    BY <1>4 DEF Finish
  <2>2. sessions' \subseteq Sids
    BY <2>1 DEF SessionsInv, Typed
  <2>3. /\ where' \in [Stoppers -> {"idle", "sweeping", "queued", "stopping", "closing"}]
        /\ todo' \in [Stoppers -> SUBSET Sids]
        /\ current' \in Sids \cup {None}
        /\ pstop' \in [Sids -> BOOLEAN]
        /\ OneHolder' /\ EntryHeldWhileStopping'
    BY <1>2, <2>1, <2>2, NextInTurn
  <2>4. stops[current] = 0 /\ sess[current] \in {"running", "ending"}
    BY <1>2 DEF SessionsInv, EntriesFresh
  <2>5. stops' \in [Sids -> Nat] /\ StoppedOnce' /\ EntriesFresh' /\ LiveIsRegistered'
    BY <1>1, <1>2, <2>1, <2>4
       DEF SessionsInv, Typed, StoppedOnce, EntriesFresh, LiveIsRegistered
  <2> QED BY <1>1, <2>2, <2>3, <2>5 DEF SessionsInv, Typed, obsVars
<1> QED BY <1>3, <1>4 DEF ClosesRest

LEMMA StopperStepKeeps ==
  ASSUME SessionsInv, NEW p \in Stoppers, StopperStep(p)
  PROVE  SessionsInv'
<1>1. CASE StopGranted(p)
  BY <1>1, StopGrantedKeeps
<1>2. CASE PipelineStopped(p)
  <2>1. Holding(p) /\ ClosesRest(p, observers[current])
    BY <1>2 DEF PipelineStopped, Holding
  <2>2. observers[current] \in SUBSET Observers
    BY <2>1 DEF SessionsInv, Typed, OneHolder, EntryHeldWhileStopping
  <2> QED BY <2>1, <2>2, ClosesRestKeeps
<1>3. CASE CloseObserver(p)
  <2>1. PICK o \in toClose : ClosesRest(p, toClose \ {o})
    BY <1>3 DEF CloseObserver
  <2>2. Holding(p) /\ toClose \ {o} \in SUBSET Observers
    BY <1>3 DEF CloseObserver, Holding, SessionsInv, Typed
  <2> QED BY <2>1, <2>2, ClosesRestKeeps
<1> QED BY <1>1, <1>2, <1>3 DEF StopperStep

LEMMA StepKeepsInv == SessionsInv /\ [Next]_vars => SessionsInv'
<1> SUFFICES ASSUME SessionsInv, [Next]_vars PROVE SessionsInv'
  OBVIOUS
<1>1. CASE UNCHANGED vars
  BY <1>1 DEF vars, obsVars, stopVars, SessionsInv, Typed, OneHolder, Holding,
     EntriesFresh, Locked, EntryHeldWhileStopping, StoppedOnce, LiveIsRegistered
<1>2. CASE Next
  BY <1>2, SessionStepKeeps, ObserverStepKeeps, DeleteKeeps, StopperStepKeeps,
     SweepKeeps DEF Next
<1> QED BY <1>1, <1>2

\* The invariant of the manager: one holder, whose session stays registered, and
\* no entry whose pipeline was ever stopped.
THEOREM SessionsInvariant == Spec => []SessionsInv
  BY InvInit, StepKeepsInv, PTL DEF Spec

\* Nobody pops a session that stop() is working on.
THEOREM EntryIsHeld == Spec => []EntryHeldWhileStopping
<1>1. SessionsInv => EntryHeldWhileStopping
  BY DEF SessionsInv
<1> QED BY SessionsInvariant, <1>1, PTL

\* stop() succeeds at most once for a session.
THEOREM StopSucceedsOnce == Spec => []StoppedOnce
<1>1. SessionsInv => StoppedOnce
  BY DEF SessionsInv
<1> QED BY SessionsInvariant, <1>1, PTL

\* A session whose pipeline runs and was not stopped can be found.
THEOREM RunningCanBeStopped == Spec => []LiveIsRegistered
<1>1. SessionsInv => LiveIsRegistered
  BY DEF SessionsInv
<1> QED BY SessionsInvariant, <1>1, PTL

-------------------------------------------------------------------------------
(***************************************************************************)
(* The lock's queue                                                        *)
(***************************************************************************)
Tasks == Sids \cup Stoppers

QueueInv == SessionsInv /\ waiting \in Seq(Tasks) /\ Exactly(waiting, AtLock)

LEMMA ExactlyAppend ==
  ASSUME NEW q \in Seq(Tasks), NEW A, NEW t \in Tasks, t \notin A, Exactly(q, A)
  PROVE  Append(q, t) \in Seq(Tasks) /\ Exactly(Append(q, t), A \cup {t})
<1> DEFINE r == Append(q, t)
<1>1. /\ r \in Seq(Tasks) /\ Len(r) = Len(q) + 1
      /\ \A i \in 1..Len(q) : r[i] = q[i]
      /\ r[Len(q) + 1] = t
      /\ DOMAIN q = 1..Len(q) /\ DOMAIN r = 1..(Len(q) + 1)
      /\ Len(q) \in Nat
  OBVIOUS
<1> HIDE DEF r
<1>2. \A i \in DOMAIN r : r[i] \in A \cup {t}
  BY <1>1 DEF Exactly
<1>3. \A u \in A \cup {t} : \E i \in DOMAIN r : r[i] = u
  BY <1>1 DEF Exactly
<1>4. \A i, j \in DOMAIN r : r[i] = r[j] => i = j
  BY <1>1 DEF Exactly
<1> QED BY <1>1, <1>2, <1>3, <1>4 DEF Exactly, r

LEMMA ExactlyTail ==
  ASSUME NEW q \in Seq(Tasks), NEW A, q # <<>>, Exactly(q, A)
  PROVE  Tail(q) \in Seq(Tasks) /\ Exactly(Tail(q), A \ {Head(q)})
<1> DEFINE r == Tail(q)
<1>1. /\ r \in Seq(Tasks) /\ Len(q) \in Nat \ {0}
      /\ DOMAIN q = 1..Len(q) /\ DOMAIN r = 1..(Len(q) - 1)
      /\ \A i \in DOMAIN r : r[i] = q[i + 1]
      /\ Head(q) = q[1]
  OBVIOUS
<1> HIDE DEF r
<1>2. \A i \in DOMAIN r : r[i] \in A \ {Head(q)}
  BY <1>1 DEF Exactly
<1>3. ASSUME NEW u \in A \ {Head(q)}
      PROVE  \E i \in DOMAIN r : r[i] = u
  <2>1. PICK i \in DOMAIN q : q[i] = u
    BY DEF Exactly
  <2>2. i - 1 \in DOMAIN r /\ r[i - 1] = u
    BY <1>1, <2>1
  <2> QED BY <2>2
<1>4. \A i, j \in DOMAIN r : r[i] = r[j] => i = j
  BY <1>1 DEF Exactly
<1> QED BY <1>1, <1>2, <1>3, <1>4 DEF Exactly, r

LEMMA InTurnQueue ==
  ASSUME SessionsInv, NEW p \in Stoppers, NEW ss, NEW w \in Seq(Tasks), NEW A,
         sess' = sess, AtLock \ {p} = A, Exactly(w, A), StopsInTurn(p, ss, w)
  PROVE  waiting' \in Seq(Tasks) /\ Exactly(waiting', AtLock')
<1> USE SessionsAssumption
<1>1. where \in [Stoppers -> {"idle", "sweeping", "queued", "stopping", "closing"}]
  BY DEF SessionsInv, Typed
<1>2. CASE w # <<>> /\ waiting' = Append(w, p) /\ where' = [where EXCEPT ![p] = "queued"]
  <2>1. AtLock' = A \cup {p}
    BY <1>1, <1>2 DEF AtLock
  <2>2. p \in Tasks /\ p \notin A
    BY DEF Tasks
  <2> QED BY <1>2, <2>1, <2>2, ExactlyAppend
<1>3. CASE waiting' = w /\ where' = [where EXCEPT ![p] = "stopping"]
  <2>1. AtLock' = A
    BY <1>1, <1>3 DEF AtLock, Stoppers
  <2> QED BY <1>3, <2>1
<1>4. CASE waiting' = w /\ where' = [where EXCEPT ![p] = "idle"]
  <2>1. AtLock' = A
    BY <1>1, <1>4 DEF AtLock, Stoppers
  <2> QED BY <1>4, <2>1
<1> QED BY <1>2, <1>3, <1>4 DEF StopsInTurn, Holds

LEMMA SessionQueue ==
  ASSUME QueueInv, NEW s \in Sids, SessionStep(s)
  PROVE  waiting' \in Seq(Tasks) /\ Exactly(waiting', AtLock')
<1> USE SessionsAssumption DEF QueueInv
<1>1. sess \in [Sids -> {"none", "creating", "running", "ending", "gone"}] /\ s \in Tasks
  BY DEF SessionsInv, Typed, Tasks
<1>2. CASE Queues(s) /\ where' = where
           /\ \/ sess[s] = "none" /\ sess' = [sess EXCEPT ![s] = "creating"]
              \/ sess[s] = "running" /\ sess' = [sess EXCEPT ![s] = "ending"]
  <2>1. AtLock' = AtLock \cup {s} /\ s \notin AtLock
    BY <1>1, <1>2 DEF AtLock
  <2> QED BY <1>1, <1>2, <2>1, ExactlyAppend DEF Queues
<1>3. CASE Granted(s) /\ waiting' = Tail(waiting) /\ where' = where
           /\ \/ sess' = [sess EXCEPT ![s] = "running"]
              \/ sess' = [sess EXCEPT ![s] = "gone"]
  <2>1. AtLock' = AtLock \ {s}
    BY <1>1, <1>3 DEF AtLock
  <2> QED BY <1>3, <2>1, ExactlyTail DEF Granted
<1>4. CASE waiting' = waiting /\ where' = where
           /\ sess[s] \in {"none", "running"}
           /\ \/ sess' = [sess EXCEPT ![s] = "running"]
              \/ sess' = [sess EXCEPT ![s] = "gone"]
              \/ sess' = sess
  <2>1. AtLock' = AtLock
    BY <1>1, <1>4 DEF AtLock
  <2> QED BY <1>4, <2>1
<1> QED BY <1>2, <1>3, <1>4
        DEF SessionStep, Create, CreateGranted, RunEnds, RunGranted, Frame,
            TimeoutPasses, Insert, Pop, stopVars

LEMMA StopperQueue ==
  ASSUME QueueInv,
         \/ \E c \in Clients, s \in Sids : Delete(c, s)
         \/ \E p \in Stoppers : StopperStep(p)
         \/ Sweep \/ SweepGranted
  PROVE  waiting' \in Seq(Tasks) /\ Exactly(waiting', AtLock')
<1> USE SessionsAssumption DEF QueueInv
<1>1. /\ where \in [Stoppers -> {"idle", "sweeping", "queued", "stopping", "closing"}]
      /\ \A p \in Stoppers : p \in Tasks
      /\ \A c \in Clients : c \in Stoppers
      /\ Reaper \in Stoppers
  BY DEF SessionsInv, Typed, Tasks, Stoppers
<1>2. sess' = sess
  BY DEF Delete, StopperStep, StopGranted, PipelineStopped, CloseObserver, ClosesRest,
         Sweep, SweepGranted
\* At the lock at once.
<1>3. ASSUME NEW p \in Stoppers, NEW ss, where[p] \notin {"queued", "sweeping"},
             StopsInTurn(p, ss, waiting)
      PROVE  waiting' \in Seq(Tasks) /\ Exactly(waiting', AtLock')
  <2>1. AtLock \ {p} = AtLock
    BY <1>3 DEF AtLock
  <2> QED BY <1>2, <1>3, <2>1, InTurnQueue
\* Queued behind the others.
<1>4. ASSUME NEW p \in Stoppers, where[p] = "idle", Queues(p),
             \/ where' = [where EXCEPT ![p] = "queued"]
             \/ where' = [where EXCEPT ![p] = "sweeping"]
      PROVE  waiting' \in Seq(Tasks) /\ Exactly(waiting', AtLock')
  <2>1. AtLock' = AtLock \cup {p} /\ p \notin AtLock
    BY <1>1, <1>2, <1>4 DEF AtLock
  <2> QED BY <1>1, <1>4, <2>1, ExactlyAppend DEF Queues
\* Granted the lock after a wait.
<1>5. ASSUME NEW p \in Stoppers, NEW ss, Granted(p), StopsInTurn(p, ss, Tail(waiting))
      PROVE  waiting' \in Seq(Tasks) /\ Exactly(waiting', AtLock')
  <2>1. Tail(waiting) \in Seq(Tasks) /\ Exactly(Tail(waiting), AtLock \ {p})
    BY <1>5, ExactlyTail DEF Granted
  <2> QED BY <1>2, <1>5, <2>1, InTurnQueue
<1>6. ASSUME NEW p \in Stoppers, NEW s, NEW rest, Granted(p), Holds(p, s, rest),
             waiting' = Tail(waiting)
      PROVE  waiting' \in Seq(Tasks) /\ Exactly(waiting', AtLock')
  <2>1. AtLock' = AtLock \ {p}
    BY <1>1, <1>2, <1>6 DEF AtLock, Holds
  <2> QED BY <1>6, <2>1, ExactlyTail DEF Granted
<1>7. ASSUME NEW p \in Stoppers, where[p] \in {"stopping", "closing"},
             where' = [where EXCEPT ![p] = "closing"], waiting' = waiting
      PROVE  waiting' \in Seq(Tasks) /\ Exactly(waiting', AtLock')
  <2>1. AtLock' = AtLock
    BY <1>1, <1>2, <1>7 DEF AtLock
  <2> QED BY <1>7, <2>1
<1>8. ASSUME NEW c \in Clients, NEW s \in Sids, Delete(c, s)
      PROVE  waiting' \in Seq(Tasks) /\ Exactly(waiting', AtLock')
  BY <1>1, <1>3, <1>4, <1>8 DEF Delete
<1>9. ASSUME NEW p \in Stoppers, StopGranted(p)
      PROVE  waiting' \in Seq(Tasks) /\ Exactly(waiting', AtLock')
  BY <1>5, <1>6, <1>9 DEF StopGranted
<1>10. ASSUME NEW p \in Stoppers, PipelineStopped(p) \/ CloseObserver(p)
       PROVE  waiting' \in Seq(Tasks) /\ Exactly(waiting', AtLock')
  BY <1>3, <1>7, <1>10 DEF PipelineStopped, CloseObserver, ClosesRest, Finish
<1>11. ASSUME Sweep \/ SweepGranted
       PROVE  waiting' \in Seq(Tasks) /\ Exactly(waiting', AtLock')
  BY <1>1, <1>3, <1>4, <1>5, <1>11 DEF Sweep, SweepGranted
<1> QED BY <1>8, <1>9, <1>10, <1>11 DEF StopperStep

\* The state has its type, and the lock's queue holds exactly the tasks suspended
\* at it, so none is forgotten there.
THEOREM SessionsTypeCorrect == Spec => []TypeOK
<1>1. Init => QueueInv
  BY InvInit, SessionsAssumption DEF Init, QueueInv, Exactly, AtLock
<1>2. QueueInv /\ [Next]_vars => QueueInv'
  <2> SUFFICES ASSUME QueueInv, SessionsInv', [Next]_vars
               PROVE  waiting' \in Seq(Tasks) /\ Exactly(waiting', AtLock')
    BY StepKeepsInv DEF QueueInv
  <2>1. CASE UNCHANGED vars
    BY <2>1 DEF vars, stopVars, QueueInv, AtLock
  <2>2. ASSUME NEW o \in Observers, NEW s \in Sids, ObserverStep(o, s)
        PROVE  waiting' \in Seq(Tasks) /\ Exactly(waiting', AtLock')
    BY <2>2 DEF ObserverStep, ObserverGets, ObserverJoins, ObserverLeaves, stopVars,
                QueueInv, AtLock
  <2> QED BY <2>1, <2>2, SessionQueue, StopperQueue DEF Next
<1>3. QueueInv => TypeOK
  BY DEF QueueInv, SessionsInv, Typed, TypeOK, Tasks
<1> QED BY <1>1, <1>2, <1>3, PTL DEF Spec
===============================================================================

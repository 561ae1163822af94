------------------------------- MODULE Sessions -------------------------------
(***************************************************************************)
(* The session manager (sessions.py, SessionManager): the registry and its *)
(* lock, the sessions' _run tasks, DELETE requests, the reaper, and the    *)
(* observers that join and leave (api_v1.py, server.py).  A pipeline is    *)
(* what the manager sees of it: run() ends, by itself or because of        *)
(* stop(), and stop() returns when the pipeline's tasks are done; module   *)
(* Pipeline has the inside.                                                *)
(*                                                                         *)
(* The lock is an asyncio.Lock.  It is acquired without suspending when it *)
(* is free and nobody waits, and its waiters are served in order.  Only    *)
(* stop() keeps it across an await; creating, popping and sweeping take it *)
(* and give it back within one step.                                       *)
(***************************************************************************)
EXTENDS Integers, FiniteSets, SequencesExt

CONSTANTS Sids,        \* sessions that may be created, one each
          Clients,     \* tasks of DELETE requests
          Reaper,      \* the task of _reaper_loop
          Observers,   \* observers' WebSockets
          None         \* no session

Stoppers == Clients \cup {Reaper}

ASSUME SessionsAssumption ==
  /\ IsFiniteSet(Sids) /\ IsFiniteSet(Clients) /\ IsFiniteSet(Observers)
  /\ Reaper \notin Clients /\ Sids \cap Stoppers = {} /\ None \notin Sids

VARIABLES sessions,   \* SessionManager._sessions
          sess,       \* each session's create request, then its _run task
          pstop,      \* each pipeline's _stop, as Pipeline.stop() sets it
          activity,   \* frames and time: what _sweep_once reads
          joining,    \* observers that found the session and are being accepted
          observers,  \* SessionRecord.observers
          where,      \* what each stopper is doing
          todo,       \* sessions each stopper still has to stop
          current,    \* the session being stopped by the holder of the lock
          toClose,    \* its observers still to be closed
          waiting,    \* tasks queued at the lock, oldest first
          stops       \* how often stop() has returned True for each session

obsVars == <<joining, observers>>
stopVars == <<where, todo, current, toClose, waiting>>
vars == <<sessions, sess, pstop, activity, obsVars, stopVars, stops>>

AtLock == {s \in Sids : sess[s] \in {"creating", "ending"}}
            \cup {p \in Stoppers : where[p] \in {"queued", "sweeping"}}

\* The queue q holds the tasks A, all of them and each once.
Exactly(q, A) ==
  /\ \A i \in DOMAIN q : q[i] \in A
  /\ \A t \in A : \E i \in DOMAIN q : q[i] = t
  /\ \A i, j \in DOMAIN q : q[i] = q[j] => i = j

TypeOK ==
  /\ sessions \subseteq Sids
  /\ sess \in [Sids -> {"none", "creating", "running", "ending", "gone"}]
  /\ pstop \in [Sids -> BOOLEAN]
  /\ activity \in [Sids -> {"fresh", "unstarted", "active", "idle"}]
  /\ joining \in [Sids -> SUBSET Observers]
  /\ observers \in [Sids -> SUBSET Observers]
  /\ where \in [Stoppers -> {"idle", "sweeping", "queued", "stopping", "closing"}]
  /\ todo \in [Stoppers -> SUBSET Sids]
  /\ current \in Sids \cup {None}
  /\ toClose \subseteq Observers
  /\ stops \in [Sids -> Nat]
  /\ waiting \in Seq(Sids \cup Stoppers) /\ Exactly(waiting, AtLock)

Init ==
  /\ sessions = {}
  /\ sess = [s \in Sids |-> "none"]
  /\ pstop = [s \in Sids |-> FALSE]
  /\ activity = [s \in Sids |-> "fresh"]
  /\ joining = [s \in Sids |-> {}] /\ observers = [s \in Sids |-> {}]
  /\ where = [p \in Stoppers |-> "idle"]
  /\ todo = [p \in Stoppers |-> {}]
  /\ current = None /\ toClose = {}
  /\ waiting = <<>>
  /\ stops = [s \in Sids |-> 0]

\* asyncio.Lock.acquire: free at once, or granted to the oldest waiter, or queue.
Locked == current # None
EntersNow == ~ Locked /\ waiting = <<>>
Granted(t) == ~ Locked /\ waiting # <<>> /\ Head(waiting) = t
Queues(t) == ~ EntersNow /\ waiting' = Append(waiting, t)

-------------------------------------------------------------------------------
(***************************************************************************)
(* _create_with and _run                                                   *)
(***************************************************************************)

\* The record is registered and _run is started.
Insert(s) ==
  /\ sessions' = sessions \cup {s}
  /\ sess' = [sess EXCEPT ![s] = "running"]

\* Mutation: _run is started before the lock is awaited.
CreateStartsFirst(s) ==
  /\ sess[s] = "none"
  /\ sess' = [sess EXCEPT ![s] = "running"]
  /\ \/ EntersNow /\ sessions' = sessions \cup {s} /\ UNCHANGED waiting
     \/ Queues(s) /\ UNCHANGED sessions
  /\ UNCHANGED <<pstop, activity, obsVars, where, todo, current, toClose, stops>>

Create(s) ==
  /\ sess[s] = "none"
  /\ \/ EntersNow /\ Insert(s) /\ UNCHANGED waiting
     \/ Queues(s) /\ sess' = [sess EXCEPT ![s] = "creating"] /\ UNCHANGED sessions
  /\ UNCHANGED <<pstop, activity, obsVars, where, todo, current, toClose, stops>>

CreateGranted(s) ==
  /\ sess[s] = "creating"
  /\ Granted(s)
  /\ Insert(s)
  /\ waiting' = Tail(waiting)
  /\ UNCHANGED <<pstop, activity, obsVars, where, todo, current, toClose, stops>>

\* The finally clause of _run.
Pop(s) ==
  /\ sessions' = sessions \ {s}
  /\ sess' = [sess EXCEPT ![s] = "gone"]

\* Mutations: _run pops without the lock; without finally, a pipeline that raises
\* is not popped.
RunEndsUnlocked(s) ==
  /\ sess[s] = "running"
  /\ Pop(s)
  /\ UNCHANGED <<pstop, activity, obsVars, stopVars, stops>>

RunEndsOrCrashes(s) ==
  /\ sess[s] = "running"
  /\ sess' = [sess EXCEPT ![s] = "gone"]
  /\ EntersNow
  /\ sessions' = sessions \ {s} \/ sessions' = sessions
  /\ UNCHANGED <<pstop, activity, obsVars, stopVars, stops>>

\* pipeline.run() returns or raises.
RunEnds(s) ==
  /\ sess[s] = "running"
  /\ \/ EntersNow /\ Pop(s) /\ UNCHANGED waiting
     \/ Queues(s) /\ sess' = [sess EXCEPT ![s] = "ending"] /\ UNCHANGED sessions
  /\ UNCHANGED <<pstop, activity, obsVars, where, todo, current, toClose, stops>>

RunGranted(s) ==
  /\ sess[s] = "ending"
  /\ Granted(s)
  /\ Pop(s)
  /\ waiting' = Tail(waiting)
  /\ UNCHANGED <<pstop, activity, obsVars, where, todo, current, toClose, stops>>

-------------------------------------------------------------------------------
(***************************************************************************)
(* Frames, time and observers                                              *)
(***************************************************************************)

\* A frame reaches a pipeline that nobody has stopped.
Frame(s) ==
  /\ sess[s] = "running" /\ ~ pstop[s]
  /\ activity' = [activity EXCEPT ![s] = "active"]
  /\ UNCHANGED <<sessions, sess, pstop, obsVars, stopVars, stops>>

\* session_never_started_timeout_s or session_idle_timeout_s goes by.
TimeoutPasses(s) ==
  /\ sess[s] = "running"
  /\ \/ activity[s] = "fresh" /\ activity' = [activity EXCEPT ![s] = "unstarted"]
     \/ activity[s] = "active" /\ activity' = [activity EXCEPT ![s] = "idle"]
  /\ UNCHANGED <<sessions, sess, pstop, obsVars, stopVars, stops>>

Away(o) == \A s \in Sids : o \notin joining[s] \cup observers[s]

\* manager.get() finds the session; websocket.accept() is awaited.
ObserverGets(o, s) ==
  /\ Away(o)
  /\ s \in sessions
  /\ joining' = [joining EXCEPT ![s] = @ \cup {o}]
  /\ UNCHANGED <<sessions, sess, pstop, activity, observers, stopVars, stops>>

\* The record is used without another look at the registry.
ObserverJoins(o, s) ==
  /\ o \in joining[s]
  /\ joining' = [joining EXCEPT ![s] = @ \ {o}]
  /\ observers' = [observers EXCEPT ![s] = @ \cup {o}]
  /\ UNCHANGED <<sessions, sess, pstop, activity, stopVars, stops>>

\* The client disconnects, the server has closed the socket, or a send failed.
ObserverLeaves(o, s) ==
  /\ o \in observers[s]
  /\ observers' = [observers EXCEPT ![s] = @ \ {o}]
  /\ UNCHANGED <<sessions, sess, pstop, activity, joining, stopVars, stops>>

-------------------------------------------------------------------------------
(***************************************************************************)
(* stop                                                                    *)
(***************************************************************************)

\* p has the lock and s is registered: pipeline.stop() is called.
Holds(p, s, rest) ==
  /\ where' = [where EXCEPT ![p] = "stopping"]
  /\ todo' = [todo EXCEPT ![p] = rest]
  /\ current' = s
  /\ pstop' = [pstop EXCEPT ![s] = TRUE]

\* With the lock free and w queued at it, p calls stop() for each of ss in turn
\* until it suspends: at the lock behind the waiters, or in pipeline.stop() of
\* the first one still registered.  The registry's order is left open.
StopsInTurn(p, ss, w) ==
  \/ /\ w = <<>> /\ waiting' = w
     /\ \E s \in ss \cap sessions' : Holds(p, s, ss \ {s})
  \/ /\ w # <<>> /\ ss # {}
     /\ waiting' = Append(w, p)
     /\ where' = [where EXCEPT ![p] = "queued"]
     /\ todo' = [todo EXCEPT ![p] = ss]
     /\ current' = None /\ UNCHANGED pstop
  \/ /\ ss = {} \/ (w = <<>> /\ ss \cap sessions' = {})
     /\ waiting' = w
     /\ where' = [where EXCEPT ![p] = "idle"]
     /\ todo' = [todo EXCEPT ![p] = {}]
     /\ current' = None /\ UNCHANGED pstop

\* A DELETE request for a session whose id the client was given.
Delete(c, s) ==
  /\ where[c] = "idle"
  /\ sess[s] \notin {"none", "creating"}
  /\ UNCHANGED sessions
  /\ \/ EntersNow /\ StopsInTurn(c, {s}, waiting)
     \/ /\ Queues(c)
        /\ where' = [where EXCEPT ![c] = "queued"]
        /\ todo' = [todo EXCEPT ![c] = {s}]
        /\ UNCHANGED <<current, pstop>>
  /\ UNCHANGED <<sess, activity, obsVars, toClose, stops>>

\* Mutation: the session is not looked up again once the lock is there.
StopGrantedUnchecked(p) ==
  /\ where[p] = "queued"
  /\ Granted(p)
  /\ \E s \in todo[p] : Holds(p, s, todo[p] \ {s})
  /\ waiting' = Tail(waiting)
  /\ UNCHANGED <<sessions, sess, activity, obsVars, toClose, stops>>

\* The lock is granted: a session that is gone meanwhile is reported as absent.
StopGranted(p) ==
  /\ where[p] = "queued"
  /\ Granted(p)
  /\ UNCHANGED sessions
  /\ \E s \in todo[p] :
       \/ s \in sessions /\ Holds(p, s, todo[p] \ {s}) /\ waiting' = Tail(waiting)
       \/ s \notin sessions /\ StopsInTurn(p, todo[p] \ {s}, Tail(waiting))
  /\ UNCHANGED <<sess, activity, obsVars, toClose, stops>>

\* The end of stop(): the entry is popped, the lock released, and p goes on.
Finish(p) ==
  /\ sessions' = sessions \ {current}
  /\ stops' = [stops EXCEPT ![current] = @ + 1]
  /\ StopsInTurn(p, todo[p], waiting)

\* The observers C are still to be closed; after the last one stop() ends.
ClosesRest(p, C) ==
  /\ toClose' = C
  /\ \/ /\ C # {}
        /\ where' = [where EXCEPT ![p] = "closing"]
        /\ UNCHANGED <<sessions, pstop, todo, current, waiting, stops>>
     \/ C = {} /\ Finish(p)
  /\ UNCHANGED <<sess, activity, obsVars>>

\* pipeline.stop() has returned; the observers of this moment will be closed.
PipelineStopped(p) ==
  /\ where[p] = "stopping"
  /\ ClosesRest(p, observers[current])

\* Mutation: stop() waits until the observer has gone.
CloseObserverAndWait(p) ==
  /\ where[p] = "closing"
  /\ \E o \in toClose : o \notin observers[current] /\ ClosesRest(p, toClose \ {o})

\* One ws.close() returns or raises.
CloseObserver(p) ==
  /\ where[p] = "closing"
  /\ \E o \in toClose : ClosesRest(p, toClose \ {o})

-------------------------------------------------------------------------------
(***************************************************************************)
(* The reaper                                                              *)
(***************************************************************************)

\* Class A: never a frame, and old.  Class B: no observers, and no frame for long
\* (an ingestor counts from its creation, so it is idle without a frame as well).
Reapable(s) ==
  \/ activity[s] = "unstarted"
  \/ activity[s] = "idle" /\ observers[s] = {}

\* Mutation: an observer keeps a session that never had a frame.
VictimsUnobserved == {s \in sessions : Reapable(s) /\ observers[s] = {}}

Victims == {s \in sessions : Reapable(s)}

\* The sweep collects the victims under the lock, and stops them without it.
Sweep ==
  /\ where[Reaper] = "idle"
  /\ UNCHANGED sessions
  /\ \/ EntersNow /\ StopsInTurn(Reaper, Victims, waiting)
     \/ /\ Queues(Reaper)
        /\ where' = [where EXCEPT ![Reaper] = "sweeping"]
        /\ UNCHANGED <<todo, current, pstop>>
  /\ UNCHANGED <<sess, activity, obsVars, toClose, stops>>

SweepGranted ==
  /\ where[Reaper] = "sweeping"
  /\ Granted(Reaper)
  /\ UNCHANGED sessions
  /\ StopsInTurn(Reaper, Victims, Tail(waiting))
  /\ UNCHANGED <<sess, activity, obsVars, toClose, stops>>

-------------------------------------------------------------------------------
SessionStep(s) ==
  \/ Create(s) \/ CreateGranted(s) \/ RunEnds(s) \/ RunGranted(s)
  \/ Frame(s) \/ TimeoutPasses(s)

ObserverStep(o, s) == ObserverGets(o, s) \/ ObserverJoins(o, s) \/ ObserverLeaves(o, s)

StopperStep(p) == StopGranted(p) \/ PipelineStopped(p) \/ CloseObserver(p)

Next ==
  \/ \E s \in Sids : SessionStep(s)
  \/ \E o \in Observers, s \in Sids : ObserverStep(o, s)
  \/ \E c \in Clients, s \in Sids : Delete(c, s)
  \/ \E p \in Stoppers : StopperStep(p)
  \/ Sweep \/ SweepGranted

Spec == Init /\ [][Next]_vars

(***************************************************************************)
(* The loop resumes ready tasks and the reaper's timer fires.  stop() of a *)
(* pipeline returns and makes its run() end (Pipeline, StopEndsSession), a *)
(* ws.close() ends.  Nothing else has to happen.                           *)
(***************************************************************************)
Fairness ==
  /\ \A s \in Sids :
       /\ WF_vars(CreateGranted(s)) /\ WF_vars(RunGranted(s))
       /\ WF_vars(RunEnds(s) /\ pstop[s])
  /\ \A p \in Stoppers : WF_vars(StopperStep(p))
  /\ WF_vars(Sweep) /\ WF_vars(SweepGranted)

FairSpec == Spec /\ Fairness

-------------------------------------------------------------------------------
(***************************************************************************)
(* Properties                                                              *)
(***************************************************************************)

\* Nobody takes a session out of the registry while stop() works on it, although
\* its run() ends meanwhile and wants to pop it: this is why stop() keeps the
\* lock, and why it may pop the entry without looking again.
EntryHeldWhileStopping == Locked => current \in sessions

\* However many DELETEs, sweeps and natural ends meet, stop() succeeds at most
\* once for a session; the others find it gone.
StoppedOnce == \A s \in Sids : stops[s] <= 1

\* A session whose pipeline runs can be found, and so be stopped: it leaves the
\* registry only when run() has ended or stop() has returned.
LiveIsRegistered == \A s \in Sids : sess[s] = "running" /\ stops[s] = 0 => s \in sessions

\* A session that has ended leaves the registry, whoever held the lock.
EndedLeaves == \A s \in Sids : sess[s] \in {"ending", "gone"} ~> s \notin sessions

\* Every DELETE is answered: the queue at the lock moves on.
RequestAnswered == \A c \in Clients : where[c] # "idle" ~> where[c] = "idle"

\* No session is a zombie for ever: it is swept, or comes to life again.
ZombieReaped ==
  \A s \in Sids : []<>(~ (s \in sessions /\ Reapable(s)))

\* docs/API.md: the reaper removes sessions that are "idle - no observers AND
\* ingestor idle"; so one that has an observer, or frames again, is spared.
ReaperSparesTheLive ==
  [][\A s \in Sids : pstop'[s] /\ ~ pstop[s] /\ where'[Reaper] = "stopping" /\ current' = s
       => Reapable(s)]_vars
===============================================================================

------------------------------ MODULE WorkerPool ------------------------------
(***************************************************************************)
(* The pool of concurrent LLM calls (scheduler.py, WorkerPool) and the     *)
(* asyncio.Semaphore it is built on, at the grain the event loop gives     *)
(* them: a step is what a task does between two awaits.  submit() awaits   *)
(* sem.acquire(), counts itself in in_flight, runs the call, and releases  *)
(* in a finally block.                                                     *)
(*                                                                         *)
(* A task's cancellation may be requested at any time and is delivered     *)
(* when the task next resumes, so it can race the wake-up of a waiter that *)
(* has just been granted the slot: the semaphore must hand such a slot on. *)
(***************************************************************************)
EXTENDS Integers, FiniteSets, SequencesExt

CONSTANTS Tasks,     \* the coroutines that call submit(), once each
          Workers    \* max_workers (settings.workers)

ASSUME WorkersAssumption == Workers \in Nat
ASSUME TasksAssumption == IsFiniteSet(Tasks)

VARIABLES value,      \* Semaphore._value
          waiters,    \* Semaphore._waiters: the deque, oldest waiter first
          slot,       \* where each task is in submit()
          inFlight,   \* WorkerPool.in_flight
          cancelled   \* tasks whose cancellation has been requested

poolVars == <<value, waiters, slot, inFlight>>

\* "waiting": its future is pending; "granted": the future has its result but
\* the task has not resumed yet (it is still in the deque); "held": in the call.
SlotState == {"idle", "waiting", "granted", "held", "done"}

PoolTypeOK ==
  /\ value \in 0..Workers
  /\ waiters \in Seq(Tasks)
  /\ slot \in [Tasks -> SlotState]
  /\ inFlight \in 0..Workers
  /\ cancelled \subseteq Tasks

PoolInit ==
  /\ value = Workers
  /\ waiters = <<>>
  /\ slot = [t \in Tasks |-> "idle"]
  /\ inFlight = 0
  /\ cancelled = {}

In(s) == {t \in Tasks : slot[t] = s}

\* Cancelling a task cancels the future it waits on, so that waiter is done.
Pending == In("waiting") \ cancelled

\* A waiter whose future was cancelled does not lock the semaphore; one whose
\* future has its result still does, until the task has resumed.
Locked == value = 0 \/ In("granted") \cup Pending # {}

\* Mutation: any pending waiter may get the slot, not the oldest.
WakeUpAny(newValue, queue, newSlot) ==
  LET pendingAt(i) == newSlot[queue[i]] = "waiting" /\ queue[i] \notin cancelled
  IN  /\ waiters' = queue
      /\ \/ /\ \A i \in DOMAIN queue : ~ pendingAt(i)
            /\ value' = newValue
            /\ slot' = newSlot
         \/ \E i \in DOMAIN queue :
              /\ pendingAt(i)
              /\ value' = newValue - 1
              /\ slot' = [newSlot EXCEPT ![queue[i]] = "granted"]

(***************************************************************************)
(* Semaphore._wake_up_next, on the counter, deque and slots the caller has *)
(* already updated: the oldest waiter that is not done gets the slot.      *)
(***************************************************************************)
WakeUpNext(newValue, queue, newSlot) ==
  LET pendingAt(i) == newSlot[queue[i]] = "waiting" /\ queue[i] \notin cancelled
  IN  /\ waiters' = queue
      /\ \/ /\ \A i \in DOMAIN queue : ~ pendingAt(i)
            /\ value' = newValue
            /\ slot' = newSlot
         \/ \E i \in DOMAIN queue :
              /\ pendingAt(i)
              /\ \A j \in 1..(i - 1) : ~ pendingAt(j)
              /\ value' = newValue - 1
              /\ slot' = [newSlot EXCEPT ![queue[i]] = "granted"]

\* The event loop resumes granted tasks in the order their futures were set.
NextToResume(i) == \A j \in 1..(i - 1) : slot[waiters[j]] # "granted"

(***************************************************************************)
(* submit() called: sem.acquire() either takes a slot at once, and the     *)
(* call starts in the same step, or appends a future and awaits it.        *)
(***************************************************************************)
Acquire(t) ==
  /\ slot[t] = "idle"
  /\ t \notin cancelled
  /\ \/ /\ ~ Locked
        /\ value' = value - 1
        /\ slot' = [slot EXCEPT ![t] = "held"]
        /\ inFlight' = inFlight + 1
        /\ UNCHANGED waiters
     \/ /\ Locked
        /\ waiters' = Append(waiters, t)
        /\ slot' = [slot EXCEPT ![t] = "waiting"]
        /\ UNCHANGED <<value, inFlight>>

\* Mutation: the task that resumes does not pass the wake-up on.
ResumeWithoutWakeUp(t) ==
  /\ t \notin cancelled
  /\ inFlight' = inFlight + 1
  /\ value' = value
  /\ \E i \in DOMAIN waiters :
       /\ waiters[i] = t /\ slot[t] = "granted" /\ NextToResume(i)
       /\ waiters' = RemoveAt(waiters, i)
       /\ slot' = [slot EXCEPT ![t] = "held"]

\* A granted waiter resumes: it leaves the deque, passes the wake-up on if the
\* semaphore has another free slot, and starts its call.
Resume(t) ==
  /\ t \notin cancelled
  /\ inFlight' = inFlight + 1
  /\ \E i \in DOMAIN waiters :
       LET queue == RemoveAt(waiters, i)
           newSlot == [slot EXCEPT ![t] = "held"]
       IN  /\ waiters[i] = t /\ slot[t] = "granted" /\ NextToResume(i)
           /\ IF value > 0
              THEN WakeUpNext(value, queue, newSlot)
              ELSE value' = value /\ waiters' = queue /\ slot' = newSlot

\* Mutations of the cancellation path of acquire(): a granted slot is lost, or it
\* is given back without waking anyone.
AbandonLosesSlot(t) ==
  /\ t \in cancelled
  /\ UNCHANGED <<inFlight, value>>
  /\ \E i \in DOMAIN waiters :
       /\ waiters[i] = t
       /\ slot[t] = "waiting" \/ (slot[t] = "granted" /\ NextToResume(i))
       /\ waiters' = RemoveAt(waiters, i)
       /\ slot' = [slot EXCEPT ![t] = "done"]

AbandonWakesNobody(t) ==
  /\ t \in cancelled
  /\ UNCHANGED inFlight
  /\ \E i \in DOMAIN waiters :
       /\ waiters[i] = t
       /\ waiters' = RemoveAt(waiters, i)
       /\ slot' = [slot EXCEPT ![t] = "done"]
       /\ \/ slot[t] = "waiting" /\ value' = value
          \/ slot[t] = "granted" /\ NextToResume(i) /\ value' = value + 1

\* CancelledError reaches a task still waiting for its slot; one that had been
\* granted gives it back and wakes the next waiter.
Abandon(t) ==
  /\ t \in cancelled
  /\ UNCHANGED inFlight
  /\ \E i \in DOMAIN waiters :
       LET queue == RemoveAt(waiters, i)
           newSlot == [slot EXCEPT ![t] = "done"]
       IN  /\ waiters[i] = t
           /\ \/ /\ slot[t] = "waiting"
                 /\ value' = value /\ waiters' = queue /\ slot' = newSlot
              \/ /\ slot[t] = "granted" /\ NextToResume(i)
                 /\ WakeUpNext(value + 1, queue, newSlot)

\* Mutation: in_flight is decremented only after a call that returned.
ReleaseKeepsCount(t) ==
  /\ slot[t] = "held"
  /\ inFlight' = IF t \in cancelled THEN inFlight ELSE inFlight - 1
  /\ WakeUpNext(value + 1, waiters, [slot EXCEPT ![t] = "done"])

\* Mutation: the semaphore's counter is incremented and nobody is woken.
ReleaseWakesNobody(t) ==
  /\ slot[t] = "held"
  /\ inFlight' = inFlight - 1
  /\ value' = value + 1
  /\ slot' = [slot EXCEPT ![t] = "done"]
  /\ UNCHANGED waiters

\* The call returned, raised or was cancelled: submit()'s finally block.
Release(t) ==
  /\ slot[t] = "held"
  /\ inFlight' = inFlight - 1
  /\ WakeUpNext(value + 1, waiters, [slot EXCEPT ![t] = "done"])

\* task.cancel() on some tasks, from another task.
RequestCancel(C) == cancelled' = cancelled \cup C /\ UNCHANGED poolVars

PoolStep(t) ==
  /\ Acquire(t) \/ Resume(t) \/ Abandon(t) \/ Release(t)
  /\ UNCHANGED cancelled

PoolNext ==
  \/ \E t \in Tasks : PoolStep(t)
  \/ \E C \in SUBSET Tasks : RequestCancel(C)

PoolSpec == PoolInit /\ [][PoolNext]_<<poolVars, cancelled>>

(***************************************************************************)
(* Every call ends (the client's timeouts and its bounded retries) and the *)
(* loop resumes every task that is ready.                                  *)
(***************************************************************************)
PoolFairness ==
  \A t \in Tasks :
    /\ WF_<<poolVars, cancelled>>(Resume(t) /\ UNCHANGED cancelled)
    /\ WF_<<poolVars, cancelled>>(Abandon(t) /\ UNCHANGED cancelled)
    /\ WF_<<poolVars, cancelled>>(Release(t) /\ UNCHANGED cancelled)

PoolFairSpec == PoolSpec /\ PoolFairness

-------------------------------------------------------------------------------
(***************************************************************************)
(* Properties                                                              *)
(***************************************************************************)

\* Every slot is free, granted or in use, whatever order grants, cancellations
\* and releases came in: none leaks and none is counted twice.
SlotsConserved ==
  value + Cardinality(In("granted") \cup In("held")) = Workers

\* in_flight, which the statistics and the backpressure controller read, is
\* the number of calls in progress, and never exceeds the pool's size.
InFlightExact == inFlight = Cardinality(In("held"))

\* The deque holds exactly the tasks awaiting acquire(), once each.
DequeExact ==
  /\ \A i \in DOMAIN waiters : slot[waiters[i]] \in {"waiting", "granted"}
  /\ \A t \in In("waiting") \cup In("granted") : \E i \in DOMAIN waiters : waiters[i] = t
  /\ \A i, j \in DOMAIN waiters : waiters[i] = waiters[j] => i = j

\* A slot is not left free while a waiter sleeps: if the counter is positive
\* and some waiter is pending, a granted task is about to resume and to pass
\* the wake-up on.
NoLostWakeup == value > 0 /\ Pending # {} => In("granted") # {}

\* Slots are granted in the order they were asked for.
GrantsInOrder ==
  \A i, j \in DOMAIN waiters :
    i < j /\ slot[waiters[j]] = "granted" => waiters[i] \notin Pending

\* Every task that asks for a slot is served or cancelled: no waiter starves,
\* however many of the tasks before it are cancelled.
EveryWaiterServed ==
  \A t \in Tasks : slot[t] = "waiting" ~> slot[t] \in {"held", "done"}
===============================================================================

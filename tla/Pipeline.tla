------------------------------- MODULE Pipeline -------------------------------
(***************************************************************************)
(* One session's pipeline (pipeline.py, Pipeline): the tasks run() starts, *)
(* the analysis windows and escalations they spawn, and the two ways they  *)
(* end: the source finishes and run() drains them, or stop() is called.    *)
(*                                                                         *)
(* Everything runs on one asyncio event loop, so an action is the code a   *)
(* task executes between two suspension points.  pc[t] is where task t is  *)
(* suspended; a step that ends a task moves it to a state of Dead.  A      *)
(* cancelled task makes no other step: CancelledError is what it gets when *)
(* it next resumes.                                                        *)
(*                                                                         *)
(* Frames, narratives and events are abstracted to what decides the        *)
(* control flow: whether the gate fires and with what salience, whether a  *)
(* window has two frames, whether a call fails and whether its result is   *)
(* empty.  Every _emit is a suspension point, because it awaits each       *)
(* observer in turn.                                                       *)
(***************************************************************************)
EXTENDS Backpressure, FiniteSets, Sequences

CONSTANTS Consumer, Cadencer, StatsLoop,  \* the three loops of run()
          Escalations,                    \* the _escalate tasks
          MaxWindows,                     \* bound: windows dispatched
          Workers,                        \* settings.workers
          Grace                           \* settings.shutdown_grace_s > 0

Loops == {Consumer, Cadencer, StatsLoop}
Windows == 1..MaxWindows
Tasks == Loops \cup Escalations \cup Windows

ASSUME PipelineAssumption ==
  /\ MaxWindows \in Nat /\ Workers \in Nat /\ Grace \in BOOLEAN
  /\ Consumer # Cadencer /\ Consumer # StatsLoop /\ Cadencer # StatsLoop
  /\ IsFiniteSet(Escalations)
  /\ Loops \cap Escalations = {}
  /\ (Loops \cup Escalations) \cap Int = {}

VARIABLES pc,           \* where each task is suspended, or how it ended
          cancelled,    \* tasks with a cancellation requested
          tracked,      \* Pipeline._tasks
          stop,         \* Pipeline._stop
          client,       \* M3Client._client: "none", "open", "closed"
          runPc,        \* where run() is
          runGather,    \* the tasks run() gathers
          grace,        \* the deadline of _wait_for_dispatch_tasks
          stopPc,       \* where stop() is
          stopGather,   \* the tasks stop() gathers
          windowId,     \* WindowScheduler.window_id
          dispatched, completed, failed,   \* Stats.windows_*
          errors,       \* errors in Backpressure.error_window, < 60 s old
          level,        \* Backpressure.current_level
          escInFlight,  \* Pipeline._escalation_in_flight
          value, waiters, slot, inFlight   \* the WorkerPool

Pool == INSTANCE WorkerPool WITH Tasks <- Windows, cancelled <- cancelled \cap Windows

poolVars == <<value, waiters, slot, inFlight>>
runVars == <<runPc, runGather, grace, client>>
stopVars == <<stopPc, stopGather>>
winStats == <<completed, failed, errors>>
cadVars == <<windowId, dispatched>>
vars == <<pc, cancelled, tracked, stop, runVars, stopVars, cadVars, winStats,
          level, escInFlight, poolVars>>

\* How a task ends.  "returned" and "raised" are the loops' (raised is a
\* cancellation that escapes the coroutine); the others are the windows' and the
\* escalations': "cut" was cancelled while its result was being published.
Dead == {"returned", "raised", "skipped", "completed", "failed", "cancelled", "cut", "done"}

Alive(t) == pc[t] \notin Dead \cup {"none"}

PcOf(t) ==
  CASE t = Consumer  -> {"none", "ready", "get", "emit", "errEmit", "returned", "raised"}
    [] t = Cadencer  -> {"none", "ready", "sleep", "returned"}
    [] t = StatsLoop -> {"none", "ready", "sleep", "emit", "bpEmit", "returned"}
    [] t \in Windows -> {"none", "ready", "acquiring", "calling", "applying", "failing",
                         "skipped", "completed", "failed", "cancelled", "cut"}
    [] OTHER         -> {"none", "ready", "calling", "applying", "done"}

TypeOK ==
  /\ DOMAIN pc = Tasks
  /\ \A t \in Tasks : pc[t] \in PcOf(t)
  /\ cancelled \subseteq Tasks
  /\ tracked \subseteq Tasks
  /\ stop \in BOOLEAN
  /\ client \in {"none", "open", "closed"}
  /\ runPc \in {"starting", "consuming", "grace", "gather", "closing", "ended"}
  /\ runGather \subseteq Tasks
  /\ grace \in {"off", "armed", "expired"}
  /\ stopPc \in {"idle", "aclosing", "gather", "done"}
  /\ stopGather \subseteq Tasks
  /\ windowId \in 0..MaxWindows
  /\ dispatched \in 0..MaxWindows
  /\ completed \in Nat /\ failed \in Nat /\ errors \in Nat
  /\ level \in Levels
  /\ escInFlight \in BOOLEAN

Init ==
  /\ pc = [t \in Tasks |-> "none"]
  /\ cancelled = {} /\ tracked = {}
  /\ stop = FALSE
  /\ client = "none"
  /\ runPc = "starting" /\ runGather = {} /\ grace = "off"
  /\ stopPc = "idle" /\ stopGather = {}
  /\ windowId = 0 /\ dispatched = 0
  /\ completed = 0 /\ failed = 0 /\ errors = 0
  /\ level = 0
  /\ escInFlight = FALSE
  /\ value = Workers /\ waiters = <<>> /\ inFlight = 0
  /\ slot = [w \in Windows |-> "idle"]

\* A task that is not cancelled moves from one suspension point to another.
Goes(t, from, to) ==
  /\ pc[t] = from
  /\ t \notin cancelled
  /\ pc' = [pc EXCEPT ![t] = to]

\* CancelledError reaches a task suspended at one of the points `from'.
Cut(t, from, to) ==
  /\ t \in cancelled
  /\ pc[t] \in from
  /\ pc' = [pc EXCEPT ![t] = to]

\* The loop heads `while not self._stop.is_set()'.
LoopHead == IF stop THEN "returned" ELSE "sleep"

-------------------------------------------------------------------------------
(***************************************************************************)
(* _consume                                                                *)
(***************************************************************************)
ConsumerStart ==
  /\ Goes(Consumer, "ready", "get")
  /\ UNCHANGED <<cancelled, tracked, stop, runVars, stopVars, cadVars, winStats,
                 level, escInFlight, poolVars>>

\* A frame arrives.  With _stop set the loop breaks; otherwise the frame is
\* dropped by the fps cap or pushed on the ring, and the gate may fire.
ConsumerFrame ==
  /\ \/ stop /\ Goes(Consumer, "get", "returned")
     \/ ~ stop /\ Goes(Consumer, "get", "emit")
  /\ UNCHANGED <<cancelled, tracked, stop, runVars, stopVars, cadVars, winStats,
                 level, escInFlight, poolVars>>

\* The source ends, or raises and the error is emitted.
ConsumerSourceEnds ==
  /\ Goes(Consumer, "get", "returned") \/ Goes(Consumer, "get", "errEmit")
  /\ UNCHANGED <<cancelled, tracked, stop, runVars, stopVars, cadVars, winStats,
                 level, escInFlight, poolVars>>

\* The provisional event is out; a high-salience one also spawns an escalation.
ConsumerEmitted ==
  /\ \/ /\ Goes(Consumer, "emit", "get")
        /\ UNCHANGED tracked
     \/ \E e \in Escalations :
          /\ pc[Consumer] = "emit" /\ Consumer \notin cancelled
          /\ pc[e] = "none"
          /\ pc' = [pc EXCEPT ![Consumer] = "get", ![e] = "ready"]
          /\ tracked' = tracked \cup {e}
  /\ UNCHANGED <<cancelled, stop, runVars, stopVars, cadVars, winStats,
                 level, escInFlight, poolVars>>

ConsumerErrEmitted ==
  /\ Goes(Consumer, "errEmit", "returned")
  /\ UNCHANGED <<cancelled, tracked, stop, runVars, stopVars, cadVars, winStats,
                 level, escInFlight, poolVars>>

\* Inside the try CancelledError is caught; before the first step, and in the
\* except clause that emits the error, it escapes.
ConsumerCut ==
  /\ \/ Cut(Consumer, {"get", "emit"}, "returned")
     \/ Cut(Consumer, {"ready", "errEmit"}, "raised")
  /\ UNCHANGED <<cancelled, tracked, stop, runVars, stopVars, cadVars, winStats,
                 level, escInFlight, poolVars>>

ConsumerStep ==
  \/ ConsumerStart \/ ConsumerEmitted \/ ConsumerErrEmitted \/ ConsumerCut

-------------------------------------------------------------------------------
(***************************************************************************)
(* _cadencer and _stats_loop                                               *)
(***************************************************************************)
CadencerStart ==
  /\ Goes(Cadencer, "ready", LoopHead)
  /\ UNCHANGED <<cancelled, tracked, stop, runVars, stopVars, cadVars, winStats,
                 level, escInFlight, poolVars>>

\* The 50 ms sleep is over and no window is due.
CadencerIdle ==
  /\ Goes(Cadencer, "sleep", LoopHead)
  /\ UNCHANGED <<cancelled, tracked, stop, runVars, stopVars, cadVars, winStats,
                 level, escInFlight, poolVars>>

\* Mutation: the dispatched window is a bare create_task, not tracked.
CadencerWindowUntracked ==
  /\ windowId < MaxWindows
  /\ windowId' = windowId + 1
  /\ ~ stop
  /\ pc[Cadencer] = "sleep" /\ Cadencer \notin cancelled
  /\ pc' = [pc EXCEPT ![windowId + 1] = "ready"]
  /\ dispatched' = dispatched + 1
  /\ UNCHANGED <<cancelled, tracked, stop, runVars, stopVars, winStats,
                 level, escInFlight, poolVars>>

\* A window is due.  _stop is checked again after next_window() has numbered it,
\* so a number may be spent on a window that is never dispatched.
CadencerWindow ==
  /\ windowId < MaxWindows
  /\ windowId' = windowId + 1
  /\ \/ /\ stop
        /\ Goes(Cadencer, "sleep", "returned")
        /\ UNCHANGED <<dispatched, tracked>>
     \/ /\ ~ stop
        /\ pc[Cadencer] = "sleep" /\ Cadencer \notin cancelled
        /\ pc' = [pc EXCEPT ![windowId + 1] = "ready"]
        /\ dispatched' = dispatched + 1
        /\ tracked' = tracked \cup {windowId + 1}
  /\ UNCHANGED <<cancelled, stop, runVars, stopVars, winStats,
                 level, escInFlight, poolVars>>

CadencerCut ==
  /\ Cut(Cadencer, {"ready", "sleep"}, "returned")
  /\ UNCHANGED <<cancelled, tracked, stop, runVars, stopVars, cadVars, winStats,
                 level, escInFlight, poolVars>>

CadencerStep == CadencerStart \/ CadencerIdle \/ CadencerWindow \/ CadencerCut

StatsStart ==
  /\ Goes(StatsLoop, "ready", LoopHead)
  /\ UNCHANGED <<cancelled, tracked, stop, runVars, stopVars, cadVars, winStats,
                 level, escInFlight, poolVars>>

\* The 1 s sleep is over: the stats are emitted, whether or not _stop was set.
StatsWake ==
  /\ Goes(StatsLoop, "sleep", "emit")
  /\ UNCHANGED <<cancelled, tracked, stop, runVars, stopVars, cadVars, winStats,
                 level, escInFlight, poolVars>>

\* bp.update(pool.in_flight); a change of level is emitted.
StatsUpdate ==
  /\ \E settled \in BOOLEAN :
       level' = NextLevel(level, inFlight, errors, settled)
  /\ Goes(StatsLoop, "emit", IF level' # level THEN "bpEmit" ELSE LoopHead)
  /\ UNCHANGED <<cancelled, tracked, stop, runVars, stopVars, cadVars, winStats,
                 escInFlight, poolVars>>

StatsBpEmitted ==
  /\ Goes(StatsLoop, "bpEmit", LoopHead)
  /\ UNCHANGED <<cancelled, tracked, stop, runVars, stopVars, cadVars, winStats,
                 level, escInFlight, poolVars>>

StatsCut ==
  /\ Cut(StatsLoop, {"ready", "sleep", "emit", "bpEmit"}, "returned")
  /\ UNCHANGED <<cancelled, tracked, stop, runVars, stopVars, cadVars, winStats,
                 level, escInFlight, poolVars>>

StatsStep == StatsStart \/ StatsWake \/ StatsUpdate \/ StatsBpEmitted \/ StatsCut

\* The oldest error of error_window turns 60 seconds old.
ErrorExpires ==
  /\ errors > 0
  /\ errors' = errors - 1
  /\ UNCHANGED <<pc, cancelled, tracked, stop, runVars, stopVars, cadVars, completed,
                 failed, level, escInFlight, poolVars>>

-------------------------------------------------------------------------------
(***************************************************************************)
(* _safe_dispatch, _dispatch_window, _run_one and the pool's submit        *)
(***************************************************************************)

\* A done task is removed from _tasks by the callback _track_task registered.
Drop(t) == tracked' = tracked \ {t}

\* The event loop starts tasks in the order they were created.
FirstToStart(w) == \A v \in Windows : v < w => pc[v] # "ready"

\* Fewer than two frames of the ring fall in the window: nothing to analyse.
WindowSkipped(w) ==
  /\ FirstToStart(w)
  /\ Goes(w, "ready", "skipped")
  /\ Drop(w)
  /\ UNCHANGED <<cancelled, stop, runVars, stopVars, cadVars, winStats,
                 level, escInFlight, poolVars>>

\* Mutation: the call does not wait for the semaphore.
WindowSubmittedUnbounded(w) ==
  /\ FirstToStart(w)
  /\ Goes(w, "ready", "calling")
  /\ inFlight' = inFlight + 1
  /\ slot' = [slot EXCEPT ![w] = "held"]
  /\ UNCHANGED <<cancelled, tracked, stop, runVars, stopVars, cadVars, winStats,
                 level, escInFlight, value, waiters>>

\* pool.submit(coro): with a slot free the call starts in the same step.
WindowSubmitted(w) ==
  /\ FirstToStart(w)
  /\ Pool!Acquire(w)
  /\ Goes(w, "ready", IF Pool!Locked THEN "acquiring" ELSE "calling")
  /\ UNCHANGED <<cancelled, tracked, stop, runVars, stopVars, cadVars, winStats,
                 level, escInFlight>>

WindowGranted(w) ==
  /\ Goes(w, "acquiring", "calling")
  /\ Pool!Resume(w)
  /\ UNCHANGED <<cancelled, tracked, stop, runVars, stopVars, cadVars, winStats,
                 level, escInFlight>>

\* The call succeeds and is counted; a non-empty result is published.
WindowAnswered(w) ==
  /\ completed' = completed + 1
  /\ \/ /\ Goes(w, "calling", "applying")
        /\ UNCHANGED <<tracked, poolVars>>
     \/ /\ Goes(w, "calling", "completed")
        /\ Drop(w) /\ Pool!Release(w)
  /\ UNCHANGED <<cancelled, stop, runVars, stopVars, cadVars, failed, errors,
                 level, escInFlight>>

\* Mutation: a failed call is counted here and again when its error is out.
WindowCallFailsCounted(w) ==
  /\ Goes(w, "calling", "failing")
  /\ errors' = errors + 1
  /\ failed' = failed + 1
  /\ UNCHANGED <<cancelled, tracked, stop, runVars, stopVars, cadVars, completed,
                 level, escInFlight, poolVars>>

\* The call fails: record_error, then the error is emitted.
WindowCallFails(w) ==
  /\ Goes(w, "calling", "failing")
  /\ errors' = errors + 1
  /\ UNCHANGED <<cancelled, tracked, stop, runVars, stopVars, cadVars, completed,
                 failed, level, escInFlight, poolVars>>

WindowPublished(w) ==
  /\ Goes(w, "applying", "completed")
  /\ Drop(w) /\ Pool!Release(w)
  /\ UNCHANGED <<cancelled, stop, runVars, stopVars, cadVars, winStats,
                 level, escInFlight>>

WindowFailed(w) ==
  /\ Goes(w, "failing", "failed")
  /\ failed' = failed + 1
  /\ Drop(w) /\ Pool!Release(w)
  /\ UNCHANGED <<cancelled, stop, runVars, stopVars, cadVars, completed, errors,
                 level, escInFlight>>

\* CancelledError passes every `except Exception': only the finally clauses run.
WindowCut(w) ==
  /\ \/ /\ Cut(w, {"ready"}, "cancelled")
        /\ UNCHANGED poolVars
     \/ /\ Cut(w, {"acquiring"}, "cancelled")
        /\ Pool!Abandon(w)
     \/ /\ Cut(w, {"calling", "failing"}, "cancelled")
        /\ Pool!Release(w)
     \/ /\ Cut(w, {"applying"}, "cut")
        /\ Pool!Release(w)
  /\ Drop(w)
  /\ UNCHANGED <<cancelled, stop, runVars, stopVars, cadVars, winStats,
                 level, escInFlight>>

WindowStep(w) ==
  \/ WindowSkipped(w) \/ WindowSubmitted(w) \/ WindowGranted(w)
  \/ WindowAnswered(w) \/ WindowCallFails(w) \/ WindowPublished(w)
  \/ WindowFailed(w) \/ WindowCut(w)

-------------------------------------------------------------------------------
(***************************************************************************)
(* _escalate: not through the pool, one at a time, ten seconds apart       *)
(***************************************************************************)
EscalationRefused(e) ==
  /\ Goes(e, "ready", "done")
  /\ Drop(e)
  /\ UNCHANGED <<cancelled, stop, runVars, stopVars, cadVars, winStats,
                 level, escInFlight, poolVars>>

\* Mutation: the flag is set and never looked at.
EscalationCallsUnchecked(e) ==
  /\ Goes(e, "ready", "calling")
  /\ escInFlight' = TRUE
  /\ UNCHANGED <<cancelled, tracked, stop, runVars, stopVars, cadVars, winStats,
                 level, poolVars>>

\* The gap has passed, none is in flight and the ring has two frames.
EscalationCalls(e) ==
  /\ ~ escInFlight
  /\ Goes(e, "ready", "calling")
  /\ escInFlight' = TRUE
  /\ UNCHANGED <<cancelled, tracked, stop, runVars, stopVars, cadVars, winStats,
                 level, poolVars>>

\* The narrative, if there is one, is emitted.
EscalationAnswered(e) ==
  /\ Goes(e, "calling", "applying")
  /\ UNCHANGED <<cancelled, tracked, stop, runVars, stopVars, cadVars, winStats,
                 level, escInFlight, poolVars>>

\* No narrative, or the call failed, or the narrative is out.
EscalationEnds(e) ==
  /\ Goes(e, "calling", "done") \/ Goes(e, "applying", "done")
  /\ escInFlight' = FALSE
  /\ Drop(e)
  /\ UNCHANGED <<cancelled, stop, runVars, stopVars, cadVars, winStats, level, poolVars>>

EscalationCut(e) ==
  /\ Cut(e, {"ready", "calling", "applying"}, "done")
  /\ escInFlight' = (escInFlight /\ pc[e] = "ready")
  /\ Drop(e)
  /\ UNCHANGED <<cancelled, stop, runVars, stopVars, cadVars, winStats, level, poolVars>>

EscalationStep(e) ==
  \/ EscalationRefused(e) \/ EscalationCalls(e) \/ EscalationAnswered(e)
  \/ EscalationEnds(e) \/ EscalationCut(e)

-------------------------------------------------------------------------------
(***************************************************************************)
(* run                                                                     *)
(***************************************************************************)
Outstanding == {t \in tracked : Alive(t)}

\* session.started is emitted before anyone can observe the session, so run()
\* reaches `await consumer' in one step.
RunStart ==
  /\ runPc = "starting"
  /\ runPc' = "consuming"
  /\ client' = "open"
  /\ pc' = [t \in Tasks |-> IF t \in Loops THEN "ready" ELSE pc[t]]
  /\ tracked' = Loops
  /\ UNCHANGED <<cancelled, stop, runGather, grace, stopVars, cadVars, winStats,
                 level, escInFlight, poolVars>>

\* Mutation: whatever outlives the grace period is left running.
CancelNothing ==
  /\ runGather' = {}
  /\ runPc' = "gather"
  /\ UNCHANGED cancelled

\* Cancel what is still alive and gather it.
CancelOutstanding ==
  /\ cancelled' = cancelled \cup Outstanding
  /\ runGather' = Outstanding
  /\ runPc' = "gather"

\* The consumer is done: set _stop, and give the analysis tasks their grace.
RunConsumerReturned ==
  /\ runPc = "consuming"
  /\ pc[Consumer] = "returned"
  /\ stop' = TRUE
  /\ IF Grace /\ Outstanding # {}
     THEN /\ runPc' = "grace" /\ grace' = "armed"
          /\ UNCHANGED <<cancelled, runGather>>
     ELSE CancelOutstanding /\ UNCHANGED grace
  /\ UNCHANGED <<pc, tracked, client, stopVars, cadVars, winStats,
                 level, escInFlight, poolVars>>

GraceExpires ==
  /\ runPc = "grace" /\ grace = "armed"
  /\ grace' = "expired"
  /\ UNCHANGED <<pc, cancelled, tracked, stop, runPc, runGather, client, stopVars,
                 cadVars, winStats, level, escInFlight, poolVars>>

\* Mutation: the wait returns at the first task that ends.
RunGraceImpatient ==
  /\ runPc = "grace"
  /\ CancelOutstanding
  /\ UNCHANGED <<pc, tracked, stop, client, grace, stopVars, cadVars, winStats,
                 level, escInFlight, poolVars>>

RunGraceOver ==
  /\ runPc = "grace"
  /\ Outstanding = {} \/ grace = "expired"
  /\ CancelOutstanding
  /\ UNCHANGED <<pc, tracked, stop, client, grace, stopVars, cadVars, winStats,
                 level, escInFlight, poolVars>>

\* Every gathered task is done: forget them and close the client.
RunGathered ==
  /\ runPc = "gather"
  /\ \A t \in runGather : ~ Alive(t)
  /\ tracked' = {}
  /\ client' = "closed"
  /\ runPc' = "closing"
  /\ UNCHANGED <<pc, cancelled, stop, runGather, grace, stopVars, cadVars, winStats,
                 level, escInFlight, poolVars>>

\* Mutation: the teardown is not in a finally clause.
RunConsumerRaisedEscapes ==
  /\ runPc = "consuming"
  /\ pc[Consumer] = "raised"
  /\ runPc' = "crashed"
  /\ UNCHANGED <<pc, cancelled, tracked, stop, runGather, grace, client, stopVars,
                 cadVars, winStats, level, escInFlight, poolVars>>

\* `await consumer' raised CancelledError: only the finally clause runs.
RunConsumerRaised ==
  /\ runPc = "consuming"
  /\ pc[Consumer] = "raised"
  /\ client' = "closed"
  /\ runPc' = "closing"
  /\ UNCHANGED <<pc, cancelled, tracked, stop, runGather, grace, stopVars, cadVars,
                 winStats, level, escInFlight, poolVars>>

\* session.ended is out.
RunEnds ==
  /\ runPc = "closing"
  /\ runPc' = "ended"
  /\ UNCHANGED <<pc, cancelled, tracked, stop, runGather, grace, client, stopVars,
                 cadVars, winStats, level, escInFlight, poolVars>>

RunStep ==
  \/ RunStart \/ RunConsumerReturned \/ RunGraceOver \/ RunGathered
  \/ RunConsumerRaised \/ RunEnds

-------------------------------------------------------------------------------
(***************************************************************************)
(* stop                                                                    *)
(***************************************************************************)
StopCalled ==
  /\ stopPc = "idle" /\ runPc # "starting"
  /\ stop' = TRUE
  /\ stopPc' = "aclosing"
  /\ UNCHANGED <<pc, cancelled, tracked, runVars, stopGather, cadVars, winStats,
                 level, escInFlight, poolVars>>

\* Mutation: stop() awaits the tasks without cancelling them.
StopAclosedWaits ==
  /\ stopPc = "aclosing"
  /\ stopGather' = Outstanding
  /\ stopPc' = "gather"
  /\ UNCHANGED <<pc, cancelled, tracked, stop, runVars, cadVars, winStats,
                 level, escInFlight, poolVars>>

\* frame_source.aclose() returns, at once or much later: cancel every tracked
\* task and gather them.
StopAclosed ==
  /\ stopPc = "aclosing"
  /\ cancelled' = cancelled \cup Outstanding
  /\ stopGather' = Outstanding
  /\ stopPc' = "gather"
  /\ UNCHANGED <<pc, tracked, stop, runVars, cadVars, winStats,
                 level, escInFlight, poolVars>>

StopDone ==
  /\ stopPc = "gather"
  /\ \A t \in stopGather : ~ Alive(t)
  /\ stopPc' = "done"
  /\ UNCHANGED <<pc, cancelled, tracked, stop, runVars, stopGather, cadVars, winStats,
                 level, escInFlight, poolVars>>

-------------------------------------------------------------------------------
Next ==
  \/ ConsumerStep \/ ConsumerFrame \/ ConsumerSourceEnds
  \/ CadencerStep
  \/ StatsStep \/ ErrorExpires
  \/ \E w \in Windows : WindowStep(w)
  \/ \E e \in Escalations : EscalationStep(e)
  \/ RunStep \/ GraceExpires
  \/ StopCalled \/ StopAclosed \/ StopDone

Spec == Init /\ [][Next]_vars

(***************************************************************************)
(* The loop runs every task that is ready, timers fire, every LLM call     *)
(* ends (httpx timeout, bounded retries), every observer's send ends (the  *)
(* server's websocket timeouts), and aclose() returns.  Nothing obliges    *)
(* the source to send a frame or to end, nor anyone to call stop().        *)
(***************************************************************************)
Fairness ==
  /\ WF_vars(ConsumerStep) /\ WF_vars(CadencerStep) /\ WF_vars(StatsStep)
  /\ \A w \in Windows : WF_vars(WindowStep(w))
  /\ \A e \in Escalations : WF_vars(EscalationStep(e))
  /\ WF_vars(RunStep) /\ WF_vars(GraceExpires)
  /\ WF_vars(StopAclosed) /\ WF_vars(StopDone)

FairSpec == Spec /\ Fairness

-------------------------------------------------------------------------------
(***************************************************************************)
(* Properties                                                              *)
(***************************************************************************)

\* No task uses the LLM client after run() has closed it: once it is closed,
\* whatever is still alive has a cancellation pending and will only run its
\* finally clauses.  This is what _track_task exists for.
NoUseAfterClose == client = "closed" => \A t \in Tasks : Alive(t) => t \in cancelled

\* The weaker fact that makes it true while run() is still going: nothing alive
\* escapes _tasks, so the cancellation loops of run() and stop() miss nobody.
AliveIsTracked == \A t \in Tasks : Alive(t) => t \in tracked

\* At most one escalation is past its checks, and the flag says whether.
SingleEscalation ==
  LET running == {e \in Escalations : pc[e] \in {"calling", "applying"}}
  IN  Cardinality(running) = IF escInFlight THEN 1 ELSE 0

\* The counters of session.ended: every window dispatched is completed, failed,
\* skipped, cancelled, or still on its way, and none is counted twice.
WindowsAccounted ==
  LET at(S) == {w \in Windows : pc[w] \in S}
  IN  /\ dispatched = Cardinality({w \in Windows : pc[w] # "none"})
      /\ completed = Cardinality(at({"applying", "completed", "cut"}))
      /\ failed = Cardinality(at({"failed"}))

\* A natural end of the source cancels no task before the grace period is over:
\* cancellations come from stop() or from an expired grace.
CancelOnlyAfterGrace ==
  [][cancelled' # cancelled =>
       stopPc = "aclosing" \/ grace = "expired" \/ ~ Grace]_vars

\* The pool inside the pipeline is WorkerPool: every step of the pipeline is a
\* step of the pool or leaves it alone.
PoolImplemented == Pool!PoolSpec

\* Every window that is dispatched ends, and gives its slot to the next.
EveryWindowEnds == \A w \in Windows : pc[w] = "ready" ~> ~ Alive(w)

\* Once the source has ended, the session ends.
SourceEndEndsSession == ~ Alive(Consumer) /\ runPc = "consuming" ~> runPc = "ended"

\* stop() returns, and the session ends with every task of the pipeline done.
StopEndsSession ==
  stopPc = "aclosing" ~>
    stopPc = "done" /\ runPc = "ended" /\ \A t \in Tasks : ~ Alive(t)
===============================================================================
